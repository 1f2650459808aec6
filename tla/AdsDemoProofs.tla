--------------------------- MODULE AdsDemoProofs ---------------------------
(***************************************************************************)
(* Theorems about AdsDemo, for any number of clients and descriptors and   *)
(* any backlog: whose echo a client gets, which spans a connection leaves, *)
(* and that exports do not overlap.                                        *)
(***************************************************************************)
EXTENDS AdsDemo, TLAPS

Serving == {"read", "readDone", "export", "send", "close"}

(* The main thread has an accepted socket.                                 *)
Holding == main \in {"accepted", "export", "spawn"} /\ client_socket # NoFd

(* A thread's descriptor is open on its own client; the main thread's is   *)
(* open on a client that no thread serves yet.                             *)
SockInv ==
  /\ \A c \in Client : thr[c] \in Serving => /\ sock[c] \in Fd
                                             /\ kernel[sock[c]] = c
  /\ Holding => /\ client_socket \in Fd
                /\ kernel[client_socket] \in Client
                /\ thr[kernel[client_socket]] = "none"

(* A client is open on one descriptor at most, and only while a thread     *)
(* serves it or the main thread is about to start one.                     *)
KernelInv ==
  \A f \in Fd : kernel[f] \in Client =>
    \/ thr[kernel[f]] \in Serving /\ sock[kernel[f]] = f
    \/ thr[kernel[f]] = "none" /\ Holding /\ client_socket = f

(* A client waits in the backlog once, before it is served.                *)
BacklogInv ==
  /\ \A i \in 1..Len(backlog) :
       /\ cli[backlog[i]] # "start" /\ thr[backlog[i]] = "none"
       /\ \A f \in Fd : kernel[f] # backlog[i]
  /\ \A i, j \in 1..Len(backlog) : backlog[i] = backlog[j] => i = j
  /\ \A c \in Client : cli[c] = "start" =>
       thr[c] = "none" /\ \A f \in Fd : kernel[f] # c

(* A thread has read the message of its own client, and the answers are    *)
(* echoes.                                                                 *)
EchoInv ==
  \A c \in Client :
    /\ request[c] \in {c, NoClient} /\ reply[c] \in {c, NoClient}
    /\ thr[c] \in {"none", "read"} => request[c] = NoClient
    /\ thr[c] \in {"readDone", "export", "send"} => request[c] = c

(* Before init_tracing_lazy has run nothing has been accepted.             *)
LazyInv ==
  ~otel_initialized => /\ main = "accept"
                       /\ \A c \in Client : thr[c] = "none"

Announced(c) ==
  main = "spawn" /\ client_socket # NoFd /\ kernel[client_socket] = c

(* The spans of a connection, by how far it has come.                      *)
SpanInv ==
  tracer /\ collector = "up" => \A c \in Client :
    /\ spans[c].accept_connection =
         IF thr[c] # "none" \/ Announced(c) THEN 1 ELSE 0
    /\ spans[c].read_from_socket =
         IF thr[c] \in {"send", "close", "done"} /\ request[c] # NoClient
         THEN 1 ELSE 0

(* Without a tracer, as before the initialisation, there are no spans.     *)
QuietInv ==
  ~otel_initialized => /\ ~tracer
                       /\ \A c \in Client : /\ spans[c].accept_connection = 0
                                            /\ spans[c].read_from_socket = 0

AdsInv ==
  /\ TypeOK /\ SockInv /\ KernelInv /\ BacklogInv /\ EchoInv /\ LazyInv
  /\ SpanInv /\ QuietInv
-----------------------------------------------------------------------------
(* Append keeps the elements and adds one.                                 *)
LEMMA AppendIs ==
  ASSUME NEW S, NEW s \in Seq(S), NEW e \in S
  PROVE  /\ Append(s, e) \in Seq(S) /\ Len(Append(s, e)) = Len(s) + 1
         /\ Append(s, e)[Len(s) + 1] = e
         /\ \A i \in 1..Len(s) : Append(s, e)[i] = s[i]
  OBVIOUS

(* A sequence that is not empty is its head and its tail.                  *)
LEMMA TailIs ==
  ASSUME NEW S, NEW s \in Seq(S), s # <<>>
  PROVE  /\ Head(s) = s[1] /\ Head(s) \in S /\ 1 \in 1..Len(s)
         /\ Tail(s) \in Seq(S) /\ Len(Tail(s)) = Len(s) - 1
         /\ \A i \in 1..(Len(s) - 1) : /\ Tail(s)[i] = s[i + 1]
                                       /\ i + 1 \in 1..Len(s) /\ i + 1 # 1
  OBVIOUS

SpanCounts == [accept_connection : Nat, read_from_socket : Nat]

(* One more span, if the collector is up.                                  *)
LEMMA CountsType ==
  ASSUME NEW s \in [Client -> SpanCounts], NEW c \in Client, NEW u
  PROVE  /\ [s EXCEPT ![c]["accept_connection"] = IF u = "up" THEN @ + 1 ELSE @]
              \in [Client -> SpanCounts]
         /\ [s EXCEPT ![c]["read_from_socket"] = IF u = "up" THEN @ + 1 ELSE @]
              \in [Client -> SpanCounts]
  BY DEF SpanCounts

(* NoClient is no client, and NoFd no descriptor.                          *)
LEMMA Names == NoClient \notin Client /\ NoFd \notin Fd
  BY AdsAssumption
-----------------------------------------------------------------------------
(* The invariant, action by action.                                        *)

(* It holds before anybody has connected.                                  *)
LEMMA AdsInvInit == Init => AdsInv
  <1> SUFFICES ASSUME Init PROVE AdsInv
    OBVIOUS
  <1> USE DEF Init, NoSpans
  <1>1. TypeOK
    <2>1. backlog \in Seq(Client) /\ Len(backlog) <= Backlog
      BY AdsAssumption
    <2>2. otel_initialized \in BOOLEAN /\ tracer \in BOOLEAN
      BY Zenon
    <2> QED BY <2>1, <2>2 DEF TypeOK
  <1>2. SockInv /\ KernelInv /\ LazyInv /\ EchoInv
    BY Names DEF SockInv, KernelInv, LazyInv, EchoInv, Serving, Holding
  <1>3. BacklogInv
    BY Names DEF BacklogInv
  <1>4. SpanInv /\ QuietInv
    BY DEF SpanInv, QuietInv
  <1> QED BY <1>1, <1>2, <1>3, <1>4 DEF AdsInv

(* A client connects: it was in no table before.                           *)
LEMMA ConnectInv ==
  ASSUME AdsInv, NEW c \in Client, Connect(c)
  PROVE  AdsInv'
  <1> USE DEF Connect, library, export, AdsInv
  <1>0. /\ backlog' \in Seq(Client) /\ Len(backlog') = Len(backlog) + 1
        /\ backlog'[Len(backlog) + 1] = c
        /\ \A i \in 1..Len(backlog) : backlog'[i] = backlog[i]
        /\ Len(backlog) \in Nat
    BY AppendIs DEF TypeOK
  <1>1. TypeOK'
    BY <1>0, AdsAssumption DEF TypeOK
  <1>2. SockInv' /\ KernelInv' /\ EchoInv' /\ LazyInv' /\ SpanInv' /\ QuietInv'
    BY DEF SockInv, KernelInv, EchoInv, LazyInv, SpanInv, QuietInv, Announced,
       Holding
  <1>3. \A i \in 1..Len(backlog') :
          i \in 1..Len(backlog) \/ i = Len(backlog) + 1
    BY <1>0
  <1>4. \A i \in 1..Len(backlog) : backlog[i] # c /\ backlog[i] \in Client
    BY DEF TypeOK, BacklogInv
  <1>5. \A d \in Client : d # c => cli'[d] = cli[d]
    BY DEF TypeOK
  <1>6. cli'[c] = "connected"
    BY DEF TypeOK
  <1>7. ASSUME NEW i \in 1..Len(backlog')
        PROVE  /\ cli'[backlog'[i]] # "start" /\ thr'[backlog'[i]] = "none"
               /\ \A f \in Fd : kernel'[f] # backlog'[i]
    BY <1>0, <1>3, <1>4, <1>5, <1>6 DEF BacklogInv
  <1>8. ASSUME NEW i \in 1..Len(backlog'), NEW j \in 1..Len(backlog'),
               backlog'[i] = backlog'[j]
        PROVE  i = j
    BY <1>0, <1>3, <1>4, <1>8 DEF BacklogInv
  <1>9. BacklogInv'
    BY <1>5, <1>6, <1>7, <1>8 DEF BacklogInv
  <1> QED BY <1>1, <1>2, <1>9

(* The client's other steps concern nobody's tables.                       *)
LEMMA ClientStepInv ==
  ASSUME AdsInv, NEW c \in Client,
         ConnectFails(c) \/ ClientSend(c) \/ ClientRead(c) \/ Kill(c)
  PROVE  AdsInv'
  <1> USE DEF ConnectFails, ClientSend, ClientRead, Kill, library, export, AdsInv
  <1>1. TypeOK'
    BY DEF TypeOK
  <1>2. SockInv' /\ KernelInv' /\ EchoInv' /\ LazyInv' /\ SpanInv' /\ QuietInv'
    BY DEF SockInv, KernelInv, EchoInv, LazyInv, SpanInv, QuietInv, Announced,
       Holding
  <1>3. \A d \in Client : cli'[d] = "start" => cli[d] = "start"
    BY DEF TypeOK
  <1>4. \A i \in 1..Len(backlog) : backlog[i] \in Client
    BY DEF TypeOK
  <1>5. BacklogInv'
    BY <1>3, <1>4 DEF BacklogInv
  <1> QED BY <1>1, <1>2, <1>5

(* The tracer appears while there are no connections.                      *)
LEMMA InitTracingLazyInv ==
  ASSUME AdsInv, InitTracingLazy
  PROVE  AdsInv'
  <1> USE DEF InitTracingLazy, clients, export, AdsInv
  <1>1. TypeOK'
    BY DEF TypeOK
  <1>2. SockInv' /\ KernelInv' /\ EchoInv' /\ LazyInv' /\ BacklogInv' /\ QuietInv'
    BY DEF SockInv, KernelInv, EchoInv, LazyInv, BacklogInv, QuietInv, Holding
  <1>3. SpanInv'
    BY DEF SpanInv, QuietInv, LazyInv, Announced
  <1> QED BY <1>1, <1>2, <1>3

(* The first of the backlog gets a number that is free.                    *)
LEMMA AcceptInv ==
  ASSUME AdsInv, NEW f \in Fd, Accept(f)
  PROVE  AdsInv'
  <1> USE DEF Accept, clients, library, export, AdsInv
  <1> DEFINE d == Head(backlog)
  <1>0. /\ d = backlog[1] /\ d \in Client /\ 1 \in 1..Len(backlog)
        /\ backlog' \in Seq(Client) /\ Len(backlog') = Len(backlog) - 1
        /\ \A i \in 1..(Len(backlog) - 1) :
              backlog'[i] = backlog[i + 1] /\ i + 1 \in 1..Len(backlog) /\ i + 1 # 1
    BY TailIs DEF TypeOK
  <1> HIDE DEF d
  <1>1. /\ kernel'[f] = d /\ client_socket' = f /\ main' \in {"accepted", "spawn"}
        /\ \A g \in Fd : g # f => kernel'[g] = kernel[g]
        /\ kernel[f] = NoClient /\ main = "accept" /\ thr' = thr /\ sock' = sock
        /\ thr[d] = "none"
    BY <1>0 DEF TypeOK, BacklogInv, d
  <1>2. TypeOK'
    <2>1. Len(backlog') <= Backlog
      BY <1>0, AdsAssumption DEF TypeOK
    <2> QED BY <1>0, <1>1, <2>1 DEF TypeOK, d
  <1>3. SockInv'
    BY <1>0, <1>1, Names DEF SockInv, Serving, Holding
  <1>4. KernelInv'
    BY <1>0, <1>1, Names DEF KernelInv, Holding
  <1>5. BacklogInv'
    <2>1. ASSUME NEW i \in 1..Len(backlog')
          PROVE  /\ backlog'[i] # d /\ cli'[backlog'[i]] # "start"
                 /\ thr'[backlog'[i]] = "none"
                 /\ \A g \in Fd : kernel'[g] # backlog'[i]
      BY <1>0, <1>1 DEF BacklogInv
    <2>2. ASSUME NEW i \in 1..Len(backlog'), NEW j \in 1..Len(backlog'),
                 backlog'[i] = backlog'[j]
          PROVE  i = j
      <3>1. i + 1 = j + 1
        BY <1>0, <2>2 DEF BacklogInv
      <3> QED BY <3>1
    <2>3. \A c \in Client : cli'[c] = "start" =>
             thr'[c] = "none" /\ \A g \in Fd : kernel'[g] # c
      BY <1>0, <1>1 DEF BacklogInv
    <2> QED BY <2>1, <2>2, <2>3 DEF BacklogInv
  <1>6. EchoInv' /\ LazyInv' /\ QuietInv'
    BY DEF EchoInv, LazyInv, QuietInv
  <1>7. SpanInv'
    BY DEF SpanInv, Announced
  <1> QED BY <1>2, <1>3, <1>4, <1>5, <1>6, <1>7

(* Nothing is accepted.                                                    *)
LEMMA AcceptFailsInv ==
  ASSUME AdsInv, AcceptFails \/ SpawnOnNone
  PROVE  AdsInv'
  <1> USE DEF AcceptFails, SpawnOnNone, clients, library, export, AdsInv
  <1>1. TypeOK'
    BY DEF TypeOK
  <1>2. ~Holding /\ ~Holding'
    BY DEF Holding
  <1>3. SockInv' /\ KernelInv' /\ BacklogInv' /\ EchoInv' /\ LazyInv' /\ QuietInv'
    BY <1>2 DEF SockInv, KernelInv, BacklogInv, EchoInv, LazyInv, QuietInv
  <1>4. SpanInv'
    BY DEF SpanInv, Announced
  <1> QED BY <1>1, <1>3, <1>4

(* The main thread takes the processor's lock.                             *)
LEMMA AcceptExportInv ==
  ASSUME AdsInv, AcceptExport
  PROVE  AdsInv'
  <1> USE DEF AcceptExport, SpinLock, clients, library, AdsInv
  <1>1. TypeOK'
    BY DEF TypeOK
  <1>2. SockInv' /\ KernelInv' /\ BacklogInv' /\ EchoInv' /\ LazyInv' /\ QuietInv'
    BY DEF SockInv, KernelInv, BacklogInv, EchoInv, LazyInv, QuietInv, Holding
  <1>3. SpanInv'
    BY DEF SpanInv, Announced
  <1> QED BY <1>1, <1>2, <1>3

(* The first span of a connection.                                         *)
LEMMA AcceptExportedInv ==
  ASSUME AdsInv, AcceptExported
  PROVE  AdsInv'
  <1> USE DEF AcceptExported, Exported, clients, library, AdsInv
  <1> DEFINE d == kernel[client_socket]
  <1>0. d \in Client /\ thr[d] = "none" /\ client_socket \in Fd
    BY Names DEF TypeOK, SockInv, Holding
  <1>1. /\ \A c \in Client : c # d => spans'[c] = spans[c]
        /\ spans'[d].read_from_socket = spans[d].read_from_socket
        /\ spans'[d].accept_connection \in Nat
        /\ collector = "up" =>
             spans'[d].accept_connection = spans[d].accept_connection + 1
    BY <1>0 DEF TypeOK
  <1>2. TypeOK'
    <2>1. spans \in [Client -> SpanCounts]
      BY DEF TypeOK, SpanCounts
    <2> HIDE DEF AdsInv
    <2>2. spans' \in [Client -> SpanCounts]
      BY <1>0, <2>1, CountsType
    <2> QED BY <2>2 DEF TypeOK, SpanCounts, AdsInv
  <1>3. SockInv' /\ KernelInv' /\ BacklogInv' /\ EchoInv' /\ LazyInv' /\ QuietInv'
    BY DEF SockInv, KernelInv, BacklogInv, EchoInv, LazyInv, QuietInv, Holding
  <1>4. SpanInv'
    BY <1>0, <1>1, Names DEF SpanInv, Announced
  <1> QED BY <1>2, <1>3, <1>4

(* The thread gets a copy of the descriptor.                               *)
LEMMA SpawnInv ==
  ASSUME AdsInv, Spawn
  PROVE  AdsInv'
  <1> USE DEF Spawn, clients, library, export, AdsInv
  <1> DEFINE d == kernel[client_socket]
  <1>0. d \in Client /\ thr[d] = "none" /\ client_socket \in Fd
    BY DEF SockInv, Holding
  <1>1. /\ thr'[d] = "read" /\ sock'[d] = client_socket
        /\ \A c \in Client : c # d => thr'[c] = thr[c] /\ sock'[c] = sock[c]
    BY <1>0 DEF TypeOK
  <1>2. TypeOK'
    BY <1>0 DEF TypeOK
  <1>3. SockInv'
    BY <1>0, <1>1 DEF SockInv, Serving, Holding
  <1>4. KernelInv'
    BY <1>0, <1>1 DEF KernelInv, Serving, Holding
  <1>5. BacklogInv'
    <2>1. \A i \in 1..Len(backlog) : backlog[i] \in Client /\ backlog[i] # d
      BY <1>0 DEF TypeOK, BacklogInv
    <2>2. cli[d] # "start"
      BY <1>0 DEF BacklogInv
    <2> QED BY <1>1, <2>1, <2>2 DEF BacklogInv
  <1>6. EchoInv' /\ LazyInv' /\ QuietInv'
    BY <1>0, <1>1 DEF EchoInv, LazyInv, QuietInv
  <1>7. SpanInv'
    BY <1>0, <1>1 DEF SpanInv, Announced
  <1> QED BY <1>2, <1>3, <1>4, <1>5, <1>6, <1>7

(* A step of a thread that keeps its descriptor.                           *)
LEMMA ThreadKeeps ==
  ASSUME AdsInv, NEW c \in Client, thr[c] \in Serving, thr'[c] \in Serving,
         \A d \in Client : d # c => thr'[d] = thr[d],
         UNCHANGED <<cli, backlog, kernel, main, client_socket, sock,
                     otel_initialized>>
  PROVE  /\ SockInv' /\ KernelInv' /\ BacklogInv' /\ LazyInv'
         /\ \A d \in Client : Announced(d)' <=> Announced(d)
         /\ Peer(c) = c /\ ~Announced(c)
  <1> USE DEF AdsInv, Serving
  <1>1. SockInv' /\ Peer(c) = c
    BY DEF SockInv, Holding, Peer, Socket
  <1>2. KernelInv'
    BY DEF KernelInv, Holding
  <1>3. BacklogInv'
    <2>1. \A i \in 1..Len(backlog) : backlog[i] \in Client /\ backlog[i] # c
      BY DEF TypeOK, BacklogInv
    <2>2. cli[c] # "start"
      BY DEF BacklogInv
    <2> QED BY <2>1, <2>2 DEF BacklogInv
  <1>4. LazyInv'
    BY DEF LazyInv
  <1>5. /\ \A d \in Client : Announced(d)' <=> Announced(d)
        /\ ~Announced(c)
    BY DEF Announced, SockInv, Holding
  <1> QED BY <1>1, <1>2, <1>3, <1>4, <1>5

(* A message, of its own client, or the end of the connection.             *)
LEMMA ReadInv ==
  ASSUME AdsInv, NEW c \in Client, Read(c)
  PROVE  AdsInv'
  <1> USE DEF Read, library, export, AdsInv
  <1>1. /\ thr[c] = "read" /\ thr'[c] \in {"readDone", "send", "close"}
        /\ \A d \in Client : d # c => thr'[d] = thr[d]
    BY DEF TypeOK
  <1>2. /\ SockInv' /\ KernelInv' /\ BacklogInv' /\ LazyInv'
        /\ \A d \in Client : Announced(d)' <=> Announced(d)
        /\ Peer(c) = c
    BY <1>1, ThreadKeeps DEF Serving
  <1>3. CASE /\ request' = [request EXCEPT ![c] = Peer(c)]
             /\ toServer' = [toServer EXCEPT ![Peer(c)] = FALSE]
             /\ thr' = [thr EXCEPT ![c] = IF tracer THEN "readDone" ELSE "send"]
    <2>1. TypeOK'
      BY <1>2, <1>3 DEF TypeOK
    <2>2. EchoInv' /\ QuietInv'
      BY <1>1, <1>2, <1>3 DEF TypeOK, EchoInv, QuietInv
    <2>3. SpanInv'
      BY <1>1, <1>2, <1>3 DEF TypeOK, SpanInv
    <2> QED BY <1>2, <2>1, <2>2, <2>3
  <1>4. CASE /\ thr' = [thr EXCEPT ![c] = "close"]
             /\ UNCHANGED <<request, toServer>>
    <2>1. TypeOK'
      BY <1>4 DEF TypeOK
    <2>2. EchoInv' /\ QuietInv'
      BY <1>1, <1>4 DEF TypeOK, EchoInv, QuietInv
    <2>3. SpanInv'
      BY <1>1, <1>2, <1>4 DEF TypeOK, SpanInv, EchoInv
    <2> QED BY <1>2, <2>1, <2>2, <2>3
  <1> QED BY <1>3, <1>4

(* The thread takes the processor's lock.                                  *)
LEMMA ReadExportInv ==
  ASSUME AdsInv, NEW c \in Client, ReadExport(c)
  PROVE  AdsInv'
  <1> USE DEF ReadExport, SpinLock, clients, library, AdsInv
  <1>1. /\ thr[c] = "readDone" /\ thr'[c] = "export"
        /\ \A d \in Client : d # c => thr'[d] = thr[d]
    BY DEF TypeOK
  <1>2. /\ SockInv' /\ KernelInv' /\ BacklogInv' /\ LazyInv'
        /\ \A d \in Client : Announced(d)' <=> Announced(d)
    BY <1>1, ThreadKeeps DEF Serving
  <1>3. TypeOK'
    BY DEF TypeOK
  <1>4. EchoInv' /\ QuietInv'
    BY <1>1 DEF EchoInv, QuietInv
  <1>5. SpanInv'
    BY <1>1, <1>2 DEF SpanInv
  <1> QED BY <1>2, <1>3, <1>4, <1>5

(* The second span of a connection.                                        *)
LEMMA ReadExportedInv ==
  ASSUME AdsInv, NEW c \in Client, ReadExported(c)
  PROVE  AdsInv'
  <1> USE DEF ReadExported, Exported, clients, library, AdsInv
  <1>1. /\ thr[c] = "export" /\ thr'[c] = "send"
        /\ \A d \in Client : d # c => thr'[d] = thr[d]
    BY DEF TypeOK
  <1>2. /\ SockInv' /\ KernelInv' /\ BacklogInv' /\ LazyInv'
        /\ \A d \in Client : Announced(d)' <=> Announced(d)
    BY <1>1, ThreadKeeps DEF Serving
  <1>3. /\ \A d \in Client : d # c => spans'[d] = spans[d]
        /\ spans'[c].accept_connection = spans[c].accept_connection
        /\ collector = "up" =>
             spans'[c].read_from_socket = spans[c].read_from_socket + 1
    BY DEF TypeOK
  <1>4. TypeOK'
    <2>1. spans \in [Client -> SpanCounts]
      BY DEF TypeOK, SpanCounts
    <2> HIDE DEF AdsInv
    <2>2. spans' \in [Client -> SpanCounts]
      BY <2>1, CountsType
    <2> QED BY <2>2 DEF TypeOK, SpanCounts, AdsInv
  <1>5. EchoInv'
    BY <1>1 DEF EchoInv
  <1>6. QuietInv'
    BY <1>1 DEF QuietInv, LazyInv
  <1>7. SpanInv'
    BY <1>1, <1>2, <1>3, Names DEF SpanInv, EchoInv
  <1> QED BY <1>2, <1>4, <1>5, <1>6, <1>7

(* The answer goes to the client that the thread serves.                   *)
LEMMA SendInv ==
  ASSUME AdsInv, NEW c \in Client, Send(c)
  PROVE  AdsInv'
  <1> USE DEF Send, clients, library, export, AdsInv
  <1>1. /\ thr[c] = "send" /\ thr'[c] = "close"
        /\ \A d \in Client : d # c => thr'[d] = thr[d]
    BY DEF TypeOK
  <1>2. /\ SockInv' /\ KernelInv' /\ BacklogInv' /\ LazyInv'
        /\ \A d \in Client : Announced(d)' <=> Announced(d)
        /\ Peer(c) = c
    BY <1>1, ThreadKeeps DEF Serving
  <1>3. TypeOK'
    BY DEF TypeOK
  <1>4. EchoInv' /\ QuietInv'
    BY <1>1, <1>2 DEF EchoInv, QuietInv
  <1>5. SpanInv'
    BY <1>1, <1>2 DEF SpanInv
  <1> QED BY <1>2, <1>3, <1>4, <1>5

(* The number is free again; nobody else had it.                           *)
LEMMA CloseInv ==
  ASSUME AdsInv, NEW c \in Client, Close(c)
  PROVE  AdsInv'
  <1> USE DEF Close, Socket, clients, library, export, AdsInv
  <1>1. /\ thr[c] = "close" /\ thr'[c] = "done"
        /\ \A d \in Client : d # c => thr'[d] = thr[d] /\ sock'[d] = sock[d]
    BY DEF TypeOK
  <1>2. /\ sock[c] \in Fd /\ kernel[sock[c]] = c /\ kernel'[sock[c]] = NoClient
        /\ \A g \in Fd : g # sock[c] => kernel'[g] = kernel[g]
    BY <1>1 DEF TypeOK, SockInv, Serving
  <1>3. TypeOK'
    BY DEF TypeOK
  <1>4. Holding => client_socket # sock[c] /\ client_socket \in Fd
    BY <1>1, <1>2 DEF SockInv
  <1>5. SockInv'
    BY <1>1, <1>2, <1>4 DEF SockInv, Serving, Holding
  <1>6. KernelInv'
    BY <1>1, <1>2, Names DEF KernelInv, Serving, Holding
  <1>7. BacklogInv'
    <2>1. \A i \in 1..Len(backlog) : backlog[i] \in Client /\ backlog[i] # c
      BY <1>1 DEF TypeOK, BacklogInv
    <2>2. cli[c] # "start"
      BY <1>1 DEF BacklogInv
    <2> QED BY <1>1, <1>2, <2>1, <2>2, Names DEF BacklogInv
  <1>8. EchoInv' /\ LazyInv' /\ QuietInv'
    BY <1>1 DEF EchoInv, LazyInv, QuietInv
  <1>9. SpanInv'
    <2>1. \A d \in Client : Announced(d)' <=> Announced(d)
      BY <1>2, <1>4 DEF Announced, Holding
    <2> QED BY <1>1, <2>1 DEF SpanInv
  <1> QED BY <1>3, <1>5, <1>6, <1>7, <1>8, <1>9

(* The invariant is inductive.                                             *)
LEMMA AdsInvNext == AdsInv /\ [Next]_vars => AdsInv'
  <1> SUFFICES ASSUME AdsInv, [Next]_vars PROVE AdsInv'
    OBVIOUS
  <1>1. ASSUME NEW c \in Client,
               \/ Connect(c) \/ ConnectFails(c)
               \/ ClientSend(c) \/ ClientRead(c) \/ Kill(c)
        PROVE  AdsInv'
    BY <1>1, ConnectInv, ClientStepInv
  <1>2. CASE MainStep
    BY <1>2, InitTracingLazyInv, AcceptInv, AcceptFailsInv, AcceptExportInv,
       AcceptExportedInv, SpawnInv DEF MainStep
  <1>3. ASSUME NEW c \in Client, HandleClient(c) PROVE AdsInv'
    BY <1>3, ReadInv, ReadExportInv, ReadExportedInv, SendInv, CloseInv
    DEF HandleClient
  <1>4. CASE CollectorStops
    <2> USE <1>4 DEF CollectorStops, NoSpans, clients, library, AdsInv
    <2>1. TypeOK'
      BY DEF TypeOK
    <2>2. SockInv' /\ KernelInv' /\ BacklogInv' /\ EchoInv' /\ LazyInv'
      BY DEF SockInv, KernelInv, BacklogInv, EchoInv, LazyInv, Holding
    <2>3. SpanInv' /\ QuietInv'
      BY DEF SpanInv, QuietInv
    <2> QED BY <2>1, <2>2, <2>3
  <1>5. CASE UNCHANGED vars
    <2> USE <1>5 DEF vars, clients, library, export, AdsInv
    <2>1. TypeOK'
      BY DEF TypeOK
    <2>2. SockInv' /\ KernelInv' /\ BacklogInv' /\ EchoInv' /\ LazyInv'
      BY DEF SockInv, KernelInv, BacklogInv, EchoInv, LazyInv, Holding
    <2>3. SpanInv' /\ QuietInv'
      BY DEF SpanInv, QuietInv, Announced
    <2> QED BY <2>1, <2>2, <2>3
  <1> QED BY <1>1, <1>2, <1>3, <1>4, <1>5 DEF Next

(* Every reachable state satisfies the invariant.                          *)
THEOREM AdsInvariant == Spec => []AdsInv
  <1> QED BY AdsInvInit, AdsInvNext, PTL DEF Spec
-----------------------------------------------------------------------------
(* The programs' variables and the kernel's tables keep their types; the   *)
(* backlog never exceeds its limit.                                        *)
THEOREM AdsTypeCorrect == Spec => []TypeOK
  <1>1. AdsInv => TypeOK
    BY DEF AdsInv
  <1> QED BY <1>1, AdsInvariant, PTL

(* No client ever gets the echo of another one's message, however many     *)
(* threads run and however descriptors are reused.                         *)
THEOREM EchoIsOwn == Spec => []OwnEcho
  <1>1. AdsInv => OwnEcho
    BY DEF AdsInv, EchoInv, OwnEcho
  <1> QED BY <1>1, AdsInvariant, PTL

(* While the collector is up, a served connection has its two spans, or    *)
(* the one if nothing was read, and none twice.                            *)
THEOREM TraceIsComplete == Spec => []CompleteTrace
  <1>1. AdsInv => CompleteTrace
    BY DEF AdsInv, SpanInv, CompleteTrace
  <1> QED BY <1>1, AdsInvariant, PTL
-----------------------------------------------------------------------------
(* The lock is held by the thread that exports, and by nobody else.        *)
LockInv ==
  /\ main = "export" <=> lock_ = Main
  /\ \A c \in Client : thr[c] = "export" <=> lock_ = c

(* Main is not a client, and Free is nobody.                               *)
LEMMA Holders == /\ Main \notin Client /\ Free \notin Client
                 /\ Main # Free
  BY AdsAssumption

(* Taking the lock and giving it back are the only steps that matter.      *)
LEMMA LockInvNext == AdsInv /\ LockInv /\ [Next]_vars => LockInv'
  <1> SUFFICES ASSUME AdsInv, LockInv, [Next]_vars PROVE LockInv'
    OBVIOUS
  <1>0. /\ thr \in [Client -> {"none", "read", "readDone", "export", "send",
                               "close", "done"}]
        /\ Main \notin Client /\ Free \notin Client /\ Main # Free
    BY Holders DEF AdsInv, TypeOK
  <1>1. ASSUME NEW c \in Client,
               \/ Connect(c) \/ ConnectFails(c)
               \/ ClientSend(c) \/ ClientRead(c) \/ Kill(c)
        PROVE  LockInv'
    BY <1>1 DEF LockInv, Connect, ConnectFails, ClientSend, ClientRead, Kill,
                export
  <1>2. ASSUME \/ InitTracingLazy \/ (\E f \in Fd : Accept(f))
               \/ AcceptFails \/ SpawnOnNone
        PROVE  LockInv'
    BY <1>0, <1>2, Holders
    DEF LockInv, InitTracingLazy, Accept, AcceptFails, SpawnOnNone, export
  <1>3. CASE AcceptExport
    BY <1>0, <1>3 DEF LockInv, AcceptExport, SpinLock
  <1>4. CASE AcceptExported
    BY <1>0, <1>4 DEF LockInv, AcceptExported, Exported
  <1>5. CASE Spawn
    <2>1. /\ kernel[client_socket] \in Client
          /\ thr[kernel[client_socket]] = "none"
      BY <1>5 DEF AdsInv, SockInv, Spawn, Holding
    <2> QED BY <1>0, <1>5, <2>1 DEF LockInv, Spawn, export
  <1>6. ASSUME NEW c \in Client, Read(c) \/ Send(c) \/ Close(c)
        PROVE  LockInv'
    <2>1. /\ thr[c] # "export" /\ thr'[c] # "export"
          /\ \A d \in Client : d # c => thr'[d] = thr[d]
      BY <1>0, <1>6 DEF Read, Send, Close
    <2>2. lock_' = lock_ /\ main' = main
      BY <1>6 DEF Read, Send, Close, export
    <2> QED BY <2>1, <2>2 DEF LockInv
  <1>7. ASSUME NEW c \in Client, ReadExport(c) PROVE LockInv'
    BY <1>0, <1>7 DEF LockInv, ReadExport, SpinLock
  <1>8. ASSUME NEW c \in Client, ReadExported(c) PROVE LockInv'
    BY <1>0, <1>8 DEF LockInv, ReadExported, Exported
  <1>9. CASE CollectorStops
    BY <1>9 DEF LockInv, CollectorStops
  <1>10. CASE UNCHANGED vars
    BY <1>10 DEF LockInv, vars, export
  <1> QED
    BY <1>1, <1>2, <1>3, <1>4, <1>5, <1>6, <1>7, <1>8, <1>9, <1>10
    DEF Next, MainStep, HandleClient

(* Export is never called concurrently, however many threads end spans at  *)
(* a time: SimpleSpanProcessor keeps the promise SpanExporter asks for.    *)
THEOREM ExportsDoNotOverlap == Spec => []ExportsOneAtATime
  <1>1. Init => LockInv
    BY Holders DEF Init, LockInv
  <1>2. AdsInv /\ LockInv => ExportsOneAtATime
    <2> SUFFICES ASSUME AdsInv, LockInv PROVE ExportsOneAtATime
      OBVIOUS
    <2>1. \A w \in Client \cup {Main} : w \in Exporting <=> lock_ = w
      BY Holders DEF LockInv, Exporting
    <2>2. /\ Exporting \subseteq Client \cup {Main}
          /\ lock_ \in Client \cup {Main, Free}
      BY DEF Exporting, AdsInv, TypeOK
    <2> QED BY <2>1, <2>2, Holders DEF ExportsOneAtATime
  <1> QED BY <1>1, <1>2, LockInvNext, AdsInvariant, PTL DEF Spec
=============================================================================
