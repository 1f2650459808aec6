------------------------------ MODULE AdsDemo ------------------------------
(***************************************************************************)
(* The ADS demo: ads_server.cpp with the accept and read hooks of          *)
(* libotel_preload.cpp loaded into it, and its clients (ads_client.cpp).   *)
(*                                                                         *)
(* The server's main thread accepts and hands every descriptor to a        *)
(* detached thread that reads one message, answers and closes.  A hook     *)
(* ends its span before it returns, and the SimpleSpanProcessor exports it *)
(* there and then, under a lock that all threads share, so the server      *)
(* waits for the collector in accept() and in read().                      *)
(*                                                                         *)
(* When no descriptor is free accept() fails and the thread is started on  *)
(* -1: its calls all fail, and it has no steps of its own.                 *)
(***************************************************************************)
EXTENDS Naturals, Sequences

CONSTANTS Client,    \* client processes, one connection each
          Fd,        \* descriptors the server may have open
          Backlog,   \* listen(server_fd, 5)
          NoFd,      \* -1
          NoClient, Main, Free

ASSUME AdsAssumption ==
  /\ Backlog \in Nat \ {0}
  /\ {NoClient, Main, Free} \cap Client = {} /\ Main # Free
  /\ Fd \subseteq Nat /\ NoFd \notin Fd

VARIABLES
  cli,            \* where a client is
  toServer,       \* its message is in the connection, not yet read
  reply,          \* whose message the answer in the connection echoes
  backlog,        \* connections the kernel has established, not accepted
  kernel,         \* the server's descriptor table
  main,           \* where the main thread is
  client_socket,  \* its variable
  otel_initialized, tracer,   \* the globals of the library
  thr,            \* where the thread of a connection is
  sock,           \* its argument, while it runs
  request,        \* whose message it has read
  lock_,          \* SimpleSpanProcessor's lock: who is exporting
  collector,      \* "up" or "down"
  spans           \* spans it has got about a connection, while it is up

clients == <<cli, toServer>>
library == <<otel_initialized, tracer>>
export  == <<lock_, collector, spans>>
vars == <<clients, reply, backlog, kernel, main, client_socket, library, thr,
          sock, request, export>>

NoSpans == [accept_connection |-> 0, read_from_socket |-> 0]

(* The programs' variables and the kernel's tables have their types; a     *)
(* span of the accept hook is about a descriptor, never about -1.          *)
TypeOK ==
  /\ cli \in [Client -> {"start", "connected", "waiting", "done", "gone"}]
  /\ toServer \in [Client -> BOOLEAN]
  /\ reply \in [Client -> Client \cup {NoClient}]
  /\ backlog \in Seq(Client) /\ Len(backlog) <= Backlog
  /\ kernel \in [Fd -> Client \cup {NoClient}]
  /\ main \in {"accept", "accepted", "export", "spawn"}
  /\ client_socket \in Fd \cup {NoFd}
  /\ main \in {"accepted", "export"} => client_socket \in Fd
  /\ otel_initialized \in BOOLEAN /\ tracer \in BOOLEAN
  /\ thr \in [Client ->
                {"none", "read", "readDone", "export", "send", "close", "done"}]
  /\ sock \in [Client -> Fd \cup {NoFd}]
  /\ request \in [Client -> Client \cup {NoClient}]
  /\ lock_ \in Client \cup {Main, Free}
  /\ collector \in {"up", "down"}
  /\ spans \in [Client -> [accept_connection : Nat, read_from_socket : Nat]]

Init ==
  /\ cli = [c \in Client |-> "start"]
  /\ toServer = [c \in Client |-> FALSE]
  /\ reply = [c \in Client |-> NoClient]
  /\ backlog = <<>>
  /\ kernel = [f \in Fd |-> NoClient]
  /\ main = "accept" /\ client_socket = NoFd
  /\ otel_initialized = FALSE /\ tracer = FALSE
  /\ thr = [c \in Client |-> "none"]
  /\ sock = [c \in Client |-> NoFd]
  /\ request = [c \in Client |-> NoClient]
  /\ lock_ = Free /\ collector \in {"up", "down"}
  /\ spans = [c \in Client |-> NoSpans]
-----------------------------------------------------------------------------
(* The client.                                                             *)

(* connect() waits while the backlog is full.                              *)
Connect(c) ==
  /\ cli[c] = "start" /\ Len(backlog) < Backlog
  /\ cli' = [cli EXCEPT ![c] = "connected"]
  /\ backlog' = Append(backlog, c)
  /\ UNCHANGED <<toServer, reply, kernel, main, client_socket, library, thr,
                 sock, request, export>>

(* No socket, no address or no connection: the Docker variant returns 1,   *)
(* the other one dies of its send().                                       *)
ConnectFails(c) ==
  /\ cli[c] = "start"
  /\ cli' = [cli EXCEPT ![c] = "gone"]
  /\ UNCHANGED <<toServer, reply, backlog, kernel, main, client_socket,
                 library, thr, sock, request, export>>

ClientSend(c) ==
  /\ cli[c] = "connected"
  /\ cli' = [cli EXCEPT ![c] = "waiting"]
  /\ toServer' = [toServer EXCEPT ![c] = TRUE]
  /\ UNCHANGED <<reply, backlog, kernel, main, client_socket, library, thr,
                 sock, request, export>>

(* read() returns the answer, or nothing once the server has closed.       *)
ClientRead(c) ==
  /\ cli[c] = "waiting" /\ (reply[c] # NoClient \/ thr[c] = "done")
  /\ cli' = [cli EXCEPT ![c] = "done"]
  /\ UNCHANGED <<toServer, reply, backlog, kernel, main, client_socket,
                 library, thr, sock, request, export>>

(* The client process is killed and its socket closed.                     *)
Kill(c) ==
  /\ cli[c] \in {"connected", "waiting"}
  /\ cli' = [cli EXCEPT ![c] = "gone"]
  /\ UNCHANGED <<toServer, reply, backlog, kernel, main, client_socket,
                 library, thr, sock, request, export>>
-----------------------------------------------------------------------------
(* SimpleSpanProcessor::OnEnd                                              *)

SpinLockTryOnce(w) == lock_' = w

(* SpinLockMutex::lock, which tries until it finds the flag clear.         *)
SpinLock(w) ==
  /\ lock_ = Free
  /\ lock_' = w

(* Export answers, or fails at its deadline and the span is lost: OnEnd    *)
(* ignores the result and unlocks.                                         *)
Exported(c, name) ==
  /\ spans' = [spans EXCEPT ![c][name] = IF collector = "up" THEN @ + 1 ELSE @]
  /\ lock_' = Free
-----------------------------------------------------------------------------
(* The main thread.                                                        *)

(* init_tracing_lazy, on the first call of a hook: building the exporter   *)
(* may throw, and the tracer then stays null.                              *)
InitTracingLazy ==
  /\ main = "accept" /\ ~otel_initialized
  /\ otel_initialized' = TRUE
  /\ tracer' \in BOOLEAN
  /\ UNCHANGED <<clients, reply, backlog, kernel, main, client_socket, thr,
                 sock, request, export>>

(* real_accept, which gives the lowest free number, then the hook's "if".  *)
Accept(f) ==
  /\ main = "accept" /\ otel_initialized
  /\ backlog # <<>> /\ kernel[f] = NoClient
  /\ \A g \in Fd : kernel[g] = NoClient => f <= g
  /\ backlog' = Tail(backlog)
  /\ kernel' = [kernel EXCEPT ![f] = Head(backlog)]
  /\ client_socket' = f
  /\ main' = IF tracer THEN "accepted" ELSE "spawn"
  /\ UNCHANGED <<clients, reply, library, thr, sock, request, export>>

AcceptFailsTraced ==
  /\ main = "accept" /\ otel_initialized
  /\ \A f \in Fd : kernel[f] # NoClient
  /\ client_socket' = NoFd
  /\ main' = IF tracer THEN "accepted" ELSE "spawn"
  /\ UNCHANGED <<clients, reply, backlog, kernel, library, thr, sock, request,
                 export>>

(* No number is free, whether or not somebody waits for one.               *)
AcceptFails ==
  /\ main = "accept" /\ otel_initialized
  /\ \A f \in Fd : kernel[f] # NoClient
  /\ client_socket' = NoFd
  /\ main' = "spawn"
  /\ UNCHANGED <<clients, reply, backlog, kernel, library, thr, sock, request,
                 export>>

(* End() of the "accept_connection" span: OnEnd takes the lock ...         *)
AcceptExport ==
  /\ main = "accepted"
  /\ SpinLock(Main)
  /\ main' = "export"
  /\ UNCHANGED <<clients, reply, backlog, kernel, client_socket, library,
                 thr, sock, request, collector, spans>>

(* ... and exports.                                                        *)
AcceptExported ==
  /\ main = "export"
  /\ Exported(kernel[client_socket], "accept_connection")
  /\ main' = "spawn"
  /\ UNCHANGED <<clients, reply, backlog, kernel, client_socket, library,
                 thr, sock, request, collector>>

(* std::thread(handle_client, client_socket).detach()                      *)
Spawn ==
  /\ main = "spawn" /\ client_socket # NoFd
  /\ LET c == kernel[client_socket] IN
       /\ thr' = [thr EXCEPT ![c] = "read"]
       /\ sock' = [sock EXCEPT ![c] = client_socket]
  /\ main' = "accept"
  /\ UNCHANGED <<clients, reply, backlog, kernel, client_socket, library,
                 request, export>>

(* The same with -1: handle_client's read() and close() fail, and it ends. *)
SpawnOnNone ==
  /\ main = "spawn" /\ client_socket = NoFd
  /\ main' = "accept"
  /\ UNCHANGED <<clients, reply, backlog, kernel, client_socket, library, thr,
                 sock, request, export>>
-----------------------------------------------------------------------------
(* handle_client, in a thread of its own.                                  *)

(* The descriptor it uses is its own copy of the argument.                 *)
SocketByReference(c) == client_socket
Socket(c) == sock[c]
Peer(c)   == kernel[Socket(c)]

ReadUntraced(c) ==
  /\ thr[c] = "read"
  /\ \/ /\ Peer(c) # NoClient /\ toServer[Peer(c)]
        /\ request' = [request EXCEPT ![c] = Peer(c)]
        /\ toServer' = [toServer EXCEPT ![Peer(c)] = FALSE]
        /\ thr' = [thr EXCEPT ![c] = "send"]
     \/ /\ Peer(c) # NoClient => ~toServer[Peer(c)] /\ cli[Peer(c)] = "gone"
        /\ thr' = [thr EXCEPT ![c] = "close"]
        /\ UNCHANGED <<request, toServer>>
  /\ UNCHANGED <<cli, reply, backlog, kernel, main, client_socket, library,
                 sock, export>>

(* real_read: a message, or nothing because the client has gone.           *)
Read(c) ==
  /\ thr[c] = "read"
  /\ \/ /\ Peer(c) # NoClient /\ toServer[Peer(c)]
        /\ request' = [request EXCEPT ![c] = Peer(c)]
        /\ toServer' = [toServer EXCEPT ![Peer(c)] = FALSE]
        /\ thr' = [thr EXCEPT ![c] = IF tracer THEN "readDone" ELSE "send"]
     \/ /\ Peer(c) # NoClient => ~toServer[Peer(c)] /\ cli[Peer(c)] = "gone"
        /\ thr' = [thr EXCEPT ![c] = "close"]
        /\ UNCHANGED <<request, toServer>>
  /\ UNCHANGED <<cli, reply, backlog, kernel, main, client_socket, library,
                 sock, export>>

(* End() of the "read_from_socket" span, as in accept().                   *)
ReadExport(c) ==
  /\ thr[c] = "readDone"
  /\ SpinLock(c)
  /\ thr' = [thr EXCEPT ![c] = "export"]
  /\ UNCHANGED <<clients, reply, backlog, kernel, main, client_socket,
                 library, sock, request, collector, spans>>

ReadExported(c) ==
  /\ thr[c] = "export"
  /\ Exported(c, "read_from_socket")
  /\ thr' = [thr EXCEPT ![c] = "send"]
  /\ UNCHANGED <<clients, reply, backlog, kernel, main, client_socket,
                 library, sock, request, collector>>

(* The answer echoes the message; on a descriptor that is not open, and to *)
(* a client that has gone, it is lost.                                     *)
Send(c) ==
  /\ thr[c] = "send"
  /\ reply' = [d \in Client |-> IF d = Peer(c) THEN request[c] ELSE reply[d]]
  /\ thr' = [thr EXCEPT ![c] = "close"]
  /\ UNCHANGED <<clients, backlog, kernel, main, client_socket, library,
                 sock, request, export>>

CloseForgotten(c) ==
  /\ thr[c] = "close"
  /\ thr' = [thr EXCEPT ![c] = "done"]
  /\ UNCHANGED <<clients, reply, backlog, kernel, main, client_socket,
                 library, sock, request, export>>

Close(c) ==
  /\ thr[c] = "close"
  /\ kernel' = [kernel EXCEPT ![Socket(c)] = NoClient]
  /\ thr' = [thr EXCEPT ![c] = "done"]
  /\ sock' = [sock EXCEPT ![c] = NoFd]
  /\ UNCHANGED <<clients, reply, backlog, main, client_socket, library,
                 request, export>>
-----------------------------------------------------------------------------
(* What it has got is not looked at any more.                              *)
CollectorStops ==
  /\ collector = "up"
  /\ collector' = "down"
  /\ spans' = [c \in Client |-> NoSpans]
  /\ UNCHANGED <<clients, reply, backlog, kernel, main, client_socket,
                 library, thr, sock, request, lock_>>

MainStep ==
  \/ InitTracingLazy \/ (\E f \in Fd : Accept(f))
  \/ AcceptFails
  \/ AcceptExport \/ AcceptExported \/ Spawn \/ SpawnOnNone

HandleClient(c) ==
  Read(c) \/ ReadExport(c) \/ ReadExported(c) \/ Send(c) \/ Close(c)

Next ==
  \/ \E c \in Client :
       \/ Connect(c) \/ ConnectFails(c)
       \/ ClientSend(c) \/ ClientRead(c) \/ Kill(c)
  \/ MainStep
  \/ \E c \in Client : HandleClient(c)
  \/ CollectorStops

Spec == Init /\ [][Next]_vars

(* Threads that can run do run, an export answers or reaches its deadline, *)
(* and a client that has connected sends and reads; none has to connect.   *)
Fairness ==
  /\ WF_vars(MainStep)
  /\ \A c \in Client : /\ WF_vars(HandleClient(c))
                       /\ WF_vars(ClientSend(c)) /\ WF_vars(ClientRead(c))

FairSpec == Spec /\ Fairness
-----------------------------------------------------------------------------
(* A client only ever gets the echo of its own message, although threads   *)
(* run side by side, share the accepting thread's variable as the source   *)
(* of their argument, and descriptors are reused.                          *)
OwnEcho == \A c \in Client : reply[c] \in {c, NoClient}

(* While the collector is up, a connection that has been served has        *)
(* exactly one accept_connection span, and one read_from_socket span if a  *)
(* message was read on it.                                                 *)
CompleteTrace ==
  \A c \in Client : thr[c] = "done" /\ tracer /\ collector = "up" =>
    /\ spans[c].accept_connection = 1
    /\ spans[c].read_from_socket = IF request[c] = NoClient THEN 0 ELSE 1

(* The threads that are in SpanExporter::Export.                           *)
Exporting ==
  {w \in Client \cup {Main} : IF w = Main THEN main = "export"
                                          ELSE thr[w] = "export"}

(* "This method must not be called concurrently for the same exporter      *)
(* instance" (exporter.h): whichever threads end spans at a time, at most  *)
(* one of them is in Export, and the lock is free only when none is.       *)
ExportsOneAtATime ==
  /\ \A v, w \in Exporting : v = w
  /\ lock_ = Free <=> Exporting = {}

(* A client that has connected is answered unless it is killed, also when  *)
(* the collector is down and every export runs into its deadline, and also *)
(* when no descriptor was free and accept() failed in the meantime.        *)
ClientAnswered ==
  \A c \in Client : cli[c] = "connected" ~>
    \/ cli[c] = "done" /\ reply[c] = c
    \/ cli[c] = "gone"

(* Every descriptor the server opens it closes again: a killed client does *)
(* not cost one for good.                                                  *)
DescriptorsReturned ==
  \A f \in Fd : kernel[f] # NoClient ~> kernel[f] = NoClient
=============================================================================
