------------------------ MODULE PreloadTracerProofs ------------------------
(***************************************************************************)
(* Proofs about PreloadTracer, for any number of connections, descriptors, *)
(* requests, responses and any set of status codes.                        *)
(***************************************************************************)
EXTENDS PreloadTracer, TLAPS

(* A thread is inside a lock_guard exactly when it holds fd_span_mutex.    *)
LockInv == \A c \in Conn : fd_span_mutex = c <=> pc[c] \in InHook

(* A thread that serves has its own descriptor open.                       *)
SockInv ==
  \A c \in Conn : pc[c] \notin {"new", "done"} =>
    sock[c] \in Fd /\ kernel[sock[c]] = c

(* An entry of fd_span_map is a live span of the thread that has the       *)
(* descriptor open, and close() has not been past it; while that thread is *)
(* in read(), the entry is an earlier request's.                           *)
MapInv ==
  \A f \in Fd, c \in Conn, k \in 0..MaxReads : fd_span_map[f] = <<c, k>> =>
    /\ kernel[f] = c /\ sock[c] = f
    /\ spanState[<<c, k>>] = "live"
    /\ pc[c] \notin {"new", "closeReal", "done"}
    /\ k <= nreq[c]
    /\ pc[c] \in {"readLock", "readStore"} => k < nreq[c]

(* A live span is in the map, or on its way there in read().               *)
LiveInv ==
  \A c \in Conn, k \in 0..MaxReads : spanState[<<c, k>>] = "live" =>
    /\ pc[c] \notin {"new", "closeReal", "done"}
    /\ \/ fd_span_map[sock[c]] = <<c, k>>
       \/ pc[c] \in {"readLock", "readStore"} /\ k = nreq[c]

(* The span read() is about to store is live.                              *)
FlightInv ==
  \A c \in Conn : pc[c] \in {"readLock", "readStore"} =>
    spanState[Current(c)] = "live"

(* Spans of requests that have not been read do not exist.                 *)
FreshInv ==
  \A c \in Conn, k \in 0..MaxReads :
    k > nreq[c] => spanState[<<c, k>>] = "none"

(* The handler is inside the hook only with a log write to finish.         *)
HandlerInv == fd_span_mutex = SigHandler => logged < LogWrites

TypeInv == Typed /\ HandlerInv

IInv ==
  /\ TypeInv /\ LockInv /\ SockInv
  /\ MapInv /\ LiveInv /\ FlightInv /\ FreshInv
-----------------------------------------------------------------------------
(* What End() of the entry a thread finds under its descriptor does to the *)
(* spans.                                                                  *)
LEMMA EndEntryType ==
  ASSUME Typed, NEW c \in Conn, EndEntry(c)
  PROVE  spanState' \in [Span -> {"none", "live", "ended"}]
  BY DEF Typed, EndEntry

(* The initial state is well typed.                                        *)
LEMMA TypeInit == Init => TypeInv
<1> SUFFICES ASSUME Init PROVE TypeInv
  OBVIOUS
<1>1. exited \in BOOLEAN
  BY Zenon DEF Init
<1> QED
  BY <1>1, BoundsAssumption, NoneAssumption
  DEF Init, TypeInv, Typed, HandlerInv, PC

(* Every operation keeps the type invariant.                               *)
LEMMA TypeNext == TypeInv /\ [Next]_vars => TypeInv'
<1> USE BoundsAssumption, NoneAssumption
<1> SUFFICES ASSUME TypeInv, [Next]_vars PROVE TypeInv'
  OBVIOUS
<1> USE DEF TypeInv, HandlerInv, LogWrites
<1>1. ASSUME NEW c \in Conn, NEW f \in Fd, Accept(c, f) PROVE TypeInv'
  <2>1. exited' \in BOOLEAN
    BY <1>1, Zenon DEF Typed, Accept
  <2>2. spanState' \in [Span -> {"none", "live", "ended"}]
    BY <1>1 DEF Typed, Accept
  <2>3. sock' \in [Conn -> Fd \cup {NoFd}] /\ pc' \in [Conn -> PC]
    BY <1>1 DEF Typed, Accept, Goto, PC
  <2> QED BY <1>1, <2>1, <2>2, <2>3 DEF Typed, Accept, env, signal
<1>2. ASSUME NEW c \in Conn, ReadRequest(c) PROVE TypeInv'
  BY <1>2 DEF Typed, ReadRequest, At, Goto, PC, env, app, spans, signal, Span
<1>3. ASSUME NEW c \in Conn, NEW k \in Code \cup {NoCode}, Respond(c, k)
      PROVE TypeInv'
  <2>1. answer' \in [Span -> Code \cup {NoCode, NoReply}]
    BY <1>3 DEF Typed, Respond
  <2>2. out' \in [Conn -> Code \cup {NoCode}] /\ pc' \in [Conn -> PC]
    BY <1>3 DEF Typed, Respond, Goto, PC
  <2>3. nrep' \in [Conn -> 0..MaxReplies]
    BY <1>3 DEF Typed, Respond
  <2> QED BY <1>3, <2>1, <2>2, <2>3 DEF Typed, Respond, env, spans, signal
<1>4. ASSUME NEW c \in Conn, CloseCall(c) PROVE TypeInv'
  BY <1>4 DEF Typed, CloseCall, At, Goto, PC, env, app, spans, signal
<1>5. ASSUME NEW c \in Conn, NEW p \in PC, NEW q \in PC, Lock(c, p, q)
      PROVE TypeInv'
  BY <1>5 DEF Typed, Lock, At, Goto, env, app, spans, signal
<1>6. ASSUME NEW c \in Conn, ReadStore(c) PROVE TypeInv'
  <2>1. Current(c) \in Span
    BY DEF Typed, Current, Span
  <2> QED BY <1>6, <2>1, EndEntryType
          DEF Typed, ReadStore, At, Goto, PC, env, app, signal
<1>7. ASSUME NEW c \in Conn, WriteEnd(c) PROVE TypeInv'
  <2>1. out[c] \in Code \cup {NoCode} /\ StatusOf(out[c]) \in {"ok", "error"}
    BY CodeAssumption DEF Typed, StatusOf
  <2>2. /\ spanCode' \in [Span -> Code \cup {NoCode}]
        /\ spanStatus' \in [Span -> {"unset", "ok", "error"}]
    BY <1>7, <2>1 DEF Typed, WriteEnd
  <2> QED BY <1>7, <2>2, EndEntryType
          DEF Typed, WriteEnd, Erase, At, Goto, PC, env, signal
<1>8. ASSUME NEW c \in Conn, CloseEnd(c) PROVE TypeInv'
  BY <1>8, EndEntryType
  DEF Typed, CloseEnd, Erase, At, Goto, PC, env, app, signal
<1>9. ASSUME NEW c \in Conn, CloseReal(c) PROVE TypeInv'
  BY <1>9 DEF Typed, CloseReal, At, Goto, PC, env, app, spans, signal
<1>10. ASSUME NEW t \in Conn \cup {Main}, Sigint(t) PROVE TypeInv'
  BY <1>10 DEF Typed, Sigint, env, app, spans, signal
<1>11. ASSUME Handler PROVE TypeInv'
  <2>1. exited' \in BOOLEAN
    BY <1>11, Zenon DEF Typed, Handler, HandlerLock, HandlerUnlock, Exit
  <2> QED
    BY <1>11, <2>1 DEF Typed, Handler, HandlerLock, HandlerUnlock, Exit,
                       env, app, spans, signal
<1>12. ASSUME UNCHANGED vars PROVE TypeInv'
  BY <1>12 DEF Typed, vars, env, app, spans, signal
<1> QED
  BY <1>1, <1>2, <1>3, <1>4, <1>5, <1>6, <1>7, <1>8, <1>9, <1>10, <1>11,
     <1>12
  DEF Next, HookStep, ReadLock, WriteLock, CloseLock, PC, InHook
-----------------------------------------------------------------------------
(* What ending the span under a descriptor does to the spans.             *)
LEMMA EndEntryEffect ==
  ASSUME Typed, NEW c \in Conn, EndEntry(c),
         NEW d \in Conn, NEW k \in 0..MaxReads
  PROVE  spanState'[<<d, k>>] = IF fd_span_map[sock[c]] = <<d, k>>
                                THEN "ended" ELSE spanState[<<d, k>>]
  BY DEF Typed, EndEntry, Entry, Span

(* The entry a thread finds under its own descriptor is its own.           *)
LEMMA EntryIsOwn ==
  ASSUME SockInv, MapInv, NEW c \in Conn, pc[c] \notin {"new", "done"},
         NEW d \in Conn, NEW k \in 0..MaxReads,
         fd_span_map[sock[c]] = <<d, k>>
  PROVE  d = c
  BY DEF SockInv, MapInv

(* Two threads that serve have different descriptors.                      *)
LEMMA SockInjective ==
  ASSUME SockInv, NEW c \in Conn, pc[c] \notin {"new", "done"},
         NEW d \in Conn, pc[d] \notin {"new", "done"}, sock[c] = sock[d]
  PROVE  c = d
  BY DEF SockInv

(* The inductive invariant holds at the start.                             *)
LEMMA IInvInit == Init => IInv
  BY TypeInit, BoundsAssumption, NoneAssumption
  DEF Init, IInv, TypeInv, Typed, LockInv, SockInv, MapInv, LiveInv,
      FlightInv, FreshInv, InHook, Span

StructInv ==
  LockInv /\ SockInv /\ MapInv /\ LiveInv /\ FlightInv /\ FreshInv

(* accept takes a free number and leaves the map alone.                    *)
LEMMA AcceptStep ==
  ASSUME IInv, NEW c \in Conn, NEW f \in Fd, Accept(c, f)
  PROVE  StructInv'
<1> USE BoundsAssumption, NoneAssumption
<1>1. /\ pc[c] = "new" /\ kernel[f] = NoConn
      /\ pc' \in [Conn -> PC] /\ \A d \in Conn : d # c => pc'[d] = pc[d]
      /\ pc'[c] \in {"new", "serve"}
      /\ pc'[c] # "new" => sock'[c] = f
      /\ \A d \in Conn : d # c => sock'[d] = sock[d]
      /\ kernel'[f] = c /\ \A g \in Fd : g # f => kernel'[g] = kernel[g]
      /\ UNCHANGED <<nreq, fd_span_map, fd_span_mutex>>
  BY DEF IInv, TypeInv, Typed, Accept, At, Goto, PC
<1>2. \A d \in Conn, k \in 0..MaxReads :
        IF d = c /\ k = 0
        THEN spanState'[<<d, k>>] \in {"ended", spanState[<<d, k>>]}
        ELSE spanState'[<<d, k>>] = spanState[<<d, k>>]
  BY DEF IInv, TypeInv, Typed, Accept, Span
<1>3. LockInv'
  BY <1>1 DEF IInv, LockInv, InHook
<1>4. SockInv'
  BY <1>1 DEF IInv, SockInv
<1>5. MapInv'
  BY <1>1, <1>2 DEF IInv, MapInv
<1>6. LiveInv'
  BY <1>1, <1>2 DEF IInv, LiveInv
<1>7. FlightInv'
  BY <1>1, <1>2 DEF IInv, FlightInv, Current, TypeInv, Typed
<1>8. FreshInv'
  BY <1>1, <1>2 DEF IInv, FreshInv, TypeInv, Typed
<1> QED BY <1>3, <1>4, <1>5, <1>6, <1>7, <1>8 DEF StructInv

(* read starts a span that is not in the map yet.                          *)
LEMMA ReadRequestStep ==
  ASSUME IInv, NEW c \in Conn, ReadRequest(c)
  PROVE  StructInv'
<1> USE BoundsAssumption, NoneAssumption
<1>1. /\ pc[c] = "serve" /\ pc'[c] \in {"serve", "readLock"}
      /\ nreq[c] + 1 \in 0..MaxReads /\ nreq'[c] = nreq[c] + 1
      /\ \A d \in Conn : d # c => pc'[d] = pc[d] /\ nreq'[d] = nreq[d]
      /\ UNCHANGED <<kernel, sock, fd_span_map, fd_span_mutex>>
      /\ nreq[c] \in Nat
  BY DEF IInv, TypeInv, Typed, ReadRequest, At, Goto, PC
<1>2. \A d \in Conn, k \in 0..MaxReads :
        d # c \/ k # nreq[c] + 1 => spanState'[<<d, k>>] = spanState[<<d, k>>]
  BY DEF IInv, TypeInv, Typed, ReadRequest, Span
<1>3. spanState'[<<c, nreq[c] + 1>>] =
        IF pc'[c] = "readLock" THEN "live"
                               ELSE spanState[<<c, nreq[c] + 1>>]
  BY <1>1 DEF IInv, TypeInv, Typed, ReadRequest, Goto, Span
<1>4. LockInv'
  BY <1>1 DEF IInv, LockInv, InHook
<1>5. SockInv'
  BY <1>1 DEF IInv, SockInv
<1>6. MapInv'
  BY <1>1, <1>2 DEF IInv, MapInv
<1>7. spanState[<<c, nreq[c] + 1>>] = "none"
  BY <1>1 DEF IInv, FreshInv
<1>8. LiveInv'
  BY <1>1, <1>2, <1>3, <1>7 DEF IInv, LiveInv
<1>9. FlightInv'
  BY <1>1, <1>2, <1>3 DEF IInv, FlightInv, Current, TypeInv, Typed
<1>10. FreshInv'
  BY <1>1, <1>2 DEF IInv, FreshInv, TypeInv, Typed
<1> QED BY <1>4, <1>5, <1>6, <1>8, <1>9, <1>10 DEF StructInv

(* Steps that move one thread between points that are alike for the        *)
(* invariant: taking the lock, calling close(), answering.                 *)
LEMMA MoveStep ==
  ASSUME IInv, NEW c \in Conn, NEW q \in PC \ {"new", "closeReal", "done"},
         pc[c] \notin {"new", "closeReal", "done"},
         pc' = [pc EXCEPT ![c] = q],
         pc[c] \in {"readLock", "readStore"}
            <=> q \in {"readLock", "readStore"},
         \/ pc[c] \notin InHook /\ q \notin InHook /\ UNCHANGED fd_span_mutex
         \/ fd_span_mutex = Free /\ q \in InHook /\ fd_span_mutex' = c,
         UNCHANGED <<kernel, sock, nreq, fd_span_map, spanState>>
  PROVE  StructInv'
<1> USE NoneAssumption
<1>1. pc'[c] = q /\ \A d \in Conn : d # c => pc'[d] = pc[d]
  BY DEF IInv, TypeInv, Typed
<1>2. LockInv'
  BY <1>1 DEF IInv, LockInv
<1>3. SockInv'
  BY <1>1 DEF IInv, SockInv
<1>4. MapInv'
  BY <1>1 DEF IInv, MapInv
<1>5. LiveInv'
  BY <1>1 DEF IInv, LiveInv
<1>6. FlightInv'
  BY <1>1 DEF IInv, FlightInv, Current
<1>7. FreshInv'
  BY DEF IInv, FreshInv
<1> QED BY <1>2, <1>3, <1>4, <1>5, <1>6, <1>7 DEF StructInv

(* read files it under a descriptor that is open and its own.              *)
LEMMA ReadStoreStep ==
  ASSUME IInv, NEW c \in Conn, ReadStore(c)
  PROVE  StructInv'
<1> USE BoundsAssumption, NoneAssumption
<1>1. /\ pc[c] = "readStore" /\ pc'[c] = "serve"
      /\ \A d \in Conn : d # c => pc'[d] = pc[d]
      /\ fd_span_mutex' = Free /\ fd_span_mutex = c
      /\ UNCHANGED <<kernel, sock, nreq>>
      /\ sock[c] \in Fd /\ kernel[sock[c]] = c
      /\ nreq[c] \in 0..MaxReads
  BY DEF IInv, TypeInv, Typed, ReadStore, At, Goto, app, LockInv, InHook,
         SockInv
<1>2. /\ fd_span_map'[sock[c]] = <<c, nreq[c]>>
      /\ \A f \in Fd : f # sock[c] => fd_span_map'[f] = fd_span_map[f]
  BY <1>1 DEF IInv, TypeInv, Typed, ReadStore, Current
<1>3. \A d \in Conn, k \in 0..MaxReads :
        spanState'[<<d, k>>] = IF fd_span_map[sock[c]] = <<d, k>>
                               THEN "ended" ELSE spanState[<<d, k>>]
  BY EndEntryEffect DEF ReadStore, IInv, TypeInv
<1>4. \A d \in Conn, k \in 0..MaxReads :
        fd_span_map[sock[c]] = <<d, k>> => d = c /\ k < nreq[c]
  <2> SUFFICES ASSUME NEW d \in Conn, NEW k \in 0..MaxReads,
                      fd_span_map[sock[c]] = <<d, k>>
               PROVE  d = c /\ k < nreq[c]
    OBVIOUS
  <2>1. d = c
    BY <1>1, EntryIsOwn DEF IInv
  <2> QED BY <1>1, <2>1 DEF IInv, MapInv
<1>5. LockInv'
  BY <1>1 DEF IInv, LockInv, InHook
<1>6. SockInv'
  BY <1>1 DEF IInv, SockInv
<1>7. spanState'[<<c, nreq[c]>>] = "live"
  BY <1>1, <1>3, <1>4 DEF IInv, FlightInv, Current
<1>8. MapInv'
  <2> SUFFICES ASSUME NEW f \in Fd, NEW d \in Conn, NEW k \in 0..MaxReads,
                      fd_span_map'[f] = <<d, k>>
               PROVE  /\ kernel[f] = d /\ sock[d] = f
                      /\ spanState'[<<d, k>>] = "live"
                      /\ pc'[d] \notin {"new", "closeReal", "done"}
                      /\ k <= nreq[d]
                      /\ pc'[d] \in {"readLock", "readStore"} => k < nreq[d]
    BY <1>1 DEF MapInv
  <2>1. CASE f = sock[c]
    BY <1>1, <1>2, <1>7, <2>1
  <2>2. CASE f # sock[c]
    BY <1>1, <1>2, <1>3, <1>4, <2>2 DEF IInv, MapInv
  <2> QED BY <2>1, <2>2
<1>9. LiveInv'
  <2> SUFFICES ASSUME NEW d \in Conn, NEW k \in 0..MaxReads,
                      spanState'[<<d, k>>] = "live"
               PROVE  /\ pc'[d] \notin {"new", "closeReal", "done"}
                      /\ \/ fd_span_map'[sock[d]] = <<d, k>>
                         \/ /\ pc'[d] \in {"readLock", "readStore"}
                            /\ k = nreq[d]
    BY <1>1 DEF LiveInv
  <2>1. spanState[<<d, k>>] = "live" /\ fd_span_map[sock[c]] # <<d, k>>
    BY <1>3
  <2>2. CASE d = c
    BY <1>1, <1>2, <2>1, <2>2 DEF IInv, LiveInv
  <2>3. CASE d # c
    <3>1. pc[d] \notin {"new", "closeReal", "done"}
      BY <2>1 DEF IInv, LiveInv
    <3>2. sock[d] \in Fd /\ sock[d] # sock[c]
      BY <1>1, <2>3, <3>1, SockInjective DEF IInv, SockInv
    <3> QED BY <1>1, <1>2, <2>1, <2>3, <3>1, <3>2 DEF IInv, LiveInv
  <2> QED BY <2>2, <2>3
<1>10. FlightInv'
  BY <1>1, <1>3, <1>4 DEF IInv, FlightInv, Current, TypeInv, Typed
<1>11. FreshInv'
  BY <1>1, <1>3, <1>4 DEF IInv, FreshInv, TypeInv, Typed
<1> QED BY <1>5, <1>6, <1>8, <1>9, <1>10, <1>11 DEF StructInv

(* The critical sections of write() and of end_span_for_fd.                *)
LEMMA EndStep ==
  ASSUME IInv, NEW c \in Conn, pc[c] \in {"writeEnd", "closeEnd"},
         NEW q \in {"serve", "closeReal"},
         pc' = [pc EXCEPT ![c] = q], EndEntry(c), Erase(c),
         fd_span_mutex' = Free, UNCHANGED <<kernel, sock, nreq>>
  PROVE  StructInv'
<1> USE BoundsAssumption, NoneAssumption
<1>1. /\ pc'[c] = q /\ \A d \in Conn : d # c => pc'[d] = pc[d]
      /\ fd_span_mutex = c /\ sock[c] \in Fd /\ kernel[sock[c]] = c
  BY DEF IInv, TypeInv, Typed, LockInv, InHook, SockInv
<1>2. /\ fd_span_map'[sock[c]] = NoSpan
      /\ \A f \in Fd : f # sock[c] => fd_span_map'[f] = fd_span_map[f]
  BY <1>1 DEF IInv, TypeInv, Typed, Erase
<1>3. \A d \in Conn, k \in 0..MaxReads :
        spanState'[<<d, k>>] = IF fd_span_map[sock[c]] = <<d, k>>
                               THEN "ended" ELSE spanState[<<d, k>>]
  BY EndEntryEffect DEF IInv, TypeInv
<1>4. \A d \in Conn, k \in 0..MaxReads :
        fd_span_map[sock[c]] = <<d, k>> => d = c /\ k <= nreq[c]
  <2> SUFFICES ASSUME NEW d \in Conn, NEW k \in 0..MaxReads,
                      fd_span_map[sock[c]] = <<d, k>>
               PROVE  d = c /\ k <= nreq[c]
    OBVIOUS
  <2>1. d = c
    BY <1>1, EntryIsOwn DEF IInv
  <2> QED BY <1>1, <2>1 DEF IInv, MapInv
<1>5. LockInv'
  BY <1>1 DEF IInv, LockInv, InHook
<1>6. SockInv'
  BY <1>1 DEF IInv, SockInv
<1>7. MapInv'
  <2> SUFFICES ASSUME NEW f \in Fd, NEW d \in Conn, NEW k \in 0..MaxReads,
                      fd_span_map'[f] = <<d, k>>
               PROVE  /\ kernel[f] = d /\ sock[d] = f
                      /\ spanState'[<<d, k>>] = "live"
                      /\ pc'[d] \notin {"new", "closeReal", "done"}
                      /\ k <= nreq[d]
                      /\ pc'[d] \in {"readLock", "readStore"} => k < nreq[d]
    BY DEF MapInv
  <2>1. f # sock[c] /\ fd_span_map[f] = <<d, k>>
    BY <1>2 DEF Span
  <2>2. d # c
    BY <2>1 DEF IInv, MapInv
  <2> QED BY <1>1, <1>3, <1>4, <2>1, <2>2 DEF IInv, MapInv
<1>8. LiveInv'
  <2> SUFFICES ASSUME NEW d \in Conn, NEW k \in 0..MaxReads,
                      spanState'[<<d, k>>] = "live"
               PROVE  /\ pc'[d] \notin {"new", "closeReal", "done"}
                      /\ \/ fd_span_map'[sock[d]] = <<d, k>>
                         \/ /\ pc'[d] \in {"readLock", "readStore"}
                            /\ k = nreq[d]
    BY DEF LiveInv
  <2>1. spanState[<<d, k>>] = "live" /\ fd_span_map[sock[c]] # <<d, k>>
    BY <1>3
  <2>2. d # c
    BY <2>1 DEF IInv, LiveInv
  <2>3. pc[d] \notin {"new", "closeReal", "done"}
    BY <2>1 DEF IInv, LiveInv
  <2>4. sock[d] \in Fd /\ sock[d] # sock[c]
    BY <2>2, <2>3, SockInjective DEF IInv, SockInv
  <2> QED BY <1>1, <1>2, <2>1, <2>2, <2>3, <2>4 DEF IInv, LiveInv
<1>9. FlightInv'
  BY <1>1, <1>3, <1>4 DEF IInv, FlightInv, Current, TypeInv, Typed
<1>10. FreshInv'
  BY <1>1, <1>3, <1>4 DEF IInv, FreshInv, TypeInv, Typed
<1> QED BY <1>5, <1>6, <1>7, <1>8, <1>9, <1>10 DEF StructInv

(* real_close, after which the number may name another connection: by then *)
(* nothing of the old one is left under it.                                *)
LEMMA CloseRealStep ==
  ASSUME IInv, NEW c \in Conn, CloseReal(c)
  PROVE  StructInv'
<1> USE NoneAssumption
<1>1. /\ pc[c] = "closeReal" /\ pc'[c] = "done"
      /\ \A d \in Conn : d # c => pc'[d] = pc[d]
      /\ sock[c] \in Fd /\ kernel[sock[c]] = c
      /\ \A f \in Fd : f # sock[c] => kernel'[f] = kernel[f]
      /\ UNCHANGED <<sock, nreq, fd_span_map, fd_span_mutex, spanState>>
  BY DEF IInv, TypeInv, Typed, CloseReal, At, Goto, spans, SockInv
<1>2. LockInv'
  BY <1>1 DEF IInv, LockInv, InHook
<1>3. SockInv'
  <2> SUFFICES ASSUME NEW d \in Conn, pc'[d] \notin {"new", "done"}
               PROVE  sock[d] \in Fd /\ kernel'[sock[d]] = d
    BY <1>1 DEF SockInv
  <2>1. d # c /\ pc[d] \notin {"new", "done"}
    BY <1>1
  <2>2. sock[d] \in Fd /\ kernel[sock[d]] = d
    BY <2>1 DEF IInv, SockInv
  <2> QED BY <1>1, <2>1, <2>2
<1>4. MapInv'
  BY <1>1 DEF IInv, MapInv
<1>5. LiveInv'
  BY <1>1 DEF IInv, LiveInv
<1>6. FlightInv'
  BY <1>1 DEF IInv, FlightInv, Current
<1>7. FreshInv'
  BY <1>1 DEF IInv, FreshInv
<1> QED BY <1>2, <1>3, <1>4, <1>5, <1>6, <1>7 DEF StructInv

(* The handler takes and releases the mutex only when no hook holds it.    *)
LEMMA SignalStep ==
  ASSUME IInv, UNCHANGED <<kernel, sock, nreq, pc, fd_span_map, spanState>>,
         \/ UNCHANGED fd_span_mutex
         \/ /\ fd_span_mutex \in {Free, SigHandler}
            /\ fd_span_mutex' \in {Free, SigHandler}
  PROVE  StructInv'
  BY NoneAssumption
  DEF IInv, StructInv, LockInv, SockInv, MapInv, LiveInv, FlightInv,
      FreshInv, Current

(* Every operation keeps the invariant.                                    *)
LEMMA IInvNext == IInv /\ [Next]_vars => IInv'
<1> SUFFICES ASSUME IInv, [Next]_vars PROVE IInv'
  OBVIOUS
<1> SUFFICES StructInv'
  BY TypeNext DEF IInv, StructInv
<1>1. ASSUME NEW c \in Conn, NEW f \in Fd, Accept(c, f) PROVE StructInv'
  BY <1>1, AcceptStep
<1>2. ASSUME NEW c \in Conn, ReadRequest(c) PROVE StructInv'
  BY <1>2, ReadRequestStep
<1>3. ASSUME NEW c \in Conn, NEW k \in Code \cup {NoCode}, Respond(c, k)
      PROVE StructInv'
  <2>1. CASE tracer /\ reply = "write"
    BY <1>3, <2>1, MoveStep DEF Respond, At, Goto, PC, InHook, spans
  <2>2. CASE ~(tracer /\ reply = "write")
    BY <1>3, <2>2, SignalStep DEF Respond, spans
  <2> QED BY <2>1, <2>2
<1>4. ASSUME NEW c \in Conn, CloseCall(c) PROVE StructInv'
  BY <1>4, MoveStep DEF CloseCall, At, Goto, PC, InHook, app, spans
<1>5. ASSUME NEW c \in Conn, ReadLock(c) \/ WriteLock(c) \/ CloseLock(c)
      PROVE StructInv'
  BY <1>5, MoveStep
  DEF ReadLock, WriteLock, CloseLock, Lock, At, Goto, PC, InHook, app, spans
<1>6. ASSUME NEW c \in Conn, ReadStore(c) PROVE StructInv'
  BY <1>6, ReadStoreStep
<1>7. ASSUME NEW c \in Conn, WriteEnd(c) \/ CloseEnd(c) PROVE StructInv'
  BY <1>7, EndStep DEF WriteEnd, CloseEnd, At, Goto, app
<1>8. ASSUME NEW c \in Conn, CloseReal(c) PROVE StructInv'
  BY <1>8, CloseRealStep
<1>9. ASSUME NEW t \in Conn \cup {Main}, Sigint(t) PROVE StructInv'
  BY <1>9, SignalStep DEF Sigint, app, spans
<1>10. ASSUME Handler PROVE StructInv'
  BY <1>10, SignalStep
  DEF Handler, HandlerLock, HandlerUnlock, Exit, app, spans
<1>11. ASSUME UNCHANGED vars PROVE StructInv'
  BY <1>11, SignalStep DEF vars, app, spans
<1> QED
  BY <1>1, <1>2, <1>3, <1>4, <1>5, <1>6, <1>7, <1>8, <1>9, <1>10, <1>11
  DEF Next, HookStep

(* The inductive invariant holds always.                                   *)
LEMMA Invariance == Spec => []IInv
  BY IInvInit, IInvNext, PTL DEF Spec

(* The hooks, the signal handler and the program they run in keep every    *)
(* global and every thread's state well typed, the exit path makes at most *)
(* six log writes, and one thread at a time is inside a lock_guard.        *)
THEOREM TypeCorrect == Spec => []TypeOK
<1>1. IInv => TypeOK
  BY DEF IInv, TypeInv, LockInv, TypeOK
<1> QED BY <1>1, Invariance, PTL

(* Descriptor numbers are reused, threads interleave and SIGINT strikes    *)
(* anywhere, and still an entry of fd_span_map is a live span of the       *)
(* connection that has the descriptor open.                                *)
THEOREM MapIsSafe == Spec => []MapTracksOpenConnection
<1>1. IInv => MapTracksOpenConnection
  <2> SUFFICES ASSUME IInv, NEW f \in Fd, fd_span_map[f] # NoSpan
               PROVE  /\ kernel[f] = fd_span_map[f][1]
                      /\ spanState[fd_span_map[f]] = "live"
    BY DEF MapTracksOpenConnection
  <2>1. fd_span_map[f] \in Span
    BY DEF IInv, TypeInv, Typed
  <2>2. PICK c \in Conn, k \in 0..MaxReads : fd_span_map[f] = <<c, k>>
    BY <2>1 DEF Span
  <2> QED BY <2>2 DEF IInv, MapInv
<1> QED BY <1>1, Invariance, PTL

(* When close() has returned, every request span of the connection has     *)
(* been ended: none leaks, wherever the others were.                       *)
THEOREM NoSpanLeaks == Spec => []NoSpanOutlivesConnection
<1>1. IInv => NoSpanOutlivesConnection
  <2> SUFFICES ASSUME IInv, NEW s \in Span, spanState[s] = "live"
               PROVE  pc[s[1]] \notin {"new", "done"}
    BY DEF NoSpanOutlivesConnection
  <2>1. PICK c \in Conn, k \in 0..MaxReads : s = <<c, k>>
    BY DEF Span
  <2> QED BY <2>1 DEF IInv, LiveInv
<1> QED BY <1>1, Invariance, PTL
=============================================================================
