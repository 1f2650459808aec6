------------------------ MODULE PreloadStatusProofs ------------------------
(***************************************************************************)
(* Proofs about what PreloadTracer's spans report: an ended span is final, *)
(* and carries the status of the response to its own request; and that the *)
(* hooks implement RequestSpans.                                           *)
(***************************************************************************)
EXTENDS PreloadTracerProofs

InRead  == {"readLock", "readStore"}
InWrite == {"writeLock", "writeEnd"}

(* Without a tracer there are no spans, and only an answer given with      *)
(* write() reaches the write hook.                                         *)
ModeInv ==
  /\ ~tracer => \A c \in Conn, k \in 0..MaxReads : spanState[<<c, k>>] = "none"
  /\ \A c \in Conn : pc[c] \in InWrite => reply = "write"

(* Outside read() the only live span of a connection is that of its last   *)
(* request.                                                                *)
CurrentInv ==
  \A c \in Conn, k \in 0..MaxReads :
    spanState[<<c, k>>] = "live" /\ pc[c] \notin InRead => k = nreq[c]

(* A request that has not been read has no answer.                         *)
UnreadInv ==
  \A c \in Conn, k \in 0..MaxReads :
    k > nreq[c] \/ k = 0 => answer[<<c, k>>] = NoReply

(* The first write() of an answer finds the span open: a live span has no  *)
(* answer yet, or its thread is in that write() now.                       *)
OpenInv ==
  \A c \in Conn, k \in 0..MaxReads :
    spanState[<<c, k>>] = "live" /\ reply = "write" =>
      answer[<<c, k>>] = IF pc[c] \in InWrite THEN out[c] ELSE NoReply

(* Once the span of the current request is ended, the request is answered. *)
ClosedInv ==
  \A c \in Conn, k \in 0..MaxReads :
    /\ spanState[<<c, k>>] = "ended" /\ reply = "write"
    /\ k = nreq[c] /\ k > 0 /\ pc[c] \notin {"closeReal", "done"}
    => answer[<<c, k>>] # NoReply

(* A span that has not been ended carries no status.                       *)
BlankInv ==
  \A c \in Conn, k \in 0..MaxReads : spanState[<<c, k>>] # "ended" =>
    spanCode[<<c, k>>] = NoCode /\ spanStatus[<<c, k>>] = "unset"

(* What an ended span reports, as in StatusIsOwnResponse.                  *)
Reported(s) == IF reply = "write" /\ answer[s] # NoReply THEN answer[s]
                                                         ELSE NoCode

ReportInv ==
  \A c \in Conn, k \in 0..MaxReads : spanState[<<c, k>>] = "ended" =>
    /\ spanCode[<<c, k>>] = Reported(<<c, k>>)
    /\ spanStatus[<<c, k>>] = IF Reported(<<c, k>>) = NoCode THEN "unset"
                              ELSE StatusOf(Reported(<<c, k>>))

StatusInv ==
  /\ ModeInv /\ CurrentInv /\ UnreadInv /\ OpenInv /\ ClosedInv
  /\ BlankInv /\ ReportInv
-----------------------------------------------------------------------------
(* An ended span is never touched again: a second write() of a response,   *)
(* or close() after write(), finds no entry, and read() starts only spans  *)
(* that never existed.                                                     *)
THEOREM EndedSpansAreFinal == Spec => EndedIsFinal
<1> USE BoundsAssumption, NoneAssumption
<1>1. ASSUME IInv, [Next]_vars,
             NEW s \in Span, spanState[s] = "ended"
      PROVE  /\ spanState'[s] = "ended"
             /\ spanCode'[s] = spanCode[s]
             /\ spanStatus'[s] = spanStatus[s]
  <2>1. PICK d \in Conn, k \in 0..MaxReads : s = <<d, k>>
    BY DEF Span
  <2>2. ASSUME NEW c \in Conn, NEW f \in Fd, Accept(c, f)
        PROVE  /\ spanState'[s] = "ended" /\ UNCHANGED <<spanCode, spanStatus>>
    BY <1>1, <2>2 DEF Accept, IInv, TypeInv, Typed
  <2>3. ASSUME NEW c \in Conn, ReadRequest(c)
        PROVE  /\ spanState'[s] = "ended" /\ UNCHANGED <<spanCode, spanStatus>>
    <3>1. s # <<c, nreq[c] + 1>>
      <4>1. nreq[c] + 1 \in 0..MaxReads /\ nreq[c] + 1 > nreq[c]
        BY <1>1, <2>3 DEF IInv, TypeInv, Typed, ReadRequest
      <4>2. spanState[<<c, nreq[c] + 1>>] = "none"
        BY <1>1, <4>1 DEF IInv, FreshInv
      <4> QED BY <1>1, <4>2
    <3> QED BY <1>1, <2>3, <3>1 DEF ReadRequest, IInv, TypeInv, Typed
  <2>4. ASSUME NEW c \in Conn, EndEntry(c) PROVE spanState'[s] = "ended"
    BY <1>1, <2>4 DEF EndEntry, IInv, TypeInv, Typed
  <2>5. ASSUME NEW c \in Conn, WriteEnd(c)
        PROVE  spanCode'[s] = spanCode[s] /\ spanStatus'[s] = spanStatus[s]
    <3>1. sock[c] \in Fd
      BY <1>1, <2>5 DEF WriteEnd, At, IInv, SockInv
    <3>2. s # Entry(c)
      BY <1>1, <2>1, <3>1 DEF Entry, IInv, MapInv
    <3> QED BY <1>1, <2>5, <3>2 DEF WriteEnd, IInv, TypeInv, Typed
  <2> QED
    BY <1>1, <2>2, <2>3, <2>4, <2>5
    DEF Next, HookStep, Respond, CloseCall, ReadLock, WriteLock, CloseLock,
        Lock, ReadStore, WriteEnd, CloseEnd, CloseReal, Sigint, Handler,
        HandlerLock, HandlerUnlock, Exit, vars, spans
<1>2. IInv /\ [Next]_vars =>
        [\A s \in Span : spanState[s] = "ended" =>
           /\ spanState'[s] = "ended"
           /\ spanCode'[s] = spanCode[s]
           /\ spanStatus'[s] = spanStatus[s]]_vars
  BY <1>1
<1> QED BY <1>2, Invariance, PTL DEF Spec, EndedIsFinal
-----------------------------------------------------------------------------
(* At the start there is neither a span nor an answer.                     *)
LEMMA StatusInit == Init => StatusInv
  BY BoundsAssumption, NoneAssumption
  DEF Init, StatusInv, ModeInv, CurrentInv, UnreadInv, OpenInv, ClosedInv,
      BlankInv, ReportInv, Reported, InWrite, Span

(* Steps that leave spans, requests and answers alone, and move threads    *)
(* only between points that are alike for the invariant.                   *)
LEMMA QuietStep ==
  ASSUME StatusInv,
         UNCHANGED <<tracer, reply, nreq, answer, out, spans>>,
         \A c \in Conn : \/ pc'[c] = pc[c]
                         \/ pc[c] \in InRead /\ pc'[c] \in InRead
                         \/ pc[c] \in InWrite /\ pc'[c] \in InWrite
                         \/ /\ pc[c] \notin InRead \cup InWrite
                                              \cup {"closeReal", "done"}
                            /\ pc'[c] \notin InRead \cup InWrite
                         \/ pc[c] = "closeReal" /\ pc'[c] = "done"
  PROVE  StatusInv'
  BY DEF StatusInv, ModeInv, CurrentInv, UnreadInv, OpenInv, ClosedInv,
         BlankInv, ReportInv, Reported, InRead, InWrite, spans

(* accept gives a connection that has asked nothing yet.                   *)
LEMMA StatusAccept ==
  ASSUME IInv, StatusInv, NEW c \in Conn, NEW f \in Fd, Accept(c, f)
  PROVE  StatusInv'
<1> USE BoundsAssumption, NoneAssumption
<1>1. /\ pc[c] = "new" /\ pc'[c] \in {"new", "serve"}
      /\ \A d \in Conn : d # c => pc'[d] = pc[d]
      /\ UNCHANGED <<tracer, reply, nreq, answer, out, spanCode, spanStatus>>
  BY DEF IInv, TypeInv, Typed, Accept, At, Goto, env
<1>2. \A d \in Conn, k \in 0..MaxReads :
        IF d = c /\ k = 0 /\ tracer THEN spanState'[<<d, k>>] = "ended"
        ELSE spanState'[<<d, k>>] = spanState[<<d, k>>]
  <2> TAKE d \in Conn, k \in 0..MaxReads
  <2>1. <<d, k>> \in Span /\ <<c, 0>> \in Span
    BY DEF Span
  <2>2. <<d, k>> = <<c, 0>> <=> d = c /\ k = 0
    OBVIOUS
  <2>3. CASE tracer
    BY <2>1, <2>2, <2>3 DEF IInv, TypeInv, Typed, Accept
  <2>4. CASE ~tracer
    BY <2>1, <2>2, <2>4 DEF IInv, TypeInv, Typed, Accept
  <2> QED BY <2>3, <2>4
<1>3. /\ answer[<<c, 0>>] = NoReply
      /\ spanCode[<<c, 0>>] = NoCode /\ spanStatus[<<c, 0>>] = "unset"
  BY DEF StatusInv, UnreadInv, BlankInv, ReportInv, Reported
<1>4. ModeInv'
  BY <1>1, <1>2 DEF StatusInv, ModeInv, InWrite
<1>5. CurrentInv' /\ UnreadInv'
  BY <1>1, <1>2 DEF StatusInv, CurrentInv, UnreadInv, InRead
<1>6. OpenInv' /\ ClosedInv'
  BY <1>1, <1>2 DEF StatusInv, OpenInv, ClosedInv, InWrite
<1>7. BlankInv'
  BY <1>1, <1>2 DEF StatusInv, BlankInv
<1>8. ReportInv'
  BY <1>1, <1>2, <1>3 DEF StatusInv, ReportInv, Reported
<1> QED BY <1>4, <1>5, <1>6, <1>7, <1>8 DEF StatusInv

(* read starts a span that carries no status yet.                          *)
LEMMA StatusReadRequest ==
  ASSUME IInv, StatusInv, NEW c \in Conn, ReadRequest(c)
  PROVE  StatusInv'
<1> USE BoundsAssumption, NoneAssumption
<1>1. /\ pc[c] = "serve"
      /\ pc'[c] = IF tracer THEN "readLock" ELSE "serve"
      /\ nreq[c] + 1 \in 0..MaxReads /\ nreq'[c] = nreq[c] + 1
      /\ \A d \in Conn : d # c => pc'[d] = pc[d] /\ nreq'[d] = nreq[d]
      /\ UNCHANGED <<tracer, reply, answer, out, spanCode, spanStatus>>
      /\ nreq[c] \in Nat
  BY DEF IInv, TypeInv, Typed, ReadRequest, At, Goto, PC, env
<1>2. \A d \in Conn, k \in 0..MaxReads :
        d # c \/ k # nreq[c] + 1 => spanState'[<<d, k>>] = spanState[<<d, k>>]
  BY DEF IInv, TypeInv, Typed, ReadRequest, Span
<1>3. /\ spanState[<<c, nreq[c] + 1>>] = "none"
      /\ spanState'[<<c, nreq[c] + 1>>] = IF tracer THEN "live" ELSE "none"
      /\ answer[<<c, nreq[c] + 1>>] = NoReply
  BY <1>1 DEF IInv, TypeInv, Typed, ReadRequest, Span, FreshInv,
              StatusInv, UnreadInv
<1>4. ModeInv'
  BY <1>1, <1>2, <1>3 DEF StatusInv, ModeInv, InWrite
<1>5. CurrentInv'
  BY <1>1, <1>2, <1>3 DEF StatusInv, CurrentInv, ModeInv, InRead
<1>6. UnreadInv'
  BY <1>1 DEF StatusInv, UnreadInv, IInv, TypeInv, Typed
<1>7. OpenInv'
  BY <1>1, <1>2, <1>3 DEF StatusInv, OpenInv, InWrite
<1>8. ClosedInv'
  BY <1>1, <1>2, <1>3 DEF StatusInv, ClosedInv
<1>9. BlankInv' /\ ReportInv'
  BY <1>1, <1>2, <1>3 DEF StatusInv, BlankInv, ReportInv, Reported
<1> QED BY <1>4, <1>5, <1>6, <1>7, <1>8, <1>9 DEF StatusInv

(* The first response to a request is its answer.                          *)
LEMMA StatusRespond ==
  ASSUME IInv, StatusInv, NEW c \in Conn, NEW j \in Code \cup {NoCode},
         Respond(c, j)
  PROVE  StatusInv'
<1> USE BoundsAssumption, NoneAssumption
<1>1. /\ pc[c] = "serve" /\ nreq[c] > 0 /\ nreq[c] \in 0..MaxReads
      /\ \A d \in Conn : d # c => pc'[d] = pc[d] /\ out'[d] = out[d]
      /\ IF tracer /\ reply = "write"
         THEN pc'[c] = "writeLock" /\ out'[c] = j
         ELSE pc'[c] = "serve"
      /\ UNCHANGED <<tracer, reply, nreq, spanState, spanCode, spanStatus>>
  BY DEF IInv, TypeInv, Typed, Respond, At, Goto, env, spans
<1>2. \A d \in Conn, k \in 0..MaxReads :
        answer'[<<d, k>>] =
          IF d = c /\ k = nreq[c] /\ answer[<<d, k>>] = NoReply
          THEN j ELSE answer[<<d, k>>]
  <2> TAKE d \in Conn, k \in 0..MaxReads
  <2>1. <<d, k>> \in Span /\ <<c, nreq[c]>> \in Span
    BY <1>1 DEF Span
  <2>2. <<d, k>> = <<c, nreq[c]>> <=> d = c /\ k = nreq[c]
    OBVIOUS
  <2> QED BY <2>1, <2>2 DEF IInv, TypeInv, Typed, Respond, Current
<1>3. ModeInv' /\ CurrentInv'
  BY <1>1 DEF StatusInv, ModeInv, CurrentInv, InRead, InWrite
<1>4. UnreadInv'
  BY <1>1, <1>2 DEF StatusInv, UnreadInv
<1>5. OpenInv'
  BY <1>1, <1>2
  DEF StatusInv, OpenInv, CurrentInv, ModeInv, InRead, InWrite
<1>6. ClosedInv'
  BY <1>1, <1>2 DEF StatusInv, ClosedInv
<1>7. BlankInv'
  BY <1>1 DEF StatusInv, BlankInv
<1>8. ReportInv'
  BY <1>1, <1>2 DEF StatusInv, ReportInv, Reported, ClosedInv
<1> QED BY <1>3, <1>4, <1>5, <1>6, <1>7, <1>8 DEF StatusInv

(* read files its span; one that it overwrites gets no status.             *)
LEMMA StatusReadStore ==
  ASSUME IInv, StatusInv, NEW c \in Conn, ReadStore(c)
  PROVE  StatusInv'
<1> USE BoundsAssumption, NoneAssumption
<1>1. /\ pc[c] = "readStore" /\ pc'[c] = "serve"
      /\ \A d \in Conn : d # c => pc'[d] = pc[d]
      /\ UNCHANGED <<tracer, reply, nreq, answer, out, spanCode, spanStatus>>
      /\ sock[c] \in Fd /\ kernel[sock[c]] = c
      /\ nreq[c] \in 0..MaxReads
  BY DEF IInv, TypeInv, Typed, ReadStore, At, Goto, env, app, SockInv
<1>2. \A d \in Conn, k \in 0..MaxReads :
        spanState'[<<d, k>>] = IF fd_span_map[sock[c]] = <<d, k>>
                               THEN "ended" ELSE spanState[<<d, k>>]
  BY EndEntryEffect DEF ReadStore, IInv, TypeInv
<1>3. \A d \in Conn, k \in 0..MaxReads : fd_span_map[sock[c]] = <<d, k>> =>
        d = c /\ k < nreq[c] /\ spanState[<<d, k>>] = "live"
  BY <1>1 DEF IInv, MapInv
<1>4. ModeInv'
  BY <1>1, <1>2, <1>3 DEF StatusInv, ModeInv, InWrite
<1>5. \A k \in 0..MaxReads : spanState'[<<c, k>>] = "live" => k = nreq[c]
  BY <1>1, <1>2 DEF IInv, LiveInv
<1>6. CurrentInv'
  BY <1>1, <1>2, <1>5 DEF StatusInv, CurrentInv
<1>7. UnreadInv'
  BY <1>1 DEF StatusInv, UnreadInv
<1>8. OpenInv'
  BY <1>1, <1>2 DEF StatusInv, OpenInv, InWrite
<1>9. ClosedInv'
  BY <1>1, <1>2, <1>3 DEF StatusInv, ClosedInv
<1>10. BlankInv'
  BY <1>1, <1>2 DEF StatusInv, BlankInv
<1>11. ReportInv'
  BY <1>1, <1>2, <1>3
  DEF StatusInv, ReportInv, Reported, BlankInv, OpenInv, InWrite
<1> QED BY <1>4, <1>6, <1>7, <1>8, <1>9, <1>10, <1>11 DEF StatusInv

(* close ends what it finds without a status.                              *)
LEMMA StatusCloseEnd ==
  ASSUME IInv, StatusInv, NEW c \in Conn, CloseEnd(c)
  PROVE  StatusInv'
<1> USE BoundsAssumption, NoneAssumption
<1>1. /\ pc[c] = "closeEnd" /\ pc'[c] = "closeReal"
      /\ \A d \in Conn : d # c => pc'[d] = pc[d]
      /\ UNCHANGED <<tracer, reply, nreq, answer, out, spanCode, spanStatus>>
      /\ sock[c] \in Fd /\ kernel[sock[c]] = c
  BY DEF IInv, TypeInv, Typed, CloseEnd, At, Goto, env, app, SockInv
<1>2. \A d \in Conn, k \in 0..MaxReads :
        spanState'[<<d, k>>] = IF fd_span_map[sock[c]] = <<d, k>>
                               THEN "ended" ELSE spanState[<<d, k>>]
  BY EndEntryEffect DEF CloseEnd, IInv, TypeInv
<1>3. \A d \in Conn, k \in 0..MaxReads : fd_span_map[sock[c]] = <<d, k>> =>
        d = c /\ spanState[<<d, k>>] = "live"
  BY <1>1 DEF IInv, MapInv
<1>4. ModeInv'
  BY <1>1, <1>2, <1>3 DEF StatusInv, ModeInv, InWrite
<1>5. CurrentInv' /\ UnreadInv'
  BY <1>1, <1>2 DEF StatusInv, CurrentInv, UnreadInv, InRead
<1>6. OpenInv'
  BY <1>1, <1>2 DEF StatusInv, OpenInv, InWrite
<1>7. ClosedInv'
  BY <1>1, <1>2, <1>3 DEF StatusInv, ClosedInv
<1>8. BlankInv'
  BY <1>1, <1>2 DEF StatusInv, BlankInv
<1>9. ReportInv'
  BY <1>1, <1>2, <1>3
  DEF StatusInv, ReportInv, Reported, BlankInv, OpenInv, InWrite
<1> QED BY <1>4, <1>5, <1>6, <1>7, <1>8, <1>9 DEF StatusInv

(* write(): the one operation that gives a span its status.                *)
LEMMA StatusWriteEnd ==
  ASSUME IInv, StatusInv, NEW c \in Conn, WriteEnd(c)
  PROVE  StatusInv'
<1> USE BoundsAssumption, NoneAssumption
<1>1. /\ pc[c] = "writeEnd" /\ pc'[c] = "serve"
      /\ \A d \in Conn : d # c => pc'[d] = pc[d] /\ out'[d] = out[d]
      /\ UNCHANGED <<tracer, reply, nreq, answer>>
      /\ sock[c] \in Fd /\ kernel[sock[c]] = c
      /\ out[c] \in Code \cup {NoCode} /\ reply = "write"
  BY DEF IInv, TypeInv, Typed, WriteEnd, At, Goto, env, SockInv,
         StatusInv, ModeInv, InWrite
<1>2. \A d \in Conn, k \in 0..MaxReads :
        spanState'[<<d, k>>] = IF fd_span_map[sock[c]] = <<d, k>>
                               THEN "ended" ELSE spanState[<<d, k>>]
  BY EndEntryEffect DEF WriteEnd, IInv, TypeInv
<1>3. \A d \in Conn, k \in 0..MaxReads : fd_span_map[sock[c]] = <<d, k>> =>
        /\ d = c /\ spanState[<<d, k>>] = "live"
        /\ k = nreq[c] /\ answer[<<d, k>>] = out[c]
  BY <1>1
  DEF IInv, MapInv, StatusInv, CurrentInv, OpenInv, InRead, InWrite
<1>4. \A d \in Conn, k \in 0..MaxReads :
        IF fd_span_map[sock[c]] = <<d, k>> /\ out[c] # NoCode
        THEN /\ spanCode'[<<d, k>>] = out[c]
             /\ spanStatus'[<<d, k>>] = StatusOf(out[c])
        ELSE /\ spanCode'[<<d, k>>] = spanCode[<<d, k>>]
             /\ spanStatus'[<<d, k>>] = spanStatus[<<d, k>>]
  BY DEF WriteEnd, Entry, Span
<1>5. ModeInv'
  BY <1>1, <1>2, <1>3 DEF StatusInv, ModeInv, InWrite
<1>6. CurrentInv' /\ UnreadInv'
  BY <1>1, <1>2 DEF StatusInv, CurrentInv, UnreadInv, InRead
<1>7. OpenInv'
  <2>1. \A k \in 0..MaxReads : spanState'[<<c, k>>] # "live"
    BY <1>1, <1>2 DEF IInv, LiveInv
  <2> QED BY <1>1, <1>2, <2>1 DEF StatusInv, OpenInv
<1>8. ClosedInv'
  BY <1>1, <1>2, <1>3 DEF StatusInv, ClosedInv
<1>9. BlankInv'
  BY <1>1, <1>2, <1>4 DEF StatusInv, BlankInv
<1>10. ReportInv'
  BY <1>1, <1>2, <1>3, <1>4 DEF StatusInv, ReportInv, Reported, BlankInv
<1> QED BY <1>5, <1>6, <1>7, <1>8, <1>9, <1>10 DEF StatusInv

(* Every step keeps what spans and answers say of each other.              *)
LEMMA StatusNext == IInv /\ StatusInv /\ [Next]_vars => StatusInv'
<1> SUFFICES ASSUME IInv, StatusInv, [Next]_vars PROVE StatusInv'
  OBVIOUS
<1>1. ASSUME NEW c \in Conn, NEW f \in Fd, Accept(c, f) PROVE StatusInv'
  BY <1>1, StatusAccept
<1>2. ASSUME NEW c \in Conn, ReadRequest(c) PROVE StatusInv'
  BY <1>2, StatusReadRequest
<1>3. ASSUME NEW c \in Conn, NEW k \in Code \cup {NoCode}, Respond(c, k)
      PROVE StatusInv'
  BY <1>3, StatusRespond
<1>4. ASSUME NEW c \in Conn,
             \/ CloseCall(c) \/ ReadLock(c) \/ WriteLock(c) \/ CloseLock(c)
             \/ CloseReal(c)
      PROVE StatusInv'
  BY <1>4, QuietStep
  DEF CloseCall, ReadLock, WriteLock, CloseLock, Lock, CloseReal, At, Goto,
      InRead, InWrite, env, app, IInv, TypeInv, Typed
<1>5. ASSUME NEW c \in Conn, ReadStore(c) PROVE StatusInv'
  BY <1>5, StatusReadStore
<1>6. ASSUME NEW c \in Conn, WriteEnd(c) PROVE StatusInv'
  BY <1>6, StatusWriteEnd
<1>7. ASSUME NEW c \in Conn, CloseEnd(c) PROVE StatusInv'
  BY <1>7, StatusCloseEnd
<1>8. ASSUME \/ \E t \in Conn \cup {Main} : Sigint(t)
             \/ Handler
             \/ UNCHANGED vars
      PROVE StatusInv'
  BY <1>8, QuietStep
  DEF Sigint, Handler, HandlerLock, HandlerUnlock, Exit, vars, env, app
<1> QED
  BY <1>1, <1>2, <1>3, <1>4, <1>5, <1>6, <1>7, <1>8 DEF Next, HookStep

(* The status set for a code is Error exactly for 4xx and above.           *)
LEMMA StatusOfCode ==
  ASSUME NEW k \in Code
  PROVE  StatusOf(k) = IF k \in 400..999 THEN "error" ELSE "ok"
  <1>1. k \in 0..999
    BY CodeAssumption
  <1> QED BY <1>1 DEF StatusOf

(* Whatever interleaves, an ended span reports the status of the first     *)
(* write() of the response to its own request, and nothing when there was  *)
(* none or it was not given with write().                                  *)
THEOREM StatusIsFaithful == Spec => []StatusIsOwnResponse
<1>1. IInv /\ StatusInv => StatusIsOwnResponse
  <2> SUFFICES ASSUME IInv, StatusInv, NEW s \in Span, spanState[s] = "ended"
               PROVE  /\ spanCode[s] = Reported(s)
                      /\ spanStatus[s] =
                           IF Reported(s) = NoCode THEN "unset"
                           ELSE IF Reported(s) \in 400..999 THEN "error"
                                                            ELSE "ok"
    BY DEF StatusIsOwnResponse, Reported
  <2>1. PICK c \in Conn, n \in 0..MaxReads : s = <<c, n>>
    BY DEF Span
  <2>2. Reported(s) \in Code \cup {NoCode}
    BY DEF Reported, IInv, TypeInv, Typed
  <2>3. Reported(s) # NoCode =>
          StatusOf(Reported(s)) =
            IF Reported(s) \in 400..999 THEN "error" ELSE "ok"
    BY <2>2, StatusOfCode
  <2> QED BY <2>1, <2>3 DEF StatusInv, ReportInv
<1> QED BY <1>1, StatusInit, StatusNext, Invariance, PTL DEF Spec
-----------------------------------------------------------------------------
(* The hooks implement RequestSpans, step by step.                         *)

Phases == [c \in Conn |-> PhaseOf(pc[c])]

(* The points of a thread, by the phase of its connection.                 *)
LEMMA PhaseIs ==
  /\ PhaseOf("new") = "new" /\ PhaseOf("done") = "closed"
  /\ \A p \in {"serve", "readLock", "readStore", "writeLock", "writeEnd"} :
       PhaseOf(p) = "open"
  /\ \A p \in {"closeLock", "closeEnd", "closeReal"} : PhaseOf(p) = "closing"
  BY DEF PhaseOf

(* A thread's move moves its connection.                                   *)
LEMMA PhaseMoves ==
  ASSUME NEW c \in Conn, NEW q, pc \in [Conn -> PC],
         pc' = [pc EXCEPT ![c] = q]
  PROVE  /\ Phases' = [Phases EXCEPT ![c] = PhaseOf(q)]
         /\ PhaseOf(q) = PhaseOf(pc[c]) => Phases' = Phases
  <1>1. \A d \in Conn : pc'[d] = IF d = c THEN q ELSE pc[d]
    OBVIOUS
  <1>2. Phases' = [d \in Conn |-> PhaseOf(pc'[d])]
    BY DEF Phases
  <1> QED BY <1>1, <1>2 DEF Phases

(* The process starts with no connection, no request and no span.          *)
LEMMA SpansInit == Init => Requests!Init
  <1> SUFFICES ASSUME Init PROVE Requests!Init
    OBVIOUS
  <1>1. tracer \in BOOLEAN /\ (reply = "write") \in BOOLEAN
    BY Zenon DEF Init
  <1>2. Phases = [c \in Conn |-> "new"]
    BY PhaseIs DEF Init, Phases
  <1>3. /\ nreq = [c \in Conn |-> 0] /\ answer = [s \in Span |-> NoReply]
        /\ spanState = [s \in Span |-> "none"]
        /\ spanCode = [s \in Span |-> NoCode]
        /\ spanStatus = [s \in Span |-> "unset"]
    BY Zenon DEF Init
  <1> QED BY <1>1, <1>2, <1>3, Zenon DEF Requests!Init, Requests!Span, Span, Phases

(* accept() opens a connection or ends the process.                        *)
LEMMA AcceptRefines ==
  ASSUME IInv, NEW c \in Conn, NEW f \in Fd, Accept(c, f)
  PROVE  Requests!Accepted(c)
  <1>1. pc \in [Conn -> PC] /\ pc[c] = "new"
    BY DEF IInv, TypeInv, Typed, Accept, At
  <1>2. Phases[c] = "new"
    BY <1>1, PhaseIs DEF Phases
  <1>3. Phases' = Phases \/ Phases' = [Phases EXCEPT ![c] = "open"]
    <2>1. CASE pc' = pc
      BY <2>1 DEF Phases
    <2>2. CASE pc' = [pc EXCEPT ![c] = "serve"]
      BY <1>1, <2>2, PhaseMoves, PhaseIs DEF Phases
    <2> QED BY <2>1, <2>2 DEF Accept, Goto
  <1>4. /\ spanState' = [spanState EXCEPT ![<<c, 0>>] =
                           IF tracer THEN "ended" ELSE @]
        /\ UNCHANGED <<tracer, reply, nreq, answer, spanCode, spanStatus>>
    BY Zenon DEF Accept, env
  <1> QED BY <1>2, <1>3, <1>4, Zenon DEF Requests!Accepted, Phases

(* read() of a request starts its span.                                    *)
LEMMA ReadRequestRefines ==
  ASSUME IInv, StatusInv, NEW c \in Conn, ReadRequest(c)
  PROVE  Requests!Request(c)
  <1>1. pc \in [Conn -> PC] /\ pc[c] = "serve" /\ nreq[c] < MaxReads
    BY DEF IInv, TypeInv, Typed, ReadRequest, At
  <1>2. Phases[c] = "open"
    BY <1>1, PhaseIs DEF Phases
  <1>3. Phases' = Phases
    <2> DEFINE q == IF tracer THEN "readLock" ELSE "serve"
    <2>1. pc' = [pc EXCEPT ![c] = q]
      BY DEF ReadRequest, Goto
    <2>2. PhaseOf(q) = PhaseOf(pc[c])
      BY <1>1, PhaseIs
    <2> HIDE DEF q
    <2> QED BY <1>1, <2>1, <2>2, PhaseMoves
  <1>4. \A i \in 0..MaxReads : spanState[<<c, i>>] = "live" => i = nreq[c]
    BY <1>1 DEF StatusInv, CurrentInv, InRead
  <1>5. /\ nreq' = [nreq EXCEPT ![c] = @ + 1]
        /\ spanState' = [spanState EXCEPT ![<<c, nreq[c] + 1>>] =
                           IF tracer THEN "live" ELSE @]
        /\ UNCHANGED <<tracer, reply, answer, spanCode, spanStatus>>
    BY Zenon DEF ReadRequest, env
  <1> QED BY <1>1, <1>2, <1>3, <1>4, <1>5, Zenon DEF Requests!Request, Phases

(* The first response to a request is its answer, and later ones change    *)
(* nothing.                                                                *)
LEMMA RespondRefines ==
  ASSUME IInv, NEW c \in Conn, NEW k \in Code \cup {NoCode}, Respond(c, k)
  PROVE  Requests!Answer(c, k) \/ UNCHANGED Requests!rsVars
  <1>1. /\ pc \in [Conn -> PC] /\ pc[c] = "serve" /\ nreq[c] > 0
        /\ <<c, nreq[c]>> \in Span /\ answer \in [Span -> Code \cup {NoCode, NoReply}]
    BY DEF IInv, TypeInv, Typed, Respond, At, Span
  <1>2. Phases[c] = "open"
    BY <1>1, PhaseIs DEF Phases
  <1>3. Phases' = Phases
    <2>1. CASE pc' = pc
      BY <2>1 DEF Phases
    <2>2. CASE pc' = [pc EXCEPT ![c] = "writeLock"]
      BY <1>1, <2>2, PhaseMoves, PhaseIs DEF Phases
    <2> QED BY <2>1, <2>2 DEF Respond, Goto
  <1>4. UNCHANGED <<tracer, reply, nreq, spanState, spanCode, spanStatus>>
    BY DEF Respond, env, spans
  <1>5. CASE answer[<<c, nreq[c]>>] = NoReply
    <2>1. answer' = [answer EXCEPT ![<<c, nreq[c]>>] = k]
      BY <1>5 DEF Respond, Current
    <2> QED BY <1>1, <1>2, <1>3, <1>4, <1>5, <2>1, Zenon
            DEF Requests!Answer, Phases
  <1>6. CASE answer[<<c, nreq[c]>>] # NoReply
    <2>1. answer' = answer
      BY <1>1, <1>6 DEF Respond, Current
    <2> QED BY <1>3, <1>4, <2>1, Zenon DEF Requests!rsVars, Phases
  <1> QED BY <1>5, <1>6

(* A thread ends the span it finds under its descriptor, if there is one:  *)
(* that is one End, with the status the span should report.                *)
LEMMA EndRefines ==
  ASSUME IInv, StatusInv, IInv', StatusInv',
         NEW c \in Conn, pc[c] \notin {"new", "done"}, EndEntry(c),
         UNCHANGED <<tracer, reply, nreq, answer>>, Phases' = Phases,
         \A s \in Span : s # Entry(c) =>
           spanCode'[s] = spanCode[s] /\ spanStatus'[s] = spanStatus[s],
         \A i \in 0..MaxReads : Entry(c) = <<c, i>> => Requests!Occasion(c, i)
  PROVE  \/ \E i \in 0..MaxReads : Requests!End(c, i)
         \/ UNCHANGED Requests!rsVars
  <1>1. /\ spanState \in [Span -> {"none", "live", "ended"}]
        /\ spanCode \in [Span -> Code \cup {NoCode}]
        /\ spanCode' \in [Span -> Code \cup {NoCode}]
        /\ spanStatus \in [Span -> {"unset", "ok", "error"}]
        /\ spanStatus' \in [Span -> {"unset", "ok", "error"}]
        /\ answer \in [Span -> Code \cup {NoCode, NoReply}]
        /\ sock[c] \in Fd /\ Entry(c) \in Span \cup {NoSpan}
    BY DEF IInv, TypeInv, Typed, SockInv, Entry
  <1>2. CASE Entry(c) = NoSpan
    <2>1. \A s \in Span : s # Entry(c)
      BY <1>2, NoneAssumption
    <2>2. spanState' = spanState
      BY <1>1, <2>1 DEF EndEntry
    <2>3. spanCode' = spanCode /\ spanStatus' = spanStatus
      BY <1>1, <2>1
    <2> QED BY <2>2, <2>3, Zenon DEF Requests!rsVars, Phases
  <1>3. CASE Entry(c) \in Span
    <2>1. PICK d \in Conn, i \in 0..MaxReads : Entry(c) = <<d, i>>
      BY <1>3 DEF Span
    <2>2. d = c
      BY <1>1, <2>1, EntryIsOwn DEF IInv, Entry
    <2> DEFINE s == <<c, i>>
               k == Reported(s)
    <2>3. s \in Span /\ Entry(c) = s /\ Requests!Occasion(c, i)
      BY <2>1, <2>2 DEF Span
    <2>4. spanState[s] = "live"
      BY <1>1, <2>1, <2>2 DEF IInv, MapInv, Entry
    <2>5. spanState' = [spanState EXCEPT ![s] = "ended"]
      BY <1>1, <2>3 DEF EndEntry
    <2>6. Reported(s)' = k
      BY DEF Reported
    <2>7. /\ spanCode'[s] = k
          /\ spanStatus'[s] = IF k = NoCode THEN "unset" ELSE StatusOf(k)
      BY <1>1, <2>3, <2>5, <2>6 DEF StatusInv, ReportInv
    <2>8. k \in Code \cup {NoCode}
      BY <1>1, <2>3 DEF Reported
    <2>9. spanStatus'[s] = Requests!StatusFor(k)
      BY <2>7, <2>8, StatusOfCode DEF Requests!StatusFor
    <2>10. /\ spanCode' = [spanCode EXCEPT ![s] = spanCode'[s]]
           /\ spanStatus' = [spanStatus EXCEPT ![s] = spanStatus'[s]]
      BY <1>1, <2>3
    <2>11. k = Requests!Reported(s)
      BY DEF Reported, Requests!Reported
    <2>12. /\ spanCode' = [spanCode EXCEPT ![s] = Requests!Reported(s)]
           /\ spanStatus' =
                [spanStatus EXCEPT ![s] = Requests!StatusFor(Requests!Reported(s))]
      <3> HIDE DEF k, s
      <3> QED BY <2>7, <2>9, <2>10, <2>11, Zenon
    <2>13. Requests!End(c, i)
      BY <2>3, <2>4, <2>5, <2>12, Zenon DEF Requests!End, Phases
    <2> QED BY <2>13
  <1> QED BY <1>1, <1>2, <1>3

(* read() ends the span of the request before, which no response it has    *)
(* seen has ended.                                                         *)
LEMMA ReadStoreRefines ==
  ASSUME IInv, StatusInv, IInv', StatusInv', NEW c \in Conn, ReadStore(c)
  PROVE  \/ \E i \in 0..MaxReads : Requests!End(c, i)
         \/ UNCHANGED Requests!rsVars
  <1>1. pc[c] = "readStore" /\ pc \in [Conn -> PC] /\ sock[c] \in Fd
    BY DEF ReadStore, At, IInv, TypeInv, Typed, SockInv
  <1>2. Phases' = Phases
    BY <1>1, PhaseMoves, PhaseIs DEF ReadStore, Goto, Phases
  <1>3. ASSUME NEW i \in 0..MaxReads, Entry(c) = <<c, i>>
        PROVE  Requests!Occasion(c, i)
    <2>1. i < nreq[c] /\ spanState[<<c, i>>] = "live"
      BY <1>1, <1>3 DEF IInv, MapInv, Entry
    <2>2. reply = "write" => answer[<<c, i>>] = NoReply
      BY <1>1, <2>1 DEF StatusInv, OpenInv, InWrite
    <2> QED BY <2>1, <2>2 DEF Requests!Occasion
  <1>4. /\ EndEntry(c)
        /\ UNCHANGED <<tracer, reply, nreq, answer, spanCode, spanStatus>>
    BY DEF ReadStore, env, app
  <1> QED BY <1>1, <1>2, <1>3, <1>4, EndRefines

(* write() ends the span of the request it is the first response to.       *)
LEMMA WriteEndRefines ==
  ASSUME IInv, StatusInv, IInv', StatusInv', NEW c \in Conn, WriteEnd(c)
  PROVE  \/ \E i \in 0..MaxReads : Requests!End(c, i)
         \/ UNCHANGED Requests!rsVars
  <1>1. /\ pc[c] = "writeEnd" /\ pc \in [Conn -> PC] /\ sock[c] \in Fd
        /\ out[c] \in Code \cup {NoCode}
    BY DEF WriteEnd, At, IInv, TypeInv, Typed, SockInv
  <1>2. Phases' = Phases
    BY <1>1, PhaseMoves, PhaseIs DEF WriteEnd, Goto, Phases
  <1>3. ASSUME NEW i \in 0..MaxReads, Entry(c) = <<c, i>>
        PROVE  Requests!Occasion(c, i)
    <2>1. spanState[<<c, i>>] = "live" /\ reply = "write"
      BY <1>1, <1>3 DEF IInv, MapInv, Entry, StatusInv, ModeInv, InWrite
    <2>2. i = nreq[c] /\ answer[<<c, i>>] = out[c]
      BY <1>1, <2>1 DEF StatusInv, CurrentInv, OpenInv, InRead, InWrite
    <2> QED BY <1>1, <2>1, <2>2, NoneAssumption DEF Requests!Occasion
  <1>4. /\ EndEntry(c)
        /\ UNCHANGED <<tracer, reply, nreq, answer>>
        /\ \A s \in Span : s # Entry(c) =>
             spanCode'[s] = spanCode[s] /\ spanStatus'[s] = spanStatus[s]
    BY DEF WriteEnd, env
  <1> QED BY <1>1, <1>2, <1>3, <1>4, EndRefines

(* close() ends the span of a request that is not answered.                *)
LEMMA CloseEndRefines ==
  ASSUME IInv, StatusInv, IInv', StatusInv', NEW c \in Conn, CloseEnd(c)
  PROVE  \/ \E i \in 0..MaxReads : Requests!End(c, i)
         \/ UNCHANGED Requests!rsVars
  <1>1. pc[c] = "closeEnd" /\ pc \in [Conn -> PC] /\ sock[c] \in Fd
    BY DEF CloseEnd, At, IInv, TypeInv, Typed, SockInv
  <1>2. Phases' = Phases /\ Phases[c] = "closing"
    BY <1>1, PhaseMoves, PhaseIs DEF CloseEnd, Goto, Phases
  <1>3. ASSUME NEW i \in 0..MaxReads, Entry(c) = <<c, i>>
        PROVE  Requests!Occasion(c, i)
    <2>1. spanState[<<c, i>>] = "live"
      BY <1>1, <1>3 DEF IInv, MapInv, Entry
    <2>2. i = nreq[c]
      BY <1>1, <2>1 DEF StatusInv, CurrentInv, InRead
    <2> QED BY <1>2, <2>2 DEF Requests!Occasion, Phases
  <1>4. /\ EndEntry(c)
        /\ UNCHANGED <<tracer, reply, nreq, answer, spanCode, spanStatus>>
    BY DEF CloseEnd, env, app
  <1> QED BY <1>1, <1>2, <1>3, <1>4, EndRefines

(* close() hangs up, and has ended the connection's spans when it returns. *)
LEMMA CloseRefines ==
  ASSUME IInv, NEW c \in Conn
  PROVE  /\ CloseCall(c) => Requests!HangUp(c)
         /\ CloseReal(c) => Requests!Closed(c)
  <1>1. pc \in [Conn -> PC]
    BY DEF IInv, TypeInv, Typed
  <1>2. ASSUME CloseCall(c) PROVE Requests!HangUp(c)
    <2>1. pc[c] = "serve" /\ pc' = [pc EXCEPT ![c] = "closeLock"]
      BY <1>2 DEF CloseCall, At, Goto
    <2>2. Phases[c] = "open" /\ Phases' = [Phases EXCEPT ![c] = "closing"]
      BY <1>1, <2>1, PhaseMoves, PhaseIs DEF Phases
    <2>3. UNCHANGED <<tracer, reply, nreq, answer, spanState, spanCode, spanStatus>>
      BY <1>2 DEF CloseCall, env, app, spans
    <2> QED BY <2>2, <2>3, Zenon DEF Requests!HangUp, Phases
  <1>3. ASSUME CloseReal(c) PROVE Requests!Closed(c)
    <2>1. pc[c] = "closeReal" /\ pc' = [pc EXCEPT ![c] = "done"]
      BY <1>3 DEF CloseReal, At, Goto
    <2>2. Phases[c] = "closing" /\ Phases' = [Phases EXCEPT ![c] = "closed"]
      BY <1>1, <2>1, PhaseMoves, PhaseIs DEF Phases
    <2>3. UNCHANGED <<tracer, reply, nreq, answer, spanState, spanCode, spanStatus>>
      BY <1>3 DEF CloseReal, env, spans
    <2>4. \A i \in 0..MaxReads : spanState[<<c, i>>] # "live"
      BY <2>1 DEF IInv, LiveInv
    <2> QED BY <2>2, <2>3, <2>4, Zenon DEF Requests!Closed, Phases
  <1> QED BY <1>2, <1>3

(* The locks, SIGINT and its handler are not visible.                      *)
LEMMA InvisibleSteps ==
  ASSUME IInv,
         \/ \E c \in Conn : ReadLock(c) \/ WriteLock(c) \/ CloseLock(c)
         \/ \E t \in Conn \cup {Main} : Sigint(t)
         \/ Handler \/ UNCHANGED vars
  PROVE  UNCHANGED Requests!rsVars
  <1>1. UNCHANGED <<tracer, reply, nreq, answer, spanState, spanCode, spanStatus>>
    BY DEF ReadLock, WriteLock, CloseLock, Lock, Sigint, Handler, HandlerLock,
           HandlerUnlock, Exit, vars, env, app, spans
  <1>2. Phases' = Phases
    <2>1. ASSUME NEW c \in Conn, ReadLock(c) \/ WriteLock(c) \/ CloseLock(c)
          PROVE  Phases' = Phases
      <3>1. pc \in [Conn -> PC]
        BY DEF IInv, TypeInv, Typed
      <3> QED BY <2>1, <3>1, PhaseMoves, PhaseIs
              DEF ReadLock, WriteLock, CloseLock, Lock, At, Goto
    <2>2. CASE pc' = pc
      BY <2>2 DEF Phases
    <2> QED BY <2>1, <2>2
            DEF Sigint, Handler, HandlerLock, HandlerUnlock, Exit, vars
  <1> QED BY <1>1, <1>2, Zenon DEF Requests!rsVars, Phases

(* IsRequestSpans: whatever descriptors are reused, however the threads    *)
(* interleave and wherever SIGINT strikes, the hooks make one span for     *)
(* each request and end it in one step, on the occasions RequestSpans      *)
(* allows and with the status of the request's own response.               *)
THEOREM SpansRefine == Spec => IsRequestSpans
<1>1. /\ IInv /\ IInv' /\ StatusInv /\ StatusInv' /\ [Next]_vars
      => [Requests!Next]_(Requests!rsVars)
  <2> SUFFICES ASSUME IInv, IInv', StatusInv, StatusInv', [Next]_vars
               PROVE  Requests!Next \/ UNCHANGED Requests!rsVars
    OBVIOUS
  <2>1. ASSUME NEW c \in Conn, NEW f \in Fd, Accept(c, f)
        PROVE  Requests!Next
    BY <2>1, AcceptRefines DEF Requests!Next
  <2>2. ASSUME NEW c \in Conn, ReadRequest(c)
        PROVE  Requests!Next
    BY <2>2, ReadRequestRefines DEF Requests!Next
  <2>3. ASSUME NEW c \in Conn, NEW k \in Code \cup {NoCode}, Respond(c, k)
        PROVE  Requests!Next \/ UNCHANGED Requests!rsVars
    BY <2>3, RespondRefines DEF Requests!Next
  <2>4. ASSUME NEW c \in Conn, CloseCall(c) \/ CloseReal(c)
        PROVE  Requests!Next
    BY <2>4, CloseRefines DEF Requests!Next
  <2>5. ASSUME NEW c \in Conn, ReadStore(c) \/ WriteEnd(c) \/ CloseEnd(c)
        PROVE  Requests!Next \/ UNCHANGED Requests!rsVars
    BY <2>5, ReadStoreRefines, WriteEndRefines, CloseEndRefines
       DEF Requests!Next
  <2>6. CASE \/ \E c \in Conn : ReadLock(c) \/ WriteLock(c) \/ CloseLock(c)
             \/ \E t \in Conn \cup {Main} : Sigint(t)
             \/ Handler \/ UNCHANGED vars
    BY <2>6, InvisibleSteps
  <2> QED BY <2>1, <2>2, <2>3, <2>4, <2>5, <2>6 DEF Next, HookStep
<1> QED
  BY <1>1, SpansInit, StatusInit, StatusNext, Invariance, PTL
  DEF Spec, IsRequestSpans, Requests!Spec
=============================================================================
