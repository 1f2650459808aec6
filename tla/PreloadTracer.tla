--------------------------- MODULE PreloadTracer ---------------------------
(***************************************************************************)
(* The accept/read/write/close hooks of roll-dice/preload_tracer.cpp and   *)
(* its SIGINT handler, inside a traced server that has been loaded.        *)
(*                                                                         *)
(* A connection is served by a thread of its own (ads_server.cpp:37, and   *)
(* Oat++'s HttpConnectionHandler, main.cpp:99), so a connection names its  *)
(* thread: pc[c] is the point that thread has reached in a hook.  The main *)
(* thread only accepts.  What the threads share is the kernel's descriptor *)
(* table, which reuses numbers, and fd_span_map, which is keyed by them.   *)
(*                                                                         *)
(* A call that changes nothing here is a stuttering step and has no        *)
(* action: accept, read or write returning an error, a read of data that   *)
(* holds no request line, any hook but close while the tracer is null.     *)
(***************************************************************************)
EXTENDS Naturals

CONSTANTS Conn,       \* connections, each with the thread that serves it
          Fd,         \* descriptor numbers the kernel gives to connections
          Code,       \* status codes a response may carry
          MaxReads,   \* bound: request reads per connection (keep-alive)
          MaxReplies, \* bound: response calls per request (head, body, ...)
          NoConn, NoFd, NoSpan, NoCode, NoReply,   \* "none" values
          Main, SigHandler, Free                   \* who may hold the mutex

ASSUME BoundsAssumption == MaxReads \in Nat /\ MaxReplies \in Nat

(* A span is named by the connection and the read that started it; 0 names *)
(* the "HTTP accept" span.                                                 *)
Span == Conn \X (0..MaxReads)

ASSUME NoneAssumption ==
  /\ {NoConn, Main, SigHandler, Free} \cap Conn = {}
  /\ Free # SigHandler /\ Main # NoConn
  /\ NoFd \notin Fd /\ NoSpan \notin Span
  /\ NoCode \notin Code
  /\ NoReply \notin Code \cup {NoCode}

(* The codes parse_response_status accepts.                                *)
ASSUME CodeAssumption == Code \subseteq 0..999

VARIABLES
  tracer,         \* the global: TRUE when it is not null (endpoint was set)
  server_port,    \* OTEL_SERVER_PORT: "number" when std::stol accepts it
  reply,          \* the call the program answers with: "write" or "send"
  kernel,         \* descriptor table: the connection open at each number
  sock,           \* client_socket of the thread that serves a connection
  pc,             \* where that thread is
  nreq,           \* request reads it has made
  nrep,           \* response calls it has made since the last of them
  out,            \* status parse_response_status finds in a write under way
  fd_span_map,    \* the global map
  fd_span_mutex,  \* holder of the global mutex
  spanState,      \* "none", "live" (started, not ended) or "ended"
  spanCode,       \* http.response.status_code attribute
  spanStatus,     \* status set on the span: "unset", "ok" or "error"
  answer,         \* history: status of the first response to a request
  victim,         \* thread SIGINT interrupted
  logged,         \* log writes the handler and the exit path have made
  exited          \* the process is gone

env    == <<tracer, server_port, reply>>
app    == <<kernel, sock, nreq, nrep, out, answer>>
spans  == <<spanState, spanCode, spanStatus>>
signal == <<victim, logged>>
vars   == <<env, app, pc, fd_span_map, fd_span_mutex, spans, signal, exited>>

InHook == {"readStore", "writeEnd", "closeEnd"}   \* inside a lock_guard
PC == {"new", "serve", "readLock", "writeLock", "closeLock", "closeReal",
       "done"} \cup InHook

(* The library's globals and the program's threads hold values of their    *)
(* types ...                                                               *)
Typed ==
  /\ tracer \in BOOLEAN
  /\ server_port \in {"number", "other"}
  /\ reply \in {"write", "send"}
  /\ kernel \in [Fd -> Conn \cup {NoConn}]
  /\ sock \in [Conn -> Fd \cup {NoFd}]
  /\ pc \in [Conn -> PC]
  /\ nreq \in [Conn -> 0..MaxReads]
  /\ nrep \in [Conn -> 0..MaxReplies]
  /\ out \in [Conn -> Code \cup {NoCode}]
  /\ answer \in [Span -> Code \cup {NoCode, NoReply}]
  /\ fd_span_map \in [Fd -> Span \cup {NoSpan}]
  /\ fd_span_mutex \in Conn \cup {SigHandler, Free}
  /\ spanState \in [Span -> {"none", "live", "ended"}]
  /\ spanCode \in [Span -> Code \cup {NoCode}]
  /\ spanStatus \in [Span -> {"unset", "ok", "error"}]
  /\ victim \in Conn \cup {Main, NoConn}
  /\ logged \in 0..6
  /\ exited \in BOOLEAN

(* ... and whoever is inside a lock_guard has the mutex, so that one       *)
(* thread at a time uses fd_span_map.                                      *)
TypeOK == Typed /\ \A c \in Conn : pc[c] \in InHook => fd_span_mutex = c

(* What the library's constructors leave to main (see LibraryLoad).        *)
Init ==
  /\ tracer \in BOOLEAN
  /\ server_port \in {"number", "other"}
  /\ reply \in {"write", "send"}
  /\ kernel = [f \in Fd |-> NoConn]
  /\ sock = [c \in Conn |-> NoFd]
  /\ pc = [c \in Conn |-> "new"]
  /\ nreq = [c \in Conn |-> 0]
  /\ nrep = [c \in Conn |-> 0]
  /\ out = [c \in Conn |-> NoCode]
  /\ answer = [s \in Span |-> NoReply]
  /\ fd_span_map = [f \in Fd |-> NoSpan]
  /\ fd_span_mutex = Free
  /\ spanState = [s \in Span |-> "none"]
  /\ spanCode = [s \in Span |-> NoCode]
  /\ spanStatus = [s \in Span |-> "unset"]
  /\ victim = NoConn
  /\ logged = 0
  /\ exited = FALSE
-----------------------------------------------------------------------------
(* A thread takes a step of its own only while no signal frame is on top   *)
(* of it.                                                                  *)
At(c, p) == pc[c] = p /\ victim # c /\ ~exited

Goto(c, p) == pc' = [pc EXCEPT ![c] = p]

LockNotAwaited(c, p, q) ==
  /\ At(c, p)
  /\ fd_span_mutex' = c
  /\ Goto(c, q)
  /\ UNCHANGED <<env, app, fd_span_map, spans, signal, exited>>

Lock(c, p, q) ==
  /\ At(c, p) /\ fd_span_mutex = Free
  /\ fd_span_mutex' = c
  /\ Goto(c, q)
  /\ UNCHANGED <<env, app, fd_span_map, spans, signal, exited>>

Current(c) == <<c, nreq[c]>>
Entry(c)   == fd_span_map[sock[c]]

(* span->End(), or the last reference to a span dropped: its destructor    *)
(* ends it.                                                                *)
EndEntry(c) ==
  spanState' = [s \in Span |-> IF s = Entry(c) THEN "ended" ELSE spanState[s]]

EraseForgotten(c) == UNCHANGED fd_span_map
Erase(c) == fd_span_map' = [fd_span_map EXCEPT ![sock[c]] = NoSpan]

(* accept(): the kernel opens f and, with a tracer, an "HTTP accept" span  *)
(* is started and ended at once; the server hands f to a new thread.  A    *)
(* port that std::stol refuses throws out of the hook: nothing in main     *)
(* catches, the process terminates, and no thread is started.              *)
Accept(c, f) ==
  /\ At(c, "new") /\ victim # Main /\ kernel[f] = NoConn
  /\ spanState' = [spanState EXCEPT ![<<c, 0>>] =
                     IF tracer THEN "ended" ELSE @]
  /\ kernel' = [kernel EXCEPT ![f] = c]
  /\ IF tracer /\ server_port = "other"
     THEN /\ exited' = TRUE
          /\ UNCHANGED <<sock, pc>>
     ELSE /\ sock' = [sock EXCEPT ![c] = f]
          /\ Goto(c, "serve")
          /\ UNCHANGED exited
  /\ UNCHANGED <<env, nreq, nrep, out, answer, fd_span_map, fd_span_mutex,
                 spanCode, spanStatus, signal>>

(* read() returned data that starts with a request line: the span starts   *)
(* before the lock is taken.                                               *)
ReadRequest(c) ==
  /\ At(c, "serve") /\ nreq[c] < MaxReads
  /\ nreq' = [nreq EXCEPT ![c] = @ + 1]
  /\ nrep' = [nrep EXCEPT ![c] = 0]
  /\ spanState' = [spanState EXCEPT ![<<c, nreq[c] + 1>>] =
                     IF tracer THEN "live" ELSE @]
  /\ Goto(c, IF tracer THEN "readLock" ELSE "serve")
  /\ UNCHANGED <<env, kernel, sock, out, answer, fd_span_map, fd_span_mutex,
                 spanCode, spanStatus, signal, exited>>

ReadLock(c) == Lock(c, "readLock", "readStore")

ReadStoreInsert(c) ==
  /\ At(c, "readStore")
  /\ fd_span_map' = [fd_span_map EXCEPT ![sock[c]] =
                       IF @ = NoSpan THEN Current(c) ELSE @]
  /\ spanState' = [spanState EXCEPT ![Current(c)] =
                     IF Entry(c) = NoSpan THEN @ ELSE "ended"]
  /\ fd_span_mutex' = Free
  /\ Goto(c, "serve")
  /\ UNCHANGED <<env, app, spanCode, spanStatus, signal, exited>>

(* fd_span_map[fd] = ctx: a span that was still there loses its last       *)
(* reference.                                                              *)
ReadStore(c) ==
  /\ At(c, "readStore")
  /\ fd_span_map' = [fd_span_map EXCEPT ![sock[c]] = Current(c)]
  /\ EndEntry(c)
  /\ fd_span_mutex' = Free
  /\ Goto(c, "serve")
  /\ UNCHANGED <<env, app, spanCode, spanStatus, signal, exited>>

(* The program's response call, with what parse_response_status reads in   *)
(* it.  send() is not hooked, and write() looks further only with a tracer.*)
Respond(c, k) ==
  /\ At(c, "serve") /\ nreq[c] > 0 /\ nrep[c] < MaxReplies
  /\ nrep' = [nrep EXCEPT ![c] = @ + 1]
  /\ answer' = [answer EXCEPT ![Current(c)] = IF @ = NoReply THEN k ELSE @]
  /\ IF tracer /\ reply = "write"
     THEN Goto(c, "writeLock") /\ out' = [out EXCEPT ![c] = k]
     ELSE UNCHANGED <<pc, out>>
  /\ UNCHANGED <<env, kernel, sock, nreq, fd_span_map, fd_span_mutex, spans,
                 signal, exited>>

WriteLock(c) == Lock(c, "writeLock", "writeEnd")

StatusOfAbove(k) == IF k > 400 THEN "error" ELSE "ok"
StatusOf(k) == IF k >= 400 THEN "error" ELSE "ok"

(* The critical section of write(): status attributes, End(), erase.       *)
WriteEnd(c) ==
  /\ At(c, "writeEnd")
  /\ LET set(s) == s = Entry(c) /\ out[c] # NoCode IN
     /\ spanCode' = [s \in Span |-> IF set(s) THEN out[c] ELSE spanCode[s]]
     /\ spanStatus' = [s \in Span |-> IF set(s) THEN StatusOf(out[c])
                                                ELSE spanStatus[s]]
  /\ EndEntry(c)
  /\ Erase(c)
  /\ out' = [out EXCEPT ![c] = NoCode]
  /\ fd_span_mutex' = Free
  /\ Goto(c, "serve")
  /\ UNCHANGED <<env, kernel, sock, nreq, nrep, answer, signal, exited>>

(* close(): end_span_for_fd first, whether there is a tracer or not.       *)
CloseCallKeepsSpan(c) ==
  /\ At(c, "serve")
  /\ Goto(c, "closeReal")
  /\ UNCHANGED <<env, app, fd_span_map, fd_span_mutex, spans, signal, exited>>

CloseCall(c) ==
  /\ At(c, "serve")
  /\ Goto(c, "closeLock")
  /\ UNCHANGED <<env, app, fd_span_map, fd_span_mutex, spans, signal, exited>>

CloseLock(c) == Lock(c, "closeLock", "closeEnd")

CloseEndKeepsLock(c) ==
  /\ At(c, "closeEnd")
  /\ EndEntry(c)
  /\ Erase(c)
  /\ Goto(c, "closeReal")
  /\ UNCHANGED <<env, app, fd_span_mutex, spanCode, spanStatus, signal, exited>>

CloseEnd(c) ==
  /\ At(c, "closeEnd")
  /\ EndEntry(c)
  /\ Erase(c)
  /\ fd_span_mutex' = Free
  /\ Goto(c, "closeReal")
  /\ UNCHANGED <<env, app, spanCode, spanStatus, signal, exited>>

(* real_close: from here on the kernel may give the number away again.     *)
CloseReal(c) ==
  /\ At(c, "closeReal")
  /\ kernel' = [kernel EXCEPT ![sock[c]] = NoConn]
  /\ Goto(c, "done")
  /\ UNCHANGED <<env, sock, nreq, nrep, out, answer, fd_span_map,
                 fd_span_mutex, spans, signal, exited>>
-----------------------------------------------------------------------------
(* SIGINT, delivered once to any thread that runs.  sigint_handler and,    *)
(* after std::exit, preload_cleanup write three log lines and their        *)
(* newlines through write(), which is the hook: with a tracer each of the  *)
(* six takes fd_span_mutex, finds no entry for STDERR_FILENO, releases it. *)
Sigint(t) ==
  /\ victim = NoConn /\ ~exited
  /\ t \in Conn => pc[t] \notin {"new", "done"}
  /\ victim' = t
  /\ UNCHANGED <<env, app, pc, fd_span_map, fd_span_mutex, spans, logged,
                 exited>>

LogWrites == IF tracer THEN 6 ELSE 0

HandlerLock ==
  /\ victim # NoConn /\ ~exited /\ logged < LogWrites
  /\ fd_span_mutex = Free
  /\ fd_span_mutex' = SigHandler
  /\ UNCHANGED <<env, app, pc, fd_span_map, spans, signal, exited>>

HandlerUnlock ==
  /\ fd_span_mutex = SigHandler /\ ~exited
  /\ fd_span_mutex' = Free
  /\ logged' = logged + 1
  /\ UNCHANGED <<env, app, pc, fd_span_map, spans, victim, exited>>

Exit ==
  /\ victim # NoConn /\ ~exited /\ logged = LogWrites
  /\ exited' = TRUE
  /\ UNCHANGED <<env, app, pc, fd_span_map, fd_span_mutex, spans, signal>>
-----------------------------------------------------------------------------
Handler == HandlerLock \/ HandlerUnlock \/ Exit

(* The steps by which a thread that has entered a hook leaves it.          *)
HookStep(c) ==
  \/ ReadLock(c) \/ ReadStore(c)
  \/ WriteLock(c) \/ WriteEnd(c)
  \/ CloseLock(c) \/ CloseEnd(c) \/ CloseReal(c)

Next ==
  \/ \E c \in Conn :
       \/ \E f \in Fd : Accept(c, f)
       \/ ReadRequest(c)
       \/ \E k \in Code \cup {NoCode} : Respond(c, k)
       \/ CloseCall(c)
       \/ HookStep(c)
  \/ \E t \in Conn \cup {Main} : Sigint(t)
  \/ Handler

Spec == Init /\ [][Next]_vars

(* Threads that can run do run, and a server closes the connections it has *)
(* accepted (handle_client ends in close).  Nothing makes a client send a  *)
(* request or the user press Ctrl+C.                                       *)
Fairness ==
  /\ \A c \in Conn : WF_vars(HookStep(c)) /\ WF_vars(CloseCall(c))
  /\ WF_vars(Handler)

FairSpec == Spec /\ Fairness
-----------------------------------------------------------------------------
(* fd_span_map never holds the span of a connection that is gone: an entry *)
(* at f is the span of the connection that has f open now, and that span   *)
(* has not been ended (close() erases before real_close gives f away, and  *)
(* write() erases what it ends).                                           *)
MapTracksOpenConnection ==
  \A f \in Fd : fd_span_map[f] # NoSpan =>
    /\ kernel[f] = fd_span_map[f][1]
    /\ spanState[fd_span_map[f]] = "live"

(* No request span is left open, neither in the map nor outside it, once   *)
(* close() has returned: the trace of a closed connection is complete.     *)
NoSpanOutlivesConnection ==
  \A s \in Span : spanState[s] = "live" => pc[s[1]] \notin {"new", "done"}

(* What an ended span says about the response is what the first write() of *)
(* that very request said: no status from another request or connection,   *)
(* none made up, none lost, and Error exactly for 4xx/5xx.                 *)
StatusIsOwnResponse ==
  \A s \in Span : spanState[s] = "ended" =>
    LET k == IF reply = "write" /\ answer[s] # NoReply THEN answer[s]
                                                       ELSE NoCode IN
    /\ spanCode[s] = k
    /\ spanStatus[s] = IF k = NoCode THEN "unset"
                       ELSE IF k \in 400..999 THEN "error" ELSE "ok"

(* A span that has been ended is never touched again (a late second write, *)
(* or close() after write(), must not find it).                            *)
EndedIsFinal ==
  [][\A s \in Span : spanState[s] = "ended" =>
       /\ spanState'[s] = "ended"
       /\ spanCode'[s] = spanCode[s]
       /\ spanStatus'[s] = spanStatus[s]]_vars

(* Where a connection is when its thread is at p.                          *)
PhaseOf(p) ==
  IF p = "new" THEN "new"
  ELSE IF p \in {"closeLock", "closeEnd", "closeReal"} THEN "closing"
  ELSE IF p = "done" THEN "closed" ELSE "open"

Requests == INSTANCE RequestSpans WITH
  tracing <- tracer,
  seen    <- reply = "write",
  phase   <- [c \in Conn |-> PhaseOf(pc[c])],
  asked   <- nreq,
  state   <- spanState,
  code    <- spanCode,
  status  <- spanStatus

(* Descriptors, map, mutex and SIGINT are an implementation: the spans are *)
(* those of RequestSpans, one for each request, ended once, in one step,   *)
(* with the status of that request's own response, and not before the      *)
(* answer, the close or the next request.                                  *)
IsRequestSpans == Requests!Spec

(* The handler waits for a mutex that the very thread it interrupted holds.*)
SelfDeadlock == tracer /\ victim # NoConn /\ fd_span_mutex = victim

(* Every request span that was started is ended, unless the process goes   *)
(* away first or hangs in the SIGINT handler.                              *)
SpanEventuallyEnds ==
  \A s \in Span :
    spanState[s] = "live" ~> \/ spanState[s] = "ended"
                             \/ exited
                             \/ SelfDeadlock

(* Ctrl+C ends the process whatever the other threads are doing in their   *)
(* hooks, as long as the interrupted thread is not inside one of the       *)
(* critical sections.                                                      *)
CtrlCExitsUnlessHolding == victim # NoConn ~> (exited \/ SelfDeadlock)

(* "Handle Ctrl+C" (preload_tracer.cpp:311): a SIGINT ends the process.    *)
CtrlCExits == victim # NoConn ~> exited

(* "Request span starts on first read() and ends on write() (response) or  *)
(* close()" (README-roll-dice.md:201): in particular the span of a request *)
(* that has been answered is ended by nothing else.                        *)
EndsOnWriteOrClose ==
  [][\A s \in Span :
       spanState[s] = "live" /\ answer[s] # NoReply
         /\ spanState'[s] = "ended" => pc[s[1]] \in {"writeEnd", "closeEnd"}
    ]_vars
=============================================================================
