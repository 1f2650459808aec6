---------------------------- MODULE RequestSpans ----------------------------
(***************************************************************************)
(* What the preload library promises of its spans, with no descriptors, no *)
(* map, no mutex and no signal: every request gets a span of its own when  *)
(* it is read, and the span is ended once, in one step, on one of three    *)
(* occasions (see Occasion), with the status of the first response to that *)
(* very request.  A connection is not closed before its spans are ended.   *)
(***************************************************************************)
EXTENDS Naturals

CONSTANTS Conn,      \* connections
          Code,      \* status codes
          MaxReads,  \* bound: requests per connection
          NoCode, NoReply

Span == Conn \X (0..MaxReads)   \* <<c, 0>> is the span of accept()

VARIABLES
  tracing,  \* spans are made at all
  seen,     \* the library sees the responses
  phase,    \* a connection is "new", "open", "closing" or "closed"
  asked,    \* requests read on a connection
  answer,   \* the first response to a request
  state,    \* a span is not there ("none"), "live" or "ended"
  code, status   \* what it reports

rsVars == <<tracing, seen, phase, asked, answer, state, code, status>>

Init ==
  /\ tracing \in BOOLEAN /\ seen \in BOOLEAN
  /\ phase = [c \in Conn |-> "new"]
  /\ asked = [c \in Conn |-> 0]
  /\ answer = [s \in Span |-> NoReply]
  /\ state = [s \in Span |-> "none"]
  /\ code = [s \in Span |-> NoCode]
  /\ status = [s \in Span |-> "unset"]

(* A connection is accepted, or the process dies of accepting it.          *)
Accepted(c) ==
  /\ phase[c] = "new"
  /\ phase' \in {phase, [phase EXCEPT ![c] = "open"]}
  /\ state' = [state EXCEPT ![<<c, 0>>] = IF tracing THEN "ended" ELSE @]
  /\ UNCHANGED <<tracing, seen, asked, answer, code, status>>

(* A request is read: at most the one before still has a live span.        *)
Request(c) ==
  /\ phase[c] = "open" /\ asked[c] < MaxReads
  /\ \A i \in 0..MaxReads : state[<<c, i>>] = "live" => i = asked[c]
  /\ asked' = [asked EXCEPT ![c] = @ + 1]
  /\ state' = [state EXCEPT ![<<c, asked[c] + 1>>] =
                 IF tracing THEN "live" ELSE @]
  /\ UNCHANGED <<tracing, seen, phase, answer, code, status>>

Answer(c, k) ==
  /\ phase[c] = "open" /\ asked[c] > 0
  /\ answer[<<c, asked[c]>>] = NoReply
  /\ answer' = [answer EXCEPT ![<<c, asked[c]>>] = k]
  /\ UNCHANGED <<tracing, seen, phase, asked, state, code, status>>

HangUp(c) ==
  /\ phase[c] = "open"
  /\ phase' = [phase EXCEPT ![c] = "closing"]
  /\ UNCHANGED <<tracing, seen, asked, answer, state, code, status>>

(* A span may be ended when its request is answered, when its connection   *)
(* is being closed, and when the next request has come although the        *)
(* library has not seen an answer to this one.                             *)
Occasion(c, i) ==
  \/ i = asked[c] /\ seen /\ answer[<<c, i>>] # NoReply
  \/ i = asked[c] /\ phase[c] = "closing"
  \/ i < asked[c] /\ (seen => answer[<<c, i>>] = NoReply)

Reported(s) == IF seen /\ answer[s] # NoReply THEN answer[s] ELSE NoCode

StatusFor(k) ==
  IF k = NoCode THEN "unset" ELSE IF k \in 400..999 THEN "error" ELSE "ok"

End(c, i) ==
  /\ state[<<c, i>>] = "live" /\ Occasion(c, i)
  /\ state' = [state EXCEPT ![<<c, i>>] = "ended"]
  /\ code' = [code EXCEPT ![<<c, i>>] = Reported(<<c, i>>)]
  /\ status' = [status EXCEPT ![<<c, i>>] = StatusFor(Reported(<<c, i>>))]
  /\ UNCHANGED <<tracing, seen, phase, asked, answer>>

Closed(c) ==
  /\ phase[c] = "closing"
  /\ \A i \in 0..MaxReads : state[<<c, i>>] # "live"
  /\ phase' = [phase EXCEPT ![c] = "closed"]
  /\ UNCHANGED <<tracing, seen, asked, answer, state, code, status>>

Next ==
  \E c \in Conn :
    \/ Accepted(c) \/ Request(c) \/ HangUp(c) \/ Closed(c)
    \/ \E k \in Code \cup {NoCode} : Answer(c, k)
    \/ \E i \in 0..MaxReads : End(c, i)

Spec == Init /\ [][Next]_rsVars
=============================================================================
