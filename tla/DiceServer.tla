----------------------------- MODULE DiceServer -----------------------------
(***************************************************************************)
(* The dice server, roll-dice/main.cpp: its router, its six handlers and   *)
(* what they make of the query parameters.  Oat++ (external) runs the      *)
(* handlers, in one thread per connection.                                 *)
(*                                                                         *)
(* A parameter is a sequence of characters: 0..9 are digits, MINUS and     *)
(* LETTER are not; the empty sequence is a parameter that is empty or not  *)
(* there, which the handlers treat alike.                                  *)
(***************************************************************************)
EXTENDS Integers, Sequences, SequencesExt

CONSTANTS Conn,       \* connections, each with its thread
          Requests,   \* records [target, sides, delay], the last two
                      \* records [text, number]: a text and what it spells
          Rand,       \* numbers rand() returns
          MaxElapsed  \* bound: seconds of sleep counted

ASSUME DiceAssumption == Rand \subseteq Nat /\ MaxElapsed \in Nat

MINUS  == 10
LETTER == 11
NoNumber == -1000000   \* the number of a text that spells none

VARIABLES
  pc,        \* where the thread of a connection is
  req,       \* the request it handles or has answered, as a set
  sides,     \* variable of the slow handler
  sleep,     \* seconds its sleep_for has still to last
  answer,    \* the response: its status, sides reported, roll and history
  elapsed,   \* history: seconds since it went to sleep
  alive      \* the process has not died of a division by zero

vars == <<pc, req, sides, sleep, answer, elapsed, alive>>

None == [code |-> 0, sides |-> 0, roll |-> 0, history |-> {}]

Init ==
  /\ pc = [c \in Conn |-> "idle"]
  /\ req = [c \in Conn |-> {}]
  /\ sides = [c \in Conn |-> 0]
  /\ sleep = [c \in Conn |-> 0]
  /\ answer = [c \in Conn |-> None]
  /\ elapsed = [c \in Conn |-> 0]
  /\ alive = TRUE
-----------------------------------------------------------------------------
(* std::stoi: a sign, then digits, and what follows is ignored; <<>> when  *)
(* it throws.  A number of ten digits or more, zeros in front not counted, *)
(* is out of the range of int or of every range below.                     *)
Stoi(t) ==
  LET s  == IF t # <<>> /\ Head(t) = MINUS THEN Tail(t) ELSE t
      n  == SelectInSeq(s, LAMBDA e : e > 9)
      ds == IF n = 0 THEN s ELSE SubSeq(s, 1, n - 1)
      z  == SelectInSeq(ds, LAMBDA e : e # 0)
      v  == FoldLeft(LAMBDA x, d : 10 * x + d, 0, ds)
  IN IF ds = <<>> \/ (z # 0 /\ Len(ds) - z + 1 > 9) THEN <<>>
     ELSE IF s = t THEN <<v>> ELSE <<-v>>

ParamFromZero(t, range, default) ==
  IF Stoi(t) # <<>> /\ Stoi(t)[1] \in range \cup {0}
  THEN Stoi(t)[1] ELSE default

(* What the handlers accept for "sides" and "delay".                       *)
SidesRange == 1..1000
BigRange   == 1..500
DelayRange == 0..60

(* The handlers' "if (p && p->size() > 0) try { ... } catch (...) {}".     *)
Param(t, range, default) ==
  IF Stoi(t) # <<>> /\ Stoi(t)[1] \in range THEN Stoi(t)[1] ELSE default

Rolled(r, n) == IF n = 0 THEN 0 ELSE (r % n) + 1

(* What the number asked for stands for, given the range and the default.  *)
Asked(p, range, default) == IF p.number \in range THEN p.number ELSE default

DelayAsked(r) == Asked(r.delay, DelayRange, 1)

(* The number of p is what its text spells.                                *)
Spelled(p) ==
  p.number = IF Stoi(p.text) # <<>> THEN Stoi(p.text)[1] ELSE NoNumber

(* Parameters have the numbers they spell, and the counter of seconds      *)
(* reaches every delay asked for.                                          *)
ASSUME RequestAssumption ==
  \A r \in Requests :
    Spelled(r.sides) /\ Spelled(r.delay) /\ DelayAsked(r) <= MaxElapsed
-----------------------------------------------------------------------------
At(c, p) == pc[c] = p /\ alive

(* A request arrives.  One for a connection: the handlers keep nothing     *)
(* from one request to the next.                                           *)
Receive(c, r) ==
  /\ At(c, "idle")
  /\ pc' = [pc EXCEPT ![c] = "handle"]
  /\ req' = [req EXCEPT ![c] = {r}]
  /\ UNCHANGED <<sides, sleep, answer, elapsed, alive>>

(* The router has chosen the handler of r on connection c.                 *)
Handle(c, target, r) == At(c, "handle") /\ req[c] = {r} /\ r.target = target

Answer(c, a) ==
  /\ answer' = [answer EXCEPT ![c] = a]
  /\ pc' = [pc EXCEPT ![c] = "answered"]

(* rand() % n + 1 with n sides; the process dies when n is 0.              *)
Roll(c, n, reported, history) ==
  /\ \E r \in Rand :
       Answer(c, [code |-> 200, sides |-> IF reported THEN n ELSE 0,
                  roll |-> Rolled(r, n), history |-> history])
  /\ alive' = (n # 0)

Plain(c, target, r, code) ==
  /\ Handle(c, target, r)
  /\ Answer(c, [None EXCEPT !.code = code])
  /\ UNCHANGED <<req, sides, sleep, elapsed, alive>>

Root(c, r)          == Plain(c, "GET /", r, 200)
RolldiceError(c, r) == Plain(c, "GET /rolldice/error", r, 500)
NoRoute(c, r)       == Plain(c, "other", r, 404)   \* Oat++'s answer

Rolldice(c, r) ==
  /\ Handle(c, "GET /rolldice", r)
  /\ Roll(c, Param(r.sides.text, SidesRange, 6), FALSE, {})
  /\ UNCHANGED <<req, sides, sleep, elapsed>>

(* The slow handler: parameters, then sleep_for ...                        *)
RolldiceSlow(c, r) ==
  /\ Handle(c, "GET /rolldice/slow", r)
  /\ sides' = [sides EXCEPT ![c] = Param(r.sides.text, SidesRange, 6)]
  /\ sleep' = [sleep EXCEPT ![c] = Param(r.delay.text, DelayRange, 1)]
  /\ pc' = [pc EXCEPT ![c] = "asleep"]
  /\ UNCHANGED <<req, answer, elapsed, alive>>

SlowRollEarly(c) ==
  /\ At(c, "asleep")
  /\ Roll(c, sides[c], TRUE, {})
  /\ sleep' = [sleep EXCEPT ![c] = 0]
  /\ UNCHANGED <<req, sides, elapsed>>

(* ... and the roll when it is over.                                       *)
SlowRoll(c) ==
  /\ At(c, "asleep") /\ sleep[c] = 0
  /\ Roll(c, sides[c], TRUE, {})
  /\ UNCHANGED <<req, sides, sleep, elapsed>>

(* The 200 rolls of the history are the set of their values.               *)
RolldiceBig(c, r) ==
  /\ Handle(c, "GET /rolldice/big", r)
  /\ LET n == Param(r.sides.text, BigRange, 100) IN
       \E S \in SUBSET Rand \ {{}} :
         Roll(c, n, TRUE, {Rolled(x, n) : x \in S})
  /\ UNCHANGED <<req, sides, sleep, elapsed>>

(* The body is not looked at.                                              *)
RolldicePost(c, r) ==
  /\ Handle(c, "POST /rolldice", r)
  /\ Roll(c, 6, TRUE, {})
  /\ UNCHANGED <<req, sides, sleep, elapsed>>

(* A second passes, for everyone.                                          *)
Tick ==
  /\ alive
  /\ sleep' = [c \in Conn |-> IF sleep[c] > 0 THEN sleep[c] - 1 ELSE 0]
  /\ elapsed' = [c \in Conn |->
       IF pc[c] = "asleep" /\ elapsed[c] < MaxElapsed
       THEN elapsed[c] + 1 ELSE elapsed[c]]
  /\ UNCHANGED <<pc, req, sides, answer, alive>>

Run(c) ==
  \/ \E r \in req[c] :
       \/ Root(c, r) \/ RolldiceError(c, r) \/ NoRoute(c, r)
       \/ Rolldice(c, r) \/ RolldiceSlow(c, r) \/ RolldiceBig(c, r)
       \/ RolldicePost(c, r)
  \/ SlowRoll(c)

Next ==
  \/ \E c \in Conn : (\E r \in Requests : Receive(c, r)) \/ Run(c)
  \/ Tick

Spec == Init /\ [][Next]_vars
-----------------------------------------------------------------------------
SidesAsked(r) ==
  CASE r.target = "GET /rolldice/big" -> Asked(r.sides, BigRange, 100)
    [] r.target \in {"GET /rolldice", "GET /rolldice/slow"} ->
         Asked(r.sides, SidesRange, 6)
    [] OTHER -> 6

(* No text a client puts into "sides" kills the server or makes a roll, or *)
(* an entry of the history, that the dice it asked for does not have; what *)
(* the answer reports as "sides" is the dice that was rolled.              *)
RollsAsAsked ==
  /\ alive
  /\ \A c \in Conn : \A r \in req[c] :
       pc[c] = "answered" /\ answer[c].roll # 0 =>
         /\ answer[c].roll \in 1..SidesAsked(r)
         /\ answer[c].history \subseteq 1..SidesAsked(r)
         /\ answer[c].sides \in {0, SidesAsked(r)}

(* "Duration (2s+), latency" (README-roll-dice.md:182): a slow request is  *)
(* not answered before the delay it asked for has passed.                  *)
SlowTakesItsTime ==
  \A c \in Conn : \A r \in req[c] :
    pc[c] = "answered" /\ r.target = "GET /rolldice/slow" =>
      elapsed[c] >= DelayAsked(r)
=============================================================================
