-------------------------- MODULE DiceServerProofs --------------------------
(***************************************************************************)
(* Proofs about DiceServer: no request kills the server or is answered     *)
(* with a roll its dice does not have, and a slow one is not answered      *)
(* early, for every set of connections and requests and every rand().      *)
(***************************************************************************)
EXTENDS DiceServer, TLAPS

(* Where a thread is, and the types of what it computes with.              *)
ThreadInv ==
  /\ pc \in [Conn -> {"idle", "handle", "asleep", "answered"}]
  /\ req \in [Conn -> SUBSET Requests]
  /\ sides \in [Conn -> Nat]
  /\ sleep \in [Conn -> Nat]
  /\ elapsed \in [Conn -> Nat]
  /\ answer \in [Conn -> [code : Nat, sides : Nat, roll : Nat,
                          history : SUBSET Nat]]

(* A thread that sleeps has the dice of its request in its variable, and   *)
(* the seconds that have passed and those to come make up its delay.       *)
SleepInv ==
  \A c \in Conn : pc[c] = "asleep" => \E r \in Requests :
    /\ req[c] = {r} /\ r.target = "GET /rolldice/slow"
    /\ sides[c] = SidesAsked(r)
    /\ elapsed[c] + sleep[c] >= DelayAsked(r)

DiceInv == ThreadInv /\ SleepInv /\ RollsAsAsked /\ SlowTakesItsTime
-----------------------------------------------------------------------------
(* Whatever the text, a handler works with the number it spells if that is *)
(* in the handler's range, and with the default otherwise.                 *)
LEMMA ParamIsAsked ==
  ASSUME NEW p, NEW range, NEW default, NoNumber \notin range, Spelled(p)
  PROVE  Param(p.text, range, default) = Asked(p, range, default)
  BY Zenon DEF Param, Asked, Spelled

(* The dice of each target is the one its handler takes from the text.     *)
LEMMA SidesOf ==
  ASSUME NEW r \in Requests
  PROVE  /\ r.target = "GET /rolldice/big" =>
              Param(r.sides.text, BigRange, 100) = SidesAsked(r)
         /\ r.target \in {"GET /rolldice", "GET /rolldice/slow"} =>
              Param(r.sides.text, SidesRange, 6) = SidesAsked(r)
         /\ r.target = "POST /rolldice" => SidesAsked(r) = 6
  <1>1. /\ Spelled(r.sides)
        /\ NoNumber \notin BigRange /\ NoNumber \notin SidesRange
    BY RequestAssumption DEF NoNumber, BigRange, SidesRange
  <1>2. ASSUME r.target = "GET /rolldice/big"
        PROVE  Param(r.sides.text, BigRange, 100) = SidesAsked(r)
    <2>1. Param(r.sides.text, BigRange, 100) = Asked(r.sides, BigRange, 100)
      BY <1>1, ParamIsAsked, Zenon
    <2>2. SidesAsked(r) = Asked(r.sides, BigRange, 100)
      BY <1>2, Zenon DEF SidesAsked
    <2> QED BY <2>1, <2>2, Zenon
  <1>3. ASSUME r.target = "GET /rolldice" \/ r.target = "GET /rolldice/slow"
        PROVE  Param(r.sides.text, SidesRange, 6) = SidesAsked(r)
    <2>1. Param(r.sides.text, SidesRange, 6) = Asked(r.sides, SidesRange, 6)
      BY <1>1, ParamIsAsked, Zenon
    <2>2. SidesAsked(r) = Asked(r.sides, SidesRange, 6)
      BY <1>3, Zenon DEF SidesAsked
    <2> QED BY <2>1, <2>2, Zenon
  <1>4. ASSUME r.target = "POST /rolldice"
        PROVE  SidesAsked(r) = 6
    BY <1>4, Zenon DEF SidesAsked
  <1> QED BY <1>2, <1>3, <1>4, Zenon

(* The same for the delay of the slow handler.                             *)
LEMMA DelayOf ==
  ASSUME NEW r \in Requests
  PROVE  Param(r.delay.text, DelayRange, 1) = DelayAsked(r)
  <1>1. Spelled(r.delay) /\ NoNumber \notin DelayRange
    BY RequestAssumption DEF NoNumber, DelayRange
  <1> QED BY <1>1, ParamIsAsked, Zenon DEF DelayAsked

(* The dice of a request has at least one side, whatever it asks for.      *)
LEMMA SidesPositive ==
  ASSUME NEW r
  PROVE  SidesAsked(r) \in Nat \ {0}
  <1>1. /\ Asked(r.sides, BigRange, 100) \in Nat \ {0}
        /\ Asked(r.sides, SidesRange, 6) \in Nat \ {0}
        /\ 6 \in Nat \ {0}
    <2>1. 100 \in Nat \ {0} /\ 6 \in Nat \ {0}
      BY SMT
    <2>2. ASSUME NEW x, x \in BigRange \/ x \in SidesRange
          PROVE  x \in Nat \ {0}
      BY <2>2, SMT DEF BigRange, SidesRange
    <2> QED BY <2>1, <2>2, Zenon DEF Asked
  <1>2. CASE r.target = "GET /rolldice/big"
    BY <1>1, <1>2, Zenon DEF SidesAsked
  <1>3. CASE r.target = "GET /rolldice" \/ r.target = "GET /rolldice/slow"
    BY <1>1, <1>3, Zenon DEF SidesAsked
  <1>4. CASE r.target \notin {"GET /rolldice/big", "GET /rolldice",
                              "GET /rolldice/slow"}
    BY <1>1, <1>4, Zenon DEF SidesAsked
  <1> QED BY <1>2, <1>3, <1>4, Zenon

(* A sleep is the whole delay at its start and over when 0 is left of it.  *)
LEMMA SleepEnds ==
  ASSUME NEW e \in Nat, NEW d \in Nat
  PROVE  e + d >= d /\ (e + 0 >= d => e >= d)
  BY SMT

(* A delay is a number of seconds.                                         *)
LEMMA DelayType ==
  ASSUME NEW r
  PROVE  DelayAsked(r) \in Nat
  BY DEF DelayAsked, Asked, DelayRange

(* rand() % n + 1 is a side of a dice of n sides.                          *)
LEMMA RolledRange ==
  ASSUME NEW x \in Rand, NEW n \in Nat \ {0}
  PROVE  Rolled(x, n) \in 1..n
  <1>1. x \in Nat
    BY DiceAssumption
  <1>2. x % n \in 0..(n - 1)
    BY <1>1, SMT
  <1> QED BY <1>2, SMT DEF Rolled
-----------------------------------------------------------------------------
(* What is on a dice of n sides is a number.                               *)
LEMMA DiceNumbers ==
  ASSUME NEW n \in Nat \ {0}, NEW x \in 1..n, NEW history \in SUBSET (1..n),
         NEW s \in {0, n}
  PROVE  x \in Nat /\ history \in SUBSET Nat /\ s \in Nat
  BY SMT

(* What a handler that rolls does, to be shown for each of them: it        *)
(* answers its request with the dice asked for.                            *)
LEMMA RollStep ==
  ASSUME DiceInv, NEW c \in Conn, NEW r \in Requests, req[c] = {r},
         NEW reported \in BOOLEAN, NEW history \in SUBSET (1..SidesAsked(r)),
         Roll(c, SidesAsked(r), reported, history),
         UNCHANGED <<req, sides, sleep, elapsed>>,
         r.target = "GET /rolldice/slow" =>
           elapsed[c] >= DelayAsked(r)
  PROVE  DiceInv'
  <1> DEFINE n == SidesAsked(r)
  <1>1. n \in Nat \ {0}
    BY SidesPositive
  <1>2. PICK x \in Rand :
          Answer(c, [code |-> 200, sides |-> IF reported THEN n ELSE 0,
                     roll |-> Rolled(x, n), history |-> history])
    BY DEF Roll
  <1> DEFINE shown == IF reported THEN n ELSE 0
             a == [code |-> 200, sides |-> shown, roll |-> Rolled(x, n),
                   history |-> history]
  <1>3. /\ a.roll \in 1..n /\ a.history \subseteq 1..n /\ a.sides \in {0, n}
        /\ a \in [code : Nat, sides : Nat, roll : Nat, history : SUBSET Nat]
    <2>1. Rolled(x, n) \in 1..n
      BY <1>1, RolledRange
    <2>2. shown \in {0, n} /\ history \in SUBSET (1..n)
      BY Zenon
    <2> HIDE DEF n, shown
    <2>3. a.roll = Rolled(x, n) /\ a.history = history /\ a.sides = shown
      OBVIOUS
    <2>4. a \in [code : Nat, sides : Nat, roll : Nat, history : SUBSET Nat]
      <3>1. Rolled(x, n) \in Nat /\ history \in SUBSET Nat /\ shown \in Nat
        BY <1>1, <2>1, <2>2, DiceNumbers, Zenon
      <3>2. 200 \in Nat
        OBVIOUS
      <3> QED BY <3>1, <3>2, Zenon
    <2> HIDE DEF a
    <2> QED BY <2>1, <2>2, <2>3, <2>4, Zenon
  <1>4. answer' = [answer EXCEPT ![c] = a] /\ pc' = [pc EXCEPT ![c] = "answered"]
    BY <1>2 DEF Answer
  <1>5. alive'
    BY <1>1 DEF Roll
  <1> HIDE DEF a, n
  <1>6. ThreadInv'
    BY <1>3, <1>4 DEF DiceInv, ThreadInv
  <1>7. SleepInv'
    BY <1>4 DEF DiceInv, ThreadInv, SleepInv
  <1>8. RollsAsAsked'
    <2> SUFFICES ASSUME NEW d \in Conn, NEW s \in req'[d],
                        pc'[d] = "answered", answer'[d].roll # 0
                 PROVE  /\ answer'[d].roll \in 1..SidesAsked(s)
                        /\ answer'[d].history \subseteq 1..SidesAsked(s)
                        /\ answer'[d].sides \in {0, SidesAsked(s)}
      BY <1>5 DEF RollsAsAsked
    <2>1. CASE d = c
      BY <2>1, <1>3, <1>4 DEF DiceInv, ThreadInv, n
    <2>2. CASE d # c
      BY <2>2, <1>4 DEF DiceInv, ThreadInv, RollsAsAsked
    <2> QED BY <2>1, <2>2
  <1>9. SlowTakesItsTime'
    BY <1>4 DEF DiceInv, ThreadInv, SlowTakesItsTime
  <1> QED BY <1>6, <1>7, <1>8, <1>9 DEF DiceInv

(* A handler that answers without a roll.                                  *)
LEMMA PlainStep ==
  ASSUME DiceInv, NEW c \in Conn, NEW r \in Requests, NEW code \in Nat,
         NEW target, target # "GET /rolldice/slow", Plain(c, target, r, code)
  PROVE  DiceInv'
  <1> DEFINE a == [None EXCEPT !.code = code]
  <1>1. /\ a.roll = 0
        /\ a \in [code : Nat, sides : Nat, roll : Nat, history : SUBSET Nat]
    BY DEF None
  <1>2. /\ answer' = [answer EXCEPT ![c] = a]
        /\ pc' = [pc EXCEPT ![c] = "answered"]
        /\ UNCHANGED <<req, sides, sleep, elapsed, alive>>
        /\ req[c] = {r} /\ r.target # "GET /rolldice/slow"
    BY DEF Plain, Handle, Answer
  <1> HIDE DEF a
  <1>3. ThreadInv'
    BY <1>1, <1>2 DEF DiceInv, ThreadInv
  <1>4. SleepInv'
    BY <1>2 DEF DiceInv, ThreadInv, SleepInv
  <1>5. RollsAsAsked'
    BY <1>1, <1>2 DEF DiceInv, ThreadInv, RollsAsAsked
  <1>6. SlowTakesItsTime'
    BY <1>2 DEF DiceInv, ThreadInv, SlowTakesItsTime
  <1> QED BY <1>3, <1>4, <1>5, <1>6 DEF DiceInv

(* The handler of "GET /rolldice/slow" up to its sleep_for.                *)
LEMMA SlowStep ==
  ASSUME DiceInv, NEW c \in Conn, NEW r \in Requests, RolldiceSlow(c, r)
  PROVE  DiceInv'
  <1> r.target = "GET /rolldice/slow" /\ req[c] = {r}
    BY DEF RolldiceSlow, Handle
  <1>1. Param(r.sides.text, SidesRange, 6) = SidesAsked(r)
    BY SidesOf
  <1>2. /\ Param(r.delay.text, DelayRange, 1) = DelayAsked(r)
        /\ DelayAsked(r) \in Nat /\ SidesAsked(r) \in Nat
    BY DelayOf, DelayType, SidesPositive
  <1>3. /\ sides' = [sides EXCEPT ![c] = SidesAsked(r)]
        /\ sleep' = [sleep EXCEPT ![c] = DelayAsked(r)]
        /\ pc' = [pc EXCEPT ![c] = "asleep"]
        /\ UNCHANGED <<req, answer, elapsed, alive>>
    BY <1>1, <1>2 DEF RolldiceSlow
  <1>4. ThreadInv'
    BY <1>2, <1>3 DEF DiceInv, ThreadInv
  <1>5. SleepInv'
    <2> SUFFICES ASSUME NEW d \in Conn, pc'[d] = "asleep"
                 PROVE  \E s \in Requests :
                          /\ req'[d] = {s} /\ s.target = "GET /rolldice/slow"
                          /\ sides'[d] = SidesAsked(s)
                          /\ elapsed'[d] + sleep'[d] >= DelayAsked(s)
      BY DEF SleepInv
    <2>1. CASE d = c
      <3>1. /\ req'[c] = {r} /\ sides'[c] = SidesAsked(r)
            /\ elapsed'[c] \in Nat /\ sleep'[c] = DelayAsked(r)
        BY <1>3 DEF DiceInv, ThreadInv
      <3>2. elapsed'[c] + sleep'[c] >= DelayAsked(r)
        BY <3>1, <1>2, SleepEnds, Zenon
      <3> QED BY <2>1, <3>1, <3>2
    <2>2. CASE d # c
      BY <2>2, <1>3 DEF DiceInv, ThreadInv, SleepInv
    <2> QED BY <2>1, <2>2
  <1>6. RollsAsAsked' /\ SlowTakesItsTime'
    BY <1>3 DEF DiceInv, ThreadInv, RollsAsAsked, SlowTakesItsTime
  <1> QED BY <1>4, <1>5, <1>6 DEF DiceInv

(* A second passes: the delay of a thread asleep is still made up, also    *)
(* when the counter of seconds has reached its bound.                      *)
LEMMA TickStep ==
  ASSUME DiceInv, Tick
  PROVE  DiceInv'
  <1>1. ThreadInv'
    BY DEF DiceInv, ThreadInv, Tick
  <1>2. SleepInv'
    <2> SUFFICES ASSUME NEW c \in Conn, NEW r \in Requests, pc[c] = "asleep",
                        elapsed[c] + sleep[c] >= DelayAsked(r)
                 PROVE  elapsed'[c] + sleep'[c] >= DelayAsked(r)
      BY DEF DiceInv, SleepInv, Tick
    <2>1. /\ elapsed[c] \in Nat /\ sleep[c] \in Nat /\ MaxElapsed \in Nat
          /\ DelayAsked(r) <= MaxElapsed
          /\ DelayAsked(r) \in Nat
      BY RequestAssumption, DiceAssumption, DelayType DEF DiceInv, ThreadInv
    <2>2. /\ elapsed'[c] = IF elapsed[c] < MaxElapsed
                           THEN elapsed[c] + 1 ELSE elapsed[c]
          /\ sleep'[c] = IF sleep[c] > 0 THEN sleep[c] - 1 ELSE 0
      BY DEF Tick
    <2> QED BY <2>1, <2>2, SMT
  <1>3. RollsAsAsked' /\ SlowTakesItsTime'
    BY DEF DiceInv, ThreadInv, RollsAsAsked, SlowTakesItsTime, Tick
  <1> QED BY <1>1, <1>2, <1>3 DEF DiceInv
-----------------------------------------------------------------------------
(* Every step of the server keeps the invariant.                           *)
LEMMA DiceInvNext ==
  ASSUME DiceInv, [Next]_vars
  PROVE  DiceInv'
  <1>1. ASSUME NEW c \in Conn, NEW r \in Requests, Receive(c, r)
        PROVE  DiceInv'
    <2>1. ThreadInv'
      BY <1>1 DEF DiceInv, ThreadInv, Receive
    <2>2. SleepInv'
      BY <1>1 DEF DiceInv, ThreadInv, SleepInv, Receive
    <2>3. RollsAsAsked' /\ SlowTakesItsTime'
      BY <1>1 DEF DiceInv, ThreadInv, RollsAsAsked, SlowTakesItsTime, Receive
    <2> QED BY <2>1, <2>2, <2>3 DEF DiceInv
  <1>2. ASSUME NEW c \in Conn, SlowRoll(c)
        PROVE  DiceInv'
    <2>1. PICK r \in Requests :
            /\ req[c] = {r} /\ r.target = "GET /rolldice/slow"
            /\ sides[c] = SidesAsked(r)
            /\ elapsed[c] + sleep[c] >= DelayAsked(r)
      BY <1>2 DEF DiceInv, SleepInv, SlowRoll, At
    <2>2. elapsed[c] >= DelayAsked(r)
      <3>1. /\ elapsed[c] \in Nat /\ DelayAsked(r) \in Nat
            /\ sleep[c] = 0
        BY <1>2, DelayType DEF DiceInv, ThreadInv, SlowRoll
      <3> QED BY <2>1, <3>1, SleepEnds, Zenon
    <2>3. /\ Roll(c, SidesAsked(r), TRUE, {})
          /\ UNCHANGED <<req, sides, sleep, elapsed>>
      BY <2>1, <1>2 DEF SlowRoll
    <2> QED BY <2>1, <2>2, <2>3, RollStep
  <1>3. ASSUME NEW c \in Conn, NEW r \in req[c],
               Root(c, r) \/ RolldiceError(c, r) \/ NoRoute(c, r)
        PROVE  DiceInv'
    <2>1. r \in Requests
      BY DEF DiceInv, ThreadInv
    <2>2. CASE Root(c, r)
      BY <2>1, <2>2, PlainStep DEF Root
    <2> 500 \in Nat /\ 404 \in Nat
      BY SMT
    <2>3. CASE RolldiceError(c, r)
      BY <2>1, <2>3, PlainStep DEF RolldiceError
    <2>4. CASE NoRoute(c, r)
      BY <2>1, <2>4, PlainStep DEF NoRoute
    <2> QED BY <1>3, <2>2, <2>3, <2>4
  <1>4. ASSUME NEW c \in Conn, NEW r \in req[c], Rolldice(c, r)
        PROVE  DiceInv'
    <2>1. /\ r \in Requests /\ req[c] = {r} /\ r.target = "GET /rolldice"
          /\ UNCHANGED <<req, sides, sleep, elapsed>>
      BY <1>4 DEF DiceInv, ThreadInv, Rolldice, Handle
    <2>2. Param(r.sides.text, SidesRange, 6) = SidesAsked(r)
      BY <2>1, SidesOf
    <2>3. Roll(c, SidesAsked(r), FALSE, {})
      BY <1>4, <2>2 DEF Rolldice
    <2> QED BY <2>1, <2>3, RollStep
  <1>5. ASSUME NEW c \in Conn, NEW r \in req[c], RolldiceSlow(c, r)
        PROVE  DiceInv'
    BY <1>5, SlowStep DEF DiceInv, ThreadInv
  <1>6. ASSUME NEW c \in Conn, NEW r \in req[c], RolldiceBig(c, r)
        PROVE  DiceInv'
    <2>1. /\ r \in Requests /\ req[c] = {r} /\ r.target = "GET /rolldice/big"
          /\ UNCHANGED <<req, sides, sleep, elapsed>>
      BY <1>6 DEF DiceInv, ThreadInv, RolldiceBig, Handle
    <2>2. Param(r.sides.text, BigRange, 100) = SidesAsked(r)
      BY <2>1, SidesOf
    <2>3. PICK S \in SUBSET Rand \ {{}} :
            Roll(c, SidesAsked(r), TRUE, {Rolled(x, SidesAsked(r)) : x \in S})
      BY <1>6, <2>2 DEF RolldiceBig
    <2>4. {Rolled(x, SidesAsked(r)) : x \in S} \in SUBSET (1..SidesAsked(r))
      BY SidesPositive, RolledRange
    <2> QED BY <2>1, <2>3, <2>4, RollStep
  <1>7. ASSUME NEW c \in Conn, NEW r \in req[c], RolldicePost(c, r)
        PROVE  DiceInv'
    <2>1. /\ r \in Requests /\ req[c] = {r} /\ r.target = "POST /rolldice"
          /\ UNCHANGED <<req, sides, sleep, elapsed>>
      BY <1>7 DEF DiceInv, ThreadInv, RolldicePost, Handle
    <2>2. SidesAsked(r) = 6
      BY <2>1, SidesOf
    <2>3. Roll(c, SidesAsked(r), TRUE, {})
      BY <1>7, <2>2 DEF RolldicePost
    <2> QED BY <2>1, <2>3, RollStep
  <1>8. CASE UNCHANGED vars
    BY <1>8 DEF vars, DiceInv, ThreadInv, SleepInv, RollsAsAsked,
                SlowTakesItsTime
  <1> QED BY <1>1, <1>2, <1>3, <1>4, <1>5, <1>6, <1>7, <1>8, TickStep
          DEF Next, Run

(* It holds before the first request.                                      *)
LEMMA DiceInvInit == Init => DiceInv
  BY DEF Init, DiceInv, ThreadInv, SleepInv, RollsAsAsked, SlowTakesItsTime,
         None

(* RollsAsAsked, of roll-dice/main.cpp's handlers: for every set of        *)
(* connections and requests and all numbers rand() may return, no text     *)
(* kills the server and every roll is one of the dice asked for.           *)
THEOREM EveryRollAsAsked == Spec => []RollsAsAsked
  <1>1. DiceInv => RollsAsAsked
    BY DEF DiceInv
  <1> QED BY <1>1, DiceInvInit, DiceInvNext, PTL DEF Spec

(* SlowTakesItsTime, of the handler of /rolldice/slow: the answer comes    *)
(* when the delay asked for, or the default, has passed and not before,    *)
(* however the threads of other connections run and sleep.                 *)
THEOREM EverySlowRequestSleeps == Spec => []SlowTakesItsTime
  <1>1. DiceInv => SlowTakesItsTime
    BY DEF DiceInv
  <1> QED BY <1>1, DiceInvInit, DiceInvNext, PTL DEF Spec
=============================================================================
