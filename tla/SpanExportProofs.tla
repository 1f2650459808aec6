-------------------------- MODULE SpanExportProofs --------------------------
(***************************************************************************)
(* What Ctrl+C promises, for any number of threads and spans: the spans    *)
(* that were queued when it came have been exported when the process is    *)
(* gone.  The queue's invariant is SpanQueueProofs', as every step of the  *)
(* composition is one of the queue or leaves it alone.                     *)
(***************************************************************************)
EXTENDS SpanExport, SpanQueueProofs

(* The variables of the exit path and the worker have their types.         *)
OuterInv ==
  /\ wpc \in {"wait", "consume", "export"}
  /\ flush \in {"none", "asked", "serving", "done"}
  /\ exported \in Nat /\ mark \in Nat /\ exit \in 0..9

(* The worker is in Consume when its pc says so, and what it has taken out *)
(* before its present round has been exported.                             *)
WorkerInv ==
  /\ cpc = "idle" <=> wpc # "consume"
  /\ exported <= Len(taken)
  /\ wpc = "wait" => exported = Len(taken)

(* The exit path: SIGINT starts it, and a flush is under way only while it *)
(* waits for one or has been cut off by a crash.                           *)
ExitInv ==
  /\ victim = NoOne <=> exit = 0
  /\ flush # "none" => exit \in {2, 4, 7, 9}
  /\ mark <= head_

(* A round that serves a flush takes out all that was queued when it       *)
(* began, and so all that was queued when SIGINT came.                     *)
FlushInv ==
  /\ flush = "serving" =>
       /\ wpc # "wait"
       /\ cpc \in {"peek", "advance"} => tail_ + n >= mark
       /\ cpc \in {"take", "idle"} => tail_ >= mark
  /\ flush = "done" => exported >= mark
  /\ exit >= 3 => exported >= mark

ExportInv == IInv /\ OuterInv /\ WorkerInv /\ ExitInv /\ FlushInv
-----------------------------------------------------------------------------
(* The stages by their numbers.                                            *)
LEMMA StageIs ==
  ASSUME OuterInv
  PROVE  /\ Stage = "log" => exit \in {1, 3, 5}
         /\ Stage = "flush" <=> exit \in {2, 4}
         /\ Stage = "map" => exit = 6
         /\ Stage = "provider" <=> exit = 7
         /\ Over <=> exit \in {8, 9}
         /\ Len(Stages) = 9
  <1>1. exit \in {0, 1, 2, 3, 4, 5, 6, 7, 8, 9}
    BY DEF OuterInv
  <1> QED BY <1>1 DEF Stage, Stages, Over

(* A producer's step only adds to the queue.                               *)
LEMMA ProducerStep ==
  ASSUME IInv, NEW p \in Producer, CallAdd(p) \/ Add(p)
  PROVE  /\ IInv'
         /\ head_' \in Nat /\ head_' >= head_
         /\ UNCHANGED <<tail_, cpc, n, taken>>
  <1>1. IInv'
    BY QueueNextInv DEF Next
  <1>2. head_' \in Nat /\ head_' >= head_ /\ UNCHANGED <<tail_, cpc, n, taken>>
    BY DEF IInv, TypeOK, CallAdd, Add, ReadTail, ReadHead, Refuse, SwapIfNull,
           SwapFails, Publish, PublishFails, Undo, consumer
  <1> QED BY <1>1, <1>2

(* The parts of the invariant that a producer's step could disturb.        *)
LEMMA ProducerKeeps ==
  ASSUME ExportInv, NEW p \in Producer, CallAdd(p) \/ Add(p),
         UNCHANGED <<wpc, flush, exported, victim, exit, mark>>
  PROVE  ExportInv'
  <1>1. /\ IInv' /\ head_' \in Nat /\ head_' >= head_
        /\ UNCHANGED <<tail_, cpc, n, taken>>
    BY ProducerStep DEF ExportInv
  <1>2. OuterInv' /\ WorkerInv' /\ FlushInv'
    BY <1>1 DEF ExportInv, OuterInv, WorkerInv, FlushInv
  <1>3. ExitInv'
    BY <1>1 DEF ExportInv, OuterInv, ExitInv, IInv, TypeOK
  <1> QED BY <1>1, <1>2, <1>3 DEF ExportInv

(* What the worker has taken out, by its pc.                               *)
LEMMA TakenIs ==
  ASSUME IInv
  PROVE  /\ head_ \in Nat /\ tail_ \in Nat /\ n \in Nat /\ Len(taken) \in Nat
         /\ tail_ <= head_ /\ head_ - tail_ <= MaxSize /\ Len(added) = head_
         /\ cpc = "idle" => Len(taken) = tail_
  BY DEF IInv, TypeOK, CountInv, TakenInv, Pending

(* A round begins.                                                         *)
LEMMA WorkerStartInv ==
  ASSUME ExportInv, WorkerStart
  PROVE  ExportInv'
  <1> DEFINE k == IF flush # "asked" /\ BatchSize < Size THEN BatchSize ELSE Size
  <1>0. k \in 1..MaxSize /\ CallConsume(k)
    BY TakenIs, ExportAssumption, QueueAssumption DEF ExportInv, WorkerStart, Size
  <1>1. IInv'
    BY <1>0, QueueNextInv DEF ExportInv, Next
  <1>2. /\ n' = k /\ cpc' = "peek" /\ UNCHANGED <<head_, tail_, taken>>
        /\ flush = "asked" => k = head_ - tail_
    BY <1>0 DEF CallConsume, Size
  <1> HIDE DEF k
  <1>3. OuterInv' /\ WorkerInv' /\ ExitInv'
    BY <1>2 DEF ExportInv, OuterInv, WorkerInv, ExitInv, WorkerStart
  <1>4. FlushInv'
    <2>1. flush' = "serving" => flush = "asked"
      BY DEF ExportInv, FlushInv, WorkerStart
    <2>2. flush = "asked" => tail_ + k >= mark
      BY <1>2, TakenIs DEF ExportInv, ExitInv, OuterInv
    <2> QED BY <1>2, <2>1, <2>2 DEF ExportInv, FlushInv, WorkerStart
  <1> QED BY <1>1, <1>3, <1>4 DEF ExportInv

(* Consume goes on.                                                        *)
LEMMA ConsumeStepInv ==
  ASSUME ExportInv, ConsumeStep
  PROVE  ExportInv'
  <1>0. Consume /\ wpc = "consume" /\ cpc # "idle"
    BY DEF ConsumeStep, ExportInv, WorkerInv
  <1>1. IInv' /\ IInv
    BY <1>0, QueueNextInv DEF ExportInv, Next
  <1>2. /\ head_' = head_ /\ Len(taken') >= Len(taken) /\ Len(taken') \in Nat
        /\ cpc = "peek" => cpc' = "advance" /\ tail_' = tail_ /\ n' = n
        /\ cpc = "advance" => cpc' = "take" /\ tail_' = tail_ + n
        /\ cpc = "take" => cpc' \in {"take", "idle"} /\ tail_' = tail_
        /\ cpc \in {"peek", "advance", "take"}
    BY <1>0, <1>1 DEF IInv, TypeOK, Consume, Peek, Advance, Take, ReturnConsume
  <1>3. OuterInv' /\ ExitInv'
    BY <1>2 DEF ConsumeStep, ExportInv, OuterInv, ExitInv
  <1>4. WorkerInv'
    BY <1>0, <1>2, TakenIs DEF ConsumeStep, ExportInv, OuterInv, WorkerInv
  <1>5. FlushInv'
    BY <1>0, <1>2 DEF ConsumeStep, ExportInv, FlushInv
  <1> QED BY <1>1, <1>3, <1>4, <1>5 DEF ExportInv

(* The steps that leave the queue alone.                                   *)
LEMMA OuterStepInv ==
  ASSUME ExportInv, UNCHANGED vars,
         \/ \E p \in Producer : LockHook(p) \/ UnlockHook(p) \/ UseDestroyed(p)
         \/ NothingToFlush \/ ExportReturns
         \/ \E t \in (Producer \ {Exiter}) \cup {Worker} : Sigint(t)
         \/ Handler
  PROVE  ExportInv'
  <1>1. IInv' /\ IInv
    BY QueueNextInv DEF ExportInv
  <1>2. UNCHANGED <<head_, tail_, cpc, n, taken, added>>
    BY DEF vars, consumer
  <1> USE DEF ExportInv
  <1>3. CASE \E p \in Producer : LockHook(p) \/ UnlockHook(p)
    <2>1. UNCHANGED <<wpc, flush, exported, victim, exit, mark>>
      BY <1>3 DEF LockHook, UnlockHook
    <2> QED BY <1>1, <1>2, <2>1 DEF OuterInv, WorkerInv, ExitInv, FlushInv
  <1>4. CASE \E p \in Producer : UseDestroyed(p)
    <2>1. /\ exit \in {6, 7} /\ exit' = 9
          /\ UNCHANGED <<wpc, flush, exported, victim, mark>>
      BY <1>4, StageIs DEF UseDestroyed
    <2> QED BY <1>1, <1>2, <2>1 DEF OuterInv, WorkerInv, ExitInv, FlushInv
  <1>5. CASE NothingToFlush
    <2>1. exported >= mark
      BY <1>5, TakenIs DEF NothingToFlush, Size, WorkerInv, ExitInv, OuterInv
    <2> QED BY <1>1, <1>2, <1>5, <2>1
            DEF NothingToFlush, OuterInv, WorkerInv, ExitInv, FlushInv
  <1>6. CASE ExportReturns
    <2>1. exported' = tail_ /\ exported' \in Nat /\ exported' >= exported
      BY <1>6, TakenIs DEF ExportReturns, WorkerInv, OuterInv
    <2>2. OuterInv' /\ WorkerInv' /\ ExitInv'
      BY <1>2, <1>6, <2>1 DEF ExportReturns, OuterInv, WorkerInv, ExitInv
    <2>3. FlushInv'
      BY <1>2, <1>6, <2>1 DEF ExportReturns, OuterInv, WorkerInv, FlushInv
    <2> QED BY <1>1, <2>2, <2>3
  <1>7. CASE \E t \in (Producer \ {Exiter}) \cup {Worker} : Sigint(t)
    <2>1. /\ exit = 0 /\ exit' = 1 /\ flush = "none" /\ mark' = head_
          /\ victim' # NoOne /\ UNCHANGED <<wpc, flush, exported>>
      BY <1>7, TakenIs, ExportAssumption DEF Sigint, ExitInv
    <2> QED BY <1>1, <1>2, <2>1, TakenIs DEF OuterInv, WorkerInv, ExitInv, FlushInv
  <1>8. CASE Handler
    <2>1. CASE Log \/ MapDestroyed
      <3>1. /\ exit \in {1, 3, 5, 6} /\ exit' = exit + 1
            /\ UNCHANGED <<wpc, flush, exported, victim, mark>>
        BY <2>1, StageIs DEF Log, MapDestroyed
      <3> QED BY <1>1, <1>2, <3>1 DEF OuterInv, WorkerInv, ExitInv, FlushInv
    <2>2. CASE ForceFlush
      <3>1. exit \in {2, 4, 7}
        BY <2>2, StageIs DEF ForceFlush
      <3> QED BY <1>1, <1>2, <2>2, <3>1
              DEF ForceFlush, OuterInv, WorkerInv, ExitInv, FlushInv
    <2>3. CASE ForceFlushReturns
      <3>1. exit \in {2, 4, 7}
        BY <2>3, StageIs DEF ForceFlushReturns
      <3> QED BY <1>1, <1>2, <2>3, <3>1
              DEF ForceFlushReturns, OuterInv, WorkerInv, ExitInv, FlushInv
    <2> QED BY <1>8, <2>1, <2>2, <2>3 DEF Handler
  <1> QED BY <1>3, <1>4, <1>5, <1>6, <1>7, <1>8

(* It holds when the process starts.                                       *)
LEMMA ExportInvInit == ExportInit => ExportInv
  <1> SUFFICES ASSUME ExportInit PROVE ExportInv
    OBVIOUS
  <1>1. IInv
    BY InitInv DEF ExportInit
  <1>2. OuterInv /\ WorkerInv /\ ExitInv /\ FlushInv
    BY DEF ExportInit, Init, OuterInv, WorkerInv, ExitInv, FlushInv
  <1> QED BY <1>1, <1>2 DEF ExportInv

(* The invariant is inductive.                                             *)
LEMMA ExportInvNext == ExportInv /\ [ExportNext]_exportVars => ExportInv'
  <1> SUFFICES ASSUME ExportInv, [ExportNext]_exportVars PROVE ExportInv'
    OBVIOUS
  <1>1. ASSUME NEW p \in Producer, EndSpan(p) \/ AddStep(p) PROVE ExportInv'
    BY <1>1, ProducerKeeps DEF EndSpan, AddStep, outer
  <1>2. CASE EndSpan(Main) \/ EndLeftover
    BY <1>2, ProducerKeeps, ExportAssumption DEF EndSpan, EndLeftover, outer
  <1>3. CASE WorkerStart
    BY <1>3, WorkerStartInv
  <1>4. CASE ConsumeStep
    BY <1>4, ConsumeStepInv
  <1>5. CASE \/ \E p \in Producer : LockHook(p) \/ UnlockHook(p) \/ UseDestroyed(p)
             \/ NothingToFlush \/ ExportReturns
             \/ \E t \in (Producer \ {Exiter}) \cup {Worker} : Sigint(t)
             \/ Handler
    <2>1. UNCHANGED vars
      BY <1>5 DEF LockHook, UnlockHook, UseDestroyed, NothingToFlush,
                  ExportReturns, Sigint, Handler, Log, ForceFlush,
                  ForceFlushReturns, MapDestroyed
    <2> QED BY <1>5, <2>1, OuterStepInv
  <1>6. CASE UNCHANGED exportVars
    <2>1. IInv'
      BY <1>6, QueueNextInv DEF ExportInv, exportVars
    <2>2. UNCHANGED <<head_, tail_, cpc, n, taken, wpc, flush, exported, victim,
                      exit, mark>>
      BY <1>6 DEF exportVars, outer, vars, consumer
    <2> QED BY <2>1, <2>2
            DEF ExportInv, OuterInv, WorkerInv, ExitInv, FlushInv
  <1> QED BY <1>1, <1>2, <1>3, <1>4, <1>5, <1>6
          DEF ExportNext, HookStep, WorkerWakes

(* A span that was queued when Ctrl+C came has been exported when the      *)
(* process is gone, whether it exits or a thread crashes while the globals *)
(* are destroyed.                                                          *)
THEOREM NothingQueuedIsLost == ExportSpec => []FlushedBeforeExit
  <1>1. ExportInv => FlushedBeforeExit
    <2> SUFFICES ASSUME ExportInv, Over PROVE exported >= mark
      BY DEF FlushedBeforeExit
    <2> QED BY StageIs DEF ExportInv, FlushInv
  <1> QED BY <1>1, ExportInvInit, ExportInvNext, PTL DEF ExportSpec

(* The hooks' mutex, the critical sections and the victim have their       *)
(* types, whatever the step.                                               *)
LEMMA OuterTypeNext ==
  ASSUME ExportTypeOK, ExportInv', ExportNext
  PROVE  ExportTypeOK'
  <1> DEFINE HookType(m, h, v) ==
               /\ m \in Producer \cup {Free}
               /\ h \in [Producer -> {"out", "in", "ended"}]
               /\ v \in Producer \cup {Worker, NoOne}
  <1>1. HookType(fd_span_mutex, hook, victim)
    BY DEF ExportTypeOK
  <1>2. HookType(fd_span_mutex', hook', victim')
    <2>1. ASSUME NEW p \in Producer,
                 LockHook(p) \/ EndSpan(p) \/ AddStep(p) \/ UnlockHook(p)
                   \/ UseDestroyed(p)
          PROVE  HookType(fd_span_mutex', hook', victim')
      BY <1>1, <2>1 DEF LockHook, EndSpan, AddStep, UnlockHook, UseDestroyed,
                        outer
    <2>2. CASE EndLeftover \/ WorkerWakes \/ ConsumeStep \/ ExportReturns
      BY <1>1, <2>2 DEF EndLeftover, WorkerWakes, WorkerStart, NothingToFlush,
                        ConsumeStep, ExportReturns, outer
    <2>3. CASE \E t \in (Producer \ {Exiter}) \cup {Worker} : Sigint(t)
      BY <1>1, <2>3 DEF Sigint
    <2>4. CASE Handler
      BY <1>1, <2>4 DEF Handler, Log, ForceFlush, ForceFlushReturns,
                        MapDestroyed
    <2> QED BY <2>1, <2>2, <2>3, <2>4, ExportAssumption
            DEF ExportNext, HookStep
  <1>3. exit' \in 0..Len(Stages)
    BY DEF ExportInv, OuterInv, Stages
  <1> QED BY <1>2, <1>3 DEF ExportTypeOK, ExportInv, OuterInv, IInv

(* ExportTypeOK: the worker, the exit path and the hooks keep the types of *)
(* their variables; exit stays among the stages of the exit path.          *)
THEOREM ExportTypeCorrect == ExportSpec => []ExportTypeOK
  <1>1. ExportInit => ExportTypeOK
    <2> SUFFICES ASSUME ExportInit PROVE ExportTypeOK
      OBVIOUS
    <2>1. TypeOK
      BY InitInv DEF ExportInit, IInv
    <2> QED BY <2>1 DEF ExportInit, ExportTypeOK, Stages
  <1>2. ExportTypeOK /\ ExportInv' /\ [ExportNext]_exportVars => ExportTypeOK'
    <2> SUFFICES ASSUME ExportTypeOK, ExportInv', [ExportNext]_exportVars
                 PROVE  ExportTypeOK'
      OBVIOUS
    <2>1. CASE UNCHANGED exportVars
      BY <2>1 DEF ExportTypeOK, ExportInv, IInv, exportVars, outer
    <2> QED BY <2>1, OuterTypeNext
  <1> QED BY <1>1, <1>2, ExportInvInit, ExportInvNext, PTL DEF ExportSpec
-----------------------------------------------------------------------------
(* The composition uses its queue as the queue's own specification allows: *)
(* a worker's round is a Consume of at least one span and at most as many  *)
(* as are queued, and every step is one of the queue or leaves it alone.   *)
LEMMA QueueStep ==
  ASSUME ExportInv, [ExportNext]_exportVars
  PROVE  [Next]_vars
  <1>1. ASSUME NEW p \in Producer, EndSpan(p) \/ AddStep(p) PROVE Next
    BY <1>1 DEF EndSpan, AddStep, Next
  <1>2. CASE EndLeftover
    BY <1>2, ExportAssumption DEF EndLeftover, Next
  <1>3. CASE WorkerStart
    <2> DEFINE k == IF flush # "asked" /\ BatchSize < Size THEN BatchSize
                                                           ELSE Size
    <2>1. k \in 1..MaxSize /\ CallConsume(k)
      BY <1>3, TakenIs, ExportAssumption, QueueAssumption
         DEF ExportInv, WorkerStart, Size
    <2> QED BY <2>1 DEF Next
  <1>4. CASE ConsumeStep
    BY <1>4 DEF ConsumeStep, Next
  <1>5. CASE \/ \E p \in Producer : LockHook(p) \/ UnlockHook(p) \/ UseDestroyed(p)
             \/ NothingToFlush \/ ExportReturns
             \/ \E t \in (Producer \ {Exiter}) \cup {Worker} : Sigint(t)
             \/ Handler
    BY <1>5 DEF LockHook, UnlockHook, UseDestroyed, NothingToFlush,
                ExportReturns, Sigint, Handler, Log, ForceFlush,
                ForceFlushReturns, MapDestroyed
  <1>6. CASE UNCHANGED exportVars
    BY <1>6 DEF exportVars
  <1> QED BY <1>1, <1>2, <1>3, <1>4, <1>5, <1>6, ExportAssumption
          DEF ExportNext, HookStep, WorkerWakes

(* SpanQueue's specification is what the hooks, the worker and the exit    *)
(* path make of the queue, SIGINT included.                                *)
THEOREM ExportUsesQueue == ExportSpec => Spec
  <1>1. ExportInit => Init
    BY DEF ExportInit
  <1>2. ExportInv /\ [ExportNext]_exportVars => [Next]_vars
    BY QueueStep
  <1> QED BY <1>1, <1>2, ExportInvInit, ExportInvNext, PTL DEF ExportSpec, Spec

(* IsBoundedQueue, of the queue inside the running program: threads that   *)
(* end spans, a worker that takes batches and the flushes of the exit path *)
(* see a bounded first-in first-out queue, which hands over each span once *)
(* and in order (Delivery) and holds max_queue_size spans at most.         *)
THEOREM ExportQueueRefinement ==
  ExportSpec => IsBoundedQueue /\ []Delivery /\ []Bounded /\ []OneOwner
  BY ExportUsesQueue, QueueRefinement, DeliveryHolds, BoundedHolds,
     OneOwnerHolds, PTL
=============================================================================
