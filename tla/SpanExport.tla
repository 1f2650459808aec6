----------------------------- MODULE SpanExport -----------------------------
(***************************************************************************)
(* From the end of a span to its export and the end of the process: the    *)
(* hooks of preload_tracer.cpp end spans into the batch processor's queue  *)
(* (SpanQueue), a worker exports them, and SIGINT flushes and exits while  *)
(* the other threads go on.                                                *)
(*                                                                         *)
(* Main ends its spans in accept(), holding no lock; the other threads     *)
(* theirs in read(), write() or close(), inside fd_span_mutex, so a thread *)
(* that waits for a slot of the queue keeps that mutex.  The handler, and  *)
(* what std::exit runs, go on in the thread that SIGINT interrupted, which *)
(* itself stands still.  The two writes of a log line are one step here.   *)
(*                                                                         *)
(* The worker and ForceFlush are the SDK's, of which the repository has    *)
(* only the declarations (batch_span_processor.h): what they do is taken   *)
(* from these and from how preload_tracer.cpp uses them.                   *)
(***************************************************************************)
EXTENDS SpanQueue

CONSTANTS Main,      \* the accepting thread, one of the producers
          Exiter,    \* the exit path, a producer when it destroys fd_span_map
          Worker,    \* worker_thread_ of the batch processor
          BatchSize, \* max_export_batch_size
          MaxEnds,   \* bound: spans a thread other than Main ends
          Free, NoOne

ASSUME ExportAssumption ==
  /\ {Main, Exiter} \subseteq Producer /\ Main # Exiter
  /\ {Worker, Free, NoOne} \cap Producer = {} /\ Worker # NoOne
  /\ BatchSize \in 1..MaxSize /\ MaxEnds \in 0..MaxAdds

VARIABLES
  fd_span_mutex, \* its holder; the handler's use of it is a single step
  hook,          \* a thread's critical section: "out", "in" or "ended"
  wpc,           \* the worker: "wait", "consume" or "export"
  flush,         \* ForceFlush: "none", "asked", "serving" or "done"
  exported,      \* spans the exporter has dealt with
  victim,        \* the thread SIGINT interrupted
  exit,          \* where sigint_handler and std::exit are
  mark           \* history: spans accepted when SIGINT came

outer == <<fd_span_mutex, hook, wpc, flush, exported, victim, exit,
           mark>>
exportVars == <<vars, outer>>

(* sigint_handler logs and flushes; std::exit runs preload_cleanup, which  *)
(* logs, flushes and logs, and then the destructors of fd_span_map and of  *)
(* the last reference to the provider.                                     *)
Stages == <<"log", "flush", "log", "flush", "log", "map", "provider", "gone",
            "crashed">>
Stage == IF exit = 0 THEN "none" ELSE Stages[exit]
Over  == Stage \in {"gone", "crashed"}

(* The composed state has its types.                                       *)
ExportTypeOK ==
  /\ TypeOK
  /\ fd_span_mutex \in Producer \cup {Free}
  /\ hook \in [Producer -> {"out", "in", "ended"}]
  /\ wpc \in {"wait", "consume", "export"}
  /\ flush \in {"none", "asked", "serving", "done"}
  /\ exported \in Nat
  /\ victim \in Producer \cup {Worker, NoOne}
  /\ exit \in 0..Len(Stages) /\ mark \in Nat

ExportInit ==
  /\ Init
  /\ fd_span_mutex = Free
  /\ hook = [p \in Producer |-> "out"]
  /\ wpc = "wait" /\ flush = "none" /\ exported = 0
  /\ victim = NoOne /\ exit = 0 /\ mark = 0
-----------------------------------------------------------------------------
(* The threads of the program.                                             *)

Runs(t) == victim # t /\ ~Over
MapAlive == Stage \notin {"map", "provider"}

(* read(), write() or close() takes the mutex and finds a span to end.     *)
LockHook(p) ==
  /\ p \notin {Main, Exiter} /\ Runs(p) /\ MapAlive
  /\ hook[p] = "out" /\ nadd[p] < MaxEnds
  /\ fd_span_mutex = Free
  /\ fd_span_mutex' = p
  /\ hook' = [hook EXCEPT ![p] = "in"]
  /\ UNCHANGED <<vars, wpc, flush, exported, victim, exit, mark>>

(* span->End(), or the span's last reference dropped.                      *)
EndSpan(p) ==
  /\ p # Exiter /\ Runs(p) /\ Stage # "provider"
  /\ p # Main => hook[p] = "in"
  /\ CallAdd(p)
  /\ hook' = [hook EXCEPT ![p] = IF p = Main THEN "out" ELSE "ended"]
  /\ UNCHANGED <<fd_span_mutex, wpc, flush, exported, victim, exit,
                 mark>>

AddStep(p) ==
  /\ Runs(p)
  /\ Add(p)
  /\ UNCHANGED outer

UnlockForgotten(p) ==
  /\ Runs(p) /\ hook[p] = "ended" /\ pc[p] = "idle"
  /\ hook' = [hook EXCEPT ![p] = "out"]
  /\ UNCHANGED <<vars, fd_span_mutex, wpc, flush, exported, victim,
                 exit, mark>>

UnlockHook(p) ==
  /\ Runs(p) /\ hook[p] = "ended" /\ pc[p] = "idle"
  /\ hook' = [hook EXCEPT ![p] = "out"]
  /\ fd_span_mutex' = Free
  /\ UNCHANGED <<vars, wpc, flush, exported, victim, exit, mark>>

(* A hook that runs while the map, the tracer or the provider is being     *)
(* destroyed or has been: it may do no harm (no step) or crash.            *)
UseDestroyed(p) ==
  /\ p # Exiter /\ Runs(p)
  /\ Stage = "provider" \/ (Stage = "map" /\ p # Main)
  /\ exit' = Len(Stages)
  /\ UNCHANGED <<vars, fd_span_mutex, hook, wpc, flush, exported,
                 victim, mark>>
-----------------------------------------------------------------------------
(* The worker.                                                             *)

Size == head_ - tail_

(* A round of the worker, by its timer or because it was woken: all of the *)
(* queue for a flush, otherwise at most a batch.                           *)
WorkerStart ==
  /\ Runs(Worker) /\ wpc = "wait" /\ Size > 0
  /\ CallConsume(IF flush # "asked" /\ BatchSize < Size THEN BatchSize
                                                        ELSE Size)
  /\ flush' = IF flush = "asked" THEN "serving" ELSE flush
  /\ wpc' = "consume"
  /\ UNCHANGED <<fd_span_mutex, hook, exported, victim, exit, mark>>

NothingToFlush ==
  /\ Runs(Worker) /\ wpc = "wait" /\ Size = 0 /\ flush = "asked"
  /\ flush' = "done"
  /\ UNCHANGED <<vars, fd_span_mutex, hook, wpc, exported, victim,
                 exit, mark>>

ConsumeStep ==
  /\ Runs(Worker) /\ wpc = "consume"
  /\ Consume
  /\ wpc' = IF cpc' = "idle" THEN "export" ELSE wpc
  /\ UNCHANGED <<fd_span_mutex, hook, flush, exported, victim,
                 exit, mark>>

(* The exporter returns: the spans have arrived, or the collector could    *)
(* not be reached and they are lost.                                       *)
ExportReturns ==
  /\ Runs(Worker) /\ wpc = "export"
  /\ exported' = Len(taken)
  /\ flush' = IF flush = "serving" THEN "done" ELSE flush
  /\ wpc' = "wait"
  /\ UNCHANGED <<vars, fd_span_mutex, hook, victim, exit, mark>>
-----------------------------------------------------------------------------
(* SIGINT and the exit path.                                               *)

Sigint(t) ==
  /\ victim = NoOne
  /\ victim' = t
  /\ exit' = 1
  /\ mark' = Len(added)
  /\ UNCHANGED <<vars, fd_span_mutex, hook, wpc, flush, exported>>

(* preload_log: a hooked write(), which locks, finds nothing and unlocks.  *)
Log ==
  /\ Stage = "log" /\ fd_span_mutex = Free
  /\ exit' = exit + 1
  /\ UNCHANGED <<vars, fd_span_mutex, hook, wpc, flush, exported,
                 victim, mark>>

FlushSkipped ==
  /\ Stage \in {"flush", "provider"} /\ flush = "none"
  /\ flush' = "done"
  /\ UNCHANGED <<vars, fd_span_mutex, hook, wpc, exported, victim,
                 exit, mark>>

(* ForceFlush, and the Shutdown in the processor's destructor, hand the    *)
(* work to the worker ...                                                  *)
ForceFlush ==
  /\ Stage \in {"flush", "provider"} /\ flush = "none"
  /\ flush' = "asked"
  /\ UNCHANGED <<vars, fd_span_mutex, hook, wpc, exported, victim,
                 exit, mark>>

(* ... and wait for it without a timeout.                                  *)
ForceFlushReturns ==
  /\ Stage \in {"flush", "provider"} /\ flush = "done"
  /\ flush' = "none"
  /\ exit' = exit + 1
  /\ UNCHANGED <<vars, fd_span_mutex, hook, wpc, exported, victim,
                 mark>>

(* ~map ends the spans that are still in it.                               *)
EndLeftover ==
  /\ Stage = "map" /\ nadd[Exiter] < MaxEnds
  /\ CallAdd(Exiter)
  /\ UNCHANGED outer

MapDestroyed ==
  /\ Stage = "map" /\ pc[Exiter] = "idle"
  /\ exit' = exit + 1
  /\ UNCHANGED <<vars, fd_span_mutex, hook, wpc, flush, exported,
                 victim, mark>>
-----------------------------------------------------------------------------
HookStep(p) == (p # Main /\ EndSpan(p)) \/ AddStep(p) \/ UnlockHook(p)
WorkerWakes == WorkerStart \/ NothingToFlush
Handler     == Log \/ ForceFlush \/ ForceFlushReturns \/ MapDestroyed

ExportNext ==
  \/ \E p \in Producer : LockHook(p) \/ HookStep(p) \/ UseDestroyed(p)
  \/ EndSpan(Main) \/ EndLeftover
  \/ WorkerWakes \/ ConsumeStep \/ ExportReturns
  \/ \E t \in (Producer \ {Exiter}) \cup {Worker} : Sigint(t)
  \/ Handler

(* Threads that can run do run, and a weak exchange does not fail for ever *)
(* with equal values.  Without a flush the worker need not start a round,  *)
(* however long its timer is, and the exporter need not return.            *)
ExportFairness ==
  /\ \A p \in Producer :
       /\ WF_exportVars(HookStep(p))
       /\ SF_exportVars(Runs(p) /\ SwapIfNull(p) /\ UNCHANGED outer)
       /\ SF_exportVars(Runs(p) /\ Publish(p) /\ UNCHANGED outer)
  /\ WF_exportVars(flush = "asked" /\ WorkerWakes)
  /\ WF_exportVars(ConsumeStep)
  /\ WF_exportVars(Handler)

ExportSpec == ExportInit /\ [][ExportNext]_exportVars /\ ExportFairness
-----------------------------------------------------------------------------
(* A span that had been accepted when Ctrl+C came has been exported when   *)
(* the process is gone: also if a thread crashes in a hook while or after  *)
(* the globals are destroyed, and also if the worker was in the middle of  *)
(* another batch when it was asked to flush.                               *)
FlushedBeforeExit == Over => exported >= mark

(* Ending a span never waits for the collector: the hook returns (the span *)
(* may be dropped) even if the worker never comes back from an export, or  *)
(* is so slow that it starts none.                                         *)
EndNeverWaits ==
  \A p \in Producer \ {Exiter} :
    (pc[p] # "idle" \/ hook[p] # "out") ~>
      (pc[p] = "idle" /\ hook[p] = "out") \/ victim # NoOne

(* The interrupted thread has its span in the slot that is next to be      *)
(* filled: whoever ends a span now waits for it.                           *)
HalfAdded ==
  /\ victim \in Producer /\ pc[victim] \in {"cas", "undo"}
  /\ SlotOf(head_) = Index(victim)

(* The ways in which the exit path waits for the thread it runs on: for    *)
(* the mutex, for the worker, or for a thread that waits for a slot.       *)
Stuck ==
  \/ fd_span_mutex = victim
  \/ victim = Worker
  \/ HalfAdded /\ (fd_span_mutex # Free \/ Stage = "map")

(* Ctrl+C ends the process, as long as the exporter returns from every     *)
(* export, or the exit path gets stuck in one of these ways for good.      *)
ExitUnlessStuck ==
  []<>(wpc # "export") => <>[](victim # NoOne => Over \/ Stuck)
=============================================================================
