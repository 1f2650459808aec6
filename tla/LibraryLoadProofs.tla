-------------------------- MODULE LibraryLoadProofs --------------------------
(***************************************************************************)
(* Theorems about LibraryLoad, for any number of threads: the lazy         *)
(* initialisation, which nothing synchronises, is run by the loading       *)
(* thread alone and is over before anybody can see its result.             *)
(***************************************************************************)
EXTENDS LibraryLoad, TLAPS

Initialising == {"init", "assign"}

(* Threads do not exist before main, and never initialise.                 *)
ThreadInv ==
  \A t \in Thread : /\ stage # "main" => pc[t] = "absent"
                    /\ pc[t] \notin Initialising

(* preload_init's log is the first hook: the flag is up once it has begun. *)
LoaderInv ==
  /\ otel_initialized <=> logged # 0
  /\ ~otel_initialized => pc[Loader] = "idle"
  /\ stage # "ctor101" => otel_initialized /\ pc[Loader] \notin Initialising

(* A hook has looked at tracer only after the initialisation.              *)
TestedInv == tested => otel_initialized /\ pc[Loader] \notin Initialising

(* Where the initialisation stands decides what tracer is, if nothing      *)
(* undoes it.                                                              *)
TracerInv ==
  /\ ~otel_initialized \/ pc[Loader] = "init" => ~tracer
  /\ pc[Loader] = "assign" => endpoint /\ factory = "ok" /\ provider
  /\ StlBuild /\ otel_initialized /\ pc[Loader] \notin Initialising =>
       (tracer <=> (endpoint /\ factory = "ok"))

LoadInv == TypeOK /\ ThreadInv /\ LoaderInv /\ TestedInv /\ TracerInv
-----------------------------------------------------------------------------
(* It holds when the linker has mapped the library.                        *)
LEMMA LoadInvInit == Init => LoadInv
  <1> SUFFICES ASSUME Init PROVE LoadInv
    OBVIOUS
  <1> USE LoadAssumption DEF Init, Runner
  <1>1. TypeOK
    <2>1. pc \in [Runner -> {"absent", "idle", "init", "assign", "test"}]
      OBVIOUS
    <2>2. {constructed, otel_initialized, provider, tracer, tested,
           sigint, crashed} \subseteq BOOLEAN
      BY Zenon
    <2> QED BY <2>1, <2>2 DEF TypeOK
  <1>2. ThreadInv
    BY DEF ThreadInv, Initialising
  <1>3. LoaderInv /\ TestedInv /\ TracerInv
    BY DEF LoaderInv, TestedInv, TracerInv, Initialising
  <1> QED BY <1>1, <1>2, <1>3 DEF LoadInv

(* What a hook's first step does.                                          *)
LEMMA EnterHookInv ==
  ASSUME LoadInv, NEW t \in Runner, EnterHook(t),
         \/ stage = "ctor101" /\ t = Loader /\ logged' = logged + 1 /\ logged < 2
         \/ stage = "main" /\ logged' = logged
  PROVE  LoadInv'
  <1> USE DEF LoadInv, EnterHook, Goto
  <1>1. TypeOK'
    BY DEF TypeOK
  <1>2. ThreadInv'
    BY LoadAssumption DEF TypeOK, ThreadInv, LoaderInv, Runner, Initialising
  <1>3. LoaderInv'
    BY DEF TypeOK, LoaderInv, Runner, Initialising
  <1>4. TestedInv'
    BY DEF TypeOK, TestedInv, LoaderInv, Runner, Initialising
  <1>5. TracerInv'
    BY DEF TypeOK, TracerInv, LoaderInv, Runner, Initialising
  <1> QED BY <1>1, <1>2, <1>3, <1>4, <1>5

(* The body of init_tracer_lazy, and the test of tracer after it.          *)
LEMMA InHookInv ==
  ASSUME LoadInv, NEW t \in Runner, InHook(t)
  PROVE  LoadInv'
  <1> USE DEF LoadInv, Goto
  <1>1. CASE InitCreate(t)
    <2> USE <1>1 DEF InitCreate
    <2>1. TypeOK'
      BY DEF TypeOK
    <2>2. t = Loader
      BY DEF ThreadInv, Runner, Initialising
    <2>3. ThreadInv' /\ LoaderInv' /\ TestedInv'
      BY <2>2, LoadAssumption
      DEF TypeOK, ThreadInv, LoaderInv, TestedInv, Runner, Initialising
    <2>4. TracerInv'
      BY <2>2 DEF TypeOK, TracerInv, Runner, Initialising
    <2> QED BY <2>1, <2>3, <2>4
  <1>2. CASE InitAssign(t)
    <2> USE <1>2 DEF InitAssign
    <2>1. t = Loader
      BY DEF ThreadInv, Runner, Initialising
    <2>2. TypeOK'
      BY <2>1 DEF TypeOK, TracerInv
    <2>3. ThreadInv' /\ LoaderInv' /\ TestedInv'
      BY <2>1, LoadAssumption
      DEF TypeOK, ThreadInv, LoaderInv, TestedInv, Runner, Initialising
    <2>4. TracerInv'
      BY <2>1 DEF TypeOK, TracerInv, LoaderInv, Runner, Initialising
    <2> QED BY <2>2, <2>3, <2>4
  <1>3. CASE TestTracer(t)
    <2> USE <1>3 DEF TestTracer
    <2>1. TypeOK'
      BY DEF TypeOK
    <2>2. ThreadInv' /\ LoaderInv' /\ TracerInv'
      BY DEF TypeOK, ThreadInv, LoaderInv, TracerInv, Runner, Initialising
    <2>3. TestedInv'
      BY DEF TypeOK, ThreadInv, LoaderInv, TestedInv, Runner, Initialising
    <2> QED BY <2>1, <2>2, <2>3
  <1> QED BY <1>1, <1>2, <1>3 DEF InHook

(* The invariant is inductive.                                             *)
LEMMA LoadInvNext == LoadInv /\ [Next]_vars => LoadInv'
  <1> SUFFICES ASSUME LoadInv, [Next]_vars PROVE LoadInv'
    OBVIOUS
  <1>1. CASE PreloadLog
    BY <1>1, EnterHookInv DEF PreloadLog, Runner
  <1>2. CASE PreloadInit \/ SetupSignalHandler
    <2> USE <1>2 DEF PreloadInit, SetupSignalHandler, LoadInv
    <2>1. TypeOK'
      <3>1. CASE PreloadInit
        BY <3>1 DEF TypeOK
      <3>2. CASE SetupSignalHandler
        BY <3>2 DEF TypeOK
      <3> QED BY <3>1, <3>2
    <2>2. ThreadInv' /\ LoaderInv' /\ TestedInv' /\ TracerInv'
      BY DEF ThreadInv, LoaderInv, TestedInv, TracerInv, Initialising
    <2> QED BY <2>1, <2>2
  <1>3. CASE ConstructGlobals
    <2> USE <1>3 DEF ConstructGlobals, LoadInv
    <2>1. TypeOK'
      BY LoadAssumption DEF TypeOK
    <2>2. ThreadInv' /\ LoaderInv' /\ TestedInv'
      BY DEF ThreadInv, LoaderInv, TestedInv, Initialising
    <2>3. TracerInv'
      BY DEF TypeOK, LoaderInv, TracerInv
    <2> QED BY <2>1, <2>2, <2>3
  <1>4. ASSUME NEW t \in Runner, Hook(t) PROVE LoadInv'
    BY <1>4, EnterHookInv DEF Hook
  <1>5. ASSUME NEW t \in Runner, InHook(t) PROVE LoadInv'
    BY <1>5, InHookInv
  <1>6. ASSUME NEW t \in Thread, StartThread(t) PROVE LoadInv'
    <2> USE <1>6, LoadAssumption DEF StartThread, Goto, LoadInv
    <2>1. TypeOK'
      BY DEF TypeOK, Runner
    <2>2. pc'[Loader] = pc[Loader]
      BY DEF TypeOK, Runner
    <2>3. ThreadInv'
      BY DEF TypeOK, ThreadInv, Runner, Initialising
    <2>4. LoaderInv' /\ TestedInv' /\ TracerInv'
      BY <2>2 DEF LoaderInv, TestedInv, TracerInv
    <2> QED BY <2>1, <2>3, <2>4
  <1>7. CASE UNCHANGED vars
    BY <1>7 DEF vars, LoadInv, TypeOK, ThreadInv, LoaderInv, TestedInv, TracerInv
  <1> QED BY <1>1, <1>2, <1>3, <1>4, <1>5, <1>6, <1>7 DEF Next, Load

(* Every reachable state satisfies the invariant.                          *)
THEOREM LoadInvariant == Spec => []LoadInv
  <1> QED BY LoadInvInit, LoadInvNext, PTL DEF Spec
-----------------------------------------------------------------------------
(* The globals of the library and the threads' positions keep their types. *)
THEOREM LoadTypeCorrect == Spec => []TypeOK
  <1>1. LoadInv => TypeOK
    BY DEF LoadInv
  <1> QED BY <1>1, LoadInvariant, PTL

(* No two threads run the body of init_tracer_lazy at the same time,       *)
(* although it tests and sets a plain bool, whichever shared_ptr the SDK   *)
(* has.                                                                    *)
THEOREM NoInitRace == Spec => []InitIsSingleThreaded
  <1>1. LoadInv => InitIsSingleThreaded
    BY DEF LoadInv, ThreadInv, InitIsSingleThreaded, Initialising
  <1> QED BY <1>1, LoadInvariant, PTL

(* With std::shared_ptr, what init_tracer_lazy set up during the           *)
(* constructors is still there when main runs.                             *)
THEOREM TracerSurvivesLoading ==
  ASSUME StlBuild PROVE Spec => []TracingAsConfigured
  <1>1. LoadInv => TracingAsConfigured
    <2> SUFFICES ASSUME LoadInv, stage = "main"
                 PROVE  tracer = (endpoint /\ factory = "ok")
      BY DEF TracingAsConfigured
    <2>1. tracer <=> (endpoint /\ factory = "ok")
      BY StlBuild DEF LoadInv, LoaderInv, TracerInv
    <2>2. tracer \in BOOLEAN
      BY DEF LoadInv, TypeOK
    <2> QED BY <2>1, <2>2, Zenon
  <1> QED BY <1>1, LoadInvariant, PTL

(* With std::shared_ptr, a value of tracer that any hook has looked at is  *)
(* the one it has for good.                                                *)
THEOREM TracerSettles ==
  ASSUME StlBuild PROVE Spec => TracerIsSettled
  <1>1. LoadInv /\ [Next]_vars => [tested => tracer' = tracer]_vars
    <2> SUFFICES ASSUME LoadInv, Next, tested PROVE tracer' = tracer
      OBVIOUS
    <2>1. \A t \in Runner : pc[t] # "assign"
      BY DEF LoadInv, ThreadInv, TestedInv, Runner, Initialising
    <2>2. CASE ConstructGlobals
      <3>1. tracer \in BOOLEAN /\ tracer' = (StlBuild /\ tracer)
        BY <2>2 DEF LoadInv, TypeOK, ConstructGlobals
      <3> QED BY <3>1, StlBuild, Zenon
    <2>3. CASE ~ConstructGlobals
      BY <2>1, <2>3
      DEF Next, Load, PreloadLog, PreloadInit, SetupSignalHandler, Hook,
          EnterHook, InHook, InitCreate, InitAssign, TestTracer, StartThread
    <2> QED BY <2>2, <2>3
  <1> QED BY <1>1, LoadInvariant, PTL DEF Spec, TracerIsSettled
=============================================================================
