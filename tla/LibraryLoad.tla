---------------------------- MODULE LibraryLoad ----------------------------
(***************************************************************************)
(* How preload_tracer.so comes up: its constructors, the dynamic           *)
(* initialisation of its globals, and init_tracer_lazy, which every hook   *)
(* calls first and which nothing synchronises.                             *)
(*                                                                         *)
(* The dynamic linker runs preload_init (constructor 101), then            *)
(* setup_signal_handler (102), then the default-priority initialisers that *)
(* construct the globals, then main, which may start threads.              *)
(* preload_init logs through preload_log, whose write() is the hook of     *)
(* this very library.                                                      *)
(***************************************************************************)
EXTENDS Naturals

CONSTANTS Thread,   \* threads the program starts
          Loader,   \* the thread that loads the library and runs main
          StlBuild  \* nostd::shared_ptr is std::shared_ptr, which needs no
                    \* initialiser; otherwise it is the SDK's own class,
                    \* whose operator bool is a virtual call

ASSUME LoadAssumption == Loader \notin Thread /\ StlBuild \in BOOLEAN

VARIABLES
  endpoint,          \* OTEL_EXPORTER_OTLP_ENDPOINT is set and not empty
  factory,           \* the exporter's factory: "ok" or "throws"
  stage,             \* how far the loading thread has come
  constructed,       \* the globals' initialisers have run
  otel_initialized,  \* the global flag
  provider,          \* the global is not null
  tracer,            \* the global is not null
  logged,            \* write() calls preload_log has made for preload_init
  pc,                \* where a thread is in a hook
  tested,            \* history: some hook has looked at tracer
  sigint,            \* sigint_handler is installed
  crashed

vars == <<endpoint, factory, stage, constructed, otel_initialized, provider,
          tracer, logged, pc, tested, sigint, crashed>>

Runner == Thread \cup {Loader}

(* The library's globals and every thread's position have their types; a   *)
(* tracer comes with the provider that the flush at exit goes through.     *)
TypeOK ==
  /\ endpoint \in BOOLEAN /\ factory \in {"ok", "throws"}
  /\ stage \in {"ctor101", "ctor102", "statics", "main"}
  /\ {constructed, otel_initialized, provider, tracer, tested,
      sigint, crashed} \subseteq BOOLEAN
  /\ tracer => provider
  /\ logged \in 0..2
  /\ pc \in [Runner -> {"absent", "idle", "init", "assign", "test"}]

(* .bss and constant initialisation: everything is zero.                   *)
Init ==
  /\ endpoint \in BOOLEAN /\ factory \in {"ok", "throws"}
  /\ stage = "ctor101"
  /\ constructed = FALSE /\ otel_initialized = FALSE
  /\ provider = FALSE /\ tracer = FALSE
  /\ logged = 0
  /\ pc = [t \in Runner |-> IF t = Loader THEN "idle" ELSE "absent"]
  /\ tested = FALSE /\ sigint = FALSE /\ crashed = FALSE
-----------------------------------------------------------------------------
Goto(t, p) == pc' = [pc EXCEPT ![t] = p]

(* A hook starts with init_tracer_lazy: the flag is raised before the work *)
(* is done.                                                                *)
EnterHook(t) ==
  /\ pc[t] = "idle" /\ ~crashed
  /\ otel_initialized' = TRUE
  /\ Goto(t, IF otel_initialized THEN "test" ELSE "init")
  /\ UNCHANGED <<endpoint, factory, stage, constructed, provider, tracer,
                 tested, sigint, crashed>>

(* preload_log, from preload_init: the message, then the newline.          *)
PreloadLog ==
  /\ stage = "ctor101" /\ logged < 2
  /\ logged' = logged + 1
  /\ EnterHook(Loader)

Hook(t) ==
  /\ stage = "main"
  /\ EnterHook(t)
  /\ UNCHANGED logged

InitCreateRetries(t) ==
  /\ pc[t] = "init" /\ ~crashed
  /\ IF endpoint /\ factory = "ok"
     THEN /\ provider' = TRUE
          /\ Goto(t, "assign")
     ELSE /\ Goto(t, IF endpoint THEN "init" ELSE "test")
          /\ UNCHANGED provider
  /\ UNCHANGED <<endpoint, factory, stage, constructed, otel_initialized,
                 tracer, logged, tested, sigint, crashed>>

InitCreateLocal(t) ==
  /\ pc[t] = "init" /\ ~crashed
  /\ Goto(t, IF endpoint /\ factory = "ok" THEN "assign" ELSE "test")
  /\ UNCHANGED <<endpoint, factory, stage, constructed, otel_initialized,
                 provider, tracer, logged, tested, sigint, crashed>>

(* Without an endpoint, or when the factory throws, the tracer stays null. *)
InitCreate(t) ==
  /\ pc[t] = "init" /\ ~crashed
  /\ IF endpoint /\ factory = "ok"
     THEN /\ provider' = TRUE
          /\ Goto(t, "assign")
     ELSE /\ Goto(t, "test")
          /\ UNCHANGED provider
  /\ UNCHANGED <<endpoint, factory, stage, constructed, otel_initialized,
                 tracer, logged, tested, sigint, crashed>>

(* tracer = provider->GetTracer(...), which destroys what was there: with  *)
(* the SDK's class that is a virtual call too.                             *)
InitAssign(t) ==
  /\ pc[t] = "assign" /\ ~crashed
  /\ IF StlBuild \/ constructed
     THEN /\ tracer' = TRUE
          /\ Goto(t, "test")
          /\ UNCHANGED crashed
     ELSE /\ crashed' = TRUE
          /\ UNCHANGED <<tracer, pc>>
  /\ UNCHANGED <<endpoint, factory, stage, constructed, otel_initialized,
                 provider, logged, tested, sigint>>

(* "&& tracer" in accept, read and write, after the real call.             *)
TestTracer(t) ==
  /\ pc[t] = "test" /\ ~crashed
  /\ tested' = TRUE
  /\ crashed' = ~(StlBuild \/ constructed)
  /\ Goto(t, "idle")
  /\ UNCHANGED <<endpoint, factory, stage, constructed, otel_initialized,
                 provider, tracer, logged, sigint>>

PreloadInitSilent ==
  /\ stage = "ctor101" /\ pc[Loader] = "idle" /\ ~crashed
  /\ stage' = "ctor102"
  /\ UNCHANGED <<endpoint, factory, constructed, otel_initialized, provider,
                 tracer, logged, pc, tested, sigint, crashed>>

PreloadInit ==
  /\ stage = "ctor101" /\ pc[Loader] = "idle" /\ logged = 2 /\ ~crashed
  /\ stage' = "ctor102"
  /\ UNCHANGED <<endpoint, factory, constructed, otel_initialized, provider,
                 tracer, logged, pc, tested, sigint, crashed>>

SetupSignalHandler ==
  /\ stage = "ctor102"
  /\ sigint' = TRUE
  /\ stage' = "statics"
  /\ UNCHANGED <<endpoint, factory, constructed, otel_initialized, provider,
                 tracer, logged, pc, tested, crashed>>

(* The default initialisers.  In the STL build tracer and provider are     *)
(* constant-initialised and keep what the constructors stored in them.     *)
ConstructGlobalsAnyway ==
  /\ stage = "statics"
  /\ constructed' = TRUE
  /\ tracer' = FALSE
  /\ stage' = "main"
  /\ UNCHANGED <<endpoint, factory, otel_initialized, provider,
                 logged, pc, tested, sigint, crashed>>

ConstructGlobals ==
  /\ stage = "statics"
  /\ constructed' = TRUE
  /\ tracer' = (StlBuild /\ tracer)
  /\ stage' = "main"
  /\ UNCHANGED <<endpoint, factory, otel_initialized, provider,
                 logged, pc, tested, sigint, crashed>>

StartThread(t) ==
  /\ stage = "main" /\ pc[t] = "absent"
  /\ Goto(t, "idle")
  /\ UNCHANGED <<endpoint, factory, stage, constructed, otel_initialized,
                 provider, tracer, logged, tested, sigint, crashed>>

Load == PreloadLog \/ PreloadInit \/ SetupSignalHandler \/ ConstructGlobals

InHook(t) == InitCreate(t) \/ InitAssign(t) \/ TestTracer(t)

Next ==
  \/ Load
  \/ \E t \in Runner : Hook(t) \/ InHook(t)
  \/ \E t \in Thread : StartThread(t)

(* The loading thread runs.                                                *)
Spec == Init /\ [][Next]_vars /\ WF_vars(Load \/ InHook(Loader))
-----------------------------------------------------------------------------
(* Nothing synchronises init_tracer_lazy, and nothing has to: every thread *)
(* that looks at tracer finds the value it will have for good, so no       *)
(* thread sees the library half initialised.                               *)
TracerIsSettled == [][tested => tracer' = tracer]_vars

(* Tracing is off only when the environment or the exporter's factory says *)
(* so: whatever ran before main, what it set up is still there.            *)
TracingAsConfigured ==
  stage = "main" => tracer = (endpoint /\ factory = "ok")

(* Two threads never run the body of init_tracer_lazy at the same time: it *)
(* has been over since before the program could start a thread.            *)
InitIsSingleThreaded ==
  \A t \in Thread : pc[t] \notin {"init", "assign"}

(* Loading the library ends and main runs, whatever becomes of the tracer: *)
(* no endpoint, or an exporter that cannot be built, costs the traces and  *)
(* not the program.                                                        *)
LoadCompletes == <>(stage = "main")

(* "constructor(101) runs later, reducing init-order issues"               *)
(* (preload_tracer.cpp:299): no global is used before it is constructed.   *)
NoUseBeforeConstruction == ~crashed
=============================================================================
