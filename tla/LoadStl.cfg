SPECIFICATION Spec
CONSTANTS
  Thread = {t1, t2, t3}
  Loader = Loader
  StlBuild = TRUE
INVARIANTS
  TypeOK
  TracingAsConfigured
  InitIsSingleThreaded
PROPERTIES
  TracerIsSettled
  LoadCompletes
