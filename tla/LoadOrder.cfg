SPECIFICATION Spec
CONSTANTS
  Thread = {t1}
  Loader = Loader
  StlBuild = FALSE
INVARIANT NoUseBeforeConstruction
CHECK_DEADLOCK FALSE
