SPECIFICATION Spec
CONSTANTS
  Conn = {c1, c2}
  Requests <- MCRequests
  Rand <- MCRand
  MaxElapsed = 2
INVARIANTS
  RollsAsAsked
  SlowTakesItsTime
