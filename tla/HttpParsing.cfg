SPECIFICATION Spec
CONSTANTS
  Requests <- MCRequests
  MaxRequests = 2
  Responses <- MCResponses
  NoCode = NoCode
INVARIANTS
  LineAsSent
  RestStartsNone
  ParentAsSent
  WholeHeadTraced
  StatusIsSent
CHECK_DEADLOCK FALSE
