SPECIFICATION FairSpec
CONSTANTS
  Client = {a1, a2, a3}
  Fd = {4, 5}
  Backlog = 1
  NoClient = NoClient
  NoFd = NoFd
  Main = Main
  Free = Free
INVARIANTS
  TypeOK
  OwnEcho
  CompleteTrace
  ExportsOneAtATime
PROPERTIES
  ClientAnswered
  DescriptorsReturned
CHECK_DEADLOCK FALSE
