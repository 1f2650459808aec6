SPECIFICATION Spec
CONSTANTS
  Conn = {c1, c2}
  Fd = {f1, f2}
  Code = {200, 400}
  MaxReads = 2
  MaxReplies = 2
  NoConn = NoConn
  NoFd = NoFd
  NoSpan = NoSpan
  NoCode = NoCode
  NoReply = NoReply
  Main = Main
  SigHandler = SigHandler
  Free = Free
SYMMETRY Symmetry
INVARIANTS
  TypeOK
  MapTracksOpenConnection
  NoSpanOutlivesConnection
  StatusIsOwnResponse
PROPERTIES
  EndedIsFinal
  IsRequestSpans
CHECK_DEADLOCK FALSE
