SPECIFICATION Spec
CONSTANTS
  Conn = {c1}
  Fd = {f1}
  Code = {200}
  MaxReads = 2
  MaxReplies = 1
  NoConn = NoConn
  NoFd = NoFd
  NoSpan = NoSpan
  NoCode = NoCode
  NoReply = NoReply
  Main = Main
  SigHandler = SigHandler
  Free = Free
PROPERTY EndsOnWriteOrClose
CHECK_DEADLOCK FALSE
