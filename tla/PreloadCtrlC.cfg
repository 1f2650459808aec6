SPECIFICATION FairSpec
CONSTANTS
  Conn = {c1, c2}
  Fd = {f1, f2}
  Code = {200}
  MaxReads = 1
  MaxReplies = 1
  NoConn = NoConn
  NoFd = NoFd
  NoSpan = NoSpan
  NoCode = NoCode
  NoReply = NoReply
  Main = Main
  SigHandler = SigHandler
  Free = Free
PROPERTY CtrlCExits
CHECK_DEADLOCK FALSE
