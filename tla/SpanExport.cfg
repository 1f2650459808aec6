SPECIFICATION ExportSpec
CONSTANTS
  Producer = {Main, c1, Exiter}
  Main = Main
  Exiter = Exiter
  Worker = Worker
  MaxSize = 2
  MaxAdds = 2
  MaxEnds = 1
  BatchSize = 1
  Null = Null
  Free = Free
  NoOne = NoOne
INVARIANTS
  ExportTypeOK
  FlushedBeforeExit
PROPERTIES
  EndNeverWaits
  ExitUnlessStuck
CHECK_DEADLOCK FALSE
