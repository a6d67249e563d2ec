SPECIFICATION FairSpec
CONSTANTS
  t1 = t1
  t2 = t2
  Tables = {t1, t2}
  NoTable = NoTable
  Input <- ProgressInput
  MaxQueries = 3
  Workers = {w1, w2}
  Printer = Printer
  MaxFaults = 1
  MaxLoad = 3
PROPERTIES
  TasksGetDone
  BarrierFlushes
  ReturnsOrMissesNotify
CHECK_DEADLOCK FALSE
