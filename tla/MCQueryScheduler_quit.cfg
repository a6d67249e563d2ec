SPECIFICATION FairSpec
CONSTANTS
  t1 = t1
  t2 = t2
  Tables = {t1, t2}
  NoTable = NoTable
  Input <- ShowInput
  MaxQueries = 1
  Workers = {w1, w2}
  Printer = Printer
  MaxFaults = 0
  MaxLoad = 1
PROPERTY
  QuitFlushesAll
CHECK_DEADLOCK FALSE
