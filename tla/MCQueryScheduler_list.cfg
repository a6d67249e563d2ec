SPECIFICATION Spec
CONSTANTS
  t1 = t1
  t2 = t2
  Tables = {t1, t2}
  NoTable = NoTable
  Input <- ListInput
  MaxQueries = 2
  Workers = {w1, w2}
  Printer = Printer
  MaxFaults = 0
  MaxLoad = 2
INVARIANT
  WritesAfterPrecedingReads
CHECK_DEADLOCK FALSE
