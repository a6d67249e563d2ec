SPECIFICATION Spec
CONSTANTS
  t1 = t1
  t2 = t2
  Tables = {t1, t2}
  NoTable = NoTable
  Input <- ShowInput
  MaxQueries = 2
  Workers = {w1, w2}
  Printer = Printer
  MaxFaults = 0
  MaxLoad = 2
INVARIANT
  StdoutInInputOrder
CHECK_DEADLOCK FALSE
