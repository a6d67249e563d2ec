SPECIFICATION Spec
CONSTANTS
  t1 = t1
  t2 = t2
  Tables = {t1, t2}
  NoTable = NoTable
  Input <- ConflictingInput
  MaxQueries = 3
  Workers = {w1, w2}
  Printer = Printer
  MaxFaults = 0
  MaxLoad = 3
SYMMETRY MCSymmetry
INVARIANTS
  TypeOK
  ConflictOrder
  SerialResults
  NoTaskStranded
  ReturnsComplete
PROPERTY
  RefinesSerialDatabase
CHECK_DEADLOCK FALSE
