SPECIFICATION DepSpec
CONSTANTS
  Tables = {t1, t2}
  NoTable = NoTable
  Input <- MCInput
  MaxQueries = 5
SYMMETRY MCSymmetry
INVARIANTS
  DepTypeOK
  Covered
  EpochReadsOverlap
CHECK_DEADLOCK FALSE
