SPECIFICATION Spec
CONSTANTS
  Width = 3
  KEY = "KEY"
  TableNames = {"t", "u"}
  NoName = ""
  Missing = Missing
  Files = {"f", "g"}
  KeyBases = {"a", "b"}
  WideNames = {"longcolumn"}
  Sessions <- MCSessions
  MaxQueries = 4
INVARIANTS
  DbTypeOK
  IndexWithinData
  HitsSatisfyTheClause
  ParserNeverReadsAFileBeingWritten
PROPERTIES
  OnlyATakenKeyBreaksAnIndex
  ScanFailsOnlyOnRaggedRows
  OthersSurvive
  AggregatesAreExact
  DuplicateCopiesOnce
  DumpLoadRoundTrip
CHECK_DEADLOCK FALSE
