SPECIFICATION Spec
CONSTANTS
  QueryLines <- MCQueryLines
  QueryForms <- MCQueryForms
  MaxLines = 2
  ShellLines <- MCShellLines
  MaxLength = 1
  Width = 3
  Values <- MCValues
  MaxEntries = 1
  Counting = {1, 2}
  N = 1
  Readers = {1, 2}
  BUF_LEN = 6
  MaxDice = 4
  MaxReads = 1
  MaxWrites = 2
INVARIANT
  EveryQueryIsBuilt
CHECK_DEADLOCK FALSE
