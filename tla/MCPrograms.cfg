SPECIFICATION Spec
CONSTANTS
  QueryLines <- MCQueryLines
  QueryForms <- MCQueryForms
  MaxLines = 2
  ShellLines <- MCShellLines
  MaxLength = 5
  Width = 3
  Values <- MCValues
  MaxEntries = 4
  Counting = {1, 2}
  N = 2
  Readers = {1, 2}
  BUF_LEN = 6
  MaxDice = 4
  MaxReads = 2
  MaxWrites = 2
INVARIANTS
  QueryIsWhatTheLineSays
  ShellRunsWhatTheLineSays
  PreprocessFits
  AllFreedAtThePrompt
  SortKeepsAndOrders
  CountsAreNotLost
  ReadGivesTheDice
CHECK_DEADLOCK FALSE
