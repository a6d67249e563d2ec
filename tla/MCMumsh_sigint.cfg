SPECIFICATION Spec
CONSTANTS
  Dialects = {"sysv"}
  Pipelines <- MCPipelines
  MaxStages = 3
  MaxLines = 2
  MaxTroubles = 2
INVARIANT
  ShellSurvivesCtrlC
CHECK_DEADLOCK FALSE
