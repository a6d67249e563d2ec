SPECIFICATION Spec
CONSTANTS
  Dialects = {"bsd", "sysv"}
  Pipelines <- MCPipelines
  MaxStages = 3
  MaxLines = 2
  MaxTroubles = 2
INVARIANTS
  MumshTypeOK
  NoChildAtThePrompt
  OnlyAFailedPipeLeaks
  APromptIsShown
PROPERTIES
  PipelinesReturn
CHECK_DEADLOCK FALSE
