SPECIFICATION Spec
CONSTANTS
  Pids = {1, 2}
  Nice <- MCNice
  NCpu = 2
  Masks <- MCMasks
  MapSize = 2
  CleanEvery = 2
  MaxBirths = 1
  MaxTroubles = 2
INVARIANTS
  LotteryTypeOK
  ExitRestores
  WinnerAlone
  PickIsProportional
PROPERTIES
  OthersUntouched
  VisibleBecomesCandidate
CHECK_DEADLOCK FALSE
