SPECIFICATION MCObsSpec
CONSTANTS
  Cmd <- AllCmd
  LocalCmd <- SbLocal
  Byte = {1}
  NoByte = NoByte
  QosClassCount = 1
  QosAging = 0
  WriteCoalescingEnable = TRUE
  NPorts = 2
  ArbWeight <- Weights
  MaxInflightToDevice = 2
  FrFcfsEnable = FALSE
  FrFcfsStarvationCap = 0
  RdWrGroupingEnable = FALSE
  RdWrGroupingMax = 0
  InitDelay = FALSE
  MaxRefresh = 1
  MaxReset = 1
CONSTRAINT TwinsInOrder
INVARIANTS
  ScoreboardExact
  CoverageExact
CHECK_DEADLOCK FALSE
