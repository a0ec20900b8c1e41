SPECIFICATION LoadSpec
CONSTANTS
  Cmd <- CapCmd
  Load <- Cap
  Byte = {1}
  NoByte = NoByte
  QosClassCount = 1
  QosAging = 0
  WriteCoalescingEnable = FALSE
  NPorts = 2
  ArbWeight <- Weights
  MaxInflightToDevice = 2
  FrFcfsEnable = TRUE
  FrFcfsStarvationCap = 1
  RdWrGroupingEnable = FALSE
  RdWrGroupingMax = 0
  InitDelay = FALSE
  MaxRefresh = 0
  MaxReset = 0
INVARIANT ReorderingCapped
CHECK_DEADLOCK FALSE
