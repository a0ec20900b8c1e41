SPECIFICATION Spec
CONSTANTS
  Cmd <- LiveCmd
  Byte = {1}
  NoByte = NoByte
  QosClassCount = 1
  QosAging = 0
  WriteCoalescingEnable = TRUE
  NPorts = 2
  ArbWeight <- Weights
  MaxInflightToDevice = 2
  FrFcfsEnable = FALSE
  FrFcfsStarvationCap = 0
  RdWrGroupingEnable = FALSE
  RdWrGroupingMax = 0
  InitDelay = TRUE
  MaxRefresh = 1
  MaxReset = 1
PROPERTY BringUpRespected
CHECK_DEADLOCK FALSE
