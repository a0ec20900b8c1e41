SPECIFICATION FairSpec
CONSTANTS
  Cmd <- LiveCmd
  Byte = {1}
  NoByte = NoByte
  QosClassCount = 2
  QosAging = 1
  WriteCoalescingEnable = TRUE
  NPorts = 2
  ArbWeight <- Weights
  MaxInflightToDevice = 1
  FrFcfsEnable = FALSE
  FrFcfsStarvationCap = 0
  RdWrGroupingEnable = FALSE
  RdWrGroupingMax = 0
  InitDelay = TRUE
  MaxRefresh = 1
  MaxReset = 1
PROPERTIES
  EverySubmitAnswered
  EveryRefreshIssued
CHECK_DEADLOCK FALSE
