SPECIFICATION LoadSpec
CONSTANTS
  Cmd <- AllCmd
  Load <- Both
  Byte = {1}
  NoByte = NoByte
  QosClassCount = 1
  QosAging = 0
  WriteCoalescingEnable = TRUE
  NPorts = 2
  ArbWeight <- Weights
  MaxInflightToDevice = 2
  FrFcfsEnable = TRUE
  FrFcfsStarvationCap = 2
  RdWrGroupingEnable = TRUE
  RdWrGroupingMax = 1
  InitDelay = FALSE
  MaxRefresh = 1
  MaxReset = 1
INVARIANTS
  CreditExact
  DeviceAgrees
  SchedulerBounded
PROPERTIES
  AnsweredOnce
  PortServiceSpec
  QueueSpec
CHECK_DEADLOCK FALSE
