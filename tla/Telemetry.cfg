SPECIFICATION TeleSpec
CONSTANTS
  Cmd <- AllCmd
  Byte = {1}
  NoByte = NoByte
  QosClassCount = 1
  QosAging = 0
  WriteCoalescingEnable = TRUE
  Cfg <- AllCfg
  NPorts = 2
  TBL = 1
  MaxTime = 2
  MaxReset = 1
INVARIANTS
  CountersExact
  
  PredictionsTracked
CHECK_DEADLOCK FALSE
