SPECIFICATION TopSpec
CONSTANTS
  Cfg <- AllCfg
  NRanks = 2
  MaxTime = 20
  MaxReset = 2
  MaxProbeReset = 1
  NPorts = 2
  RspBufDepth = 2
  MaxEvent = 2
  MaxCount = 3
INVARIANTS
  RefreshExact
  ProbeExact
PROPERTIES
  RejectShown
CHECK_DEADLOCK FALSE
