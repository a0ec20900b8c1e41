SPECIFICATION ExclSpec
CONSTANTS
  Cfg <- AllCfg
  MaxWr = 3
  MaxRd = 2
INVARIANTS
  LimitsExact
  AnsweredOnce
PROPERTIES
  BurstsWhole
  ExclusiveSound
  PortSpec
  EveryBurstAnswered
