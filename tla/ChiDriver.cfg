SPECIFICATION FairSpec
CONSTANTS
  Cfg <- AllCfg
  MaxReq = 2
INVARIANTS
  WriteDataWhole
  ActivityExact
  CreditsConserved
PROPERTIES
  AnswersExact
  EveryRequestAnswered
