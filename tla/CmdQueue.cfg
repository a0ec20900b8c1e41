SPECIFICATION AnySpec
CONSTANTS
  Cmd <- AllCmd
  Byte = {1, 2}
  NoByte = NoByte
  QosClassCount = 3
  QosAging = 1
  WriteCoalescingEnable = TRUE
  NPorts = 3
  ArbWeight <- Weights
  Item = {x}
  MaxFifo = 3
INVARIANTS
  TypeOK
  CacheCoherent
  StreamSerialised
  NoStreamWedged
  TopClassFound
  NewestByteWins
  WeightedTurns
PROPERTY ServiceSpec
CHECK_DEADLOCK FALSE
