SPECIFICATION AnySpec
CONSTANTS
  RowBytes = 4
  WBytes = 2
  RBytes = 4
  Boundary = 8
  Granule = 4
  FixedMax = 3
  WrapBeats = {2, 4}
  Region <- Regions
  Window <- Windows
  ExclusiveEnabled = TRUE
  Request <- Requests
  ChiRowBytes = 8
  ChiDataBytes = 4
  ChiRegion <- ChiRegions
  ChiWindow <- ChiWindows
  ChiRequest <- ChiRequests
INVARIANTS
  Axi4TransferExact
  ChiTransferExact
CHECK_DEADLOCK FALSE
