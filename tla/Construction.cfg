SPECIFICATION AnySpec
CONSTANTS
  MaxPorts = 2
  RowBytes = 8
  BusBytes = 4
  CfgBytes = {2, 3, 4}
  Maps = {"A"}
  Databases <- SmallDatabases
  Paths = {"env", "db"}
  Geom <- AllGeom
  NQos = 3
  NPorts = 1
  MaxEdit = 3
INVARIANTS
  ConnectionExact
  ConfigUsable
  AddressMapExact
CHECK_DEADLOCK FALSE
