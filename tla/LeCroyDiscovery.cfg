\* The input channels of every kind of scope, late replies, a link that may end.
SPECIFICATION Spec
CONSTANTS
  ValidCounts = {2, 4, 8}
  MaxChannel = 8
  Default = 4
  OtherTraces = 2
  DiscoverAll = FALSE
  MayDrop = TRUE
  MaxLate = 2
INVARIANTS
  TypeOK
  DiscoveryExact
  ScanExact
PROPERTIES
  ConstructionEnds
CHECK_DEADLOCK FALSE
