\* All known trace names.
SPECIFICATION Spec
CONSTANTS
  ValidCounts = {2, 4, 8}
  MaxChannel = 8
  Default = 4
  OtherTraces = 2
  DiscoverAll = TRUE
  MayDrop = FALSE
  MaxLate = 0
INVARIANTS
  DiscoveryExact
CHECK_DEADLOCK FALSE
