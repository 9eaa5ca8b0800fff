\* Two channels, two shots.
SPECIFICATION Spec
CONSTANTS
  Order <- MCOrder
  MaxGen = 2
  MaxPending = 1
  MaxShot = 2
INVARIANTS
  AxisOfLast
CHECK_DEADLOCK FALSE
