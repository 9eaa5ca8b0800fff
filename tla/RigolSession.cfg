\* Two channels, three captures, two shots.
SPECIFICATION Spec
CONSTANTS
  Order <- MCOrder
  MaxGen = 3
  MaxPending = 1
  MaxShot = 2
INVARIANTS
  TypeOK
  OneCapture
  ShotExact
  AxisOfShot
PROPERTIES
  ShotEnds
