\* Two shots of one scope and one of another; lengths and scalings may differ.
SPECIFICATION Spec
CONSTANTS
  Scopes <- MCScopes
  Channels <- MCChannels
  Recorded <- MCRecorded
  Shots = 3
  MaxLen = 2
  Scalings = {"a", "b"}
  Asks <- MCAsks
INVARIANTS
  TypeOK
  RowsAreShots
  CompleteKept
  SameAsSingle
  TreeIsShot
  AxisFits
  FinishedShotRead
CHECK_DEADLOCK FALSE
