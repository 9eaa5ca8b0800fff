\* A firmware that may move any window, a caller that reads windows back,
\* commands that are obeyed late and replies that may miss their time-out.
SPECIFICATION Spec
CONSTANTS
  Depth = 3
  Cap = 2
  Channels = {c1, c2}
  EmptyRetries = 1
  VerifyWindow = TRUE
  FirmwareClamps = TRUE
  LateReplies = TRUE
  MaxPending = 1
  MaxGen = 1
INVARIANTS
  TypeOK
  Consecutive
  DeliveredWhole
PROPERTIES
  Implements
  ReadEnds
