\* Two slaves that may be free-running, two shots; the master and one of the
\* slaves show their modes late.
SPECIFICATION Spec
CONSTANTS
  Master = m
  Slaves = {s1, s2}
  Lagging = {m, s1}
  ClearsInStop = TRUE
  StartModes = {"AUTO", "STOP"}
  MaxShot = 2
  MaxSweeps = 1
INVARIANTS
  TypeOK
  CompletionFresh
  SameEdge
PROPERTIES
  NoEdgeMissed
  EachShotEnds
CHECK_DEADLOCK FALSE
