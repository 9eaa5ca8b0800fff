\* The ready bit of a slave that ran free before it was armed.
SPECIFICATION Spec
CONSTANTS
  Master = m
  Slaves = {s1, s2}
  Lagging = {}
  ClearsInStop = TRUE
  StartModes = {"AUTO", "STOP"}
  MaxShot = 1
  MaxSweeps = 2
INVARIANTS
  ReadyMeansListening
CHECK_DEADLOCK FALSE
