\* A scope that ignores CLEAR_SWEEPS in STOP.
SPECIFICATION Spec
CONSTANTS
  Master = m
  Slaves = {s1, s2}
  Lagging = {m, s1, s2}
  ClearsInStop = FALSE
  StartModes = {"STOP"}
  MaxShot = 2
  MaxSweeps = 2
INVARIANTS
  CompletionFresh
CHECK_DEADLOCK FALSE
