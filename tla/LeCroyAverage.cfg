\* Single sweeps and averages, two clears obeyed late, two calls.
SPECIFICATION Spec
CONSTANTS
  MaxWanted = 3
  MaxSweeps = 5
  MaxLate = 2
  MaxCalls = 2
INVARIANTS
  TypeOK
  AverageFresh
  AverageFrozen
PROPERTIES
  CallReturns
CHECK_DEADLOCK FALSE
