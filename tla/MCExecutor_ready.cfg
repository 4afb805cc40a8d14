SPECIFICATION Spec
CONSTANTS
  Preparers = {p1}
  Jobs = {j1}
  MaxWorkers = 1
  Managed = TRUE
  Faults = FALSE
  MaxCrashes = 0
INVARIANTS
  ReadyMeansPresent
CHECK_DEADLOCK FALSE
