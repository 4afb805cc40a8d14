SPECIFICATION FairSpec
CONSTANTS
  Preparers = {p1, p2}
  Jobs = {j1, j2}
  MaxWorkers = 1
  Managed = FALSE
  Faults = FALSE
  MaxCrashes = 0
INVARIANTS
  NothingLeftBehind
  OneVerdict
PROPERTIES
  CallsReturn
  ImageSettles
\* Every call returns, and nothing is left to do.
CHECK_DEADLOCK FALSE
