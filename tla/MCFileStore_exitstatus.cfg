SPECIFICATION Spec
CONSTANTS
  IDs = {f1}
  Clients = {r1}
  TTL = 1
  MaxTime = 1
  ScanEnabled = TRUE
  FailOpen = FALSE
  Faults = FALSE
  MaxCrashes = 0
INVARIANTS
  OnlyExitZeroIsClean
CHECK_DEADLOCK FALSE
