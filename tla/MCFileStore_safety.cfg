SPECIFICATION Spec
CONSTANTS
  IDs = {f1, f2}
  Clients = {r1, r2}
  TTL = 1
  MaxTime = 2
  ScanEnabled = TRUE
  FailOpen = FALSE
  Faults = TRUE
  MaxCrashes = 1
SYMMETRY StoreSymmetry
INVARIANTS
  TypeOK
  IndexedOnDisk
  VettedBeforeServed
  AnswersAreTrue
PROPERTIES
  StoreSpec
CHECK_DEADLOCK FALSE
