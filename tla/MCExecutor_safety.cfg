SPECIFICATION Spec
CONSTANTS
  Preparers = {p1}
  Jobs = {j1, j2}
  MaxWorkers = 1
  Managed = TRUE
  Faults = TRUE
  MaxCrashes = 1
SYMMETRY JobSymmetry
INVARIANTS
  TypeOK
  ContainerCovered
  WorkersBound
  TruthfulResult
  NothingLeftBehind
PROPERTIES
  ToolCallsSpec
CHECK_DEADLOCK FALSE
