SPECIFICATION FairSpec
CONSTANTS
  Callers = {c1, c2, c3, c4, c5}
  MaxWorkers = 2
  ProcessedBound = 1
INVARIANTS
  TypeOK
  SlotsAreHeld
  CountersReconcile
  FullOrReleasing
  WorkConserving
  ReleaseFindsToken
PROPERTIES
  SemaphoreSpec
  FirstComeFirstServed
  WaiterServed
