SPECIFICATION Spec
CONSTANTS
  Execs = {e1, e2}
  Deleters = {d1}
  Readers = {g1}
  OutputTTL = 1
  RunTime = 1
  Faults = TRUE
  MaxTime = 2
  MaxCrashes = 0
SYMMETRY OutputSymmetry
INVARIANTS
  TypeOK
  CleanerTakesExpired
  DeletedIsGone
  ReadsAreTrue
\* Once the clock has stopped, no execution need start.
CHECK_DEADLOCK FALSE
