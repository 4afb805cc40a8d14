SPECIFICATION FairSpec
CONSTANTS
  IDs = {f1, f2}
  Clients = {r1, r2}
  TTL = 1
  MaxTime = 2
  ScanEnabled = TRUE
  FailOpen = TRUE
  Faults = FALSE
  MaxCrashes = 0
INVARIANT
  NoOrphans
PROPERTIES
  SweepSparesLive
  ExpiredFileRemoved
\* No request need arrive once the clock has stopped.
CHECK_DEADLOCK FALSE
