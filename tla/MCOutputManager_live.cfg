SPECIFICATION FairSpec
CONSTANTS
  Execs = {e1, e2}
  Deleters = {d1}
  Readers = {}
  OutputTTL = 1
  RunTime = 1
  Faults = TRUE
  MaxTime = 2
  MaxCrashes = 1
INVARIANTS
  RunningKeepsOutput
  NoUnreadableDirs
PROPERTIES
  StoreSpec
  ExpiredOutputRemoved
\* Once the clock has stopped, no execution need start.
CHECK_DEADLOCK FALSE
