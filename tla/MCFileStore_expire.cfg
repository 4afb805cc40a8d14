SPECIFICATION FairSpec
CONSTANTS
  IDs = {f1}
  Clients = {r1}
  TTL = 1
  MaxTime = 3
  ScanEnabled = FALSE
  FailOpen = FALSE
  Faults = FALSE
  MaxCrashes = 1
PROPERTIES
  UploadsExpire
CHECK_DEADLOCK FALSE
