SPECIFICATION Spec
CONSTANTS
  Environments <- EnvironmentsUsed
  Requests <- RequestsUsed
  NoRequest = NoRequest
INVARIANT SlidesAsAsked
CHECK_DEADLOCK FALSE
