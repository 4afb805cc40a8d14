SPECIFICATION Spec
CONSTANTS
  Environments <- EnvironmentsUsed
  Requests <- RequestsUsed
  NoRequest = NoRequest
INVARIANTS
  TypeOK
  ObeysEnvironment
  ScriptReadsMounts
  SuccessDelivers
  FramesAsAsked
CHECK_DEADLOCK FALSE
