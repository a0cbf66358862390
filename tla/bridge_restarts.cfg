SPECIFICATION Spec
CONSTANTS
  Count = 1
  Never = FALSE
  MaxCalls = 1
  InitializeTimeout = TRUE
  MaxFaults = 1
INVARIANTS
  Inv
  NeverBehind
  PoliteGoodbye
  NoStandoff
  HostIsTold
PROPERTIES
  ShutIsFinal
  RunsOneServer
CHECK_DEADLOCK FALSE
