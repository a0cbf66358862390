SPECIFICATION AnySpec
CONSTANTS
  Count = 1
  Never = FALSE
  MaxCalls = 1
  MaxUpsets = 2
  Timed = {"Connect", "Listen"}
  MaxFaults = 2
INVARIANTS
  AnySafety
  AnyStandoff
PROPERTIES
  AnyRunsOneConnection
  AnyLiveness
CHECK_DEADLOCK FALSE
