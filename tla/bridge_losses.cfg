SPECIFICATION FairSpec
CONSTANTS
  Count = 1
  Never = FALSE
  MaxCalls = 0
  InitializeTimeout = FALSE
  MaxFaults = 2
INVARIANTS
  LetGoBeforeReconnect
  StopsAtOnce
PROPERTIES
  RecoveryEnds
CHECK_DEADLOCK FALSE
