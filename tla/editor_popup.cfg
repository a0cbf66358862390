SPECIFICATION Spec
CONSTANTS
  MaxLine = 2
  MaxView = 3
  MaxUpdates = 4
  MaxBatch = 2
CHECK_DEADLOCK FALSE
INVARIANT PopupAnchored
