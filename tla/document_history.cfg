SPECIFICATION Spec
CONSTANTS
  LoadedLength = 1
  GroupingHints <- VerbHints
  Limits <- SomeLimits
  CHANGE_LOG_CAP = 2
  Observed = TRUE
  MaxBatch = 2
  MaxOps = 3
  MaxRevision = 4
  MaxSettings = 2
  MaxEffort = 4
INVARIANTS
  HistoryIsExact
  CleanIsSaved
  CommitsAreFollowed
PROPERTIES
  EditsKeepTheLimit
CHECK_DEADLOCK FALSE
