SPECIFICATION FairSpec
CONSTANTS
  Stride = 2
  Slack = 1
  MaxWindow = 3
  Budget = 2
  Texts <- SomeTexts
  Puts <- SomePuts
  Themes = {"dark", "light"}
  LoadedTheme = "dark"
  PoolBytes = 7
  LongBytes = 4
  SegmentRows = 2
  Workers = 1
  Backoff = 1
  VerifyBudget = 1
  RerunBudget = 1
  MaxBatch = 2
  Gestures = {"edit", "load", "move", "theme"}
  MaxEffort = 6
  SoloCost = 3
  PoolCost = 3
INVARIANTS
  ColoursAreTrue
PROPERTIES
  SettlesInTheEnd
CHECK_DEADLOCK FALSE
