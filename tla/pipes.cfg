SPECIFICATION PipeSpec
CONSTANTS
  MaxSent = 2
  Lengths = {1}
  Limit = 1
  Room = 1
  ReadBudget = 1
  MaxBodies <- MCBodies
  MaxInput = 2
  Pieces <- MCPieces
  MaxPieces = 3
  HeaderLimit = 5
  LineLimit = 2
  BodyLimit = 2
  SkipLimit = 3
INVARIANTS
  NoLostWakeup
  GuardIsExact
  GuardTrips
  FramesAreTrue
PROPERTIES
  PipesRun
CHECK_DEADLOCK FALSE
