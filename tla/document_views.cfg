SPECIFICATION Spec
CONSTANTS
  BulkAfter = 1
  Files <- SomeFiles
  Inserts <- SomeInserts
  Lexings = {TRUE, FALSE}
  MaxBatch = 2
  MaxEdits = 1
  MaxGestures = 2
INVARIANTS
  ViewsFollowTheText
  PlainEditsKeepTheMap
  ChangesAreSeen
CHECK_DEADLOCK FALSE
