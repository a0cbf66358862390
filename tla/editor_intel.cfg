SPECIFICATION Spec
CONSTANTS
  MaxLine = 2
  MaxView = 3
  MaxUpdates = 4
  MaxBatch = 2
INVARIANTS
  AnswersFitTheCaret
  LocalAnswersLand
  HintsAreFetched
PROPERTIES
  SyncSettles
CHECK_DEADLOCK FALSE
