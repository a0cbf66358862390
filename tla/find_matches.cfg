CONSTANTS
  MaxLen = 4
  Cap = 2
  Window = 2
  Texts <- SmallTexts
  Queries <- SmallQueries
  Inserts <- SmallInserts
SPECIFICATION Spec
INVARIANTS FindIsTrue
PROPERTIES CommandsFind
CHECK_DEADLOCK FALSE
