SPECIFICATION AnswerSpec
INVARIANTS
  NothingUnverifiedGoesUntold
  InventedNeverShipsClean
  CutTextIsMarked
  WritesAreReported
CHECK_DEADLOCK FALSE
