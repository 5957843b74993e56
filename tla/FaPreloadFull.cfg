CONSTANTS
  Work <- WorkDense
  FullTiles = 5
  TileFactor = 1
  Causal = FALSE
  FifoSize = 3
  QkPreload = 3
  Unwritten = Unwritten
SPECIFICATION Spec
CHECK_DEADLOCK FALSE
INVARIANTS
  RescalesWithOwnExpMax
