CONSTANTS
  Work <- WorkDiagonal
  FullTiles = 2
  TileFactor = 2
  Causal = TRUE
  FifoSize = 3
  QkPreload = 2
  Unwritten = Unwritten
SPECIFICATION Spec
CHECK_DEADLOCK FALSE
INVARIANTS
  SoftmaxReadsOwnLanes
