CONSTANTS
  Work <- WorkCausal
  FullTiles = 4
  TileFactor = 2
  Causal = TRUE
  FifoSize = 3
  QkPreload = 2
  Unwritten = Unwritten
SPECIFICATION Spec
CHECK_DEADLOCK FALSE
INVARIANTS
  TypeOK
  RescalesWithOwnExpMax
  ScoresAreOwn
  ProbabilitiesAreOwn
  PartialsAreOwn
  ConsumedBeforeNextBlock
  DrainedAtReturn
  NeverStuck
PROPERTIES
  EveryCoreReturns
  AttendsOwnKeys
  ImplementsAttention
