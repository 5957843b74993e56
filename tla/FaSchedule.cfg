CONSTANTS
  Problems = 2
  BlockRows = 3
  FullTiles = 3
  TileFactor = 1
  Causal = TRUE
  MaxCores = 2
  Units = {"aic", "aiv"}
SPECIFICATION Spec
CHECK_DEADLOCK FALSE
INVARIANTS
  TypeOK
  EveryBlockOnce
  LoadsBalanced
  EveryCoreWorks
