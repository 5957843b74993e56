CONSTANTS
  Lengths <- Ragged
  Launched <- OnlyChunkH
SPECIFICATION Spec
CHECK_DEADLOCK FALSE
INVARIANTS
  ResidualOfOwnU
