CONSTANTS
  Lengths <- Ragged
  Launched <- OnlyChunkO
SPECIFICATION Spec
CHECK_DEADLOCK FALSE
INVARIANTS
  ReadsScoresBeforeReuse
