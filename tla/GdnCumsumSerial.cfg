CONSTANTS
  Lengths <- Ragged
  Launched <- OnlyCumsum
SPECIFICATION Spec
CHECK_DEADLOCK FALSE
INVARIANTS
  SumsOwnChunk
