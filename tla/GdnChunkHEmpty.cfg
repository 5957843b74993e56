CONSTANTS
  Lengths <- WithEmpty
  Launched <- OnlyChunkH
SPECIFICATION Spec
CHECK_DEADLOCK FALSE
INVARIANTS
  ProjectsPreviousState
