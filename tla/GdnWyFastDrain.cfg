CONSTANTS
  Lengths <- Ragged
  Launched <- OnlyWyFast
SPECIFICATION Spec
CHECK_DEADLOCK FALSE
INVARIANTS
  DrainsFlags
