CONSTANTS
  Lengths <- Ragged
  Launched <- AllKernels
SPECIFICATION Spec
CHECK_DEADLOCK FALSE
INVARIANTS
  ChunksSynchronized
  WorkspaceIsOwn
  ChunkRaceFree
  ChunkReturns
