CONSTANTS
  Launches <- MCLaunches
  Prime = 97
  AivCores = 2
  AbsTiles = 5
  GatherTiles = 7
  SwiGluTiles = 5
  N_BUF = 3
SPECIFICATION Spec
CHECK_DEADLOCK FALSE
INVARIANTS
  KernelsSynchronized
  KernelsRaceFree
  KernelsInOrder
  KernelsReturn
  KernelsCompute
