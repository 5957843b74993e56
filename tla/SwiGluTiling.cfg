CONSTANTS
  ELEMENTS_PER_TILE = 16
  COL_TILE_CANDIDATES <- Widths
  TILE_ALIGNMENT = 2
  MaxBatch = 9
  MaxOutputN = 19
  MaxCores = 12
SPECIFICATION Spec
CHECK_DEADLOCK FALSE
INVARIANTS
  TilesPartition
  TilesFitSlot
  TargetMetWhenPossible
  KeepsLargestTile
