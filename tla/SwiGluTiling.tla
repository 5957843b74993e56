---------------------------- MODULE SwiGluTiling ----------------------------
(***************************************************************************)
(* How the SwiGLU kernel cuts its output into tiles (chooseTileConfig,     *)
(* makeTileWork): every core runs the same loop over the candidate tile    *)
(* widths, keeps the configuration it prefers, and then computes from a    *)
(* tile's index which rows and columns it covers.                          *)
(***************************************************************************)
EXTENDS Integers, Sequences

CONSTANTS
  ELEMENTS_PER_TILE,    \* what one UB slot holds
  COL_TILE_CANDIDATES,  \* tile widths, a sequence
  TILE_ALIGNMENT,       \* UB rows are multiples of this
  MaxBatch, MaxOutputN, MaxCores  \* bounds on the shapes tried

ASSUME TilingAssumption ==
  /\ ELEMENTS_PER_TILE \in Nat \ {0} /\ TILE_ALIGNMENT \in Nat \ {0}
  /\ COL_TILE_CANDIDATES \in Seq(1 .. ELEMENTS_PER_TILE) /\ Len(COL_TILE_CANDIDATES) > 0
  /\ \A i \in DOMAIN COL_TILE_CANDIDATES :
       /\ COL_TILE_CANDIDATES[i] % TILE_ALIGNMENT = 0
       /\ ELEMENTS_PER_TILE % COL_TILE_CANDIDATES[i] = 0
  /\ MaxBatch \in Nat /\ MaxOutputN \in Nat /\ MaxCores \in Nat

VARIABLES
  batch, output_n, num_cores,  \* the arguments
  c,                           \* the candidate to be tried next
  best                         \* the configuration preferred so far

vars == <<batch, output_n, num_cores, c, best>>

DIV_ROUNDUP(a, b) == (a + b - 1) \div b
ALIGN_UP(a, b) == DIV_ROUNDUP(a, b) * b
Lesser(a, b) == IF a <= b THEN a ELSE b
Greater(a, b) == IF a >= b THEN a ELSE b

\* "Keep the active-tile target fixed at half the available cores."
TARGET_ACTIVE_TILES_DIVISOR == 2
TargetTiles == Greater(1, num_cores \div TARGET_ACTIVE_TILES_DIVISOR)

\* Mutant of MinRowTiles: the division rounds down.
MinRowTilesDown(col_tiles) == Greater(1, TargetTiles \div col_tiles)
MinRowTiles(col_tiles) == Greater(1, DIV_ROUNDUP(TargetTiles, col_tiles))

\* The rows a tile of this width may have and the target leaves it.
\* Mutant of RowTileLen: the slot's size is forgotten.
RowTileLenUncapped(col_tile_len) ==
  LET min_row_tiles == MinRowTiles(DIV_ROUNDUP(output_n, col_tile_len))
  IN IF min_row_tiles > 1 THEN Greater(1, batch \div min_row_tiles) ELSE batch
RowTileLen(col_tile_len) ==
  LET rows == Lesser(batch, ELEMENTS_PER_TILE \div col_tile_len)
      min_row_tiles == MinRowTiles(DIV_ROUNDUP(output_n, col_tile_len))
      capped == IF min_row_tiles > 1 THEN Lesser(rows, Greater(1, batch \div min_row_tiles))
                ELSE rows
  IN Greater(1, capped)

makeTileConfig(col_tile_len) ==
  LET row_tile_len == RowTileLen(col_tile_len)
      total_tiles == DIV_ROUNDUP(batch, row_tile_len) * DIV_ROUNDUP(output_n, col_tile_len)
  IN [row_tile_len |-> row_tile_len, col_tile_len |-> col_tile_len,
      total_tiles |-> total_tiles, area |-> row_tile_len * col_tile_len,
      meets_target |-> total_tiles >= TargetTiles]

\* Mutant of preferTileConfig: area counts before the target.
preferArea(cand, inst) == cand.area > inst.area
preferTileConfig(cand, inst) ==
  IF cand.meets_target # inst.meets_target THEN cand.meets_target
  ELSE IF cand.area # inst.area THEN cand.area > inst.area
  ELSE IF cand.total_tiles # inst.total_tiles
  THEN IF cand.meets_target THEN cand.total_tiles < inst.total_tiles
       ELSE cand.total_tiles > inst.total_tiles
  ELSE IF cand.col_tile_len # inst.col_tile_len THEN cand.col_tile_len > inst.col_tile_len
  ELSE cand.row_tile_len > inst.row_tile_len

Init ==
  /\ batch \in 1 .. MaxBatch /\ output_n \in 1 .. MaxOutputN /\ num_cores \in 1 .. MaxCores
  /\ c = 2
  /\ best = makeTileConfig(COL_TILE_CANDIDATES[1])

\* One round of chooseTileConfig's loop.
Try ==
  /\ c <= Len(COL_TILE_CANDIDATES)
  /\ LET cand == makeTileConfig(COL_TILE_CANDIDATES[c])
     IN best' = IF preferTileConfig(cand, best) THEN cand ELSE best
  /\ c' = c + 1
  /\ UNCHANGED <<batch, output_n, num_cores>>

Next == Try
Spec == Init /\ [][Next]_vars

Chosen == c > Len(COL_TILE_CANDIDATES)

\* The rows and columns of tile t.  Mutant of makeTileWork: the columns of a
\* row of tiles are counted rounding down.
makeTileWorkDown(t) ==
  LET col_tiles == Greater(1, output_n \div best.col_tile_len)
      row_offset == (t \div col_tiles) * best.row_tile_len
      col_offset == (t % col_tiles) * best.col_tile_len
      actual_col == Lesser(best.col_tile_len, output_n - col_offset)
  IN [row_offset |-> row_offset, col_offset |-> col_offset,
      row_count |-> Lesser(best.row_tile_len, batch - row_offset),
      col_count |-> ALIGN_UP(actual_col, TILE_ALIGNMENT), col_count_store |-> actual_col]
makeTileWork(t) ==
  LET col_tiles == DIV_ROUNDUP(output_n, best.col_tile_len)
      row_offset == (t \div col_tiles) * best.row_tile_len
      col_offset == (t % col_tiles) * best.col_tile_len
      actual_col == Lesser(best.col_tile_len, output_n - col_offset)
  IN [row_offset |-> row_offset, col_offset |-> col_offset,
      row_count |-> Lesser(best.row_tile_len, batch - row_offset),
      col_count |-> ALIGN_UP(actual_col, TILE_ALIGNMENT), col_count_store |-> actual_col]

Covers(w, row, col) ==
  /\ w.row_offset <= row /\ row < w.row_offset + w.row_count
  /\ w.col_offset <= col /\ col < w.col_offset + w.col_count_store

-----------------------------------------------------------------------------
\* The tiles of the chosen configuration partition the output: every element
\* is stored by exactly one tile, whichever core runs it.
TilesPartition ==
  Chosen =>
    LET works == [t \in 0 .. best.total_tiles - 1 |-> makeTileWork(t)]
    IN \A row \in 0 .. batch - 1, col \in 0 .. output_n - 1 :
         \E t \in DOMAIN works :
           /\ Covers(works[t], row, col)
           /\ \A u \in DOMAIN works \ {t} : ~Covers(works[u], row, col)

\* No tile, its rows padded to TILE_ALIGNMENT, is larger than a UB slot.
TilesFitSlot ==
  \A t \in 0 .. best.total_tiles - 1 :
    LET w == makeTileWork(t)
    IN w.row_count > 0 /\ w.row_count * w.col_count <= ELEMENTS_PER_TILE

\* Half the cores get a tile of the chosen configuration whenever any cut
\* into one-row tiles of the narrowest width would give them one.
TargetMetWhenPossible ==
  (Chosen /\ batch * DIV_ROUNDUP(output_n, COL_TILE_CANDIDATES[1]) >= TargetTiles)
    => best.meets_target

\* Among the widths tried so far that reach the target none has larger tiles
\* than the one kept, and if the one kept does not reach it none does.
KeepsLargestTile ==
  \A i \in 1 .. c - 1 :
    LET cand == makeTileConfig(COL_TILE_CANDIDATES[i])
    IN cand.meets_target => (best.meets_target /\ cand.area <= best.area)
=============================================================================
