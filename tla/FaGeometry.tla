----------------------------- MODULE FaGeometry -----------------------------
(***************************************************************************)
(* The tiling of one flash-attention problem, in units of key blocks of    *)
(* CUBE_S1 columns.  CUBE_S0 = CUBE_S1 (config_flash_attention.h), so      *)
(* query row-block r sits on the diagonal at key block r, and a logical S1 *)
(* tile is TileFactor = TILE_S1 / CUBE_S1 consecutive key blocks.          *)
(***************************************************************************)
EXTENDS Integers, Sequences

CONSTANTS
  Work,        \* the row-block indices one core claims, in the order it runs them
  FullTiles,   \* S1 / TILE_S1
  TileFactor,  \* kTileFactor: sub-tiles of one logical tile
  Causal       \* CAUSAL_MASK

ASSUME GeometryAssumption ==
  /\ Work \in Seq(Nat)
  /\ FullTiles \in Nat \ {0}
  /\ TileFactor \in Nat \ {0}
  /\ Causal \in BOOLEAN

Jobs == 1 .. Len(Work)
Subs == 0 .. TileFactor - 1

\* The key tiles row-block Work[w] sweeps: num_tiles_s1 == blk_weight.
NumTiles(w) ==
  LET diag == 1 + Work[w] \div TileFactor
  IN IF Causal /\ diag < FullTiles THEN diag ELSE FullTiles

\* Sub-tile s of tile t lies wholly above the diagonal: s1_index > s0_index.
Skipped(w, t, s) == Causal /\ t * TileFactor + s > Work[w]

LastTile(w, t) == t = NumTiles(w) - 1
=============================================================================
