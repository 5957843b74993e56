-------------------------- MODULE MCFlashAttention --------------------------
(***************************************************************************)
(* Work lists for TLC: short sequences of row-blocks of one core, heavy    *)
(* block first as the LPT loop hands them out.                             *)
(***************************************************************************)
EXTENDS FlashAttention

\* Causal, TileFactor 2, 4 full tiles: a block below the square (capped), then
\* 4, 2 and 1 tiles, so a block's tiles never end on a FIFO boundary.
WorkCausal == <<9, 6, 3, 0>>
\* Non-causal: two row-blocks of FullTiles tiles each.
WorkDense == <<1, 0>>
\* One short causal row-block whose only tile straddles the diagonal.
WorkDiagonal == <<3, 0>>
=============================================================================
