--------------------------- MODULE MCSwiGluTiling ---------------------------
(***************************************************************************)
(* SwiGluTiling scaled down: slots of 16 elements, rows aligned to 2.      *)
(***************************************************************************)
EXTENDS SwiGluTiling

Widths == <<2, 4, 8, 16>>
=============================================================================
