---------------------------- MODULE VectorStream ----------------------------
(***************************************************************************)
(* How the elementwise vector kernels split a flat tensor: every core      *)
(* takes one contiguous run of num_tiles_per_block tiles.                  *)
(***************************************************************************)
EXTENDS PipeProgram, SequencesExt

CeilDiv(a, b) == (a + b - 1) \div b
Smaller(a, b) == IF a <= b THEN a ELSE b

\* The tiles core c of n works on, in order, when there are "tiles" of them.
TilesOf(c, n, tiles) ==
  LET per == CeilDiv(tiles, n)
      end == Smaller((c + 1) * per, tiles)
  IN [k \in 1 .. Smaller(per, IF end > c * per THEN end - c * per ELSE 0) |->
        c * per + k - 1]

\* A core's UB buffer, and a tile of the output tensor in GM.
Ub(c, name, stage) == <<c, name, stage>>
Out(tile) == <<-1, "z", tile>>
=============================================================================
