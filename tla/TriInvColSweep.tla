--------------------------- MODULE TriInvColSweep ---------------------------
(***************************************************************************)
(* The triangular inverse by back substitution (triv_inv_col_sweep), on    *)
(* the vector cores: for every row j of the result, b = e_j and then, from *)
(* the diagonal down, b = b - b[k] A_k, with the scalar unit reading and   *)
(* writing single entries of UB between two vector instructions.           *)
(***************************************************************************)
EXTENDS CoreCode

matrix_in == <<"matrix_in", 0>>
b == <<"b", 0>>
inv_matrix_out == <<"inv_matrix_out", 0>>

\* The scalar unit's registers.
xk == <<"xk", 0>>
xkp1 == <<"xkp1", 0>>

TEXPANDS(dst) == Do("V", <<"clear">>, <<>>, dst)
\* b gets row k of A, times -1 or -xk.
TAXPY(k) == Do("V", <<"minus row", k>>, <<b, matrix_in>>, b)
TAXPYxk(k) == Do("V", <<"minus row times", k>>, <<b, matrix_in, xk>>, b)
SetOne(tile, row, col) == Do("S", <<"set one", row, col>>, <<tile>>, tile)
SetValue(tile, row, col, from) == Do("S", <<"set", row, col>>, <<tile, from>>, tile)
GetValue(to, col) == Do("S", <<"get", col>>, <<b>>, to)

\* Row j's entries from k down: x[k + 1] is set one round after its value is
\* read, when the vector unit is through with it.
Sweep(j, k) ==
  Pass("S", "V", 0) \o <<TAXPYxk(k)>> \o Pass("V", "S", 0)
  \o <<SetValue(inv_matrix_out, j, k + 1, xkp1), Do("S", <<"same">>, <<xk>>, xkp1),
       GetValue(xk, k - 1)>>

\* The solution x of x A = e_j; its entry 0 is known at once when j = 0.
Solve(j) ==
  <<TEXPANDS(b)>> \o Pass("V", "S", 0) \o <<SetOne(b, 0, j)>>
  \o (IF j = 0 THEN <<SetOne(inv_matrix_out, 0, 0)>>
      ELSE Pass("S", "V", 0) \o <<TAXPY(j)>> \o Pass("V", "S", 0)
           \o <<GetValue(xk, j - 1), Do("S", <<"one">>, <<>>, xkp1)>> \o Pass("V", "S", 0)
           \o FlattenSeq([i \in 1 .. j - 1 |-> Sweep(j, j - i)])
           \o <<SetValue(inv_matrix_out, j, 1, xkp1), SetValue(inv_matrix_out, j, 0, xk)>>)

Tile(t, S) ==
  <<WaitFlag("MTE3", "V", 0), TEXPANDS(inv_matrix_out)>> \o Pass("V", "MTE2", 0)
  \o <<WaitFlag("MTE3", "MTE2", 0), Do("MTE2", <<"same">>, <<Gm("A", t)>>, matrix_in)>>
  \o Pass("MTE2", "V", 0)
  \o FlattenSeq([i \in 1 .. S |-> Solve(S - i)])
  \o Pass("V", "MTE3", 0)
  \o <<Do("MTE3", <<"same">>, <<inv_matrix_out>>, Gm("A_inv", t)),
       SetFlag("MTE3", "MTE2", 0), SetFlag("MTE3", "V", 0)>>

\* Every core takes CeilDiv(tiles, cores) tiles in a row, while there are any.
runTTriInv(core, S, cores, tiles) ==
  LET per == (tiles + cores - 1) \div cores
      mine == SelectSeq([i \in 1 .. per |-> core * per + i - 1], LAMBDA t : t < tiles)
  IN <<SetFlag("MTE3", "MTE2", 0), SetFlag("MTE3", "V", 0)>>
     \o FlattenSeq([i \in DOMAIN mine |-> Tile(mine[i], S)])
     \o <<WaitFlag("MTE3", "MTE2", 0), WaitFlag("MTE3", "V", 0)>>
=============================================================================
