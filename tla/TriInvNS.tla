------------------------------ MODULE TriInvNS ------------------------------
(***************************************************************************)
(* The triangular inverse by Newton-Schulz iterations (tri_inv_ns): from   *)
(* X = I / scale, num_iters times Y = X (-A) and X = Y X + 2 X, where      *)
(* A = I + M.  Loads, slots and stores are those of TileRounds.            *)
(***************************************************************************)
EXTENDS TileRounds

A_neg_l1(slot) == <<"A_neg", slot>>
X_l1 == <<"X", 0>>
Y_l1 == <<"Y", 0>>
I_neg_l1 == <<"I_neg", 0>>
I_l1 == <<"I", 0>>
two_I_l1 == <<"two_I", 0>>
I_scaled_l1 == <<"I_scaled", 0>>

\* I = (-I)(-I), and 2 I = I + I.
PrepareAuxiliaryMatrices ==
  <<ToL0(A(0), I_neg_l1), ToL0(B(0), I_neg_l1)>> \o Pass("MTE1", "M", 0)
  \o <<TMATMUL(C(0), A(0), B(0)), SetFlag("M", "FIX", 0),
       TMATMUL(C(1), A(0), B(0)), TMATMUL_ACC(C(1), A(0), B(0)), SetFlag("M", "FIX", 1)>>
  \o Pass("M", "MTE1", 1)
  \o <<WaitFlag("M", "FIX", 0), ToL1(I_l1, C(0)),
       SetFlag("FIX", "M", 0), SetFlag("FIX", "MTE1", 0),
       WaitFlag("M", "FIX", 1), ToL1(two_I_l1, C(1)),
       SetFlag("FIX", "M", 1), SetFlag("FIX", "MTE1", 1),
       WaitFlag("FIX", "M", 0), WaitFlag("FIX", "MTE1", 0),
       WaitFlag("FIX", "M", 1), WaitFlag("FIX", "MTE1", 1)>>

\* -A = -I M - I, over the slot's M; X in both operands.
Prologue(y, e0, e1) ==
  <<ToL0(A(0), I_neg_l1), ToL0(B(1), I_l1), SetFlag("MTE1", "M", e0),
    ToL0(B(0), y), SetFlag("MTE1", "M", e1),
    ToL0(A(1), two_I_l1),
    WaitFlag("MTE1", "M", e0), TMATMUL(C(0), A(0), B(1)),
    WaitFlag("MTE1", "M", e1), TMATMUL_ACC(C(0), A(0), B(0)),
    SetFlag("M", "FIX", e0)>>
  \o Pass("M", "MTE1", e0)
  \o <<ToL0(B(1), I_scaled_l1), ToL0(A(0), I_scaled_l1),
       WaitFlag("M", "FIX", e0), ToL1(y, C(0))>>
  \o Pass("FIX", "MTE1", e0)
  \o <<ToL0(B(0), y)>> \o Pass("MTE1", "M", e0)
  \o <<SetFlag("FIX", "M", e1), SetFlag("MTE1", "M", e1)>>

Iteration(e0, e1, last) ==
  <<TMATMUL(C(0), A(0), B(0)), SetFlag("M", "FIX", e0),
    WaitFlag("FIX", "M", e1), WaitFlag("MTE1", "M", e1), TMATMUL(C(1), A(1), B(1)),
    WaitFlag("M", "FIX", e0), ToL1(Y_l1, C(0))>>
  \o Pass("FIX", "MTE1", e0)
  \o <<ToL0(A(0), Y_l1)>> \o Pass("MTE1", "M", e0)
  \o <<TMATMUL_ACC(C(1), A(0), B(1))>> \o Pass("M", "FIX", e0)
  \o <<SetFlag("M", "MTE1", e0)>>
  \o (IF last THEN <<>>
      ELSE <<ToL1(X_l1, C(1)), SetFlag("FIX", "M", e1)>> \o Pass("FIX", "MTE1", e0)
           \o <<WaitFlag("M", "MTE1", e0), ToL0(A(0), X_l1)>> \o Pass("MTE1", "M", e0)
           \o <<ToL0(B(1), X_l1), SetFlag("MTE1", "M", e1)>>)

InvertSingleTile(l, slot) ==
  LET e0 == slot
      e1 == slot + Slots(l)
  IN Prologue(A_neg_l1(slot), e0, e1)
     \o FlattenSeq([i \in 1 .. l.num_iters |-> Iteration(e0, e1, i = l.num_iters)])
     \o <<WaitFlag("M", "MTE1", e0)>>

LoadTile(tile, slot) ==
  <<WaitFlag("M", "MTE2", slot), TLOAD(A_neg_l1(slot), Gm("M", tile)),
    SetFlag("MTE2", "MTE1", slot)>>

InvertTile(l, tile, slot) ==
  <<WaitFlag("FIX", "M", slot), WaitFlag("MTE2", "MTE1", slot)>>
  \o InvertSingleTile(l, slot)
  \o <<SetFlag("M", "MTE2", slot), TSTORE(Gm("M_inv", tile), C(1)),
       SetFlag("FIX", "M", NextSlot(l, slot))>>

Round(l, core, k) ==
  LET mine == RoundTiles(l, core, k)
  IN FlattenSeq([i \in DOMAIN mine |-> LoadTile(mine[i], i - 1)])
     \o FlattenSeq([i \in DOMAIN mine |-> InvertTile(l, mine[i], i - 1)])

\* There is no early return: the host launches no core without a tile, but
\* where the slots are more than one a core may have none.
runKernelTriInvNS(l, core) ==
  <<TLOAD(I_neg_l1, Gm("I_neg", 0)), SetFlag("MTE2", "MTE1", 0),
    TLOAD(I_scaled_l1, Gm("I_scaled", 0)), WaitFlag("MTE2", "MTE1", 0)>>
  \o PrepareAuxiliaryMatrices \o FirstFlags(l)
  \o FlattenSeq([k \in 1 .. Rounds(l) |-> Round(l, core, k)])
  \o LastFlags(l, core)
=============================================================================
