---------------------------- MODULE TriInvTrick -----------------------------
(***************************************************************************)
(* The triangular inverse by repeated squaring (tri_inv_trick), one matrix *)
(* per core: X = I - M and Y = M M, then X = X + X Y and Y = Y Y while the *)
(* block size doubles up to max_block_size.  All the pipes share one flag  *)
(* id and nearly every statement waits for the one before.                 *)
(***************************************************************************)
EXTENDS CoreCode

X_l1 == <<"X", 0>>
Y_l1 == <<"Y", 0>>
I_l1 == <<"I", 0>>

\* A move into an operand and the flag that hands it to M; a product and the
\* flag that hands it to the fixpipe or its operands back to MTE1; a move out
\* of the accumulator and the flag that says it is done.
Operand(l0, l1) == <<ToL0(l0, l1)>> \o Pass("MTE1", "M", 0)
ThenFix(do) == <<do>> \o Pass("M", "FIX", 0)
ThenMte1(do) == <<do>> \o Pass("M", "MTE1", 0)
Fixed(l1, dst) == <<ToL1(l1, C(0))>> \o Pass("FIX", dst, 0)

\* Y = M M, X = I - M and I = (-I)(-I), X holding -I at first.
Prologue(core) ==
  <<TLOAD(Y_l1, Gm("M", core)), TLOAD(X_l1, Gm("I_neg", 0))>> \o Pass("MTE2", "MTE1", 0)
  \o Operand(A(0), Y_l1) \o Pass("M", "MTE1", 0)
  \o Operand(B(0), Y_l1) \o ThenFix(TMATMUL(C(0), A(0), B(0))) \o Fixed(Y_l1, "MTE1")
  \o Operand(B(0), X_l1) \o ThenMte1(TMATMUL(C(0), A(0), B(0)))
  \o Operand(A(0), X_l1) \o ThenFix(TMATMUL_ACC(C(0), A(0), B(0))) \o Fixed(X_l1, "M")
  \o ThenFix(TMATMUL(C(0), A(0), B(0))) \o Fixed(I_l1, "MTE1")

Round(i, max_block_size) ==
  <<ToL0(A(0), X_l1)>> \o Operand(B(0), I_l1) \o ThenMte1(TMATMUL(C(0), A(0), B(0)))
  \o Operand(B(0), Y_l1) \o ThenFix(TMATMUL_ACC(C(0), A(0), B(0)))
  \o (IF i < max_block_size \div 2
      THEN Fixed(X_l1, "MTE1")
           \o Operand(A(0), Y_l1) \o ThenFix(TMATMUL(C(0), A(0), B(0)))
           \o Fixed(Y_l1, "MTE1")
      ELSE <<>>)

runKernelTriInvTrick(core, max_block_size) ==
  LET rounds == SelectSeq([k \in 1 .. 8 |-> 2^(k - 1)], LAMBDA i : i < max_block_size)
  IN Prologue(core)
     \o FlattenSeq([k \in DOMAIN rounds |-> Round(rounds[k], max_block_size)])
     \o <<TSTORE(Gm("M_inv", core), C(0))>>
=============================================================================
