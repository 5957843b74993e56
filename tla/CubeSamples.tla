---------------------------- MODULE CubeSamples -----------------------------
(***************************************************************************)
(* The Cube kernels of one pass: the prefix sum of a matrix (scan_ul1),    *)
(* one product (simple_matmul) and the square of every core's matrix       *)
(* (batch_matrix_square).                                                  *)
(***************************************************************************)
EXTENDS CoreCode

L1(name) == <<name, 0>>

-----------------------------------------------------------------------------
LoadC1 ==
  Pass("FIX", "MTE2", 0) \o <<TLOAD(L1("c1"), Gm("s", 0))>> \o Pass("MTE2", "MTE1", 1)

\* C1 = X O, the sums of the rows, goes through the output tensor and back to
\* L1; the accumulator then takes C2 = X U, the prefix sums of the rows, and
\* C2 + L C1.
runKernelScanUl1 ==
  <<TLOAD(L1("x"), Gm("x", 0)), TLOAD(L1("o"), Gm("o", 0)),
    TLOAD(L1("u"), Gm("u", 0)), TLOAD(L1("l"), Gm("l", 0))>> \o Pass("MTE2", "MTE1", 0)
  \o <<ToL0(A(0), L1("x")), ToL0(B(0), L1("o"))>> \o Pass("MTE1", "M", 0)
  \o <<TMATMUL(C(0), A(0), B(0))>> \o Pass("M", "FIX", 0)
  \o <<TSTORE(Gm("s", 0), C(0))>> \o Pass("FIX", "MTE1", 0)
  \o <<ToL0(B(0), L1("u"))>> \o Pass("MTE1", "M", 0)
  \o <<TMATMUL(C(0), A(0), B(0))>> \o LoadC1 \o Pass("M", "MTE1", 0)
  \o <<ToL0(A(0), L1("l")), ToL0(B(0), L1("c1"))>> \o Pass("MTE1", "M", 1)
  \o <<TMATMUL_ACC(C(0), A(0), B(0))>> \o Pass("M", "FIX", 0)
  \o <<TSTORE(Gm("s", 0), C(0))>>

-----------------------------------------------------------------------------
\* pipe_barrier(PIPE_ALL) stands between the product and its flag.
runKernelSimpleMatMul ==
  <<TLOAD(L1("a"), Gm("a", 0)), TLOAD(L1("b"), Gm("b", 0))>> \o Pass("MTE2", "MTE1", 0)
  \o <<ToL0(A(0), L1("a")), ToL0(B(0), L1("b"))>> \o Pass("MTE1", "M", 0)
  \o <<TMATMUL(C(0), A(0), B(0)), BarrierAll>> \o Pass("M", "FIX", 0)
  \o <<TSTORE(Gm("c", 0), C(0))>>

-----------------------------------------------------------------------------
runKernelBatchMatrixSquare(core) ==
  <<TLOAD(L1("ab"), Gm("x", core))>> \o Pass("MTE2", "MTE1", 0)
  \o <<ToL0(A(0), L1("ab")), ToL0(B(0), L1("ab"))>> \o Pass("MTE1", "M", 0)
  \o <<TMATMUL(C(0), A(0), B(0))>> \o Pass("M", "FIX", 0)
  \o <<TSTORE(Gm("z", core), C(0))>>
=============================================================================
