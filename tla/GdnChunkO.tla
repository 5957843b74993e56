----------------------------- MODULE GdnChunkO ------------------------------
(***************************************************************************)
(* The output of GatedDeltaNet (chunk_o_kernel), on one AI core, chunk by  *)
(* chunk:                                                                  *)
(*                                                                         *)
(*   Cube QK = Q K^T, QS = Q S, each to its workspace      flag 0          *)
(*   Vec  QK gated, to its workspace                       flag 1          *)
(*   Cube QKV = QK_gated V, over QS                        flag 2          *)
(*   Vec  O = exp(g) QS + QKV                              flag 3          *)
(*                                                                         *)
(* Modelled is the A2/A3 build (__CCE_AICORE__ == 220).                    *)
(***************************************************************************)
EXTENDS ChunkTiles

\* The k-th of this core's chunks waits until the one before is done.
AwaitDone(k) == IF k = 1 THEN <<>> ELSE <<Await("S", FromVecs(3))>>

\* QK = Q @ K^T; QK and QKV share an accumulator, QS has one of its own.
Scores(w, ci) ==
  <<FixDone,
    CubeLoad({}, <<"Q", w, ci>>, Tile(Cube, "q_l1"), {}),
    CubeLoad({}, <<"K", w, ci>>, Tile(Cube, "k_l1"), ToGemm)>>
  \o GemmAfterFix(Is(Tile(Cube, "q_l1"), "Q", w, ci), Is(Tile(Cube, "k_l1"), "K", w, ci),
                  <<"QK", w, ci>>, Tile(Cube, "qk_l0"))
  \o <<Await("FIX", FromGemm)>>

\* QS = Q @ S, with no wait for FIX; then both are stored.
Projected(w, ci) ==
  <<CubeLoad({}, <<"S", w, ci>>, Tile(Cube, "s_l1"), ToGemm)>>
  \o Gemm({}, Is(Tile(Cube, "q_l1"), "Q", w, ci), Is(Tile(Cube, "s_l1"), "S", w, ci),
          <<"QS", w, ci>>, Tile(Cube, "qs_l0"))
  \o <<FixStore(FromGemm, Tile(Cube, "qk_l0"), <<"QK", w, ci>>,
                {Workspace(v, "WS_QK") : v \in Vecs}, {}),
       FixStore({}, Tile(Cube, "qs_l0"), <<"QS", w, ci>>,
                {Workspace(v, "WS_QS_QKV") : v \in Vecs}, ToVecs(0))>>

\* QKV = QK_gated @ V, stored where QS was.
Attended(w, ci) ==
  <<Await("S", FromVecs(1)), FixDone,
    CubeLoad({Is(Workspace(v, "WS_QK_gated"), "QK_gated", w, ci) :
              v \in {u \in Vecs : Live(w, ci, u)}},
             <<"QK_gated", w, ci>>, Tile(Cube, "qk_gated_l1"), {}),
    CubeLoad({}, <<"V", w, ci>>, Tile(Cube, "v_l1"), ToGemm)>>
  \o GemmAfterFix(Is(Tile(Cube, "qk_gated_l1"), "QK_gated", w, ci),
                  Is(Tile(Cube, "v_l1"), "V", w, ci), <<"QKV", w, ci>>, Tile(Cube, "qk_l0"))
  \o <<FixStore(FromGemm, Tile(Cube, "qk_l0"), <<"QKV", w, ci>>,
                {Workspace(v, "WS_QS_QKV") : v \in Vecs}, ToVecs(2))>>

CubeChunk(k, w, ci) == AwaitDone(k) \o Scores(w, ci) \o Projected(w, ci) \o Attended(w, ci)

-----------------------------------------------------------------------------
\* The mask is loaded once.
Prologue(v) ==
  <<Load({}, <<"Msk", 0, 0>>, Ub(v, "msk_ub"), At(v, "MTE2", "V")),
    Await("V", At(v, "MTE2", "V"))>>

\* coeff and exp(g), by way of qs_ub.
Coefficients(v, w, ci) ==
  <<Load({}, <<"g", w, ci>>, Ub(v, "g_ub"), At(v, "MTE2", "V")),
    Vector(v, At(v, "MTE2", "V"),
           {Is(Ub(v, "g_ub"), "g", w, ci), <<Ub(v, "msk_ub"), <<"Msk", 0, 0>>>>},
           <<"coeff", w, ci>>, {Ub(v, "coeff_ub"), Ub(v, "g_v_ub"), Ub(v, "qs_ub")}, {})>>

\* QK is gated and stored while QS is loaded; then flag 1.
GateScores(v, w, ci) ==
  <<Load({Is(Workspace(v, "WS_QK"), "QK", w, ci)}, <<"QK", w, ci>>, Ub(v, "qk_ub_half"),
         At(v, "MTE2", "V")),
    Vector(v, At(v, "MTE2", "V"), {Is(Ub(v, "qk_ub_half"), "QK", w, ci)},
           <<"QK", w, ci>>, {Ub(v, "qk_ub")}, At(v, "V", "MTE2")),
    Await("MTE2", At(v, "V", "MTE2")),
    Load({Is(Workspace(v, "WS_QS_QKV"), "QS", w, ci)}, <<"QS", w, ci>>, Ub(v, "qs_ub_half"), {}),
    Vector(v, {}, {Is(Ub(v, "qk_ub"), "QK", w, ci), Is(Ub(v, "coeff_ub"), "coeff", w, ci)},
           <<"QK_gated", w, ci>>, {Ub(v, "qk_ub"), Ub(v, "qk_ub_half")}, At(v, "V", "MTE3")),
    Store(At(v, "V", "MTE3"), Is(Ub(v, "qk_ub_half"), "QK_gated", w, ci),
          <<"QK_gated", w, ci>>, {Workspace(v, "WS_QK_gated")}, {CrossFlag(Cube, v, 1)})>>

\* exp(g) QS, by way of coeff_ub; QKV is added and O stored; then flag 3.
Combine(v, w, ci) ==
  <<Signal("MTE2", At(v, "MTE2", "V")),
    Vector(v, At(v, "MTE2", "V"),
           {Is(Ub(v, "qs_ub_half"), "QS", w, ci), Is(Ub(v, "g_v_ub"), "coeff", w, ci)},
           <<"QS", w, ci>>, {Ub(v, "qs_ub"), Ub(v, "coeff_ub")}, {}),
    Await("S", {CrossFlag(v, Cube, 2)}),
    Load({Is(Workspace(v, "WS_QS_QKV"), "QKV", w, ci)}, <<"QKV", w, ci>>,
         Ub(v, "o_ub_half"), At(v, "MTE2", "V")),
    Vector(v, At(v, "MTE2", "V"),
           {Is(Ub(v, "qs_ub"), "QS", w, ci), Is(Ub(v, "o_ub_half"), "QKV", w, ci)},
           <<"O", w, ci>>, {Ub(v, "qk_ub"), Ub(v, "o_ub_half")}, At(v, "V", "MTE3")),
    Store(At(v, "V", "MTE3"), Is(Ub(v, "o_ub_half"), "O", w, ci), <<"O", w, ci>>,
          {Gm(v, "O", w, ci)}, {CrossFlag(Cube, v, 3)})>>

\* A stripe without live rows only keeps the flags going.
VecChunk(v, w, ci) ==
  IF Live(w, ci, v)
  THEN Coefficients(v, w, ci) \o <<Await("S", {CrossFlag(v, Cube, 0)})>>
       \o GateScores(v, w, ci) \o Combine(v, w, ci)
  ELSE <<Await("S", {CrossFlag(v, Cube, 0)}), Signal("MTE3", {CrossFlag(Cube, v, 1)}),
         Await("S", {CrossFlag(v, Cube, 2)}), Signal("MTE3", {CrossFlag(Cube, v, 3)})>>

-----------------------------------------------------------------------------
Program ==
  [c \in ChunkCores |->
     IF c = Cube
     THEN FlattenSeq([k \in DOMAIN Chunks |-> CubeChunk(k, Chunks[k][1], Chunks[k][2])])
     ELSE Prologue(c)
          \o FlattenSeq([k \in DOMAIN Chunks |-> VecChunk(c, Chunks[k][1], Chunks[k][2])])]

\* The workspace QS and QKV share, and the flag of the last chunk.
Unsynchronized == {Workspace(v, "WS_QS_QKV") : v \in Vecs}
FlagsLeft == IF Chunks = <<>> THEN {} ELSE FromVecs(3)
=============================================================================
