----------------------------- MODULE KdaChunkO ------------------------------
(***************************************************************************)
(* The output of Kimi Delta Attention (kda_chunk_o_kernel), on one AI      *)
(* core, chunk by chunk:                                                   *)
(*                                                                         *)
(*   Vec  Q exp(g_cs), the masked scores, V and S to the workspace  flag 0 *)
(*   Cube QS = Q S, QKV = Aqk V, to slots of their own              flag 1 *)
(*   Vec  O = QS + QKV                                                     *)
(*                                                                         *)
(* The vector subblocks make the scores themselves, column by column; one  *)
(* column stands for all, as pipe_barrier(PIPE_ALL) ends each.  Modelled   *)
(* is the A2/A3 build (__CCE_AICORE__ == 220).                             *)
(***************************************************************************)
EXTENDS ChunkTiles

\* Everything a chunk needs from the subblocks.
CubeLoads(w, ci) ==
  <<Await("S", FromVecs(0)),
    CubeLoad({Is(Workspace(v, "WS_Q"), "Q", w, ci) : v \in Vecs}, <<"Q", w, ci>>,
             Tile(Cube, "q_l1"), {}),
    CubeLoad({Is(Workspace(v, "WS_S"), "S", w, ci) : v \in Vecs}, <<"S", w, ci>>,
             Tile(Cube, "s_l1"), {}),
    CubeLoad({Is(Workspace(v, "WS_V"), "V", w, ci) : v \in Vecs}, <<"V", w, ci>>,
             Tile(Cube, "v_l1"), {}),
    CubeLoad({Is(Workspace(v, "WS_QK"), "Aqk", w, ci) : v \in Vecs}, <<"Aqk", w, ci>>,
             Tile(Cube, "qkm_l1"), ToGemm)>>

\* out = a @ b (gemm_oneshot), stored to its slot.
Product(w, ci, out, a, al1, b, bl1, l0c, ws, set) ==
  <<FixDone>>
  \o GemmAfterFix(Is(Tile(Cube, al1), a, w, ci), Is(Tile(Cube, bl1), b, w, ci),
                  <<out, w, ci>>, Tile(Cube, l0c))
  \o <<FixStore(FromGemm, Tile(Cube, l0c), <<out, w, ci>>,
                {Workspace(v, ws) : v \in Vecs}, set)>>

\* The second product needs no load: its flag from MTE2 stands alone.
CubeChunk(w, ci) ==
  CubeLoads(w, ci)
  \o Product(w, ci, "QS", "Q", "q_l1", "S", "s_l1", "qs_l0", "WS_QS", {})
  \o <<Signal("MTE2", ToGemm)>>
  \o Product(w, ci, "QKV", "Aqk", "qkm_l1", "V", "v_l1", "qkv_l0", "WS_QKV", ToVecs(1))

-----------------------------------------------------------------------------
\* A.1 Q by way of slot D into slot B, g_cs into slot A, or zeros.
LoadQueries(v, w, ci) ==
  IF Live(w, ci, v)
  THEN <<Load({}, <<"Q", w, ci>>, Ub(v, "slot_d"), At(v, "MTE2", "V")),
         Vector(v, At(v, "MTE2", "V"), {Is(Ub(v, "slot_d"), "Q", w, ci)}, <<"Q", w, ci>>,
                {Ub(v, "slot_b")}, {}),
         Load({}, <<"g", w, ci>>, Ub(v, "slot_a"), At(v, "MTE2", "V")),
         Await("V", At(v, "MTE2", "V"))>>
  ELSE <<Vector(v, {}, {}, <<"Q", w, ci>>, {Ub(v, "slot_b")}, {}),
         Vector(v, {}, {}, <<"g", w, ci>>, {Ub(v, "slot_a")}, {})>>

\* A.2 Q exp(g_cs) to WS_Q.
StoreQueries(v, w, ci) ==
  <<Vector(v, {}, {Is(Ub(v, "slot_a"), "g", w, ci), Is(Ub(v, "slot_b"), "Q", w, ci)},
           <<"Q", w, ci>>, {Ub(v, "slot_c")}, At(v, "V", "MTE3")),
    Store(At(v, "V", "MTE3"), Is(Ub(v, "slot_c"), "Q", w, ci), <<"Q", w, ci>>,
          {Workspace(v, "WS_Q")}, {}),
    PipeBarrierAll>>

\* A.3 The scores: zeros first, then a column of them: its g and k, and the
\* mask, by way of slots C and D.
StoreScores(v, w, ci) ==
  <<Vector(v, {}, {}, <<"zero", w, ci>>, {Ub(v, "slot_c")}, At(v, "V", "MTE3")),
    Store(At(v, "V", "MTE3"), Is(Ub(v, "slot_c"), "zero", w, ci), <<"zero", w, ci>>,
          {Workspace(v, "WS_QK")}, At(v, "MTE3", "V")),
    Await("V", At(v, "MTE3", "V")),
    Load({}, <<"column", w, ci>>, Ub(v, "gc_kc"), At(v, "MTE2", "V")),
    Vector(v, At(v, "MTE2", "V"),
           {Is(Ub(v, "gc_kc"), "column", w, ci), Is(Ub(v, "slot_a"), "g", w, ci),
            Is(Ub(v, "slot_b"), "Q", w, ci)},
           <<"Aqk", w, ci>>, {Ub(v, "slot_c"), Ub(v, "slot_d"), Ub(v, "colsum")}, {}),
    Load({}, <<"mask", w, ci>>, Ub(v, "mk"), At(v, "MTE2", "V")),
    Vector(v, At(v, "MTE2", "V"),
           {Is(Ub(v, "mk"), "mask", w, ci), Is(Ub(v, "colsum"), "Aqk", w, ci)},
           <<"Aqk", w, ci>>, {Ub(v, "colsum")}, At(v, "V", "MTE3")),
    Store(At(v, "V", "MTE3"), Is(Ub(v, "colsum"), "Aqk", w, ci), <<"Aqk", w, ci>>,
          {Workspace(v, "WS_QK")}, At(v, "MTE3", "V")),
    Await("V", At(v, "MTE3", "V")),
    PipeBarrierAll>>

\* A.4, A.5 x as float, by way of slots D and A, to its slot in the workspace.
Widen(v, w, ci, x, ws, live) ==
  <<Signal("MTE3", At(v, "MTE3", "V") \cup At(v, "MTE3", "MTE2")),
    Await("V", At(v, "MTE3", "V")), Await("MTE2", At(v, "MTE3", "MTE2"))>>
  \o (IF live
      THEN <<Load({}, <<x, w, ci>>, Ub(v, "slot_d"), At(v, "MTE2", "V")),
             Vector(v, At(v, "MTE2", "V"), {Is(Ub(v, "slot_d"), x, w, ci)}, <<x, w, ci>>,
                    {Ub(v, "slot_a")}, At(v, "V", "MTE3"))>>
      ELSE <<Vector(v, {}, {}, <<x, w, ci>>, {Ub(v, "slot_a")}, At(v, "V", "MTE3"))>>)
  \o <<Store(At(v, "V", "MTE3"), Is(Ub(v, "slot_a"), x, w, ci), <<x, w, ci>>,
             {Workspace(v, ws)}, {})>>

\* C. O = QS + QKV.
Combine(v, w, ci) ==
  <<Await("S", {CrossFlag(v, Cube, 1)}), PipeBarrierAll>>
  \o (IF Live(w, ci, v)
      THEN <<Load({Is(Workspace(v, "WS_QS"), "QS", w, ci)}, <<"QS", w, ci>>, Ub(v, "slot_a"), {}),
             Load({Is(Workspace(v, "WS_QKV"), "QKV", w, ci)}, <<"QKV", w, ci>>,
                  Ub(v, "slot_b"), At(v, "MTE2", "V")),
             Vector(v, At(v, "MTE2", "V"),
                    {Is(Ub(v, "slot_a"), "QS", w, ci), Is(Ub(v, "slot_b"), "QKV", w, ci)},
                    <<"O", w, ci>>, {Ub(v, "slot_a"), Ub(v, "slot_d")}, At(v, "V", "MTE3")),
             Store(At(v, "V", "MTE3"), Is(Ub(v, "slot_d"), "O", w, ci), <<"O", w, ci>>,
                   {Gm(v, "O", w, ci)}, {})>>
      ELSE <<>>)
  \o <<PipeBarrierAll>>

VecChunk(v, w, ci) ==
  LoadQueries(v, w, ci) \o StoreQueries(v, w, ci) \o StoreScores(v, w, ci)
  \o Widen(v, w, ci, "V", "WS_V", Live(w, ci, v)) \o Widen(v, w, ci, "S", "WS_S", TRUE)
  \o <<PipeBarrierAll, Signal("MTE3", {CrossFlag(Cube, v, 0)})>>
  \o Combine(v, w, ci)

-----------------------------------------------------------------------------
Program ==
  [c \in ChunkCores |->
     FlattenSeq([k \in DOMAIN Chunks |->
       IF c = Cube THEN CubeChunk(Chunks[k][1], Chunks[k][2])
       ELSE VecChunk(c, Chunks[k][1], Chunks[k][2])])]

Unsynchronized == {}
FlagsLeft == {}
=============================================================================
