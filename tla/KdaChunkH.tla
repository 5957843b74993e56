----------------------------- MODULE KdaChunkH ------------------------------
(***************************************************************************)
(* The recurrent state update of Kimi Delta Attention (kda_chunk_h_kernel) *)
(* on one AI core: as chunk_h of GatedDeltaNet, but K is decayed channel   *)
(* by channel, V goes through the workspace too, no input is prefetched,   *)
(* and several float tiles take turns in one place of UB:                  *)
(*                                                                         *)
(*   GCS_UB    g_cs, then U, then K^T V                                    *)
(*   COEFF_UB  the decay of K, then W S, then the decay of S               *)
(*   U_UB_HALF U, then W S, then V, then K^T V                             *)
(*                                                                         *)
(* Modelled is the A2/A3 build (__CCE_AICORE__ == 220).                    *)
(***************************************************************************)
EXTENDS ChunkTiles

\* The state before chunk ci: before the first one it is 0 in every item.
State(w, ci) == IF ci = 0 THEN <<"S", 0, 0>> ELSE <<"S", w, ci>>

-----------------------------------------------------------------------------
\* WS = W @ S.
ProjectState(w, ci) ==
  <<Await("S", FromVecs(3)),
    CubeLoad({<<Workspace(v, "WS_S"), State(w, ci)>> : v \in Vecs}, State(w, ci),
             Tile(Cube, "s_l1"), {}),
    CubeLoad({}, <<"W", w, ci>>, Tile(Cube, "w_l1"), ToGemm),
    FixDone>>
  \o GemmAfterFix(Is(Tile(Cube, "w_l1"), "W", w, ci), <<Tile(Cube, "s_l1"), State(w, ci)>>,
                  <<"WS", w, ci>>, Tile(Cube, "ws_l0"))
  \o <<FixStore(FromGemm, Tile(Cube, "ws_l0"), <<"WS", w, ci>>,
                {Workspace(v, "WS_WS") : v \in Vecs}, ToVecs(0))>>

\* KV = K^T @ V, both from the workspace.
StateUpdate(w, ci) ==
  <<Await("S", FromVecs(1)),
    CubeLoad({Is(Workspace(v, "WS_K"), "K", w, ci) : v \in Vecs}, <<"K", w, ci>>,
             Tile(Cube, "k_l1"), {}),
    CubeLoad({Is(Workspace(v, "WS_V"), "V", w, ci) : v \in Vecs}, <<"V", w, ci>>,
             Tile(Cube, "v_l1"), ToGemm),
    FixDone>>
  \o GemmAfterFix(Is(Tile(Cube, "k_l1"), "K", w, ci), Is(Tile(Cube, "v_l1"), "V", w, ci),
                  <<"KV", w, ci>>, Tile(Cube, "kv_l0"))
  \o <<FixStore(FromGemm, Tile(Cube, "kv_l0"), <<"KV", w, ci>>,
                {Workspace(v, "WS_KV") : v \in Vecs}, ToVecs(2))>>

CubeItem(w) ==
  FlattenSeq([k \in 1 .. NumChunks(w) |-> ProjectState(w, k - 1) \o StateUpdate(w, k - 1)])

-----------------------------------------------------------------------------
\* s_ub_half to WS_S; then flag 3.
PublishState(v, w, ci) ==
  <<Store(At(v, "V", "MTE3"), <<Ub(v, "s_ub_half"), State(w, ci)>>, State(w, ci),
          {Workspace(v, "WS_S")}, {CrossFlag(Cube, v, 3)})>>

\* S_0 = 0.  (zero_ub is V's alone: the two V-to-S handshakes are one.)
StartItem(v, w) ==
  <<Signal("V", At(v, "V", "S")), Await("S", At(v, "V", "S")),
    Vector(v, {}, {}, State(w, 0), {Ub(v, "s_ub"), Ub(v, "s_ub_half")}, At(v, "V", "MTE3"))>>
  \o PublishState(v, w, 0)

\* 1. The state entering the chunk goes to S, as half as it went to WS_S.
Snapshot(v, w, ci) ==
  <<Signal("V", At(v, "V", "MTE3")),
    Store(At(v, "V", "MTE3"), <<Ub(v, "s_ub_half"), State(w, ci)>>, State(w, ci),
          {Gm(v, "S_out", w, ci)}, {})>>

\* 2. K and g_cs, and g_total; a stripe without live rows has zeros.
LoadKeys(v, w, ci) ==
  (IF Live(w, ci, v)
   THEN <<Load({}, <<"K", w, ci>>, Ub(v, "k_ub_half"), At(v, "MTE2", "V")),
          Vector(v, At(v, "MTE2", "V"), {Is(Ub(v, "k_ub_half"), "K", w, ci)}, <<"K", w, ci>>,
                 {Ub(v, "k_ub")}, {}),
          Load({}, <<"g", w, ci>>, Ub(v, "gcs_ub"), At(v, "MTE2", "V")),
          Await("V", At(v, "MTE2", "V"))>>
   ELSE <<Vector(v, {}, {}, <<"K", w, ci>>, {Ub(v, "k_ub")}, {}),
          Vector(v, {}, {}, <<"g", w, ci>>, {Ub(v, "gcs_ub")}, {})>>)
  \o <<Load({}, <<"g_total", w, ci>>, Ub(v, "gtotal_ub"), At(v, "MTE2", "V"))>>

\* 3. K exp(g_total - g_cs); 4. U, where g_cs was.
DecayKeys(v, w, ci) ==
  <<Vector(v, At(v, "MTE2", "V"),
           {Is(Ub(v, "gtotal_ub"), "g_total", w, ci), Is(Ub(v, "gcs_ub"), "g", w, ci),
            Is(Ub(v, "k_ub"), "K", w, ci)},
           <<"K", w, ci>>, {Ub(v, "coeff_ub"), Ub(v, "k_ub"), Ub(v, "k_ub_half")},
           At(v, "V", "MTE2")),
    Await("MTE2", At(v, "V", "MTE2"))>>
LoadU(v, w, ci) ==
  IF Live(w, ci, v)
  THEN <<Load({}, <<"U", w, ci>>, Ub(v, "u_ub_half"), At(v, "MTE2", "V")),
         Vector(v, At(v, "MTE2", "V"), {Is(Ub(v, "u_ub_half"), "U", w, ci)}, <<"U", w, ci>>,
                {Ub(v, "gcs_ub")}, {})>>
  ELSE <<Vector(v, {}, {}, <<"U", w, ci>>, {Ub(v, "gcs_ub")}, {})>>

\* 5. V = U - WS.
Residual(v, w, ci) ==
  <<Await("S", {CrossFlag(v, Cube, 0)}),
    Load({Is(Workspace(v, "WS_WS"), "WS", w, ci)}, <<"WS", w, ci>>, Ub(v, "u_ub_half"),
         At(v, "MTE2", "V")),
    Vector(v, At(v, "MTE2", "V"),
           {Is(Ub(v, "u_ub_half"), "WS", w, ci), Is(Ub(v, "gcs_ub"), "U", w, ci)},
           <<"V", w, ci>>, {Ub(v, "coeff_ub"), Ub(v, "gcs_ub"), Ub(v, "u_ub_half")},
           At(v, "V", "MTE3"))>>

\* 6. V to the output and to WS_V, K to WS_K; then flag 1.
Publish(v, w, ci) ==
  <<Store(At(v, "V", "MTE3"), Is(Ub(v, "u_ub_half"), "V", w, ci), <<"V", w, ci>>,
          {Workspace(v, "WS_V")} \cup (IF Live(w, ci, v) THEN {Gm(v, "V", w, ci)} ELSE {}), {}),
    Store({}, Is(Ub(v, "k_ub_half"), "K", w, ci), <<"K", w, ci>>, {Workspace(v, "WS_K")},
          {CrossFlag(Cube, v, 1)} \cup At(v, "MTE3", "V"))>>

\* There is a chunk after ci.
More(w, ci) == ci + 1 < NumChunks(w)

\* 7. S = S exp(g_total); 8. S = S + KV, by way of gcs_ub; 9. S as half.
AdvanceState(v, w, ci) ==
  <<Vector(v, At(v, "MTE3", "V"),
           {Is(Ub(v, "gtotal_ub"), "g_total", w, ci), <<Ub(v, "s_ub"), State(w, ci)>>},
           <<"Sg", w, ci>>, {Ub(v, "gtotal_ub"), Ub(v, "coeff_ub"), Ub(v, "s_ub")}, {}),
    Await("S", {CrossFlag(v, Cube, 2)}),
    Load({Is(Workspace(v, "WS_KV"), "KV", w, ci)}, <<"KV", w, ci>>, Ub(v, "u_ub_half"),
         At(v, "MTE2", "V")),
    Vector(v, At(v, "MTE2", "V"),
           {Is(Ub(v, "u_ub_half"), "KV", w, ci), Is(Ub(v, "s_ub"), "Sg", w, ci)},
           State(w, ci + 1),
           {Ub(v, "gcs_ub"), Ub(v, "s_ub")} \cup (IF More(w, ci) THEN {Ub(v, "s_ub_half")} ELSE {}),
           IF More(w, ci) THEN At(v, "V", "MTE3") ELSE {})>>
  \o (IF More(w, ci) THEN PublishState(v, w, ci + 1) ELSE <<>>)

VecChunk(v, w, ci) ==
  Snapshot(v, w, ci) \o LoadKeys(v, w, ci) \o DecayKeys(v, w, ci) \o LoadU(v, w, ci)
  \o Residual(v, w, ci) \o Publish(v, w, ci) \o AdvanceState(v, w, ci)
VecItem(v, w) ==
  StartItem(v, w) \o FlattenSeq([k \in 1 .. NumChunks(w) |-> VecChunk(v, w, k - 1)])

-----------------------------------------------------------------------------
Program ==
  [c \in ChunkCores |->
     FlattenSeq([w \in Items |-> IF c = Cube THEN CubeItem(w) ELSE VecItem(c, w)])]

\* U_UB_HALF, and what the next chunk's g_cs and g_total are loaded over.
Unsynchronized ==
  {Ub(v, name) : v \in Vecs, name \in {"u_ub_half", "gcs_ub", "gtotal_ub"}}
FlagsLeft == {}
=============================================================================
