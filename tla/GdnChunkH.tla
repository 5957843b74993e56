----------------------------- MODULE GdnChunkH ------------------------------
(***************************************************************************)
(* The recurrent state update of GatedDeltaNet (chunk_h_kernel), on one AI *)
(* core: its Cube core and two vector subblocks work through the core's    *)
(* (sequence, head) items chunk by chunk, handing the state to one another *)
(* through the core's workspace in GM:                                     *)
(*                                                                         *)
(*   Vec  S_i to WS_S             flag 3                                   *)
(*   Cube W_i S_i to WS_WS        flag 0                                   *)
(*   Vec  V_i = U_i - W_i S_i to V, decayed K_i to WS_K   flag 1           *)
(*   Cube K_i^T V_i to WS_KV      flag 2                                   *)
(*   Vec  S_i+1 = exp(g_last) S_i + K_i^T V_i                              *)
(*                                                                         *)
(* Each vector subblock owns one stripe of HalfC rows of every tile.       *)
(* Modelled is the A2/A3 build (__CCE_AICORE__ == 220).                    *)
(***************************************************************************)
EXTENDS ChunkTiles

\* The state before chunk ci: before the first one it is 0 in every item.
State(w, ci) == IF ci = 0 THEN <<"S", 0, 0>> ELSE <<"S", w, ci>>

-----------------------------------------------------------------------------
(* The Cube core.                                                          *)

\* ws_i = W_i @ S_i.
ProjectState(w, ci) ==
  <<Await("S", FromVecs(3)),
    CubeLoad({<<Workspace(v, "WS_S"), State(w, ci)>> : v \in Vecs}, State(w, ci),
             Tile(Cube, "s_l1"), {}),
    CubeLoad({}, <<"W", w, ci>>, Tile(Cube, "w_l1"), ToGemm),
    FixDone>>
  \o GemmAfterFix(Is(Tile(Cube, "w_l1"), "W", w, ci), <<Tile(Cube, "s_l1"), State(w, ci)>>,
                  <<"WS", w, ci>>, Tile(Cube, "ws_l0"))
  \o <<FixStore(FromGemm, Tile(Cube, "ws_l0"), <<"WS", w, ci>>,
                {Workspace(v, "WS_WS") : v \in Vecs}, ToVecs(0))>>

\* kv = k_tilde^T @ v_i_new; rows of V past the sequence are filled with zeros.
StateUpdate(w, ci) ==
  <<Await("S", FromVecs(1)),
    CubeLoad({Is(Workspace(v, "WS_K"), "VK", w, ci) : v \in Vecs}, <<"VK", w, ci>>,
             Tile(Cube, "k_l1"), {}),
    CubeLoad({Is(Gm(v, "V", w, ci), "VK", w, ci) : v \in {u \in Vecs : Live(w, ci, u)}},
             <<"VK", w, ci>>, Tile(Cube, "v_l1"), ToGemm),
    FixDone>>
  \o GemmAfterFix(Is(Tile(Cube, "k_l1"), "VK", w, ci), Is(Tile(Cube, "v_l1"), "VK", w, ci),
                  <<"KV", w, ci>>, Tile(Cube, "kv_l0"))
  \o <<FixStore(FromGemm, Tile(Cube, "kv_l0"), <<"KV", w, ci>>,
                {Workspace(v, "WS_KV") : v \in Vecs}, ToVecs(2))>>

CubeItem(w) ==
  FlattenSeq([k \in 1 .. NumChunks(w) |-> ProjectState(w, k - 1) \o StateUpdate(w, k - 1)])

-----------------------------------------------------------------------------
(* A vector subblock v.                                                    *)

KvUb(v) == {Ub(v, "u_ub_half"), Ub(v, "k_ub")}  \* KV_UB = U_UB_HALF, twice as long

\* The tail-safe load of a stripe: one that has no live row is zeroed by V.
LoadK(v, w, ci) ==
  IF Live(w, ci, v)
  THEN Load({}, <<"K", w, ci>>, Ub(v, "k_ub_half"), {})
  ELSE Vector(v, {}, {}, <<"K", w, ci>>, {Ub(v, "k_ub"), Ub(v, "k_ub_half")}, {})
LoadG(v, w, ci, set) == Load({}, <<"g", w, ci>>, Ub(v, "g_ub"), set)
LoadU(v, w, ci) ==
  IF Live(w, ci, v)
  THEN Load({}, <<"U", w, ci>>, Ub(v, "u_ub_half"), {})
  ELSE Vector(v, {}, {}, <<"U", w, ci>>, {Ub(v, "u_ub"), Ub(v, "u_ub_half")}, {})

\* The state to WS_S, and after a chunk to S as well; then flag 3.
PublishState(v, w, ci) ==
  <<Store(At(v, "V", "MTE3"), <<Ub(v, "s_ub_half"), State(w, ci)>>, State(w, ci),
          {Workspace(v, "WS_S")} \cup (IF ci = 0 THEN {} ELSE {Gm(v, "S_out", w, ci)}),
          {CrossFlag(Cube, v, 3)})>>

\* S_0 = 0 and the first chunk's inputs.  (zero_ub is V's alone, so the two
\* V-to-S handshakes around it are one.)
StartItem(v, w) ==
  <<Signal("V", At(v, "V", "S")), Await("S", At(v, "V", "S")),
    Vector(v, {}, {}, State(w, 0), {Ub(v, "s_ub"), Ub(v, "s_ub_half")}, At(v, "V", "MTE3"))>>
  \o PublishState(v, w, 0)
  \o <<LoadK(v, w, 0), LoadG(v, w, 0, At(v, "MTE2", "V")), Await("V", At(v, "MTE2", "V"))>>

\* g_last is read and g exponentiated; K is decayed to k_tilde in k_ub, and U
\* converted to float in u_ub: what V_new and K of the chunk are made from.
DecayKeys(v, w, ci) ==
  <<Vector(v, {}, {Is(Ub(v, "k_ub_half"), "K", w, ci), Is(Ub(v, "g_ub"), "g", w, ci)},
           <<"K", w, ci>>, {Ub(v, "k_ub")}, At(v, "V", "S")),
    Instruction("S", At(v, "V", "S"), {Is(Ub(v, "g_ub"), "g", w, ci)}, Nothing, {}, {}),
    Vector(v, {}, {Is(Ub(v, "g_ub"), "g", w, ci)}, <<"expg", w, ci>>, {Ub(v, "g_ub")}, {}),
    Signal("MTE2", At(v, "MTE2", "V")),
    Vector(v, At(v, "MTE2", "V"),
           {Is(Ub(v, "u_ub_half"), "U", w, ci), Is(Ub(v, "k_ub"), "K", w, ci)},
           <<"UK", w, ci>>, {Ub(v, "u_ub"), Ub(v, "k_ub")}, {})>>

\* v_new = u - ws, and v_new and k_tilde in half.
Residual(v, w, ci) ==
  <<Await("S", {CrossFlag(v, Cube, 0)}),
    Load({Is(Workspace(v, "WS_WS"), "WS", w, ci)}, <<"WS", w, ci>>, Ub(v, "u_ub_half"),
         At(v, "MTE2", "V")),
    Vector(v, At(v, "MTE2", "V"),
           {Is(Ub(v, "u_ub_half"), "WS", w, ci), Is(Ub(v, "u_ub"), "UK", w, ci),
            Is(Ub(v, "k_ub"), "UK", w, ci)},
           <<"VK", w, ci>>, {Ub(v, "u_ub_half"), Ub(v, "k_ub_half")}, At(v, "V", "MTE3"))>>

\* v_new to V, k_tilde to WS_K; then flag 1.
\* Mutant of Publish: S is told the stores are out before the last one is.
PublishEarly(v, w, ci) ==
  <<Store(At(v, "V", "MTE3"), Is(Ub(v, "u_ub_half"), "VK", w, ci), <<"VK", w, ci>>,
          IF Live(w, ci, v) THEN {Gm(v, "V", w, ci)} ELSE {}, At(v, "MTE3", "S")),
    Store({}, Is(Ub(v, "k_ub_half"), "VK", w, ci), <<"VK", w, ci>>,
          {Workspace(v, "WS_K")}, {CrossFlag(Cube, v, 1)})>>
Publish(v, w, ci) ==
  <<Store(At(v, "V", "MTE3"), Is(Ub(v, "u_ub_half"), "VK", w, ci), <<"VK", w, ci>>,
          IF Live(w, ci, v) THEN {Gm(v, "V", w, ci)} ELSE {}, {}),
    Store({}, Is(Ub(v, "k_ub_half"), "VK", w, ci), <<"VK", w, ci>>,
          {Workspace(v, "WS_K")}, {CrossFlag(Cube, v, 1)} \cup At(v, "MTE3", "S"))>>

\* s = exp(g_last) s, with the next chunk's K and g loaded meanwhile.
ScaleState(v, w, ci) ==
  <<Instruction("S", At(v, "MTE3", "S"), {Is(Ub(v, "g_ub"), "expg", w, ci)}, Nothing, {}, {}),
    Vector(v, {}, {<<Ub(v, "s_ub"), State(w, ci)>>}, <<"Sg", w, ci>>, {Ub(v, "s_ub")},
           At(v, "V", "MTE2")),
    Await("MTE2", At(v, "V", "MTE2"))>>
Prefetch(v, w, ci) == <<LoadK(v, w, ci + 1), LoadG(v, w, ci + 1, {})>>

\* s = s + kv, and the new state in half.
FinishState(v, w, ci) ==
  <<Await("S", {CrossFlag(v, Cube, 2)}),
    Load({Is(Workspace(v, "WS_KV"), "KV", w, ci)}, <<"KV", w, ci>>, Ub(v, "s_ub_half"),
         At(v, "MTE2", "V")),
    Vector(v, At(v, "MTE2", "V"), {Is(Ub(v, "s_ub_half"), "KV", w, ci)}, <<"KV", w, ci>>,
           KvUb(v), {}),
    PipeBarrierAll,
    Vector(v, {}, {Is(Ub(v, "s_ub"), "Sg", w, ci)} \cup {Is(b, "KV", w, ci) : b \in KvUb(v)},
           State(w, ci + 1), {Ub(v, "s_ub"), Ub(v, "s_ub_half")}, At(v, "V", "MTE3"))>>

\* There is a chunk after ci.
More(w, ci) == ci + 1 < NumChunks(w)

Chunk(v, w, ci) ==
  <<LoadU(v, w, ci)>> \o DecayKeys(v, w, ci) \o Residual(v, w, ci)
  \o Publish(v, w, ci) \o ScaleState(v, w, ci)
  \o (IF More(w, ci) THEN Prefetch(v, w, ci) ELSE <<>>)
  \o FinishState(v, w, ci)
  \o (IF More(w, ci)
      THEN PublishState(v, w, ci + 1)
           \o <<Signal("MTE2", At(v, "MTE2", "V")), Await("V", At(v, "MTE2", "V"))>>
      ELSE <<>>)

\* The final state to FS.  (A chunk's TCVT raises the flag the store waits
\* for; an empty sequence has none, so the store's own flag is raised here.)
StoreFinal(v, w) ==
  (IF NumChunks(w) = 0 THEN <<Signal("V", At(v, "V", "MTE3"))>> ELSE <<>>)
  \o <<Store(At(v, "V", "MTE3"), <<Ub(v, "s_ub_half"), State(w, NumChunks(w))>>,
             State(w, NumChunks(w)), {Gm(v, "FS", w, 0)}, {})>>

VecItem(v, w) ==
  StartItem(v, w)
  \o FlattenSeq([k \in 1 .. NumChunks(w) |-> Chunk(v, w, k - 1)])
  \o StoreFinal(v, w)

-----------------------------------------------------------------------------
\* Each core takes every block_num-th item, here all of this core's.
Program ==
  [c \in ChunkCores |->
     FlattenSeq([w \in Items |-> IF c = Cube THEN CubeItem(w) ELSE VecItem(c, w)])]

\* The staging buffers no flag protects.
Unsynchronized == {Ub(v, "u_ub_half") : v \in Vecs} \cup {Ub(v, "s_ub_half") : v \in Vecs}
FlagsLeft == {}
=============================================================================
