----------------------------- MODULE GdnWyFast ------------------------------
(***************************************************************************)
(* The WY representation of GatedDeltaNet's chunks (wy_fast_kernel), on    *)
(* one AI core: the vector subblocks prepare, the Cube core multiplies.    *)
(*                                                                         *)
(*   Vec  A2 = A beta             to its workspace   flag 2                *)
(*   Cube U = A2 V, A2 slot free                     flag 3                *)
(*   Vec  A1 = A exp(g) beta      to its workspace   flag 1                *)
(*   Cube W = A1 K, A1 slot free                     flag 4                *)
(*                                                                         *)
(* Modelled is the A2/A3 build (__CCE_AICORE__ == 220).  The path for      *)
(* variable lengths has a pipe_barrier(PIPE_ALL) after the Cube's waits    *)
(* which the path for equal lengths does not have, and neither has here.   *)
(***************************************************************************)
EXTENDS ChunkTiles

\* The k-th of this core's chunks waits for the one before: not the first.
\* Mutant of UnlessFirst: the wait is left out.
UnlessFirstNever(k, wait) == <<>>
UnlessFirst(k, wait) == IF k = 1 THEN <<>> ELSE <<wait>>

\* Beta, and A into a1_ub_half; a stripe without live rows is zeroed by V.
LoadInputs(v, w, ci) ==
  <<Load({}, <<"beta", w, ci>>, Ub(v, "beta_ub_half"), {}),
    IF Live(w, ci, v) THEN Load({}, <<"A", w, ci>>, Ub(v, "a1_ub_half"), {})
    ELSE Vector(v, {}, {}, <<"A", w, ci>>, {Ub(v, "a1_ub"), Ub(v, "a1_ub_half")}, {}),
    Signal("MTE2", At(v, "MTE2", "V"))>>

\* A2 = A beta, with A and beta kept in float; then flag 2.
PrepareA2(v, k, w, ci) ==
  <<Vector(v, At(v, "MTE2", "V"),
           {Is(Ub(v, "beta_ub_half"), "beta", w, ci), Is(Ub(v, "a1_ub_half"), "A", w, ci)},
           <<"A2", w, ci>>, {Ub(v, "beta_ub"), Ub(v, "a1_ub"), Ub(v, "a2_ub_half")},
           At(v, "V", "MTE3"))>>
  \o UnlessFirst(k, Await("S", {CrossFlag(v, Cube, 3)}))
  \o <<Store(At(v, "V", "MTE3"), Is(Ub(v, "a2_ub_half"), "A2", w, ci), <<"A2", w, ci>>,
             {Workspace(v, "WS_A2")}, {}),
       PipeBarrierAll,
       Signal("MTE3", {CrossFlag(Cube, v, 2)})>>

\* A1 = A exp(g) beta; then flag 1.
PrepareA1(v, k, w, ci) ==
  <<Load({}, <<"g", w, ci>>, Ub(v, "g_ub"), At(v, "MTE2", "V")),
    Vector(v, At(v, "MTE2", "V"),
           {Is(Ub(v, "g_ub"), "g", w, ci), Is(Ub(v, "beta_ub"), "A2", w, ci),
            Is(Ub(v, "a1_ub"), "A2", w, ci)},
           <<"A1", w, ci>>, {Ub(v, "g_ub"), Ub(v, "a1_ub"), Ub(v, "a1_ub_half")},
           At(v, "V", "MTE3"))>>
  \o UnlessFirst(k, Await("S", {CrossFlag(v, Cube, 4)}))
  \o <<Store(At(v, "V", "MTE3"), Is(Ub(v, "a1_ub_half"), "A1", w, ci), <<"A1", w, ci>>,
             {Workspace(v, "WS_A1")}, {}),
       PipeBarrierAll,
       Signal("MTE3", {CrossFlag(Cube, v, 1)})>>

VecChunk(v, k, w, ci) ==
  LoadInputs(v, w, ci) \o PrepareA2(v, k, w, ci) \o PrepareA1(v, k, w, ci)

-----------------------------------------------------------------------------
\* out = a @ b, with a taken from the workspace when flag "ready" says so.
Product(w, ci, out, a, ws, al1, b, bl1, l0c, ready, free) ==
  <<Await("S", FromVecs(ready)),
    CubeLoad({Is(Workspace(v, ws), a, w, ci) : v \in Vecs}, <<a, w, ci>>,
             Tile(Cube, al1), ToGemm),
    FixDone>>
  \o GemmAfterFix(Is(Tile(Cube, al1), a, w, ci), Is(Tile(Cube, bl1), b, w, ci),
                  <<out, w, ci>>, Tile(Cube, l0c))
  \o <<FixStore(FromGemm, Tile(Cube, l0c), <<out, w, ci>>, {Gm(Cube, out, w, ci)}, ToVecs(free))>>

CubeChunk(w, ci) ==
  <<CubeLoad({}, <<"K", w, ci>>, Tile(Cube, "k_l1"), {}),
    CubeLoad({}, <<"V", w, ci>>, Tile(Cube, "v_l1"), {})>>
  \o Product(w, ci, "U", "A2", "WS_A2", "a2_l1", "V", "v_l1", "u_l0", 2, 3)
  \o Product(w, ci, "W", "A1", "WS_A1", "a1_l1", "K", "k_l1", "w_l0", 1, 4)

-----------------------------------------------------------------------------
Program ==
  [c \in ChunkCores |->
     FlattenSeq([k \in DOMAIN Chunks |->
       IF c = Cube THEN CubeChunk(Chunks[k][1], Chunks[k][2])
       ELSE VecChunk(c, k, Chunks[k][1], Chunks[k][2])])]

\* The last chunk's slots are freed for nobody.
Unsynchronized == {}
FlagsLeft == IF Chunks = <<>> THEN {} ELSE ToVecs(3) \cup ToVecs(4)
=============================================================================
