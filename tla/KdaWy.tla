------------------------------- MODULE KdaWy --------------------------------
(***************************************************************************)
(* The WY representation of Kimi Delta Attention's chunks (kda_wy_kernel), *)
(* on one AI core:                                                         *)
(*                                                                         *)
(*   Vec  A2 = INV beta        to its workspace   flag 10                  *)
(*   Cube U = A2 V, A2 slot free                  flag 12                  *)
(*   Vec  K_eff = K exp(g_cs)  to its workspace   flag 11                  *)
(*   Cube W = A2 K_eff, K_eff slot free           flag 13                  *)
(*                                                                         *)
(* A2 stays in L1 for both products.  The tiles of the two phases share    *)
(* UB: four regions stand for them.  The paths for equal and for variable  *)
(* lengths are the same.  Modelled is the A2/A3 build.                     *)
(***************************************************************************)
EXTENDS ChunkTiles

\* beta and its copies, then k_ub; inv_ub, then gcs_ub; a2_ub, then keff_ub;
\* a2_ub_half, then keff_ub_half.
Low(v) == Ub(v, "low")
Middle(v) == Ub(v, "middle")
High(v) == Ub(v, "high")
Half(v) == Ub(v, "half")

\* The k-th of this core's chunks waits for the one before: not the first.
UnlessFirst(k, wait) == IF k = 1 THEN <<>> ELSE <<wait>>

\* The tile in Half to its workspace, when that is free; then the flag.
Publish(v, k, w, ci, x, ws, free, ready) ==
  UnlessFirst(k, Await("S", {CrossFlag(v, Cube, free)}))
  \o <<Signal("V", At(v, "V", "MTE3")),
       Store(At(v, "V", "MTE3"), Is(Half(v), x, w, ci), <<x, w, ci>>, {Workspace(v, ws)}, {}),
       PipeBarrierAll,
       Signal("MTE3", {CrossFlag(Cube, v, ready)})>>

\* Phase 1: A2 = INV beta; a stripe without live rows is zeroed by V.
PrepareA2(v, w, ci) ==
  <<Load({}, <<"beta", w, ci>>, Low(v), {})>>
  \o (IF Live(w, ci, v)
      THEN <<Load({}, <<"INV", w, ci>>, Half(v), At(v, "MTE2", "V")),
             Vector(v, At(v, "MTE2", "V"),
                    {Is(Low(v), "beta", w, ci), Is(Half(v), "INV", w, ci)},
                    <<"A2", w, ci>>, {Low(v), Middle(v), High(v), Half(v)}, {})>>
      ELSE <<Vector(v, {}, {}, <<"A2", w, ci>>, {High(v), Half(v)}, {}),
             Signal("MTE2", At(v, "MTE2", "V")), Await("V", At(v, "MTE2", "V"))>>)

\* Phase 2: K_eff = K exp(g_cs).
PrepareKeff(v, w, ci) ==
  IF Live(w, ci, v)
  THEN <<Load({}, <<"K", w, ci>>, Half(v), At(v, "MTE2", "V")),
         Vector(v, At(v, "MTE2", "V"), {Is(Half(v), "K", w, ci)}, <<"K", w, ci>>, {Low(v)}, {}),
         Load({}, <<"g", w, ci>>, Middle(v), At(v, "MTE2", "V")),
         Vector(v, At(v, "MTE2", "V"), {Is(Low(v), "K", w, ci), Is(Middle(v), "g", w, ci)},
                <<"Keff", w, ci>>, {Middle(v), High(v), Half(v)}, {})>>
  ELSE <<Vector(v, {}, {}, <<"Keff", w, ci>>, {High(v), Half(v)}, {})>>

VecChunk(v, k, w, ci) ==
  PrepareA2(v, w, ci) \o Publish(v, k, w, ci, "A2", "WS_A2", 12, 10)
  \o PrepareKeff(v, w, ci) \o Publish(v, k, w, ci, "Keff", "WS_KEFF", 13, 11)

\* "Drain the trailing workspace free signals".  Mutant of Drain: only that of
\* A2's slot is.
DrainOfA2(v) ==
  IF Chunks = <<>> THEN <<>> ELSE <<Await("S", {CrossFlag(v, Cube, 12)})>>
Drain(v) ==
  IF Chunks = <<>> THEN <<>>
  ELSE <<Await("S", {CrossFlag(v, Cube, 12)}), Await("S", {CrossFlag(v, Cube, 13)})>>

-----------------------------------------------------------------------------
\* x from its workspace when flag "ready" says so, then out = A2 @ b.
Product(w, ci, out, x, ws, xl1, b, bl1, l0c, ready, free) ==
  <<Await("S", FromVecs(ready)),
    CubeLoad({Is(Workspace(v, ws), x, w, ci) : v \in Vecs}, <<x, w, ci>>,
             Tile(Cube, xl1), ToGemm),
    FixDone>>
  \o GemmAfterFix(Is(Tile(Cube, "a2_l1"), "A2", w, ci), Is(Tile(Cube, bl1), b, w, ci),
                  <<out, w, ci>>, Tile(Cube, l0c))
  \o <<FixStore(FromGemm, Tile(Cube, l0c), <<out, w, ci>>, {Gm(Cube, out, w, ci)}, ToVecs(free))>>

CubeChunk(w, ci) ==
  <<CubeLoad({}, <<"V", w, ci>>, Tile(Cube, "v_l1"), {})>>
  \o Product(w, ci, "U", "A2", "WS_A2", "a2_l1", "V", "v_l1", "u_l0", 10, 12)
  \o Product(w, ci, "W", "Keff", "WS_KEFF", "keff_l1", "Keff", "keff_l1", "w_l0", 11, 13)

-----------------------------------------------------------------------------
Program ==
  [c \in ChunkCores |->
     IF c = Cube
     THEN FlattenSeq([k \in DOMAIN Chunks |-> CubeChunk(Chunks[k][1], Chunks[k][2])])
     ELSE FlattenSeq([k \in DOMAIN Chunks |-> VecChunk(c, k, Chunks[k][1], Chunks[k][2])])
          \o Drain(c)]

Unsynchronized == {}
FlagsLeft == {}
=============================================================================
