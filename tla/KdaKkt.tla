------------------------------- MODULE KdaKkt -------------------------------
(***************************************************************************)
(* The intra-chunk matrix of Kimi Delta Attention (kda_kkt_kernel), made   *)
(* by vector lanes alone: of every chunk a lane takes one stripe, for      *)
(* which it computes one column of L after the other.  One column stands   *)
(* for all, as pipe_barrier(PIPE_ALL) ends each.                           *)
(***************************************************************************)
EXTENDS ChunkTiles

\* The stripe's g_cs, K and beta.
LoadRows(v, w, ci) ==
  <<Load({}, <<"g", w, ci>>, Ub(v, "myg"), {}),
    Load({}, <<"K", w, ci>>, Ub(v, "myk_half"), At(v, "MTE2", "V")),
    Vector(v, At(v, "MTE2", "V"), {Is(Ub(v, "myk_half"), "K", w, ci)}, <<"K", w, ci>>,
           {Ub(v, "myk")}, {}),
    Load({}, <<"beta", w, ci>>, Ub(v, "beta_half"), At(v, "MTE2", "V")),
    Vector(v, At(v, "MTE2", "V"), {Is(Ub(v, "beta_half"), "beta", w, ci)}, <<"beta", w, ci>>,
           {Ub(v, "beta")}, {})>>

\* A column: its own g_cs and k, the sums, the mask, the store.
Column(v, w, ci) ==
  <<Load({}, <<"column", w, ci>>, Ub(v, "gc_kc"), At(v, "MTE2", "V")),
    Vector(v, At(v, "MTE2", "V"),
           {Is(Ub(v, "gc_kc"), "column", w, ci), Is(Ub(v, "myg"), "g", w, ci),
            Is(Ub(v, "myk"), "K", w, ci), Is(Ub(v, "beta"), "beta", w, ci)},
           <<"L", w, ci>>, {Ub(v, "diff"), Ub(v, "colsum")}, {}),
    Load({}, <<"mask", w, ci>>, Ub(v, "mk"), At(v, "MTE2", "V")),
    Vector(v, At(v, "MTE2", "V"), {Is(Ub(v, "mk"), "mask", w, ci), Is(Ub(v, "colsum"), "L", w, ci)},
           <<"L", w, ci>>, {Ub(v, "colsum"), Ub(v, "col_h")}, At(v, "V", "MTE3")),
    Store(At(v, "V", "MTE3"), Is(Ub(v, "col_h"), "L", w, ci), <<"L", w, ci>>,
          {Gm(v, "L", w, ci)}, At(v, "MTE3", "V")),
    Await("V", At(v, "MTE3", "V")),
    PipeBarrierAll>>

\* A chunk in which the lane has no rows is skipped.
VecChunk(v, w, ci) ==
  IF Live(w, ci, v) THEN LoadRows(v, w, ci) \o Column(v, w, ci) ELSE <<>>

Program ==
  [c \in ChunkCores |->
     IF c = Cube THEN <<>>
     ELSE FlattenSeq([k \in DOMAIN Chunks |-> VecChunk(c, Chunks[k][1], Chunks[k][2])])]

Unsynchronized == {}
FlagsLeft == {}
=============================================================================
