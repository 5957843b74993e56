---------------------------- MODULE ChunkCumsum -----------------------------
(***************************************************************************)
(* The prefix sums of the gates within each chunk, of GatedDeltaNet        *)
(* (cumsum_kernel_varlen, cumsum_kernel_static) and of Kimi Delta          *)
(* Attention (kda_gate_cumsum_kernel): on one vector subblock of every AI  *)
(* core, one input and one output tile, chunk after chunk.  KDA's column   *)
(* tiles follow one another as chunks do; one stands for all.              *)
(***************************************************************************)
EXTENDS ChunkTiles

\* The sums of a chunk are stored and V waits for the store.
StoreSums(v, w, ci) ==
  <<Store(At(v, "V", "MTE3"), Is(Ub(v, "s_ub"), "sum", w, ci), <<"sum", w, ci>>,
          {Gm(v, "g_sum", w, ci)}, At(v, "MTE3", "V")),
    Await("V", At(v, "MTE3", "V"))>>

\* V reads g where it is loaded.
GdnChunk(v, w, ci) ==
  <<Load({}, <<"g", w, ci>>, Ub(v, "g_ub"), At(v, "MTE2", "V")),
    Vector(v, At(v, "MTE2", "V"), {Is(Ub(v, "g_ub"), "g", w, ci)}, <<"sum", w, ci>>,
           {Ub(v, "acc_ub"), Ub(v, "s_ub")}, At(v, "V", "MTE3"))>>
  \o StoreSums(v, w, ci)

\* V widens g first, and tells MTE2 when it is done.
KdaChunk(v, w, ci) ==
  <<Load({}, <<"g", w, ci>>, Ub(v, "g_half"), At(v, "MTE2", "V")),
    Vector(v, At(v, "MTE2", "V"), {Is(Ub(v, "g_half"), "g", w, ci)}, <<"g", w, ci>>,
           {Ub(v, "g_wide")}, {}),
    Vector(v, {}, {Is(Ub(v, "g_wide"), "g", w, ci)}, <<"sum", w, ci>>,
           {Ub(v, "acc_ub"), Ub(v, "s_ub")}, At(v, "V", "MTE2") \cup At(v, "V", "MTE3")),
    Await("MTE2", At(v, "V", "MTE2"))>>
  \o StoreSums(v, w, ci)

\* if (vid != 0) return;
First == "aiv0"
OnFirstSubblock(program) == [c \in ChunkCores |-> IF c = First THEN program ELSE <<>>]

GdnProgram ==
  OnFirstSubblock(
    FlattenSeq([k \in DOMAIN Chunks |-> GdnChunk(First, Chunks[k][1], Chunks[k][2])]))
KdaProgram ==
  OnFirstSubblock(
    FlattenSeq([k \in DOMAIN Chunks |-> KdaChunk(First, Chunks[k][1], Chunks[k][2])]))

\* The input tile of GatedDeltaNet's.
GdnUnsynchronized == {Ub(First, "g_ub")}
=============================================================================
