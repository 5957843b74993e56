------------------------------- MODULE GdnKkt -------------------------------
(***************************************************************************)
(* The intra-chunk attention matrix of GatedDeltaNet (kkt_kernel), on one  *)
(* AI core: the Cube core runs ahead of the vector subblocks through two   *)
(* workspace slots, used in turn:                                          *)
(*                                                                         *)
(*   Cube K_i K_i^T to slot ci & 1            flag 0 or 1                  *)
(*   Vec  A_i = K_i K_i^T coeff mask, slot free   flag 2 or 3              *)
(*                                                                         *)
(* Modelled is the A2/A3 build (__CCE_AICORE__ == 220).                    *)
(***************************************************************************)
EXTENDS ChunkTiles

Slot(ci) == ci % 2
WorkspaceSlot(v, slot) == Gm(v, "WS_KK", 0, slot)

\* L0C tile a_l0 is written with no wait for the store before.
CubeChunk(w, ci) ==
  <<Await("S", FromVecs(2 + Slot(ci))),
    CubeLoad({}, <<"K", w, ci>>, Tile(Cube, "k_l1"), ToGemm)>>
  \o Gemm({}, Is(Tile(Cube, "k_l1"), "K", w, ci), Is(Tile(Cube, "k_l1"), "K", w, ci),
          <<"KK", w, ci>>, Tile(Cube, "a_l0"))
  \o <<FixStore(FromGemm, Tile(Cube, "a_l0"), <<"KK", w, ci>>,
                {WorkspaceSlot(v, Slot(ci)) : v \in Vecs}, ToVecs(Slot(ci)))>>

-----------------------------------------------------------------------------
\* The mask is loaded once; then both slots are free.  Mutant of Prologue:
\* only the first is.
PrologueOneSlot(v) ==
  <<Load({}, <<"Msk", 0, 0>>, Ub(v, "msk_ub"), At(v, "MTE2", "V")),
    Await("V", At(v, "MTE2", "V")),
    Signal("MTE3", {CrossFlag(Cube, v, 2)})>>
Prologue(v) ==
  <<Load({}, <<"Msk", 0, 0>>, Ub(v, "msk_ub"), At(v, "MTE2", "V")),
    Await("V", At(v, "MTE2", "V")),
    Signal("MTE3", {CrossFlag(Cube, v, 2), CrossFlag(Cube, v, 3)})>>

LoadGates(v, w, ci) ==
  <<Load({}, <<"g", w, ci>>, Ub(v, "g_ub"), {}),
    Load({}, <<"beta", w, ci>>, Ub(v, "beta_ub_half"), {})>>

\* coeff, with g_r_2d where a_ub_half is; then K K^T is loaded and gated.
Gate(v, w, ci) ==
  <<Vector(v, {}, {Is(Ub(v, "g_ub"), "g", w, ci), Is(Ub(v, "beta_ub_half"), "beta", w, ci)},
           <<"coeff", w, ci>>, {Ub(v, "coeff_ub"), Ub(v, "a_ub_half")}, At(v, "V", "MTE2")),
    Await("MTE2", At(v, "V", "MTE2")),
    Load({Is(WorkspaceSlot(v, Slot(ci)), "KK", w, ci)}, <<"KK", w, ci>>,
         Ub(v, "a_ub_half"), At(v, "MTE2", "V")),
    Vector(v, At(v, "MTE2", "V"),
           {Is(Ub(v, "a_ub_half"), "KK", w, ci), Is(Ub(v, "coeff_ub"), "coeff", w, ci),
            <<Ub(v, "msk_ub"), <<"Msk", 0, 0>>>>},
           <<"A", w, ci>>, {Ub(v, "a_ub_half")}, At(v, "V", "MTE3")),
    Store(At(v, "V", "MTE3"), Is(Ub(v, "a_ub_half"), "A", w, ci), <<"A", w, ci>>,
          {Gm(v, "A", w, ci)}, {})>>

\* A stripe without live rows only keeps the flags going.
VecChunk(v, w, ci) ==
  (IF Live(w, ci, v) THEN LoadGates(v, w, ci) ELSE <<>>)
  \o <<Await("S", {CrossFlag(v, Cube, Slot(ci))}), PipeBarrierAll>>
  \o (IF Live(w, ci, v) THEN Gate(v, w, ci) ELSE <<>>)
  \o <<PipeBarrierAll, Signal("MTE3", {CrossFlag(Cube, v, 2 + Slot(ci))})>>

-----------------------------------------------------------------------------
Program ==
  [c \in ChunkCores |->
     IF c = Cube
     THEN FlattenSeq([k \in DOMAIN Chunks |-> CubeChunk(Chunks[k][1], Chunks[k][2])])
     ELSE Prologue(c)
          \o FlattenSeq([k \in DOMAIN Chunks |-> VecChunk(c, Chunks[k][1], Chunks[k][2])])]

\* The accumulator no flag protects; the credits nobody takes at the end.
Unsynchronized == {Tile(Cube, "a_l0")}
FlagsLeft == FromVecs(2) \cup FromVecs(3)
=============================================================================
