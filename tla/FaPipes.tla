------------------------------- MODULE FaPipes -------------------------------
(***************************************************************************)
(* The pipes of one core under flash attention.  FlashAttention takes a    *)
(* stage's work on a tile for one step; here the Cube core's code and that *)
(* of a vector subblock are listed statement by statement, with the event  *)
(* ids that hand the L1, L0 and UB buffers from pipe to pipe, across       *)
(* row-blocks without a barrier.  The waits of the FIFOs between the cores *)
(* are left out, which only lets the pipes run freer.                      *)
(*                                                                         *)
(* A launch has the row-blocks the core does, full_tiles, the sub-tiles of *)
(* a tile (kTileFactor), qk_preload and whether the mask is causal; rows   *)
(* are counted in blocks of CUBE_S0 = CUBE_S1.                             *)
(***************************************************************************)
EXTENDS CoreCode

\* num_tiles_s1 of the w-th row-block.
NumTiles(l, w) ==
  IF l.causal THEN Min({1 + l.blocks[w] \div l.subs, l.full_tiles}) ELSE l.full_tiles

\* Key columns are numbered sub-tile by sub-tile; s1_index <= s0_index.
Column(l, tile, sub) == tile * l.subs + sub
Live(l, w, column) == l.causal => column <= l.blocks[w]

\* Q, K, V and the FIFOs' contents in GM, by row-block and column or tile.
InBlock(w, i) == 64 * w + i

Call(stage, w, tile, sub) == [stage |-> stage, w |-> w, tile |-> tile, sub |-> sub]
EachSub(l, F(_)) == FlattenSeq([s \in 1 .. l.subs |-> F(s - 1)])
EachTile(n, F(_)) == FlattenSeq([t \in 1 .. n |-> F(t - 1)])

\* The stages a core of "side" goes through for one row-block: qk_preload
\* tiles of its own first stage, and then every tile, the first stage of a
\* later one ahead of it.  The Cube core assigns accumulators in between.
Stages(l, w, side) ==
  LET n == NumTiles(l, w)
      first(tile, sub) == <<Call(IF side = "cube" THEN "qk" ELSE "p", w, tile, sub)>>
      assign(what) == IF side = "cube" THEN <<Call(what, w, 0, 0)>> ELSE <<>>
      ahead(tile) == tile + l.preload < n
  IN assign("claim")
     \o EachTile(Min({l.preload, n}), LAMBDA t :
          EachSub(l, LAMBDA s : assign("assign qk") \o first(t, s)))
     \o EachTile(n, LAMBDA t :
          (IF ahead(t) THEN assign("assign qk") ELSE <<>>) \o assign("assign pv")
          \o EachSub(l, LAMBDA s :
               (IF ahead(t) THEN first(t + l.preload, s) ELSE <<>>)
               \o (IF side = "cube" THEN <<Call("pv", w, t, s)>> ELSE <<>>))
          \o (IF side = "cube" THEN <<>> ELSE <<Call("gu", w, t, 0)>>))
     \o assign("release")

Calls(l, side) ==
  (IF side = "cube" THEN <<Call("assign qk", 0, 0, 0), Call("assign pv", 0, 0, 0)>> ELSE <<>>)
  \o FlattenSeq([w \in DOMAIN l.blocks |-> Stages(l, w, side)])

\* Every buffer pair is used in turn by the calls of its stages: the j-th
\* call's is its number among those of its row-block.
Turn(calls, j, stages) ==
  Cardinality({i \in 1 .. j - 1 : calls[i].stage \in stages /\ calls[i].w = calls[j].w}) % 2

\* assign_running_acc_tile: the accumulators go in turn to whichever stage
\* asks; Q K^T and P V tiles are of one type and share one running index.
Acc(calls, j, what) ==
  LET asks == {i \in 1 .. j - 1 : calls[i].stage \in {"assign qk", "assign pv"}}
      last == LastBefore(j, LAMBDA i : calls[i].stage = what)
  IN (Cardinality({i \in asks : i <= last}) - 1) % 2

\* getPingPong: L0A and L0B change with every product, of either stage.
PingPong(l, calls, j) ==
  Cardinality({i \in 1 .. j - 1 :
    calls[i].stage \in {"qk", "pv"} /\ Live(l, calls[i].w, Column(l, calls[i].tile, calls[i].sub))}) % 2

-----------------------------------------------------------------------------
Q == <<"q_mat", 0>>
K(i) == <<"k_mat", i>>
P(i) == <<"p_mat", i>>
V(i) == <<"v_mat", i>>

\* The unit flag of an accumulator: M and the fixpipe hand it to each other
\* with the Final product and store.
Unit(acc) == 2 + acc

\* The operands fit L0 whole, so a product is one slice.
pto_macro_matmul(pp, a, b, acc, init, final) ==
  <<WaitFlag("M", "MTE1", pp), ToL0(A(pp), a), ToL0(B(pp), b)>> \o Pass("MTE1", "M", pp)
  \o (IF init THEN <<WaitFlag("FIX", "M", Unit(acc)), TMATMUL(C(acc), A(pp), B(pp))>>
      ELSE <<TMATMUL_ACC(C(acc), A(pp), B(pp))>>)
  \o (IF final THEN <<SetFlag("M", "FIX", Unit(acc))>> ELSE <<>>)
  \o <<SetFlag("M", "MTE1", pp)>>
StoreFinal(gm, acc) ==
  <<WaitFlag("M", "FIX", Unit(acc)), TSTORE(gm, C(acc)), SetFlag("FIX", "M", Unit(acc))>>

compute_qk(l, calls, j) ==
  LET call == calls[j]
      column == Column(l, call.tile, call.sub)
      k == Turn(calls, j, {"qk"})
      acc == Acc(calls, j, "assign qk")
  IN IF ~Live(l, call.w, column) THEN <<>>
     ELSE <<WaitFlag("MTE1", "MTE2", k)>>
          \o (IF column = 0 THEN <<TLOAD(Q, Gm("q", call.w))>> ELSE <<>>)
          \o <<TLOAD(K(k), Gm("k", column))>> \o Pass("MTE2", "MTE1", 0)
          \o pto_macro_matmul(PingPong(l, calls, j), Q, K(k), acc, TRUE, TRUE)
          \o <<SetFlag("MTE1", "MTE2", k)>>
          \o StoreFinal(Gm("qk_fifo", InBlock(call.w, column)), acc)

compute_pv(l, calls, j) ==
  LET call == calls[j]
      column == Column(l, call.tile, call.sub)
      i == Turn(calls, j, {"pv"})
      acc == Acc(calls, j, "assign pv")
      final == call.sub = l.subs - 1 \/ ~Live(l, call.w, column + 1)
  IN IF ~Live(l, call.w, column) THEN <<>>
     ELSE <<WaitFlag("MTE1", "MTE2", 2 + i), TLOAD(V(i), Gm("v", column)),
            TLOAD(P(i), Gm("p_fifo", InBlock(call.w, column)))>> \o Pass("MTE2", "MTE1", 0)
          \o pto_macro_matmul(PingPong(l, calls, j), P(i), V(i), acc, call.sub = 0, final)
          \o <<SetFlag("MTE1", "MTE2", 2 + i)>>
          \o (IF final THEN StoreFinal(Gm("pv_fifo", InBlock(call.w, call.tile)), acc) ELSE <<>>)

CubeStage(l, calls, j) ==
  CASE calls[j].stage = "claim" -> <<WaitFlag("MTE1", "MTE2", 4)>>
    [] calls[j].stage = "release" -> <<SetFlag("MTE1", "MTE2", 4)>>
    [] calls[j].stage = "qk" -> compute_qk(l, calls, j)
    [] calls[j].stage = "pv" -> compute_pv(l, calls, j)
    [] OTHER -> <<>>

\* The credits primed before the work loop and reclaimed after it.
CubeCredits ==
  <<<<"M", "MTE1", 0>>, <<"M", "MTE1", 1>>, <<"MTE1", "MTE2", 0>>, <<"MTE1", "MTE2", 1>>,
    <<"MTE1", "MTE2", 2>>, <<"MTE1", "MTE2", 3>>, <<"FIX", "M", 0>>, <<"FIX", "M", 1>>,
    <<"MTE1", "MTE2", 4>>>>
UnitFlags == <<<<"FIX", "M", Unit(0)>>, <<"FIX", "M", Unit(1)>>>>

Around(credits, code) ==
  [i \in DOMAIN credits |-> SetFlag(credits[i][1], credits[i][2], credits[i][3])]
  \o code
  \o [i \in DOMAIN credits |-> WaitFlag(credits[i][1], credits[i][2], credits[i][3])]
  \o <<BarrierAll>>

CubeTFA(l) ==
  LET calls == Calls(l, "cube")
  IN Around(CubeCredits \o UnitFlags,
            FlattenSeq([j \in DOMAIN calls |-> CubeStage(l, calls, j)]))

-----------------------------------------------------------------------------
\* qkVecTile and pvVecTile share their memory.
Src(i) == <<"src_vec", i>>
x_exp(i) == <<"x_exp", i>>
runningO == <<"running_o", 0>>

Store(gm, ub) == Do("MTE3", Same, <<ub>>, gm)

\* The slice "sub" of the rows: the live columns of Q K^T in, the softmax,
\* which works on its input in place, and all columns of P out.
compute_p(l, calls, j) ==
  LET call == calls[j]
      i == Turn(calls, j, {"p", "gu"})
      live == SelectSeq([s \in 1 .. l.subs |-> Column(l, call.tile, s - 1)],
                        LAMBDA c : Live(l, call.w, c))
      slice(c) == l.subs * InBlock(call.w, c) + call.sub
  IN <<WaitFlag("V", "MTE2", i)>>
     \o [s \in DOMAIN live |->
           Do("MTE2", <<"part">>, <<Src(i), Gm("qk_fifo", slice(live[s]))>>, Src(i))]
     \o Pass("MTE2", "V", 0)
     \o <<WaitFlag("MTE3", "V", i), Do("V", <<"scores">>, <<Src(i)>>, Src(i)),
          Do("V", <<"softmax">>, <<Src(i)>>, x_exp(i)), SetFlag("V", "MTE2", i)>>
     \o Pass("V", "MTE3", 0)
     \o [s \in 1 .. l.subs |-> Store(Gm("p_fifo", slice(Column(l, call.tile, s - 1))), x_exp(i))]
     \o <<SetFlag("MTE3", "V", i)>>

\* A P V tile starts the running output or is added to it; the last one
\* normalises and stores it.
compute_gu(l, calls, j) ==
  LET call == calls[j]
      i == Turn(calls, j, {"p", "gu"})
      pv == Gm("pv_fifo", InBlock(call.w, call.tile))
      last == call.tile = NumTiles(l, call.w) - 1
  IN <<WaitFlag("V", "MTE2", i)>>
     \o (IF call.tile = 0
         THEN <<WaitFlag("MTE3", "MTE2", 0), Do("MTE2", Same, <<pv>>, runningO)>>
              \o Pass("MTE2", "V", 0)
              \o (IF last THEN <<Do("V", <<"normalise">>, <<runningO>>, runningO)>> ELSE <<>>)
         ELSE <<Do("MTE2", Same, <<pv>>, Src(i))>> \o Pass("MTE2", "V", 0)
              \o <<Do("V", <<"update", last>>, <<runningO, Src(i)>>, runningO)>>)
     \o <<SetFlag("V", "MTE2", i)>>
     \o (IF last
         THEN Pass("V", "MTE3", 0)
              \o <<Store(Gm("o", call.w), runningO), SetFlag("MTE3", "MTE2", 0)>>
         ELSE <<>>)

VecCredits ==
  <<<<"V", "MTE2", 0>>, <<"V", "MTE2", 1>>, <<"MTE3", "V", 0>>, <<"MTE3", "V", 1>>,
    <<"MTE3", "MTE2", 0>>>>

VecTFA(l) ==
  LET calls == Calls(l, "vec")
  IN Around(VecCredits,
            FlattenSeq([j \in DOMAIN calls |->
              IF calls[j].stage = "p" THEN compute_p(l, calls, j) ELSE compute_gu(l, calls, j)]))
=============================================================================
