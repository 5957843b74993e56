--------------------------- MODULE FlashAttention ---------------------------
(***************************************************************************)
(* One AI core of the flash-attention kernel (runTFA): its Cube core and   *)
(* its two vector subblocks, each running its own copy of the work loop in *)
(* program order, exchanging tiles through three cross-core FIFOs in GM:   *)
(*                                                                         *)
(*    Cube --qk--> Vec --p--> Cube --pv--> Vec --> o_out                   *)
(*   compute_qk  compute_p  compute_pv   compute_gu                        *)
(*                                                                         *)
(* Tiles are modelled by their provenance: which (job, tile, sub-tile) a   *)
(* slot, lane or accumulator holds.  A FIFO's credits only say HOW MANY    *)
(* slots are free; qk and p address their slot by tile % FifoSize, which   *)
(* restarts at every row-block, and the exp_max ring has no credits at     *)
(* all, so the right data being in the right slot is not by construction.  *)
(*                                                                         *)
(* Each handler is one action, split only where it blocks in its middle    *)
(* (compute_pv: TPOP of p, then TALLOC of pv; compute_p: TPOP of qk, then  *)
(* TALLOC of p).                                                           *)
(***************************************************************************)
EXTENDS FaGeometry

CONSTANTS
  FifoSize,   \* CV_FIFO_SIZE: slots of each cross-core FIFO
  QkPreload,  \* qk_preload: tiles warmed up before the steady-state loop
  Unwritten   \* an output half nothing was stored to

ASSUME PipelineAssumption ==
  /\ FifoSize \in Nat \ {0}
  /\ QkPreload \in Nat \ {0}

Aic == "aic"
Aivs == {"aiv0", "aiv1"}   \* VEC_CORES subblocks
Cores == Aivs \cup {Aic}
Fifos == {"qk", "p", "pv"}

NoTile == <<0, 0>>          \* no job's tile: jobs are numbered from 1
NoLane == <<0, 0, 0, 0>>    \* memory nothing has written yet

VARIABLES
  cube,      \* the Cube core's place in the work loop
  vec,       \* vec[v]: the same for vector subblock v
  ping,      \* ping[v]: p_gu_src_pingpong_id % 2
  pushed,    \* pushed[f][c]: TPUSHes of core c into FIFO f
  freed,     \* freed[f][c]: TFREEs of core c of slots of FIFO f
  qkSlot,    \* qkSlot[k][s]: scores in sub-tile s of slot k
  pSlot,     \* pSlot[k][v][r]: probabilities of v's row slice r in slot k
  pvSlot,    \* pvSlot[k]: the products summed in PV slot k
  acc,       \* which L0C buffer qkAccTile, pvAccTile and the next tile use
  l0c,       \* l0c[b]: the products summed in L0C buffer b
  lanes,     \* lanes[v][b][s]: column block s of v's qkVecTile[b]
  xExp,      \* xExp[v]: the probabilities v has computed but not yet stored
  expMax,    \* expMax[v][k][r]: v's l1_exp_max_ififo[k], row slice r
  rowSum,    \* rowSum[v][r]: the tiles summed in v's m2/l2 running state
  runO,      \* runO[v]: runningOTile, a sequence of rescaled PV partials
  oOut       \* oOut[w][v]: what v stored to o_out for its half of job w

fifoVars == <<pushed, freed>>
cubeData == <<qkSlot, pvSlot, acc, l0c>>
vecData  == <<ping, pSlot, lanes, xExp, expMax, rowSum, runO, oOut>>
vars == <<cube, vec, fifoVars, cubeData, vecData>>

-----------------------------------------------------------------------------
(* The TPipe FIFOs.  A producer may TALLOC while every consumer has freed  *)
(* the slot it would reuse; a consumer may TPOP what every producer pushed *)
(* (the Cube side of a FIFO pairs with both vector subblocks).             *)

Producers(f) == IF f = "p" THEN Aivs ELSE {Aic}
Consumers(f) == IF f = "p" THEN {Aic} ELSE Aivs

CanAlloc(f, c) == \A d \in Consumers(f) : pushed[f][c] < freed[f][d] + FifoSize
\* Mutant of CanPop: one of the two subblocks' signals is enough.
CanPopAny(f, c) == \E d \in Producers(f) : freed[f][c] < pushed[f][d]
CanPop(f, c) == \A d \in Producers(f) : freed[f][c] < pushed[f][d]

\* Mutant of Slot: a ring one slot shorter than the FIFO.
SlotShort(t) == t % (FifoSize - 1)
Slot(t) == t % FifoSize

\* compute_qk stores to the slot the tile's number selects, not to the slot
\* the FIFO's running counter is at.
\* Mutant of ScoreSlot: the running counter.
ScoreSlotRunning(t) == Slot(pushed["qk"][Aic])
ScoreSlot(t) == Slot(t)

-----------------------------------------------------------------------------
(* Places in the work loop.  op names the handler about to run.            *)

Place(job, phase, tile, sub, op) ==
  [job |-> job, phase |-> phase, tile |-> tile, sub |-> sub, op |-> op]
Claimable(job) == Place(job, "claim", 0, 0, "claim")

\* The work loop ends when no row-block is left for this core.
HasNextJob(p) == p.job < Len(Work)
NextJob(p, op) == Place(p.job + 1, "preload", 0, 0, op)

\* The tile whose QK (or softmax) this place runs: next_qk_tile when steady.
Ahead(p) == IF p.phase = "preload" THEN p.tile ELSE p.tile + QkPreload
HasAhead(p) == p.tile + QkPreload < NumTiles(p.job)
LastSub(p) == p.sub = TileFactor - 1
\* Mutant of MorePreload: the warm-up is not capped at the block's tiles.
MorePreloadUncapped(p) == p.tile + 1 < QkPreload
MorePreload(p) == p.tile + 1 < QkPreload /\ p.tile + 1 < NumTiles(p.job)
\* After a block's last tile the loop looks for the core's next row-block.
EndJob(p) == Claimable(p.job)

Init ==
  /\ cube = Claimable(0)
  /\ vec = [v \in Aivs |-> Claimable(0)]
  /\ ping = [v \in Aivs |-> 0]
  /\ pushed = [f \in Fifos |-> [c \in Cores |-> 0]]
  /\ freed = [f \in Fifos |-> [c \in Cores |-> 0]]
  /\ qkSlot = [k \in 0 .. FifoSize - 1 |-> [s \in Subs |-> NoTile]]
  /\ pSlot = [k \in 0 .. FifoSize - 1 |->
                [v \in Aivs |-> [r \in Subs |-> NoTile]]]
  /\ pvSlot = [k \in 0 .. FifoSize - 1 |-> {}]
  /\ acc = [qk |-> 0, pv |-> 1, next |-> 0]
  /\ l0c = [b \in 0 .. 1 |-> {}]
  /\ lanes = [v \in Aivs |-> [b \in 0 .. 1 |-> [s \in Subs |-> NoLane]]]
  /\ xExp = [v \in Aivs |-> NoTile]
  /\ expMax = [v \in Aivs |->
                [k \in 0 .. FifoSize - 1 |-> [r \in Subs |-> NoTile]]]
  /\ rowSum = [v \in Aivs |-> [r \in Subs |-> {}]]
  /\ runO = [v \in Aivs |-> <<>>]
  /\ oOut = [w \in Jobs |-> [v \in Aivs |-> Unwritten]]

-----------------------------------------------------------------------------
(* The Cube core.                                                          *)

\* assign_running_acc_tile: qkAccTile and pvAccTile are the same C++ type,
\* so they share one static index, toggled by every call.
\* Mutants of Flip: the index is not wrapped; the toggle is forgotten.
FlipUnwrapped(b) == b + 1
FlipForgotten(b) == b
Flip(b) == 1 - b

AssignQK(a) == [qk |-> a.next, pv |-> a.pv, next |-> Flip(a.next)]
AssignPV(a) == [qk |-> a.qk, pv |-> a.next, next |-> Flip(a.next)]

CubeClaim ==
  /\ cube.op = "claim"
  /\ HasNextJob(cube)
  /\ cube' = NextJob(cube, "qk")
  /\ UNCHANGED <<vec, fifoVars, cubeData, vecData>>

\* Mutant of CubeSteadyTile: the loop ends one tile early.
CubeSteadyTileShort(p, t) ==
  IF t + 1 < NumTiles(p.job)
  THEN Place(p.job, "steady", t, 0, "assign")
  ELSE EndJob(p)
CubeSteadyTile(p, t) ==
  IF t < NumTiles(p.job)
  THEN Place(p.job, "steady", t, 0, "assign")
  ELSE EndJob(p)

\* The top of the steady-state loop body picks the accumulators of the tile.
CubeAssign ==
  /\ cube.op = "assign"
  /\ acc' = AssignPV(IF HasAhead(cube) THEN AssignQK(acc) ELSE acc)
  /\ cube' = Place(cube.job, "steady", cube.tile, 0,
                    IF HasAhead(cube) THEN "qk" ELSE "pv_load")
  /\ UNCHANGED <<vec, fifoVars, qkSlot, pvSlot, l0c, vecData>>

AfterQK(p) ==
  IF p.phase = "steady" THEN Place(p.job, "steady", p.tile, p.sub, "pv_load")
  ELSE IF ~LastSub(p) THEN Place(p.job, "preload", p.tile, p.sub + 1, "qk")
  ELSE IF MorePreload(p) THEN Place(p.job, "preload", p.tile + 1, 0, "qk")
  ELSE CubeSteadyTile(p, 0)

\* One sub-tile of scores; a sub-tile above the diagonal is not computed,
\* only the FIFO bookkeeping happens.
CubeQK ==
  LET t == Ahead(cube)
      k == ScoreSlot(t)
      s == cube.sub
      a == IF cube.phase = "preload" THEN AssignQK(acc) ELSE acc
  IN /\ cube.op = "qk"
     /\ s = 0 => CanAlloc("qk", Aic)
     /\ acc' = a
     /\ IF Skipped(cube.job, t, s)
        THEN UNCHANGED <<qkSlot, l0c>>
        ELSE /\ l0c' = [l0c EXCEPT ![a.qk] = {<<{}, cube.job, t, s>>}]
             /\ qkSlot' = [qkSlot EXCEPT ![k][s] = <<cube.job, t>>]
     /\ pushed' = IF LastSub(cube) THEN [pushed EXCEPT !["qk"][Aic] = @ + 1]
                                   ELSE pushed
     /\ cube' = AfterQK(cube)
     /\ UNCHANGED <<vec, freed, pvSlot, vecData>>

AfterPV(p) ==
  IF ~LastSub(p)
  THEN Place(p.job, "steady", p.tile, p.sub + 1,
             IF HasAhead(p) THEN "qk" ELSE "pv_load")
  ELSE CubeSteadyTile(p, p.tile + 1)

\* The PV partial of the tile is complete after this sub-tile.
\* Mutant of StoresPV: the causal early exit does not end the partial.
StoresPVLastOnly(p) == LastSub(p)
StoresPV(p) == LastSub(p) \/ Skipped(p.job, p.tile, p.sub + 1)

\* compute_pv up to the matmul: the probabilities of all rows against one
\* block of V, summed into pvAccTile (the first sub-tile overwrites it).
CubePvLoad ==
  LET t == cube.tile
      k == Slot(t)
      s == cube.sub
      product == <<{pSlot[k][v][r] : v \in Aivs, r \in Subs}, cube.job, t, s>>
      skip == Skipped(cube.job, t, s)
  IN /\ cube.op = "pv_load"
     /\ s = 0 => CanPop("p", Aic)
     /\ freed' = IF LastSub(cube) THEN [freed EXCEPT !["p"][Aic] = @ + 1]
                                  ELSE freed
     /\ l0c' = IF skip THEN l0c
               ELSE [l0c EXCEPT ![acc.pv] =
                       IF s = 0 THEN {product} ELSE @ \cup {product}]
     /\ cube' = IF ~skip /\ StoresPV(cube)
                THEN Place(cube.job, "steady", t, s, "pv_store")
                ELSE AfterPV(cube)
     /\ UNCHANGED <<vec, pushed, qkSlot, pvSlot, acc, vecData>>

\* The rest of compute_pv: TALLOC, TSTORE to the FIFO's own slot, TPUSH.
CubePvStore ==
  /\ cube.op = "pv_store"
  /\ CanAlloc("pv", Aic)
  /\ pvSlot' = [pvSlot EXCEPT ![Slot(pushed["pv"][Aic])] = l0c[acc.pv]]
  /\ pushed' = [pushed EXCEPT !["pv"][Aic] = @ + 1]
  /\ cube' = AfterPV(cube)
  /\ UNCHANGED <<vec, freed, qkSlot, acc, l0c, vecData>>

CubeStep == CubeClaim \/ CubeAssign \/ CubeQK \/ CubePvLoad \/ CubePvStore

-----------------------------------------------------------------------------
(* A vector subblock.  vec[v].sub is the row slice compute_p works on.     *)

VecClaim(v) ==
  /\ vec[v].op = "claim"
  /\ HasNextJob(vec[v])
  /\ vec' = [vec EXCEPT ![v] = NextJob(vec[v], "p_load")]
  /\ ping' = [ping EXCEPT ![v] = 0]
  /\ UNCHANGED <<cube, fifoVars, cubeData, pSlot, lanes, xExp, expMax, rowSum,
                 runO, oOut>>

VecSteadyTile(p, t) ==
  LET softmaxes == t + QkPreload < NumTiles(p.job)
  IN IF t < NumTiles(p.job)
     THEN Place(p.job, "steady", t, 0, IF softmaxes THEN "p_load" ELSE "gu")
     ELSE EndJob(p)

AfterP(p) ==
  IF ~LastSub(p) THEN Place(p.job, p.phase, p.tile, p.sub + 1, "p_load")
  ELSE IF p.phase = "steady" THEN Place(p.job, "steady", p.tile, 0, "gu")
  ELSE IF MorePreload(p) THEN Place(p.job, "preload", p.tile + 1, 0, "p_load")
  ELSE VecSteadyTile(p, 0)

\* compute_p up to the softmax of one row slice.  The first tile initialises
\* the running max and sum and leaves exp_max alone; a later tile records in
\* the ring the factor that rescales what came before it.
VecPLoad(v) ==
  LET p == vec[v]
      t == Ahead(p)
      k == Slot(t)
      b == ping[v]
      seen == {s \in Subs : ~Skipped(p.job, t, s)}
  IN /\ p.op = "p_load"
     /\ p.sub = 0 => CanPop("qk", v)
     /\ freed' = IF LastSub(p) THEN [freed EXCEPT !["qk"][v] = @ + 1] ELSE freed
     /\ lanes' = [lanes EXCEPT ![v][b] =
                    [s \in Subs |-> IF s \in seen
                                    THEN <<qkSlot[k][s][1], qkSlot[k][s][2], s, p.sub>>
                                    ELSE @[s]]]
     /\ xExp' = [xExp EXCEPT ![v] =
                   IF \A s \in seen : qkSlot[k][s] = <<p.job, t>>
                   THEN <<p.job, t>> ELSE NoTile]
     /\ rowSum' = [rowSum EXCEPT ![v][p.sub] =
                     (IF t = 0 THEN {} ELSE @) \cup {xExp'[v]}]
     /\ expMax' = IF t = 0 THEN expMax
                  ELSE [expMax EXCEPT ![v][k][p.sub] = <<p.job, t>>]
     /\ vec' = [vec EXCEPT ![v] = Place(p.job, p.phase, p.tile, p.sub, "p_store")]
     /\ UNCHANGED <<cube, pushed, cubeData, ping, pSlot, runO, oOut>>

\* The rest of compute_p: TALLOC, TSTORE of the slice's probabilities, TPUSH.
VecPStore(v) ==
  LET p == vec[v]
  IN /\ p.op = "p_store"
     /\ p.sub = 0 => CanAlloc("p", v)
     /\ pSlot' = [pSlot EXCEPT ![Slot(Ahead(p))][v][p.sub] = xExp[v]]
     /\ pushed' = IF LastSub(p) THEN [pushed EXCEPT !["p"][v] = @ + 1] ELSE pushed
     /\ ping' = [ping EXCEPT ![v] = 1 - @]
     /\ vec' = [vec EXCEPT ![v] = AfterP(p)]
     /\ UNCHANGED <<cube, freed, cubeData, lanes, xExp, expMax, rowSum, runO, oOut>>

\* A PV partial and, in order, the exp_max vectors it was multiplied by.
Partial(prods) == [prods |-> prods, scale |-> <<>>]
\* Mutant of Rescaled: the running output keeps its old scale.
NotRescaled(o, e) == o
Rescaled(o, e) ==
  [i \in DOMAIN o |-> [prods |-> o[i].prods, scale |-> Append(o[i].scale, e)]]

PvLane(p) == <<p.job, p.tile, 0, TileFactor>>  \* a PV partial, not scores

\* compute_gu: tile 0 loads the partial into runningOTile, a later tile into
\* pvVecTile (which is qkVecTile's memory), rescales and adds; the last tile
\* divides by the running sum and stores the rows.
VecUpdate(v) ==
  LET p == vec[v]
      part == Partial(pvSlot[Slot(freed["pv"][v])])
      o == IF p.tile = 0 THEN <<part>>
           ELSE Append(Rescaled(runO[v], expMax[v][Slot(p.tile)]), part)
  IN /\ p.op = "gu"
     /\ CanPop("pv", v)
     /\ freed' = [freed EXCEPT !["pv"][v] = @ + 1]
     /\ lanes' = IF p.tile = 0 THEN lanes
                 ELSE [lanes EXCEPT ![v][ping[v]] = [s \in Subs |-> PvLane(p)]]
     /\ runO' = [runO EXCEPT ![v] = o]
     /\ oOut' = IF LastTile(p.job, p.tile)
                THEN [oOut EXCEPT ![p.job][v] = [sum |-> o, div |-> rowSum[v]]]
                ELSE oOut
     /\ ping' = [ping EXCEPT ![v] = 1 - @]
     /\ vec' = [vec EXCEPT ![v] = VecSteadyTile(p, p.tile + 1)]
     /\ UNCHANGED <<cube, pushed, cubeData, pSlot, xExp, expMax, rowSum>>

VecStep(v) == VecClaim(v) \/ VecPLoad(v) \/ VecPStore(v) \/ VecUpdate(v)

-----------------------------------------------------------------------------
Finished(p) == p.op = "claim" /\ ~HasNextJob(p)
AllFinished == Finished(cube) /\ \A v \in Aivs : Finished(vec[v])

Next == CubeStep \/ \E v \in Aivs : VecStep(v)

\* A core runs whenever its next instruction is not blocked on a FIFO.
Fairness == WF_vars(CubeStep) /\ \A v \in Aivs : WF_vars(VecStep(v))

Spec == Init /\ [][Next]_vars /\ Fairness

-----------------------------------------------------------------------------
(* Types.                                                                  *)

SlotNames == 0 .. FifoSize - 1
Tags == Nat \X Nat
Products == SUBSET ((SUBSET Tags) \X Nat \X Nat \X Nat)
Factors == [Subs -> Tags]
Sums == Seq([prods : Products, scale : Seq(Factors)])
Places(ops) ==
  [job : 0 .. Len(Work), phase : {"claim", "preload", "steady"}, tile : Nat,
   sub : Subs, op : ops]

CubeOps == {"claim", "assign", "qk", "pv_load", "pv_store"}
VecOps == {"claim", "p_load", "p_store", "gu"}

TypeOK ==
  /\ cube \in Places(CubeOps)
  /\ vec \in [Aivs -> Places(VecOps)]
  /\ ping \in [Aivs -> 0 .. 1]
  /\ pushed \in [Fifos -> [Cores -> Nat]]
  /\ freed \in [Fifos -> [Cores -> Nat]]
  /\ qkSlot \in [SlotNames -> [Subs -> Tags]]
  /\ pSlot \in [SlotNames -> [Aivs -> [Subs -> Tags]]]
  /\ pvSlot \in [SlotNames -> Products]
  /\ acc \in [qk : 0 .. 1, pv : 0 .. 1, next : 0 .. 1]
  /\ l0c \in [0 .. 1 -> Products]
  /\ lanes \in [Aivs -> [0 .. 1 -> [Subs -> Nat \X Nat \X Nat \X Nat]]]
  /\ xExp \in [Aivs -> Tags]
  /\ expMax \in [Aivs -> [SlotNames -> Factors]]
  /\ rowSum \in [Aivs -> [Subs -> SUBSET Tags]]
  /\ runO \in [Aivs -> Sums]
  /\ \A w \in Jobs, v \in Aivs :
       \/ oOut[w][v] = Unwritten
       \/ oOut[w][v] \in [sum : Sums, div : [Subs -> SUBSET Tags]]

\* A half nothing was stored to cannot be taken for one that was.
ASSUME UnwrittenAssumption == Unwritten \notin [sum : Sums, div : [Subs -> SUBSET Tags]]

-----------------------------------------------------------------------------
(* Safety.                                                                 *)

\* When the running output is rescaled for tile t of a row-block, the
\* exp_max ring still holds the factor softmax computed for that very tile:
\* softmax, which runs up to QkPreload tiles ahead, has not lapped the ring.
RescalesWithOwnExpMax ==
  \A v \in Aivs : (vec[v].op = "gu" /\ vec[v].tile > 0) =>
    \A r \in Subs :
      expMax[v][Slot(vec[v].tile)][r] = <<vec[v].job, vec[v].tile>>

\* When a subblock reads the scores of its next tile, the slot
\* tile % FifoSize holds that tile of that row-block, whatever number of
\* tiles earlier row-blocks had pushed through the FIFO.
ScoresAreOwn ==
  \A v \in Aivs :
    LET p == vec[v]
    IN (p.op = "p_load" /\ (p.sub = 0 => CanPop("qk", v))) =>
         \A s \in Subs : ~Skipped(p.job, Ahead(p), s) =>
           qkSlot[Slot(Ahead(p))][s] = <<p.job, Ahead(p)>>

\* When the Cube core multiplies the probabilities of a tile by V, both
\* subblocks' halves of the slot, every row slice, are of that tile.
ProbabilitiesAreOwn ==
  (cube.op = "pv_load" /\ (cube.sub = 0 => CanPop("p", Aic))) =>
    \A v \in Aivs, r \in Subs :
      pSlot[Slot(cube.tile)][v][r] = <<cube.job, cube.tile>>

\* The PV partial a subblock pops for tile t sums exactly the key blocks of
\* that tile the row-block attends: none left out by the causal early exit,
\* none of another tile, and none lost to the interleaved QK matmuls that
\* use the other L0C buffer.
PartialsAreOwn ==
  \A v \in Aivs :
    LET p == vec[v]
    IN (p.op = "gu" /\ CanPop("pv", v)) =>
         pvSlot[Slot(freed["pv"][v])] =
           {<<{<<p.job, p.tile>>}, p.job, p.tile, s>> :
              s \in {u \in Subs : ~Skipped(p.job, p.tile, u)}}

\* The tiles of the row-blocks before job w.
TilesBefore[w \in 1 .. Len(Work) + 1] ==
  IF w = 1 THEN 0 ELSE TilesBefore[w - 1] + NumTiles(w - 1)

\* The comment above the work loop: a block's QK is fully consumed before
\* the same core issues the next block's QK, and its probabilities are too,
\* so no drain is needed between row-blocks.
ConsumedBeforeNextBlock ==
  (cube.op = "qk" /\ cube.phase = "preload") =>
    /\ freed["p"][Aic] = TilesBefore[cube.job]
    /\ \A v \in Aivs : freed["qk"][v] >= TilesBefore[cube.job]

\* When every core has returned no FIFO holds a tile and no credit is
\* missing: each FIFO saw every tile once, at both ends, so a next launch
\* on this core finds the counters balanced.
DrainedAtReturn ==
  AllFinished => \A f \in Fifos :
    /\ \A c \in Producers(f) : pushed[f][c] = TilesBefore[Len(Work) + 1]
    /\ \A c \in Consumers(f) : freed[f][c] = TilesBefore[Len(Work) + 1]

\* What compute_p says of the sub-tiles it does not load: the row reduction
\* sees no lane another tile (or nothing at all) left in the buffer.
SoftmaxReadsOwnLanes ==
  \A v \in Aivs :
    LET p == vec[v]
    IN p.op = "p_store" =>
         \A s \in Subs : lanes[v][ping[v]][s] = <<p.job, Ahead(p), s, p.sub>>

\* The guards of the Cube core's and of a subblock's next handler.
CubeCanMove ==
  /\ cube.op = "claim" => HasNextJob(cube)
  /\ (cube.op = "qk" /\ cube.sub = 0) => CanAlloc("qk", Aic)
  /\ (cube.op = "pv_load" /\ cube.sub = 0) => CanPop("p", Aic)
  /\ cube.op = "pv_store" => CanAlloc("pv", Aic)
VecCanMove(v) ==
  LET p == vec[v]
  IN /\ p.op = "claim" => HasNextJob(p)
     /\ (p.op = "p_load" /\ p.sub = 0) => CanPop("qk", v)
     /\ (p.op = "p_store" /\ p.sub = 0) => CanAlloc("p", v)
     /\ p.op = "gu" => CanPop("pv", v)

\* The cores never wait for one another in a circle: with three FIFOs of
\* bounded depth in a loop and a warm-up that fills the first before it
\* drains the second, until all have returned one of them is not blocked.
NeverStuck == AllFinished \/ CubeCanMove \/ \E v \in Aivs : VecCanMove(v)

-----------------------------------------------------------------------------
(* Liveness and refinement.                                                *)

\* Every core returns: no core waits for ever on a FIFO another will not move.
EveryCoreReturns == <>AllFinished

\* The value of a stored half, as the set of key blocks it attends: the PV
\* partial of tile t is exp(s - M_t) V, so the sum is softmax only if each
\* partial was then multiplied by the exp_max factors of all later tiles, in
\* order, and divided by the row sum over all of them.  A sum that is not is
\* no attention at all, and maps to {}.
IsSoftmax(w, o) ==
  LET n == NumTiles(w)
  IN /\ Len(o.sum) = n
     /\ \A i \in 1 .. n :
          /\ \A x \in o.sum[i].prods : x[1] = {<<w, i - 1>>}
          /\ Len(o.sum[i].scale) = n - i
          /\ \A j \in 1 .. n - i, r \in Subs :
               o.sum[i].scale[j][r] = <<w, i - 1 + j>>
     /\ \A r \in Subs : o.div[r] = {<<w, t>> : t \in 0 .. n - 1}

KeysSummed(o) ==
  {x[3] * TileFactor + x[4] : x \in UNION {o.sum[i].prods : i \in DOMAIN o.sum}}

Meaning(w, o) ==
  IF o = Unwritten THEN Unwritten ELSE IF IsSoftmax(w, o) THEN KeysSummed(o) ELSE {}

Attention == INSTANCE AttentionSpec WITH
  Halves <- Aivs,
  result <- [w \in Jobs |-> [v \in Aivs |-> Meaning(w, oOut[w][v])]]

\* What the pipeline stores: each half of each row-block at most once, and
\* with the attention over exactly its own keys.
AttendsOwnKeys == Attention!Safety

\* The pipeline implements its specification: besides, every half of every
\* row-block is stored in the end.
ImplementsAttention == Attention!Spec
=============================================================================
