---------------------- MODULE FlashAttentionTiles_proof ----------------------
(***************************************************************************)
(* What the FIFO slots, the L0C accumulators and the probability buffers   *)
(* hold, for every work list, tiling, FIFO depth and warm-up depth: each   *)
(* consumer reads the tile it means to.  From this, that the pipeline      *)
(* implements the safety half of AttentionSpec when the warm-up is shorter *)
(* than the exp_max ring: each half of each row-block is stored at most    *)
(* once, with the attention over exactly its own keys.                     *)
(***************************************************************************)
EXTENDS FlashAttention_proof

-----------------------------------------------------------------------------
(* The tiles a consumer may read are still in their slots.                 *)

\* Sub-tile s of tile t of the Cube core's row-block has been stored.
QkWritten(p, t, s) ==
  QkWorks(p) => (t < Ahead(p) \/ (t = Ahead(p) /\ s < QkSubs(p)))

\* Scores no subblock has freed yet.
ScoresHeld ==
  cube.op # "claim" =>
    \A v \in Aivs, t \in Nat, s \in Subs :
      (/\ t < NumTiles(cube.job)
       /\ freed["qk"][v] <= TilesBefore[cube.job] + t
       /\ QkWritten(cube, t, s)
       /\ ~Skipped(cube.job, t, s))
      => qkSlot[Slot(t)][s] = <<cube.job, t>>

\* Probabilities computed but not stored are those of the subblock's tile.
ProbabilitiesComputed ==
  \A v \in Aivs :
    vec[v].op = "p_store" => xExp[v] = <<vec[v].job, Ahead(vec[v])>>

\* Probabilities pushed and not freed, and the slices of the one being stored.
ProbabilitiesHeld ==
  cube.op # "claim" =>
    \A v \in Aivs, t \in Nat, r \in Subs :
      (/\ t < NumTiles(cube.job)
       /\ freed["p"][Aic] <= TilesBefore[cube.job] + t
       /\ TilesBefore[cube.job] + t < pushed["p"][v])
      => pSlot[Slot(t)][v][r] = <<cube.job, t>>

SlicesHeld ==
  \A v \in Aivs :
    vec[v].op \in {"p_load", "p_store"} =>
      \A r \in Subs :
        r < vec[v].sub => pSlot[Slot(Ahead(vec[v]))][v][r] = <<vec[v].job, Ahead(vec[v])>>

\* The products of the first n sub-tiles of tile t, and of all of them.
ProductsOf(w, t, subs) == {<<{<<w, t>>}, w, t, s>> : s \in subs}
Kept(w, t) == {s \in Subs : ~Skipped(w, t, s)}
Begun(w, t, n) == {s \in Subs : s < n /\ ~Skipped(w, t, s)}
Whole(w, t) == ProductsOf(w, t, Kept(w, t))

\* The PV accumulator holds what the tile's sub-tiles so far add up to, and
\* the QK matmuls interleaved with them use the other buffer.
PartialSummed ==
  cube.phase = "steady" =>
    /\ (cube.op \in {"qk", "pv_load"} /\ cube.sub > 0) =>
         l0c[acc.pv] = ProductsOf(cube.job, cube.tile, Begun(cube.job, cube.tile, cube.sub))
    /\ cube.op = "pv_store" => l0c[acc.pv] = Whole(cube.job, cube.tile)
    /\ (cube.op # "assign" /\ HasAhead(cube)) => acc.qk # acc.pv

\* PV partials pushed and not freed.
PartialsHeld ==
  \A v \in Aivs, w \in Jobs, t \in Nat :
    (/\ t < NumTiles(w)
     /\ freed["pv"][v] <= TilesBefore[w] + t
     /\ TilesBefore[w] + t < pushed["pv"][Aic])
    => pvSlot[Slot(TilesBefore[w] + t)] = Whole(w, t)

TilesInv ==
  /\ FifoInv
  /\ ScoresHeld
  /\ ProbabilitiesComputed /\ ProbabilitiesHeld /\ SlicesHeld
  /\ PartialSummed /\ PartialsHeld

-----------------------------------------------------------------------------
(* Who is where.                                                           *)

\* A subblock that has popped scores works on the Cube core's row-block,
\* the Cube core has stored all of that tile's scores, and no subblock has
\* freed them before it has read them.
LEMMA SameBlock ==
  ASSUME FifoInv, NEW v \in Aivs, vec[v].op \in {"p_load", "p_store"},
         QkFreed(vec[v]) < pushed["qk"][Aic] \/ vec[v].sub > 0 \/ vec[v].op = "p_store"
  PROVE  /\ cube.op # "claim" /\ cube.job \in Jobs /\ cube.job = vec[v].job
         /\ Ahead(vec[v]) \in Nat /\ Ahead(vec[v]) < NumTiles(cube.job)
         /\ \A s \in Subs : QkWritten(cube, Ahead(vec[v]), s)
         /\ PPushed(vec[v]) = TilesBefore[cube.job] + Ahead(vec[v])
<1> DEFINE p == vec[v]
           t == Ahead(p)
<1>1. p \in Places(VecOps) /\ InLoop(p) /\ p.op # "claim" /\ p.job \in Jobs
  BY FifoTypes DEF FifoInv, InLoop
<1>2. t \in Nat /\ t < NumTiles(p.job)
  BY <1>1, InBlock DEF InLoop, HasAhead, Ahead
<1>3. /\ PPushed(p) = TilesBefore[p.job] + t
      /\ QkFreed(p) = TilesBefore[p.job] + t + One(p.op = "p_store" /\ LastSub(p))
      /\ QkPopped(p) = TilesBefore[p.job] + t + One(p.sub > 0 \/ p.op = "p_store")
  BY <1>1, <1>2, InBlock DEF PPushed, QkFreed, QkPopped, From, One
<1>4. TilesBefore[p.job] + t < pushed["qk"][Aic]
  <2>1. QkPopped(p) <= pushed["qk"][Aic] /\ pushed["qk"][Aic] \in Nat
    BY FifoTypes DEF FifoInv, Flow
  <2> QED
    BY <1>1, <1>2, <1>3, <2>1, InBlock DEF One
<1>5. pushed["qk"][Aic] = QkPushed(cube) /\ PPopped(cube) <= TilesBefore[p.job] + t
  BY <1>3 DEF FifoInv, Counters, Flow
<1>6. cube.op # "claim"
  <2> SUFFICES ASSUME cube.op = "claim" PROVE FALSE
    OBVIOUS
  <2>1. QkPushed(cube) = TilesBefore[cube.job + 1] /\ PPopped(cube) = TilesBefore[cube.job + 1]
    BY DEF QkPushed, PPopped, From
  <2>2. TilesBefore[cube.job + 1] \in Nat
    BY FifoTypes, ClaimCount
  <2> QED
    BY <1>1, <1>2, <1>4, <1>5, <2>1, <2>2, InBlock
<1>7. /\ cube \in Places(CubeOps) /\ InCube(cube) /\ cube.job \in Jobs
      /\ cube.tile < NumTiles(cube.job)
  BY <1>6, FifoTypes DEF FifoInv, InCube
<1>8. /\ QkPushed(cube) <= TilesBefore[cube.job + 1]
      /\ TilesBefore[cube.job] <= PPopped(cube)
      /\ QkPushed(cube) \in Nat /\ PPopped(cube) \in Nat
  <2>1. QkWorks(cube) => Ahead(cube) < NumTiles(cube.job)
    BY <1>6, <1>7, InBlock DEF QkWorks, HasAhead, Ahead
  <2> QED
    BY <1>6, <1>7, <2>1, InBlock, CubeCountsType DEF QkPushed, PPopped, From, One, Ahead
<1>9. cube.job = p.job
  <2>1. TilesBefore[cube.job] <= TilesBefore[p.job] + t
    BY <1>1, <1>2, <1>5, <1>6, <1>7, <1>8, InBlock
  <2>2. TilesBefore[p.job] + t < TilesBefore[cube.job + 1]
    BY <1>1, <1>2, <1>4, <1>5, <1>6, <1>7, <1>8, InBlock
  <2> QED
    BY <1>1, <1>2, <1>7, <2>1, <2>2, TileOfJob
<1>10. ASSUME NEW s \in Subs
       PROVE  QkWritten(cube, t, s)
  <2>1. CASE QkWorks(cube)
    <3>1. t < Ahead(cube) + One(QkSubs(cube) = TileFactor)
      BY <1>2, <1>4, <1>5, <1>6, <1>7, <1>9, <2>1, InBlock DEF QkPushed, From, One, Ahead
    <3> QED
      BY <1>2, <1>6, <1>7, <3>1, InBlock DEF QkWritten, One, Subs, Ahead
  <2>2. CASE ~QkWorks(cube)
    BY <2>2 DEF QkWritten
  <2> QED
    BY <2>1, <2>2
<1> QED
  BY <1>2, <1>3, <1>6, <1>7, <1>9, <1>10

-----------------------------------------------------------------------------
(* Scores.                                                                 *)

\* The scores stored after one move of the Cube core were stored before it,
\* or are the sub-tile the move stores.
LEMMA WrittenAfterQK ==
  ASSUME NEW p \in Places(CubeOps), p.op = "qk", InCube(p), NEW q, q = AfterQK(p),
         NEW t \in Nat, NEW s \in Subs, t < NumTiles(p.job), QkWritten(q, t, s)
  PROVE  q.job = p.job /\ (QkWritten(p, t, s) \/ (t = Ahead(p) /\ s = p.sub))
<1> DEFINE n == NumTiles(p.job)
<1>1. p.job \in Jobs /\ p.tile < n /\ p.op # "claim" /\ s \in Nat /\ s <= TileFactor - 1
  BY GeometryAssumption DEF InCube, Subs
<1>2. CASE p.phase = "steady"
  <2>1. q = Place(p.job, "steady", p.tile, p.sub, "pv_load")
    BY <1>2 DEF AfterQK
  <2> QED
    BY <1>1, <1>2, <2>1, InBlock DEF InCube, Place, QkWritten, QkWorks, QkSubs, HasAhead, Ahead
<1>3. CASE p.phase = "preload" /\ ~LastSub(p)
  <2>1. q = Place(p.job, "preload", p.tile, p.sub + 1, "qk")
    BY <1>3 DEF AfterQK
  <2> QED
    BY <1>1, <1>3, <2>1, InBlock DEF InCube, Place, QkWritten, QkWorks, QkSubs, Ahead
<1>4. CASE p.phase = "preload" /\ LastSub(p)
  <2>1. CASE MorePreload(p)
    <3>1. q = Place(p.job, "preload", p.tile + 1, 0, "qk")
      BY <1>4, <2>1 DEF AfterQK
    <3> QED
      BY <1>1, <1>4, <3>1, InBlock
         DEF InCube, Place, QkWritten, QkWorks, QkSubs, Ahead, LastSub
  <2>2. CASE ~MorePreload(p)
    <3>1. q = Place(p.job, "steady", 0, 0, "assign")
      BY <1>1, <1>4, <2>2, InBlock DEF AfterQK, CubeSteadyTile
    <3>2. p.tile + 1 = IF QkPreload < n THEN QkPreload ELSE n
      BY <1>1, <1>4, <2>2, InBlock DEF InCube, MorePreload
    <3> QED
      BY <1>1, <1>4, <3>1, <3>2, InBlock
         DEF InCube, Place, QkWritten, QkWorks, QkSubs, HasAhead, Ahead, LastSub
  <2> QED
    BY <2>1, <2>2
<1> QED
  BY <1>2, <1>3, <1>4, <1>1 DEF InCube

LEMMA WrittenAfterPV ==
  ASSUME NEW p \in Places(CubeOps), p.op \in {"pv_load", "pv_store"}, InCube(p),
         NEW q, q = AfterPV(p), q.op # "claim",
         NEW t \in Nat, NEW s \in Subs, t < NumTiles(p.job), QkWritten(q, t, s)
  PROVE  q.job = p.job /\ QkWritten(p, t, s)
<1> DEFINE n == NumTiles(p.job)
<1>1. /\ p.job \in Jobs /\ p.tile < n /\ p.phase = "steady" /\ p.op # "claim"
      /\ s \in Nat /\ s <= TileFactor - 1
  BY GeometryAssumption DEF InCube, Subs
<1>2. CASE ~LastSub(p)
  <2>1. q = Place(p.job, "steady", p.tile, p.sub + 1, IF HasAhead(p) THEN "qk" ELSE "pv_load")
    BY <1>2 DEF AfterPV
  <2> QED
    BY <1>1, <2>1, InBlock DEF Place, QkWritten, QkWorks, QkSubs, HasAhead, Ahead
<1>3. CASE LastSub(p)
  <2>1. q = Place(p.job, "steady", p.tile + 1, 0, "assign")
    BY <1>3 DEF AfterPV, CubeSteadyTile, EndJob, Claimable, Place
  <2> QED
    BY <1>1, <1>3, <2>1, InBlock
       DEF Place, QkWritten, QkWorks, QkSubs, HasAhead, Ahead, LastSub
<1> QED
  BY <1>2, <1>3

LEMMA ScoresStep ==
  ASSUME FifoInv, FifoInv', ScoresHeld, CubeStep
  PROVE  ScoresHeld'
<1>0. TypeOK /\ TypeOK' /\ cube \in Places(CubeOps) /\ InCube(cube)
  BY DEF FifoInv, TypeOK
<1>1. SUFFICES ASSUME cube'.op # "claim",
                      NEW v \in Aivs, NEW t \in Nat, NEW s \in Subs,
                      t < NumTiles(cube'.job),
                      freed'["qk"][v] <= TilesBefore[cube'.job] + t,
                      QkWritten(cube', t, s),
                      ~Skipped(cube'.job, t, s)
               PROVE  qkSlot'[Slot(t)][s] = <<cube'.job, t>>
  BY DEF ScoresHeld
<1>2. CASE CubeClaim
  <2>1. cube' = Place(cube.job + 1, "preload", 0, 0, "qk")
    BY <1>2 DEF CubeClaim, NextJob
  <2> QED
    BY <1>1, <2>1 DEF Place, QkWritten, QkWorks, QkSubs, Ahead, Subs
<1>3. ASSUME qkSlot' = qkSlot, freed'["qk"][v] = freed["qk"][v], cube.op # "claim",
             cube'.job = cube.job, QkWritten(cube, t, s)
      PROVE  qkSlot'[Slot(t)][s] = <<cube'.job, t>>
  BY <1>1, <1>3 DEF ScoresHeld
<1>4. CASE CubeAssign
  <2>1. cube.op = "assign" /\ qkSlot' = qkSlot /\ freed' = freed
        /\ cube' = Place(cube.job, "steady", cube.tile, 0,
                         IF HasAhead(cube) THEN "qk" ELSE "pv_load")
    BY <1>4 DEF CubeAssign, fifoVars
  <2>2. cube'.job = cube.job /\ QkWritten(cube, t, s)
    BY <1>0, <1>1, <2>1 DEF Place, InCube, QkWritten, QkWorks, QkSubs, HasAhead, Ahead
  <2> QED
    BY <1>3, <2>1, <2>2
<1>5. CASE CubePvLoad \/ CubePvStore
  <2>1. /\ cube.op \in {"pv_load", "pv_store"} /\ qkSlot' = qkSlot
        /\ freed'["qk"][v] = freed["qk"][v]
        /\ \/ cube' = Place(cube.job, "steady", cube.tile, cube.sub, "pv_store")
           \/ cube' = AfterPV(cube)
    <3>1. freed \in [Fifos -> [Cores -> Nat]] /\ "p" # "qk"
      BY <1>0 DEF TypeOK
    <3>2. CASE CubePvLoad
      BY <3>1, <3>2 DEF CubePvLoad, Fifos
    <3>3. CASE CubePvStore
      BY <3>3 DEF CubePvStore
    <3> QED
      BY <1>5, <3>2, <3>3
  <2>2. CASE cube' = Place(cube.job, "steady", cube.tile, cube.sub, "pv_store")
    <3>1. cube'.job = cube.job /\ QkWritten(cube, t, s)
      BY <1>0, <1>1, <2>1, <2>2 DEF Place, InCube, QkWritten, QkWorks, QkSubs, HasAhead, Ahead
    <3> QED
      BY <1>3, <2>1, <3>1
  <2>3. CASE cube' = AfterPV(cube)
    <3>1. cube'.job = cube.job
      BY <1>1, <2>3 DEF AfterPV, CubeSteadyTile, EndJob, Claimable, Place
    <3>2. QkWritten(cube, t, s)
      BY <1>0, <1>1, <2>1, <2>3, <3>1, WrittenAfterPV
    <3> QED
      BY <1>3, <2>1, <3>1, <3>2
  <2> QED
    BY <2>1, <2>2, <2>3
<1>6. CASE CubeQK
  <2> DEFINE a == Ahead(cube)
             x == <<cube.job, a>>
  <2>1. /\ cube.op = "qk" /\ cube' = AfterQK(cube) /\ freed' = freed
        /\ qkSlot' = IF Skipped(cube.job, a, cube.sub) THEN qkSlot
                     ELSE [qkSlot EXCEPT ![Slot(a)][cube.sub] = x]
    BY <1>6 DEF CubeQK, ScoreSlot
  <2>2. cube.job \in Jobs /\ cube.tile < NumTiles(cube.job) /\ a \in Nat
    BY <1>0, <2>1, AheadType DEF InCube
  <2>3. cube'.job = cube.job
    BY <1>0, <2>1, <2>2, InBlock DEF AfterQK, CubeSteadyTile, Place
  <2>4. QkWritten(cube, t, s) \/ (t = a /\ s = cube.sub)
    BY <1>0, <1>1, <2>1, <2>3, WrittenAfterQK
  <2>5. Slot(t) \in SlotNames /\ Slot(a) \in SlotNames /\ cube.sub \in Subs
        /\ qkSlot \in [SlotNames -> [Subs -> Tags]]
    BY <1>0, <2>2, SlotInRing, PlaceParts DEF TypeOK
  <2>6. CASE t = a /\ s = cube.sub
    <3>1. qkSlot' = [qkSlot EXCEPT ![Slot(a)][cube.sub] = x]
      BY <1>1, <2>1, <2>3, <2>6
    <3> HIDE DEF x
    <3>2. qkSlot'[Slot(t)][s] = x
      BY <2>5, <2>6, <3>1
    <3> QED
      BY <2>3, <2>6, <3>2 DEF x
  <2>7. CASE ~(t = a /\ s = cube.sub)
    <3>1. qkSlot[Slot(t)][s] = <<cube.job, t>>
      BY <1>1, <2>1, <2>3, <2>4, <2>7 DEF ScoresHeld
    <3>2. QkWorks(cube) /\ QkSubs(cube) = cube.sub
      BY <1>0, <2>1 DEF QkWorks, QkSubs, InCube
    <3>3. t < a \/ (t = a /\ s # cube.sub)
      BY <2>2, <2>4, <2>7, <3>2 DEF QkWritten
    <3>4. t < a => a - t < FifoSize
      <4>1. QkAlloced(cube') = TilesBefore[cube.job] + a + 1
        <5>1. QkAlloced(cube') = IF cube.sub = 0 THEN QkPushed(cube) + 1 ELSE QkAlloced(cube)
          BY <1>0, <2>1, CubeQKCounts
        <5> QED
          BY <1>0, <2>1, <2>2, <3>2, <5>1, InBlock DEF QkAlloced, QkPushed, From, One
      <4>2. QkAlloced(cube') <= freed["qk"][v] + FifoSize
        BY <2>1 DEF FifoInv, Flow
      <4>3. freed["qk"][v] <= TilesBefore[cube.job] + t
        BY <1>1, <2>1, <2>3
      <4>4. freed["qk"][v] \in Nat /\ TilesBefore[cube.job] \in Nat /\ FifoSize \in Nat
        BY <2>2, FifoTypes, TilesBeforeStep
      <4> QED
        BY <2>2, <4>1, <4>2, <4>3, <4>4
    <3>5. Slot(t) # Slot(a) \/ s # cube.sub
      BY <2>2, <3>3, <3>4, SlotsDistinct
    <3> HIDE DEF x
    <3>6. qkSlot'[Slot(t)][s] = qkSlot[Slot(t)][s]
      BY <2>1, <2>5, <3>5
    <3> QED
      BY <2>3, <3>1, <3>6
  <2> QED
    BY <2>6, <2>7
<1> QED
  BY <1>2, <1>4, <1>5, <1>6 DEF CubeStep

\* No counter ever goes back.
LEMMA CountersGrow ==
  ASSUME TypeOK, Next, NEW f \in Fifos, NEW c \in Cores
  PROVE  /\ pushed[f][c] \in Nat /\ pushed'[f][c] \in Nat /\ pushed[f][c] <= pushed'[f][c]
         /\ freed[f][c] \in Nat /\ freed'[f][c] \in Nat /\ freed[f][c] <= freed'[f][c]
<1>1. ASSUME NEW g \in [Fifos -> [Cores -> Nat]], NEW e \in Fifos, NEW d \in Cores
      PROVE  /\ g[f][c] \in Nat /\ g[f][c] <= g[f][c]
             /\ [g EXCEPT ![e][d] = @ + 1][f][c] \in Nat
             /\ g[f][c] <= [g EXCEPT ![e][d] = @ + 1][f][c]
  <2>1. g[f][c] \in Nat /\ g[e][d] \in Nat
    OBVIOUS
  <2>2. [g EXCEPT ![e][d] = @ + 1][f][c] = IF f = e /\ c = d THEN g[f][c] + 1 ELSE g[f][c]
    OBVIOUS
  <2> QED
    BY <2>1, <2>2
<1>2. \/ UNCHANGED <<pushed, freed>>
      \/ freed' = freed /\ \E e \in Fifos, d \in Cores : pushed' = [pushed EXCEPT ![e][d] = @ + 1]
      \/ pushed' = pushed /\ \E e \in Fifos, d \in Cores : freed' = [freed EXCEPT ![e][d] = @ + 1]
  <2>1. CASE CubeStep
    <3>1. CASE CubeClaim \/ CubeAssign
      BY <3>1 DEF CubeClaim, CubeAssign, fifoVars
    <3>2. CASE CubeQK
      BY <3>2 DEF CubeQK, Fifos, Cores
    <3>3. CASE CubePvLoad
      BY <3>3 DEF CubePvLoad, Fifos, Cores
    <3>4. CASE CubePvStore
      BY <3>4 DEF CubePvStore, Fifos, Cores
    <3> QED
      BY <2>1, <3>1, <3>2, <3>3, <3>4 DEF CubeStep
  <2>2. ASSUME NEW v \in Aivs, VecClaim(v)
        PROVE  UNCHANGED <<pushed, freed>>
    BY <2>2 DEF VecClaim, fifoVars
  <2>3. ASSUME NEW v \in Aivs, VecPLoad(v)
        PROVE  pushed' = pushed /\ (freed' = freed \/ freed' = [freed EXCEPT !["qk"][v] = @ + 1])
    BY <2>3 DEF VecPLoad
  <2>4. ASSUME NEW v \in Aivs, VecPStore(v)
        PROVE  freed' = freed /\ (pushed' = pushed \/ pushed' = [pushed EXCEPT !["p"][v] = @ + 1])
    BY <2>4 DEF VecPStore
  <2>5. ASSUME NEW v \in Aivs, VecUpdate(v)
        PROVE  pushed' = pushed /\ freed' = [freed EXCEPT !["pv"][v] = @ + 1]
    BY <2>5 DEF VecUpdate
  <2>6. "qk" \in Fifos /\ "p" \in Fifos /\ "pv" \in Fifos /\ Aivs \subseteq Cores
    BY DEF Fifos, Cores
  <2> QED
    BY <2>1, <2>2, <2>3, <2>4, <2>5, <2>6 DEF Next, VecStep
<1>4. pushed \in [Fifos -> [Cores -> Nat]] /\ freed \in [Fifos -> [Cores -> Nat]]
  BY DEF TypeOK
<1> QED
  BY <1>1, <1>2, <1>4

LEMMA ScoresVecStep ==
  ASSUME FifoInv, ScoresHeld, NEW u \in Aivs, VecStep(u)
  PROVE  ScoresHeld'
<1>1. UNCHANGED <<cube, qkSlot>>
  BY DEF VecStep, VecClaim, VecPLoad, VecPStore, VecUpdate, cubeData
<1>2. \A v \in Aivs : /\ freed["qk"][v] \in Nat /\ freed'["qk"][v] \in Nat
                      /\ freed["qk"][v] <= freed'["qk"][v]
  BY CountersGrow DEF FifoInv, Next, Fifos, Cores
<1> SUFFICES ASSUME cube'.op # "claim",
                    NEW v \in Aivs, NEW t \in Nat, NEW s \in Subs,
                    t < NumTiles(cube'.job),
                    freed'["qk"][v] <= TilesBefore[cube'.job] + t,
                    QkWritten(cube', t, s),
                    ~Skipped(cube'.job, t, s)
             PROVE  qkSlot'[Slot(t)][s] = <<cube'.job, t>>
  BY DEF ScoresHeld
<1>3. cube.job \in Jobs
  BY <1>1 DEF FifoInv, InCube
<1>4. freed["qk"][v] <= TilesBefore[cube.job] + t
  BY <1>1, <1>2, <1>3, TilesBeforeStep
<1> QED
  BY <1>1, <1>4 DEF ScoresHeld

\* What a subblock reads when it reads scores.
LEMMA ScoresRead ==
  ASSUME FifoInv, ScoresHeld, NEW v \in Aivs, vec[v].op = "p_load",
         vec[v].sub = 0 => CanPop("qk", v),
         NEW s \in Subs, ~Skipped(vec[v].job, Ahead(vec[v]), s)
  PROVE  qkSlot[Slot(Ahead(vec[v]))][s] = <<vec[v].job, Ahead(vec[v])>>
<1> DEFINE p == vec[v]
<1>1. freed["qk"][v] = QkFreed(p) /\ freed["qk"][v] \in Nat
  BY FifoTypes DEF FifoInv, Counters
<1>2. p.sub = 0 => QkFreed(p) < pushed["qk"][Aic]
  BY <1>1 DEF CanPop, Producers
<1>3. p.sub = 0 \/ p.sub > 0
  BY FifoTypes, PlaceParts, GeometryAssumption DEF Subs
<1>4. /\ cube.op # "claim" /\ cube.job \in Jobs /\ cube.job = p.job
      /\ Ahead(p) \in Nat /\ Ahead(p) < NumTiles(cube.job)
      /\ QkWritten(cube, Ahead(p), s)
  BY <1>2, <1>3, SameBlock
<1>5. freed["qk"][v] <= TilesBefore[cube.job] + Ahead(p)
  BY <1>1, <1>4, FifoTypes, TilesBeforeStep DEF QkFreed, From, One
<1> QED
  BY <1>4, <1>5 DEF ScoresHeld

LEMMA TilesInvScores == FifoInv /\ ScoresHeld => ScoresAreOwn
  BY ScoresRead DEF ScoresAreOwn

-----------------------------------------------------------------------------
(* Probabilities.                                                          *)

\* The Cube core changes row-blocks only through the top of its work loop.
LEMMA CubeSameJob ==
  ASSUME CubeStep, cube.op # "claim", cube'.op # "claim"
  PROVE  cube'.job = cube.job
  BY DEF CubeStep, CubeClaim, CubeAssign, CubeQK, CubePvLoad, CubePvStore, AfterQK, AfterPV,
     CubeSteadyTile, EndJob, Claimable, Place

LEMMA ProbabilitiesCubeStep ==
  ASSUME FifoInv, FifoInv', ProbabilitiesHeld, CubeStep
  PROVE  ProbabilitiesHeld'
<1>0. TypeOK /\ UNCHANGED <<vec, pSlot>>
  BY DEF FifoInv, CubeStep, CubeClaim, CubeAssign, CubeQK, CubePvLoad, CubePvStore, vecData
<1>1. SUFFICES ASSUME cube'.op # "claim",
                      NEW v \in Aivs, NEW t \in Nat, NEW r \in Subs,
                      t < NumTiles(cube'.job),
                      freed'["p"][Aic] <= TilesBefore[cube'.job] + t,
                      TilesBefore[cube'.job] + t < pushed'["p"][v]
               PROVE  pSlot'[Slot(t)][v][r] = <<cube'.job, t>>
  BY DEF ProbabilitiesHeld
<1>2. CASE cube.op = "claim"
  <2>1. CubeClaim
    BY <1>2 DEF CubeStep, CubeAssign, CubeQK, CubePvLoad, CubePvStore
  <2>2. cube'.job = cube.job + 1 /\ pushed' = pushed
    BY <2>1 DEF CubeClaim, NextJob, Place, fifoVars
  <2>3. pushed["qk"][Aic] = TilesBefore[cube.job + 1]
    BY <1>2 DEF FifoInv, Counters, QkPushed, From
  <2>4. pushed["p"][v] <= pushed["qk"][Aic]
    <3>1. /\ PPushed(vec[v]) \in Nat /\ QkFreed(vec[v]) \in Nat /\ QkPopped(vec[v]) \in Nat
          /\ PPushed(vec[v]) <= QkFreed(vec[v]) /\ QkFreed(vec[v]) <= QkPopped(vec[v])
      BY FifoTypes, VecCountsType DEF FifoInv
    <3> QED
      BY <3>1, FifoTypes DEF FifoInv, Counters, Flow
  <2>5. TilesBefore[cube.job + 1] \in Nat /\ pushed["p"][v] \in Nat
    BY FifoTypes, ClaimCount
  <2> QED
    BY <1>1, <2>2, <2>3, <2>4, <2>5
<1>3. CASE cube.op # "claim"
  <2>1. cube'.job = cube.job
    BY <1>1, <1>3, CubeSameJob
  <2>2. freed["p"][Aic] \in Nat /\ freed'["p"][Aic] \in Nat /\ freed["p"][Aic] <= freed'["p"][Aic]
    BY <1>0, CountersGrow DEF Next, Fifos, Cores
  <2>3. pushed'["p"][v] = pushed["p"][v]
    BY <1>0 DEF FifoInv, Counters
  <2>4. TilesBefore[cube.job] \in Nat
    BY <1>3, TilesBeforeStep DEF FifoInv, InCube
  <2>5. freed["p"][Aic] <= TilesBefore[cube.job] + t
    BY <1>1, <2>1, <2>2, <2>4
  <2> QED
    BY <1>0, <1>1, <1>3, <2>1, <2>3, <2>5 DEF ProbabilitiesHeld
<1> QED
  BY <1>2, <1>3

\* What a subblock stores is the probabilities of its own tile.
LEMMA ComputedStep ==
  ASSUME FifoInv, ScoresHeld, ProbabilitiesComputed, NEW u \in Aivs, VecStep(u)
  PROVE  ProbabilitiesComputed'
<1> DEFINE p == vec[u]
<1>0. TypeOK /\ p \in Places(VecOps)
  BY DEF FifoInv, TypeOK
<1>1. CASE VecPLoad(u)
  <2> DEFINE t == Ahead(p)
             seen == {s \in Subs : ~Skipped(p.job, t, s)}
             x == <<p.job, t>>
  <2>1. /\ p.op = "p_load" /\ (p.sub = 0 => CanPop("qk", u))
        /\ vec' = [vec EXCEPT ![u] = Place(p.job, p.phase, p.tile, p.sub, "p_store")]
        /\ xExp' = [xExp EXCEPT ![u] =
                      IF \A s \in seen : qkSlot[Slot(t)][s] = x THEN x ELSE NoTile]
    BY <1>1 DEF VecPLoad
  <2>2. \A s \in seen : qkSlot[Slot(t)][s] = x
    BY <2>1, ScoresRead
  <2>3. xExp' = [xExp EXCEPT ![u] = x]
    <3> HIDE DEF x, seen, t
    <3> QED
      BY <2>1, <2>2
  <2>4. /\ vec'[u] = Place(p.job, p.phase, p.tile, p.sub, "p_store")
        /\ \A v \in Aivs : v # u => vec'[v] = vec[v] /\ xExp'[v] = xExp[v]
    BY <1>0, <2>1, <2>3 DEF TypeOK
  <2>5. xExp'[u] = x
    <3> HIDE DEF x
    <3> QED
      BY <1>0, <2>3 DEF TypeOK
  <2>6. vec'[u].job = p.job /\ Ahead(vec'[u]) = t
    BY <2>4 DEF Place, Ahead
  <2> QED
    BY <2>4, <2>5, <2>6 DEF ProbabilitiesComputed
<1>2. CASE VecClaim(u) \/ VecPStore(u) \/ VecUpdate(u)
  <2>1. /\ xExp' = xExp
        /\ \A v \in Aivs : v # u => vec'[v] = vec[v]
        /\ vec'[u] \in {NextJob(p, "p_load"), AfterP(p), VecSteadyTile(p, p.tile + 1)}
    <3>1. vec \in [Aivs -> Places(VecOps)]
      BY <1>0 DEF TypeOK
    <3> QED
      BY <1>2, <3>1 DEF VecClaim, VecPStore, VecUpdate
  <2>2. vec'[u].op # "p_store"
    BY <2>1 DEF NextJob, AfterP, VecSteadyTile, EndJob, Claimable, Place
  <2> QED
    BY <2>1, <2>2 DEF ProbabilitiesComputed
<1> QED
  BY <1>1, <1>2 DEF VecStep

\* Storing a row slice of probabilities keeps what the Cube core still reads.
LEMMA ProbabilitiesVecStep ==
  ASSUME FifoInv, FifoInv', ProbabilitiesComputed, ProbabilitiesHeld, SlicesHeld,
         NEW u \in Aivs, VecStep(u)
  PROVE  ProbabilitiesHeld' /\ SlicesHeld'
<1> DEFINE p == vec[u]
           a == Ahead(p)
<1>0. TypeOK /\ p \in Places(VecOps) /\ a \in Nat /\ InLoop(p)
  BY AheadType DEF FifoInv, TypeOK
<1>1. cube' = cube /\ (\A v \in Aivs : v # u => vec'[v] = vec[v])
  BY <1>0 DEF TypeOK, VecStep, VecClaim, VecPLoad, VecPStore, VecUpdate, cubeData
<1>2. CASE VecPStore(u)
  <2>1. /\ p.op = "p_store" /\ freed' = freed /\ vec'[u] = AfterP(p)
        /\ pSlot' = [pSlot EXCEPT ![Slot(a)][u][p.sub] = xExp[u]]
    BY <1>0, <1>2 DEF VecPStore, TypeOK
  <2>2. /\ cube.op # "claim" /\ cube.job \in Jobs /\ cube.job = p.job
        /\ a < NumTiles(cube.job)
        /\ pushed["p"][u] = TilesBefore[cube.job] + a
    BY <2>1, SameBlock DEF FifoInv, Counters
  <2>3. p.sub \in Subs /\ TilesBefore[cube.job] \in Nat /\ p.sub \in Nat
        /\ TileFactor \in Nat \ {0}
    BY <1>0, <2>1, <2>2, InBlock, PlaceParts
  <2>4. xExp[u] = <<cube.job, a>>
    BY <2>1, <2>2 DEF ProbabilitiesComputed
  <2>5. ASSUME NEW k \in SlotNames, NEW v \in Aivs, NEW r \in Subs
        PROVE  pSlot'[k][v][r] = IF k = Slot(a) /\ v = u /\ r = p.sub
                                 THEN xExp[u] ELSE pSlot[k][v][r]
    <3>1. Slot(a) \in SlotNames
      BY <1>0, SlotInRing
    <3>2. pSlot \in [SlotNames -> [Aivs -> [Subs -> Tags]]]
      BY <1>0 DEF TypeOK
    <3> HIDE DEF a, p
    <3> QED
      BY <2>1, <2>3, <3>1, <3>2
  <2>6. ASSUME NEW t \in Nat, t < a, freed["p"][Aic] <= TilesBefore[cube.job] + t
        PROVE  Slot(t) # Slot(a)
    <3>1. PAlloced(vec'[u]) = TilesBefore[cube.job] + a + 1
      <4>1. PAlloced(vec'[u]) = IF p.sub = 0 THEN PPushed(p) + 1 ELSE PAlloced(p)
        <5> HIDE DEF p
        <5> QED
          BY <1>0, <2>1, VecPStoreCounts
      <4> QED
        BY <1>0, <2>1, <2>2, <2>3, <4>1 DEF PAlloced, PPushed, From, One
    <3>2. PAlloced(vec'[u]) <= freed["p"][Aic] + FifoSize
      BY <2>1 DEF FifoInv, Flow
    <3>3. a - t < FifoSize
      BY <1>0, <2>3, <2>6, <3>1, <3>2, FifoTypes
    <3> QED
      BY <1>0, <2>6, <3>3, SlotsDistinct
  <2>7. ASSUME NEW r \in Subs, r <= p.sub
        PROVE  pSlot'[Slot(a)][u][r] = <<cube.job, a>>
    <3>1. Slot(a) \in SlotNames
      BY <1>0, SlotInRing
    <3>2. CASE r = p.sub
      BY <2>4, <2>5, <3>1, <3>2
    <3>3. CASE r # p.sub
      <4>1. r < p.sub
        BY <2>3, <2>7, <3>3 DEF Subs
      <4>2. pSlot[Slot(a)][u][r] = <<cube.job, a>>
        BY <2>1, <2>2, <4>1 DEF SlicesHeld
      <4> QED
        BY <2>5, <3>1, <3>3, <4>2
    <3> QED
      BY <3>2, <3>3
  <2>8. SlicesHeld'
    <3>1. ASSUME vec'[u].op \in {"p_load", "p_store"}, NEW r \in Subs, r < vec'[u].sub
          PROVE  Ahead(vec'[u]) = a /\ vec'[u].job = p.job /\ r <= p.sub
      <4>1. r \in Nat
        BY DEF Subs
      <4> QED
        BY <2>1, <2>3, <3>1, <4>1
           DEF AfterP, VecSteadyTile, EndJob, Claimable, Place, Ahead
    <3>2. ASSUME NEW v \in Aivs, v # u, NEW k \in SlotNames, NEW r \in Subs
          PROVE  pSlot'[k][v][r] = pSlot[k][v][r]
      BY <2>5, <3>2
    <3>3. ASSUME NEW v \in Aivs
          PROVE  Slot(Ahead(vec[v])) \in SlotNames
      BY FifoTypes, AheadType, SlotInRing
    <3>4. ASSUME NEW v \in Aivs, vec'[v].op \in {"p_load", "p_store"},
                 NEW r \in Subs, r < vec'[v].sub
          PROVE  pSlot'[Slot(Ahead(vec'[v]))][v][r] = <<vec'[v].job, Ahead(vec'[v])>>
      <4>1. CASE v = u
        BY <2>2, <2>7, <3>1, <3>4, <4>1
      <4>2. CASE v # u
        <5>1. vec'[v] = vec[v]
          BY <1>1, <4>2
        <5>2. pSlot[Slot(Ahead(vec[v]))][v][r] = <<vec[v].job, Ahead(vec[v])>>
          BY <3>4, <5>1 DEF SlicesHeld
        <5>3. pSlot'[Slot(Ahead(vec[v]))][v][r] = pSlot[Slot(Ahead(vec[v]))][v][r]
          BY <3>2, <3>3, <4>2
        <5> QED
          BY <5>1, <5>2, <5>3
      <4> QED
        BY <4>1, <4>2
    <3> QED
      BY <3>4 DEF SlicesHeld
  <2>9. ProbabilitiesHeld'
    <3> SUFFICES ASSUME NEW v \in Aivs, NEW t \in Nat, NEW r \in Subs,
                        t < NumTiles(cube.job),
                        freed["p"][Aic] <= TilesBefore[cube.job] + t,
                        TilesBefore[cube.job] + t < pushed'["p"][v]
                 PROVE  pSlot'[Slot(t)][v][r] = <<cube.job, t>>
      <4>1. cube' = cube /\ freed'["p"][Aic] = freed["p"][Aic]
        BY <1>1, <2>1
      <4> QED
        BY <4>1 DEF ProbabilitiesHeld
    <3>1. Slot(t) \in SlotNames /\ r \in Nat /\ r <= TileFactor - 1
      BY <2>3, SlotInRing DEF Subs
    <3>2. CASE v # u
      <4>1. pushed'["p"][v] = pushed["p"][v]
        BY <1>1, <3>2 DEF FifoInv, Counters
      <4>2. pSlot[Slot(t)][v][r] = <<cube.job, t>>
        BY <2>2, <4>1 DEF ProbabilitiesHeld
      <4> QED
        BY <2>5, <3>1, <3>2, <4>2
    <3>3. CASE v = u
      <4>1. pushed'["p"][u] = pushed["p"][u] + One(LastSub(p))
        <5>1. PPushed(vec'[u]) = PPushed(p) + One(LastSub(p))
          <6> HIDE DEF p
          <6> QED
            BY <1>0, <2>1, VecPStoreCounts
        <5> QED
          BY <5>1 DEF FifoInv, Counters
      <4>2. CASE t < a
        <5>1. pSlot[Slot(t)][u][r] = <<cube.job, t>>
          BY <1>0, <2>2, <2>3, <3>3, <4>2 DEF ProbabilitiesHeld
        <5> QED
          BY <2>5, <2>6, <3>1, <3>3, <4>2, <5>1
      <4>3. CASE ~(t < a)
        <5>1. t = a /\ LastSub(p)
          BY <1>0, <2>2, <2>3, <3>3, <4>1, <4>3 DEF One
        <5>2. r <= p.sub
          BY <3>1, <5>1 DEF LastSub
        <5> QED
          BY <2>7, <3>3, <5>1, <5>2
      <4> QED
        BY <4>2, <4>3
    <3> QED
      BY <3>2, <3>3
  <2> QED
    BY <2>8, <2>9
<1>3. CASE VecClaim(u) \/ VecPLoad(u) \/ VecUpdate(u)
  <2>1. pSlot' = pSlot /\ pushed' = pushed
    BY <1>3 DEF VecClaim, VecPLoad, VecUpdate, fifoVars
  <2>2. freed["p"][Aic] = freed'["p"][Aic]
    BY <1>1 DEF FifoInv, Counters
  <2>3. ProbabilitiesHeld'
    BY <1>1, <2>1, <2>2 DEF ProbabilitiesHeld
  <2>4. \/ /\ p.op = "p_load" /\ VecPLoad(u)
           /\ vec'[u] = Place(p.job, p.phase, p.tile, p.sub, "p_store")
        \/ vec'[u] = NextJob(p, "p_load")
        \/ vec'[u] = VecSteadyTile(p, p.tile + 1)
    BY <1>0, <1>3 DEF TypeOK, VecClaim, VecPLoad, VecUpdate
  <2>5. ASSUME NEW r \in Subs, r < vec'[u].sub
        PROVE  /\ p.op = "p_load" /\ vec'[u].sub = p.sub /\ vec'[u].job = p.job
               /\ Ahead(vec'[u]) = a
    <3>1. ~(r < 0)
      BY DEF Subs
    <3> QED
      BY <2>4, <2>5, <3>1 DEF NextJob, VecSteadyTile, EndJob, Claimable, Place, Ahead
  <2>6. SlicesHeld'
    BY <1>1, <2>1, <2>5 DEF SlicesHeld
  <2> QED
    BY <2>3, <2>6
<1> QED
  BY <1>2, <1>3 DEF VecStep

\* What the Cube core reads when it reads probabilities.
LEMMA ProbabilitiesRead ==
  ASSUME FifoInv, ProbabilitiesHeld, cube.op = "pv_load",
         cube.sub = 0 => CanPop("p", Aic),
         NEW v \in Aivs, NEW r \in Subs
  PROVE  pSlot[Slot(cube.tile)][v][r] = <<cube.job, cube.tile>>
<1>1. /\ cube \in Places(CubeOps) /\ cube.job \in Jobs /\ cube.phase = "steady"
      /\ cube.tile \in Nat /\ cube.tile < NumTiles(cube.job) /\ cube.sub \in Nat
      /\ TilesBefore[cube.job] \in Nat
  BY FifoTypes, InBlock DEF FifoInv, InCube
<1>2. freed["p"][Aic] = TilesBefore[cube.job] + cube.tile
  BY <1>1 DEF FifoInv, Counters, PFreed, From, One
<1>3. TilesBefore[cube.job] + cube.tile < pushed["p"][v]
  <2>1. CASE cube.sub = 0
    BY <1>2, <2>1 DEF CanPop, Producers
  <2>2. CASE cube.sub # 0
    <3>1. PPopped(cube) = TilesBefore[cube.job] + cube.tile + 1
      BY <1>1, <2>2 DEF PPopped, From, One
    <3> QED
      BY <1>1, <3>1, FifoTypes DEF FifoInv, Flow
  <2> QED
    BY <2>1, <2>2
<1> QED
  BY <1>1, <1>2, <1>3 DEF ProbabilitiesHeld

LEMMA TilesInvProbabilities == FifoInv /\ ProbabilitiesHeld => ProbabilitiesAreOwn
  BY ProbabilitiesRead DEF ProbabilitiesAreOwn

-----------------------------------------------------------------------------
(* PV partials.                                                            *)

\* One more sub-tile: nothing new if it is above the diagonal, else its
\* product; and all of them once the rest of the tile is above it.
LEMMA BegunGrows ==
  ASSUME NEW w \in Jobs, NEW t \in Nat, NEW n \in Subs
  PROVE  /\ Skipped(w, t, n) => Begun(w, t, n + 1) = Begun(w, t, n)
         /\ ~Skipped(w, t, n) => Begun(w, t, n + 1) = Begun(w, t, n) \cup {n}
         /\ Begun(w, t, 0) = {}
         /\ (n = TileFactor - 1 \/ Skipped(w, t, n + 1)) => Begun(w, t, n + 1) = Kept(w, t)
<1>1. n \in Nat /\ Subs \subseteq Nat /\ TileFactor \in Nat /\ \A s \in Subs : s <= TileFactor - 1
  BY GeometryAssumption DEF Subs
<1>2. ASSUME NEW s \in Subs
      PROVE  s < n + 1 <=> (s < n \/ s = n)
  BY <1>1
<1>3. Skipped(w, t, n) => Begun(w, t, n + 1) = Begun(w, t, n)
  BY <1>2 DEF Begun
<1>4. ~Skipped(w, t, n) => Begun(w, t, n + 1) = Begun(w, t, n) \cup {n}
  BY <1>1, <1>2 DEF Begun
<1>5. Begun(w, t, 0) = {}
  <2>1. \A s \in Subs : ~(s < 0)
    BY DEF Subs
  <2> QED
    BY <2>1 DEF Begun
<1>6. ASSUME n = TileFactor - 1 \/ Skipped(w, t, n + 1)
      PROVE  Begun(w, t, n + 1) = Kept(w, t)
  <2>1. ASSUME NEW s \in Subs, ~Skipped(w, t, s)
        PROVE  s < n + 1
    <3>1. CASE n = TileFactor - 1
      BY <1>1, <3>1
    <3>2. CASE Skipped(w, t, n + 1)
      BY <1>1, <2>1, <3>2, SkippedOnwards
    <3> QED
      BY <1>6, <3>1, <3>2
  <2> QED
    BY <2>1 DEF Begun, Kept
<1> QED
  BY <1>3, <1>4, <1>5, <1>6

\* What one PV matmul leaves in the PV accumulator.
LEMMA PvAccumulates ==
  ASSUME FifoInv, ProbabilitiesHeld, PartialSummed, CubePvLoad
  PROVE  /\ cube.job \in Jobs /\ cube.tile \in Nat /\ cube.sub \in Subs
         /\ cube.phase = "steady" /\ cube.op = "pv_load" /\ acc' = acc
         /\ l0c'[acc.pv] =
              ProductsOf(cube.job, cube.tile, Begun(cube.job, cube.tile, cube.sub + 1))
<1> DEFINE w == cube.job
           t == cube.tile
           s == cube.sub
           ps == {pSlot[Slot(t)][v][r] : v \in Aivs, r \in Subs}
           x == <<ps, w, t, s>>
<1>1. /\ cube \in Places(CubeOps) /\ w \in Jobs /\ t \in Nat /\ s \in Subs
      /\ cube.phase = "steady" /\ cube.op = "pv_load" /\ t < NumTiles(w) /\ acc' = acc
      /\ (s = 0 => CanPop("p", Aic)) /\ s \in Nat /\ 0 \in Subs
  BY FifoTypes, PlaceParts, GeometryAssumption DEF FifoInv, InCube, CubePvLoad, Subs
<1>2. l0c' = IF Skipped(w, t, s) THEN l0c
             ELSE [l0c EXCEPT ![acc.pv] = IF s = 0 THEN {x} ELSE @ \cup {x}]
  BY DEF CubePvLoad
<1>3. ps = {<<w, t>>}
  <2>1. \A v \in Aivs, r \in Subs : pSlot[Slot(t)][v][r] = <<w, t>>
    BY <1>1, ProbabilitiesRead
  <2>2. "aiv0" \in Aivs /\ 0 \in Subs
    BY <1>1 DEF Aivs
  <2> QED
    BY <2>1, <2>2
<1>4. l0c \in [0 .. 1 -> Products] /\ acc.pv \in 0 .. 1
  BY DEF FifoInv, TypeOK
<1>5. s # 0 => l0c[acc.pv] = ProductsOf(w, t, Begun(w, t, s))
  BY <1>1 DEF PartialSummed
<1>6. CASE Skipped(w, t, s)
  <2>1. s # 0
    BY <1>1, <1>6, FirstSubKept
  <2> QED
    BY <1>1, <1>2, <1>5, <1>6, <2>1, BegunGrows
<1>7. CASE ~Skipped(w, t, s)
  <2>1. l0c'[acc.pv] = IF s = 0 THEN {x} ELSE l0c[acc.pv] \cup {x}
    <3> HIDE DEF x, s
    <3> QED
      BY <1>2, <1>4, <1>7
  <2>2. Begun(w, t, s + 1) = Begun(w, t, s) \cup {s} /\ (s = 0 => Begun(w, t, s) = {})
    BY <1>1, <1>7, BegunGrows
  <2>3. ProductsOf(w, t, Begun(w, t, s + 1)) = ProductsOf(w, t, Begun(w, t, s)) \cup {x}
    <3> DEFINE B == Begun(w, t, s)
    <3>1. x = <<{<<w, t>>}, w, t, s>>
      BY <1>3
    <3> HIDE DEF x, w, t, s, B
    <3>2. ProductsOf(w, t, B \cup {s}) = ProductsOf(w, t, B) \cup {<<{<<w, t>>}, w, t, s>>}
      BY DEF ProductsOf
    <3> QED
      BY <2>2, <3>1, <3>2 DEF B
  <2>4. s = 0 => ProductsOf(w, t, Begun(w, t, s)) = {}
    BY <2>2 DEF ProductsOf
  <2> HIDE DEF x, s, w, t
  <2>5. l0c'[acc.pv] = ProductsOf(w, t, Begun(w, t, s + 1))
    BY <1>5, <2>1, <2>3, <2>4
  <2> QED
    BY <1>1, <2>5 DEF s, w, t
<1> QED
  BY <1>6, <1>7

LEMMA SummedStep ==
  ASSUME FifoInv, ProbabilitiesHeld, PartialSummed, CubeStep
  PROVE  PartialSummed'
<1> DEFINE w == cube.job
           t == cube.tile
           n == cube.sub
<1>0. /\ acc \in [qk : 0 .. 1, pv : 0 .. 1, next : 0 .. 1] /\ l0c \in [0 .. 1 -> Products]
      /\ cube \in Places(CubeOps) /\ InCube(cube) /\ n \in Subs /\ t \in Nat
      /\ n \in Nat
  BY FifoTypes, PlaceParts, GeometryAssumption DEF FifoInv, TypeOK, Subs
<1>1. CASE CubeClaim
  BY <1>1 DEF CubeClaim, NextJob, Place, PartialSummed
<1>2. CASE CubeAssign
  <2>1. /\ cube' = Place(w, "steady", t, 0, IF HasAhead(cube) THEN "qk" ELSE "pv_load")
        /\ acc' = AssignPV(IF HasAhead(cube) THEN AssignQK(acc) ELSE acc)
    BY <1>2 DEF CubeAssign
  <2>2. cube'.op # "pv_store" /\ cube'.sub = 0 /\ (HasAhead(cube') => HasAhead(cube))
    BY <2>1 DEF Place, HasAhead
  <2>3. HasAhead(cube) => acc'.qk # acc'.pv
    BY <1>0, <2>1 DEF AssignPV, AssignQK, Flip
  <2> QED
    BY <2>2, <2>3 DEF PartialSummed
<1>3. CASE CubeQK
  <2>1. CASE cube.phase = "steady"
    <3>1. /\ cube' = Place(w, "steady", t, n, "pv_load") /\ acc' = acc /\ cube.op = "qk"
          /\ l0c' = l0c \/ \E x : l0c' = [l0c EXCEPT ![acc.qk] = x]
      BY <1>3, <2>1 DEF CubeQK, AfterQK
    <3>2. HasAhead(cube) /\ acc.qk # acc.pv
      BY <1>0, <2>1, <3>1 DEF InCube, PartialSummed
    <3>3. l0c'[acc'.pv] = l0c[acc.pv]
      BY <1>0, <3>1, <3>2
    <3> QED
      BY <2>1, <3>1, <3>2, <3>3 DEF PartialSummed, Place
  <2>2. CASE cube.phase # "steady"
    <3>1. cube'.phase = "steady" => cube'.op = "assign"
      BY <1>3, <2>2 DEF CubeQK, AfterQK, CubeSteadyTile, EndJob, Claimable, Place
    <3> QED
      BY <3>1 DEF PartialSummed
  <2> QED
    BY <2>1, <2>2
<1>4. CASE CubePvLoad
  <2>1. /\ w \in Jobs /\ t \in Nat /\ cube.phase = "steady" /\ cube.op = "pv_load" /\ acc' = acc
        /\ l0c'[acc.pv] = ProductsOf(w, t, Begun(w, t, n + 1))
    BY <1>4, PvAccumulates
  <2>2. cube' = IF ~Skipped(w, t, n) /\ StoresPV(cube)
                THEN Place(w, "steady", t, n, "pv_store") ELSE AfterPV(cube)
    BY <1>4 DEF CubePvLoad
  <2>3. HasAhead(cube) => acc.qk # acc.pv
    BY <2>1 DEF PartialSummed
  <2>4. CASE ~Skipped(w, t, n) /\ StoresPV(cube)
    <3>1. Begun(w, t, n + 1) = Kept(w, t)
      BY <1>0, <2>1, <2>4, BegunGrows DEF StoresPV, LastSub
    <3>2. cube' = Place(w, "steady", t, n, "pv_store")
      BY <2>2, <2>4
    <3>3. /\ cube'.job = w /\ cube'.tile = t /\ cube'.op = "pv_store"
          /\ (HasAhead(cube') => HasAhead(cube))
      BY <3>2 DEF Place, HasAhead
    <3> QED
      BY <2>1, <2>3, <3>1, <3>3 DEF PartialSummed, Whole
  <2>5. CASE ~(~Skipped(w, t, n) /\ StoresPV(cube)) /\ ~LastSub(cube)
    <3>1. cube' = Place(w, "steady", t, n + 1, IF HasAhead(cube) THEN "qk" ELSE "pv_load")
      BY <2>2, <2>5 DEF AfterPV
    <3>2. /\ cube'.job = w /\ cube'.tile = t /\ cube'.sub = n + 1 /\ cube'.op # "pv_store"
          /\ (HasAhead(cube') => HasAhead(cube))
      BY <3>1 DEF Place, HasAhead
    <3> QED
      BY <2>1, <2>3, <3>2 DEF PartialSummed
  <2>6. CASE ~(~Skipped(w, t, n) /\ StoresPV(cube)) /\ LastSub(cube)
    <3>1. cube'.phase = "steady" => cube'.op = "assign"
      BY <2>2, <2>6 DEF AfterPV, CubeSteadyTile, EndJob, Claimable, Place
    <3> QED
      BY <3>1 DEF PartialSummed
  <2> QED
    BY <2>4, <2>5, <2>6
<1>5. CASE CubePvStore
  <2>1. /\ cube.op = "pv_store" /\ cube' = AfterPV(cube) /\ UNCHANGED <<acc, l0c>>
    BY <1>5 DEF CubePvStore
  <2>2. /\ w \in Jobs /\ cube.phase = "steady" /\ StoresPV(cube)
        /\ l0c[acc.pv] = Whole(w, t) /\ (HasAhead(cube) => acc.qk # acc.pv)
    BY <1>0, <2>1 DEF InCube, PartialSummed
  <2>3. CASE ~LastSub(cube)
    <3>1. cube' = Place(w, "steady", t, n + 1, IF HasAhead(cube) THEN "qk" ELSE "pv_load")
      BY <2>1, <2>3 DEF AfterPV
    <3>2. /\ cube'.job = w /\ cube'.tile = t /\ cube'.sub = n + 1 /\ cube'.op # "pv_store"
          /\ (HasAhead(cube') => HasAhead(cube))
      BY <3>1 DEF Place, HasAhead
    <3>3. Begun(w, t, n + 1) = Kept(w, t)
      BY <1>0, <2>2, BegunGrows DEF StoresPV, LastSub
    <3> QED
      BY <2>1, <2>2, <3>2, <3>3 DEF PartialSummed, Whole
  <2>4. CASE LastSub(cube)
    <3>1. cube'.phase = "steady" => cube'.op = "assign"
      BY <2>1, <2>4 DEF AfterPV, CubeSteadyTile, EndJob, Claimable, Place
    <3> QED
      BY <3>1 DEF PartialSummed
  <2> QED
    BY <2>3, <2>4
<1> QED
  BY <1>1, <1>2, <1>3, <1>4, <1>5 DEF CubeStep

LEMMA PartialsStep ==
  ASSUME FifoInv, FifoInv', PartialSummed, PartialsHeld, Next
  PROVE  PartialsHeld'
<1>0. /\ cube \in Places(CubeOps) /\ InCube(cube) /\ pushed["pv"][Aic] \in Nat
      /\ FifoSize \in Nat /\ TypeOK
  BY FifoTypes DEF FifoInv
<1>1. ASSUME NEW v \in Aivs
      PROVE  freed["pv"][v] \in Nat /\ freed'["pv"][v] \in Nat /\ freed["pv"][v] <= freed'["pv"][v]
  BY <1>0, CountersGrow DEF Fifos, Cores
<1>2. CASE CubePvStore
  <2> DEFINE k == Slot(pushed["pv"][Aic])
  <2>1. /\ cube.op = "pv_store" /\ freed' = freed /\ cube' = AfterPV(cube)
        /\ pvSlot' = [pvSlot EXCEPT ![k] = l0c[acc.pv]]
    BY <1>2 DEF CubePvStore
  <2>2. /\ cube.job \in Jobs /\ cube.phase = "steady" /\ cube.tile \in Nat
        /\ cube.tile < NumTiles(cube.job) /\ l0c[acc.pv] = Whole(cube.job, cube.tile)
    BY <1>0, <2>1, PlaceParts DEF InCube, PartialSummed
  <2>3. /\ pushed["pv"][Aic] = TilesBefore[cube.job] + cube.tile
        /\ pushed'["pv"][Aic] = TilesBefore[cube.job] + cube.tile + 1
    <3>1. PvPushed(cube') = PvPushed(cube) + 1
      BY <1>0, <2>1, CubePvStoreCounts
    <3>2. PvPushed(cube) = TilesBefore[cube.job] + cube.tile
      BY <2>1, <2>2, TilesBeforeStep DEF PvPushed, From, One
    <3> QED
      BY <3>1, <3>2 DEF FifoInv, Counters
  <2>4. TilesBefore[cube.job] \in Nat /\ k \in SlotNames /\ pvSlot \in [SlotNames -> Products]
        /\ TilesBefore[cube.job + 1] = TilesBefore[cube.job] + NumTiles(cube.job)
        /\ NumTiles(cube.job) \in Nat
    BY <1>0, <2>2, TilesBeforeStep, SlotInRing DEF TypeOK
  <2> SUFFICES ASSUME NEW v \in Aivs, NEW w \in Jobs, NEW t \in Nat, t < NumTiles(w),
                      freed["pv"][v] <= TilesBefore[w] + t,
                      TilesBefore[w] + t < pushed'["pv"][Aic]
               PROVE  pvSlot'[Slot(TilesBefore[w] + t)] = Whole(w, t)
    BY <2>1 DEF PartialsHeld
  <2> DEFINE x == TilesBefore[w] + t
  <2>5. x \in Nat /\ Slot(x) \in SlotNames
    BY TilesBeforeStep, SlotInRing
  <2>6. CASE x = pushed["pv"][Aic]
    <3>1. cube.job = w
      BY <2>2, <2>3, <2>4, <2>6, TileOfJob
    <3>2. cube.tile = t
      BY <2>2, <2>3, <2>4, <2>6, <3>1
    <3> QED
      BY <2>1, <2>2, <2>4, <2>5, <2>6, <3>1, <3>2
  <2>7. CASE x # pushed["pv"][Aic]
    <3>1. x < pushed["pv"][Aic]
      BY <1>0, <2>3, <2>4, <2>5, <2>7
    <3>2. pvSlot[Slot(x)] = Whole(w, t)
      BY <3>1 DEF PartialsHeld
    <3>3. pushed'["pv"][Aic] <= freed["pv"][v] + FifoSize
      BY <2>1 DEF FifoInv, Flow
    <3>4. pushed["pv"][Aic] - x < FifoSize
      BY <1>0, <1>1, <2>3, <2>4, <2>5, <3>3
    <3>5. Slot(x) # k
      BY <1>0, <2>5, <3>1, <3>4, SlotsDistinct
    <3> QED
      BY <2>1, <2>4, <2>5, <3>2, <3>5
  <2> QED
    BY <2>6, <2>7
<1>3. CASE ~CubePvStore
  <2>1. pvSlot' = pvSlot /\ pushed'["pv"][Aic] = pushed["pv"][Aic]
    <3>1. CASE CubeQK
      <4>1. pvSlot' = pvSlot /\ (pushed' = pushed \/ pushed' = [pushed EXCEPT !["qk"][Aic] = @ + 1])
        BY <3>1 DEF CubeQK
      <4> QED
        BY <1>0, <4>1 DEF TypeOK, Fifos, Cores
    <3>3. CASE CubeClaim \/ CubeAssign \/ CubePvLoad
      BY <3>3 DEF CubeClaim, CubeAssign, CubePvLoad, fifoVars, cubeData
    <3>2. ASSUME NEW v \in Aivs, VecStep(v)
          PROVE  pvSlot' = pvSlot /\ cube' = cube
      BY <3>2 DEF VecStep, VecClaim, VecPLoad, VecPStore, VecUpdate, cubeData
    <3> QED
      BY <1>3, <3>1, <3>2, <3>3 DEF Next, CubeStep, FifoInv, Counters
  <2> SUFFICES ASSUME NEW v \in Aivs, NEW w \in Jobs, NEW t \in Nat, t < NumTiles(w),
                      freed'["pv"][v] <= TilesBefore[w] + t,
                      TilesBefore[w] + t < pushed["pv"][Aic]
               PROVE  pvSlot[Slot(TilesBefore[w] + t)] = Whole(w, t)
    BY <2>1 DEF PartialsHeld
  <2>2. freed["pv"][v] <= TilesBefore[w] + t
    BY <1>1, TilesBeforeStep
  <2> QED
    BY <2>2 DEF PartialsHeld
<1> QED
  BY <1>2, <1>3

\* What a subblock reads when it reads a PV partial.
LEMMA PartialRead ==
  ASSUME FifoInv, PartialsHeld, NEW v \in Aivs, vec[v].op = "gu", CanPop("pv", v)
  PROVE  pvSlot[Slot(freed["pv"][v])] = Whole(vec[v].job, vec[v].tile)
<1> DEFINE p == vec[v]
<1>1. /\ p.job \in Jobs /\ p.phase = "steady" /\ p.tile < NumTiles(p.job) /\ p.tile \in Nat
      /\ TilesBefore[p.job] \in Nat
  BY FifoTypes, InBlock DEF FifoInv, InLoop
<1>2. freed["pv"][v] = TilesBefore[p.job] + p.tile
  BY <1>1 DEF FifoInv, Counters, PvFreed, From, FirstNeeded
<1>3. freed["pv"][v] < pushed["pv"][Aic]
  BY DEF CanPop, Producers
<1> QED
  BY <1>1, <1>2, <1>3 DEF PartialsHeld

LEMMA TilesInvPartials == FifoInv /\ PartialsHeld => PartialsAreOwn
  BY PartialRead DEF PartialsAreOwn, Whole, ProductsOf, Kept

-----------------------------------------------------------------------------
(* Together.                                                               *)

LEMMA TilesInit == Init => TilesInv
<1> SUFFICES ASSUME Init PROVE TilesInv
  OBVIOUS
<1>1. FifoInv
  BY FifoInit
<1>2. /\ cube.op = "claim" /\ cube.phase = "claim" /\ (\A v \in Aivs : vec[v].op = "claim")
      /\ pushed["pv"][Aic] = 0
  BY DEF Init, Claimable, Place, Fifos, Cores
<1>3. \A w \in Jobs, t \in Nat : ~(TilesBefore[w] + t < 0)
  BY TilesBeforeStep
<1> QED
  BY <1>1, <1>2, <1>3
     DEF TilesInv, ScoresHeld, ProbabilitiesComputed, ProbabilitiesHeld, SlicesHeld,
         PartialSummed, PartialsHeld

LEMMA TilesStep == TilesInv /\ [Next]_vars => TilesInv'
<1> SUFFICES ASSUME TilesInv, [Next]_vars PROVE TilesInv'
  OBVIOUS
<1>1. FifoInv /\ FifoInv'
  BY FifoStep DEF TilesInv
<1>2. CASE UNCHANGED vars
  BY <1>1, <1>2
     DEF TilesInv, vars, fifoVars, cubeData, vecData, ScoresHeld, ProbabilitiesComputed,
         ProbabilitiesHeld, SlicesHeld, PartialSummed, PartialsHeld
<1>3. CASE CubeStep
  <2>1. UNCHANGED <<vec, pSlot, xExp>>
    BY <1>3 DEF CubeStep, CubeClaim, CubeAssign, CubeQK, CubePvLoad, CubePvStore, vecData
  <2>2. ProbabilitiesComputed' /\ SlicesHeld'
    BY <2>1 DEF TilesInv, ProbabilitiesComputed, SlicesHeld
  <2> QED
    BY <1>1, <1>3, <2>2, ScoresStep, ProbabilitiesCubeStep, SummedStep, PartialsStep
       DEF TilesInv, Next
<1>4. ASSUME NEW u \in Aivs, VecStep(u)
      PROVE  TilesInv'
  <2>1. UNCHANGED <<cube, acc, l0c>>
    BY <1>4 DEF VecStep, VecClaim, VecPLoad, VecPStore, VecUpdate, cubeData
  <2>2. PartialSummed'
    BY <2>1 DEF TilesInv, PartialSummed
  <2> QED
    BY <1>1, <1>4, <2>2, ScoresVecStep, ComputedStep, ProbabilitiesVecStep, PartialsStep
       DEF TilesInv, Next
<1> QED
  BY <1>2, <1>3, <1>4 DEF Next

\* Softmax of a tile reads that tile's scores: the slot tile % FifoSize is
\* neither still another row-block's nor already the ring's next lap.
THEOREM ScoresCorrect == Spec => []ScoresAreOwn
<1>1. TilesInv => ScoresAreOwn
  BY TilesInvScores DEF TilesInv
<1> QED
  BY <1>1, TilesInit, TilesStep, PTL DEF Spec

\* The Cube core multiplies V by the probabilities of the tile it is at, of
\* both subblocks and every row slice.
THEOREM ProbabilitiesCorrect == Spec => []ProbabilitiesAreOwn
<1>1. TilesInv => ProbabilitiesAreOwn
  BY TilesInvProbabilities DEF TilesInv
<1> QED
  BY <1>1, TilesInit, TilesStep, PTL DEF Spec

\* A subblock adds to the running output the PV partial of the tile it is
\* at, with every key block of the tile the row-block attends and no other.
THEOREM PartialsCorrect == Spec => []PartialsAreOwn
<1>1. TilesInv => PartialsAreOwn
  BY TilesInvPartials DEF TilesInv
<1> QED
  BY <1>1, TilesInit, TilesStep, PTL DEF Spec

-----------------------------------------------------------------------------
(* What the running sum and the running output stand for.                  *)

\* The sum of the first n tiles of row-block w, each rescaled by the factors
\* of the tiles after it, in order.
SumOf(w, n, o) ==
  /\ Len(o) = n
  /\ \A i \in 1 .. n :
       /\ o[i].prods = Whole(w, i - 1)
       /\ Len(o[i].scale) = n - i
       /\ \A j \in 1 .. n - i, r \in Subs : o[i].scale[j][r] = <<w, i - 1 + j>>

Tiles(w, n) == {<<w, t>> : t \in 0 .. n - 1}

\* The row sums add up the tiles whose softmax is done.
RowsSummed ==
  \A v \in Aivs :
    vec[v].op # "claim" =>
      \A r \in Subs :
        Softmaxed(vec[v], r) > 0 =>
          rowSum[v][r] = Tiles(vec[v].job, Softmaxed(vec[v], r))

\* The running output is the sum of the tiles the updates have passed.
OutputSummed ==
  \A v \in Aivs :
    (vec[v].op # "claim" /\ FirstNeeded(vec[v]) > 0) =>
      SumOf(vec[v].job, FirstNeeded(vec[v]), runO[v])

\* A half whose row-block a subblock has not finished is not yet written.
HalvesOpen ==
  \A v \in Aivs, w \in Jobs :
    (vec[v].job < w \/ (vec[v].job = w /\ vec[v].op # "claim")) => oOut[w][v] = Unwritten

\* The output keeps a half for each subblock of each row-block.
OutputShape == oOut = [w \in Jobs |-> [v \in Aivs |-> oOut[w][v]]]

ResultInv ==
  /\ TilesInv /\ RingInv
  /\ RowsSummed /\ OutputSummed /\ HalvesOpen /\ OutputShape

-----------------------------------------------------------------------------
(* The row sums.                                                           *)

\* No move but a softmax changes what is softmaxed.
LEMMA AfterPKeepsSoftmaxed ==
  ASSUME NEW p \in Places(VecOps), p.op = "p_store", InLoop(p), NEW r \in Subs
  PROVE  /\ AfterP(p).op # "claim" /\ AfterP(p).job = p.job
         /\ Softmaxed(AfterP(p), r) = Softmaxed(p, r)
<1> DEFINE n == NumTiles(p.job)
<1>1. /\ p.job \in Jobs /\ p.tile < n /\ p.op # "claim" /\ r \in Nat /\ r <= TileFactor - 1
      /\ p.phase \in {"preload", "steady"}
  BY GeometryAssumption DEF InLoop, Subs
<1>2. Softmaxed(p, r) = Ahead(p) + One(r <= p.sub)
  BY <1>1, InBlock DEF Softmaxed, One
<1>3. CASE ~LastSub(p)
  <2>1. AfterP(p) = Place(p.job, p.phase, p.tile, p.sub + 1, "p_load")
    BY <1>3 DEF AfterP
  <2> QED
    BY <1>1, <1>2, <2>1, InBlock DEF Softmaxed, Place, Ahead, One
<1>4. CASE LastSub(p)
  <2>1. Softmaxed(p, r) = Ahead(p) + 1
    BY <1>1, <1>2, <1>4, InBlock DEF LastSub, One
  <2>2. CASE p.phase = "steady"
    <3>1. AfterP(p) = Place(p.job, "steady", p.tile, 0, "gu") /\ HasAhead(p)
      BY <1>4, <2>2 DEF AfterP, InLoop
    <3> QED
      BY <1>1, <2>1, <2>2, <3>1, InBlock DEF Softmaxed, Place, Ahead, HasAhead
  <2>3. CASE p.phase = "preload" /\ MorePreload(p)
    <3>1. AfterP(p) = Place(p.job, "preload", p.tile + 1, 0, "p_load")
      BY <1>4, <2>3 DEF AfterP
    <3> QED
      BY <1>1, <2>1, <2>3, <3>1, InBlock DEF Softmaxed, Place, Ahead
  <2>4. CASE p.phase = "preload" /\ ~MorePreload(p)
    <3>1. AfterP(p) = Place(p.job, "steady", 0, 0, IF QkPreload < n THEN "p_load" ELSE "gu")
      BY <1>1, <1>4, <2>4, InBlock DEF AfterP, VecSteadyTile
    <3>2. p.tile + 1 = IF QkPreload < n THEN QkPreload ELSE n
      BY <1>1, <2>4, InBlock DEF InLoop, MorePreload
    <3>3. CASE QkPreload < n
      BY <1>1, <2>1, <2>4, <3>1, <3>2, <3>3, InBlock DEF Softmaxed, Place, Ahead
    <3>4. CASE ~(QkPreload < n)
      BY <1>1, <2>1, <2>4, <3>1, <3>2, <3>4, InBlock DEF Softmaxed, Place, Ahead, HasAhead
    <3> QED
      BY <3>3, <3>4
  <2> QED
    BY <1>1, <2>2, <2>3, <2>4
<1> QED
  BY <1>3, <1>4

LEMMA AfterUpdateKeepsSoftmaxed ==
  ASSUME NEW p \in Places(VecOps), p.op = "gu", InLoop(p), NEW r \in Subs,
         NEW q, q = VecSteadyTile(p, p.tile + 1), q.op # "claim"
  PROVE  /\ q.job = p.job /\ p.tile + 1 < NumTiles(p.job)
         /\ FirstNeeded(q) = p.tile + 1
         /\ Softmaxed(q, r) = Softmaxed(p, r)
<1> DEFINE n == NumTiles(p.job)
<1>1. /\ p.job \in Jobs /\ p.tile < n /\ p.op # "claim" /\ r \in Nat
  BY DEF InLoop, Subs
<1>2. p.tile + 1 < n
  BY DEF VecSteadyTile, EndJob, Claimable, Place
<1>3. q = Place(p.job, "steady", p.tile + 1, 0,
                IF p.tile + 1 + QkPreload < n THEN "p_load" ELSE "gu")
  BY <1>2 DEF VecSteadyTile
<1>4. CASE p.tile + 1 + QkPreload < n
  BY <1>1, <1>2, <1>3, <1>4, InBlock DEF Softmaxed, Place, Ahead, HasAhead, FirstNeeded
<1>5. CASE ~(p.tile + 1 + QkPreload < n)
  BY <1>1, <1>2, <1>3, <1>5, InBlock DEF Softmaxed, Place, Ahead, HasAhead, FirstNeeded
<1> QED
  BY <1>4, <1>5

LEMMA RowsStep ==
  ASSUME TilesInv, TilesInv', RowsSummed, NEW u \in Aivs, VecStep(u)
  PROVE  RowsSummed'
<1> DEFINE p == vec[u]
           a == Ahead(p)
<1>0. /\ TypeOK /\ p \in Places(VecOps) /\ InLoop(p) /\ a \in Nat
  BY AheadType DEF TilesInv, FifoInv, TypeOK
<1>1. \A v \in Aivs : v # u => vec'[v] = vec[v] /\ rowSum'[v] = rowSum[v]
  <2>1. /\ vec \in [Aivs -> Places(VecOps)]
        /\ rowSum \in [Aivs -> [Subs -> SUBSET Tags]]
    BY <1>0 DEF TypeOK
  <2>2. CASE VecClaim(u)
    BY <2>1, <2>2 DEF VecClaim
  <2>3. CASE VecPLoad(u)
    BY <2>1, <2>3 DEF VecPLoad
  <2>4. CASE VecPStore(u)
    BY <2>1, <2>4 DEF VecPStore
  <2>5. CASE VecUpdate(u)
    BY <2>1, <2>5 DEF VecUpdate
  <2> QED
    BY <2>2, <2>3, <2>4, <2>5 DEF VecStep
<1>2. SUFFICES ASSUME vec'[u].op # "claim", NEW r \in Subs, Softmaxed(vec'[u], r) > 0
               PROVE  rowSum'[u][r] = Tiles(vec'[u].job, Softmaxed(vec'[u], r))
  BY <1>1 DEF RowsSummed
<1>3. CASE VecClaim(u)
  <2>1. vec'[u] = Place(p.job + 1, "preload", 0, 0, "p_load")
    BY <1>0, <1>3 DEF VecClaim, NextJob, TypeOK
  <2> QED
    BY <1>2, <2>1 DEF Softmaxed, Place, Ahead, Subs
<1>4. CASE VecPLoad(u)
  <2> DEFINE x == <<p.job, a>>
  <2>1. /\ p.op = "p_load" /\ vec'[u] = Place(p.job, p.phase, p.tile, p.sub, "p_store")
        /\ rowSum' = [rowSum EXCEPT ![u][p.sub] = (IF a = 0 THEN {} ELSE @) \cup {xExp'[u]}]
    BY <1>0, <1>4 DEF VecPLoad, TypeOK
  <2>2. vec'[u].job = p.job /\ vec'[u].op = "p_store" /\ Ahead(vec'[u]) = a
        /\ Softmaxed(vec'[u], r) = a + One(r <= p.sub)
        /\ Softmaxed(p, r) = a + One(r < p.sub)
    BY <1>0, <2>1, PlaceParts DEF Place, Ahead, Softmaxed, One, Subs
  <2>3. xExp'[u] = x
    BY <2>2 DEF TilesInv, ProbabilitiesComputed
  <2>4. p.sub \in Subs /\ rowSum \in [Aivs -> [Subs -> SUBSET Tags]] /\ Subs \subseteq Nat
    BY <1>0, PlaceParts DEF TypeOK, Subs
  <2>5. CASE r = p.sub
    <3>1. Softmaxed(vec'[u], r) = a + 1 /\ Softmaxed(p, r) = a
      BY <1>0, <2>2, <2>4, <2>5 DEF One
    <3>2. rowSum'[u][r] = (IF a = 0 THEN {} ELSE rowSum[u][r]) \cup {x}
      <4> HIDE DEF x, p, a
      <4> QED
        BY <2>1, <2>3, <2>4, <2>5
    <3>3. a # 0 => rowSum[u][r] = Tiles(p.job, a)
      BY <1>0, <2>1, <3>1 DEF RowsSummed
    <3>4. Tiles(p.job, a + 1) = Tiles(p.job, a) \cup {x} /\ (a = 0 => Tiles(p.job, a) = {})
      <4>1. 0 .. (a + 1) - 1 = (0 .. a - 1) \cup {a} /\ (a = 0 => 0 .. a - 1 = {})
        BY <1>0
      <4> HIDE DEF p, a
      <4> QED
        BY <4>1 DEF Tiles, x
    <3> HIDE DEF x, p, a
    <3> QED
      BY <2>2, <3>1, <3>2, <3>3, <3>4
  <2>6. CASE r # p.sub
    <3>0. r \in Nat /\ p.sub \in Nat
      BY <2>4
    <3>1. Softmaxed(vec'[u], r) = Softmaxed(p, r)
      <4>1. (r <= p.sub) <=> (r < p.sub)
        BY <2>6, <3>0
      <4>2. One(r <= p.sub) = One(r < p.sub)
        BY <4>1 DEF One
      <4> QED
        BY <2>2, <4>2
    <3>2. rowSum'[u][r] = rowSum[u][r]
      <4> HIDE DEF p, a
      <4> QED
        BY <2>1, <2>4, <2>6
    <3> QED
      BY <1>2, <2>1, <2>2, <3>1, <3>2 DEF RowsSummed
  <2> QED
    BY <2>5, <2>6
<1>5. CASE VecPStore(u)
  <2>1. p.op = "p_store" /\ vec'[u] = AfterP(p) /\ rowSum' = rowSum
    BY <1>0, <1>5 DEF VecPStore, TypeOK
  <2>2. vec'[u].job = p.job /\ Softmaxed(vec'[u], r) = Softmaxed(p, r)
    <3> HIDE DEF p
    <3> QED
      BY <1>0, <2>1, AfterPKeepsSoftmaxed
  <2> QED
    BY <1>2, <2>1, <2>2 DEF RowsSummed
<1>6. CASE VecUpdate(u)
  <2>1. p.op = "gu" /\ vec'[u] = VecSteadyTile(p, p.tile + 1) /\ rowSum' = rowSum
    BY <1>0, <1>6 DEF VecUpdate, TypeOK
  <2>2. vec'[u].job = p.job /\ Softmaxed(vec'[u], r) = Softmaxed(p, r)
    <3> HIDE DEF p
    <3> QED
      BY <1>0, <1>2, <2>1, AfterUpdateKeepsSoftmaxed
  <2> QED
    BY <1>2, <2>1, <2>2 DEF RowsSummed
<1> QED
  BY <1>3, <1>4, <1>5, <1>6 DEF VecStep

-----------------------------------------------------------------------------
(* The running output.                                                     *)

\* What an output update leaves in runO, and stores if the tile is the last.
Updated(v) ==
  LET part == Partial(pvSlot[Slot(freed["pv"][v])])
  IN IF vec[v].tile = 0 THEN <<part>>
     ELSE Append(Rescaled(runO[v], expMax[v][Slot(vec[v].tile)]), part)

\* Rescaling by tile n's factor and adding its partial makes the sum of n
\* tiles the sum of n + 1.
LEMMA SumGrows ==
  ASSUME NEW w, NEW n \in Nat, NEW o \in Sums, SumOf(w, n, o),
         NEW e \in Factors, \A r \in Subs : e[r] = <<w, n>>
  PROVE  SumOf(w, n + 1, Append(Rescaled(o, e), Partial(Whole(w, n))))
<1> DEFINE q == Rescaled(o, e)
           part == Partial(Whole(w, n))
           new == Append(q, part)
<1>1. /\ Len(o) = n /\ DOMAIN o = 1 .. n
      /\ \A i \in 1 .. n : o[i] \in [prods : Products, scale : Seq(Factors)]
  <2> DEFINE Term == [prods : Products, scale : Seq(Factors)]
  <2>1. o \in Seq(Term) /\ Len(o) = n
    BY DEF SumOf, Sums
  <2> HIDE DEF Term
  <2>2. DOMAIN o = 1 .. n /\ \A i \in 1 .. n : o[i] \in Term
    BY <2>1
  <2> QED
    BY <2>1, <2>2 DEF Term
<1>2. q = [i \in 1 .. n |-> [prods |-> o[i].prods, scale |-> Append(o[i].scale, e)]]
  BY <1>1 DEF Rescaled
<1> DEFINE Terms == {[prods |-> o[i].prods, scale |-> Append(o[i].scale, e)] : i \in 1 .. n}
<1>3. q \in Seq(Terms) /\ Len(q) = n
  <2> HIDE DEF Terms
  <2>1. \A i \in 1 .. n : [prods |-> o[i].prods, scale |-> Append(o[i].scale, e)] \in Terms
    BY DEF Terms
  <2>2. q \in [1 .. n -> Terms]
    BY <1>2, <2>1
  <2> QED
    BY <2>2
<1>4. /\ Len(new) = n + 1 /\ new[n + 1] = part
      /\ \A i \in 1 .. n : new[i] = [prods |-> o[i].prods, scale |-> Append(o[i].scale, e)]
  <2> HIDE DEF q, part, Terms
  <2>1. Len(new) = n + 1 /\ new[n + 1] = part /\ \A i \in 1 .. n : new[i] = q[i]
    BY <1>3
  <2> QED
    BY <1>2, <2>1
<1>5. ASSUME NEW i \in 1 .. n
      PROVE  /\ new[i].prods = Whole(w, i - 1)
             /\ Len(new[i].scale) = n + 1 - i
             /\ \A j \in 1 .. n + 1 - i, r \in Subs : new[i].scale[j][r] = <<w, i - 1 + j>>
  <2> DEFINE sc == o[i].scale
  <2>1. /\ sc \in Seq(Factors) /\ Len(sc) = n - i /\ o[i].prods = Whole(w, i - 1)
        /\ \A j \in 1 .. n - i, r \in Subs : sc[j][r] = <<w, i - 1 + j>>
    BY <1>1 DEF SumOf
  <2>a. new[i] = [prods |-> o[i].prods, scale |-> Append(sc, e)]
    BY <1>4
  <2> HIDE DEF sc, new
  <2>2. new[i].prods = o[i].prods /\ new[i].scale = Append(sc, e)
    BY <2>a
  <2>3. /\ Len(Append(sc, e)) = n + 1 - i /\ Append(sc, e)[n + 1 - i] = e
        /\ \A j \in 1 .. n - i : Append(sc, e)[j] = sc[j]
    BY <2>1
  <2>4. ASSUME NEW j \in 1 .. n + 1 - i, NEW r \in Subs
        PROVE  Append(sc, e)[j][r] = <<w, i - 1 + j>>
    <3>1. CASE j = n + 1 - i
      <4>1. i - 1 + j = n
        BY <3>1
      <4> QED
        BY <2>3, <3>1, <4>1
    <3>2. CASE j # n + 1 - i
      <4>1. j \in 1 .. n - i
        BY <3>2
      <4> QED
        BY <2>1, <2>3, <4>1
    <3> QED
      BY <3>1, <3>2
  <2> QED
    BY <2>1, <2>2, <2>3, <2>4
<1>6. /\ new[n + 1].prods = Whole(w, (n + 1) - 1) /\ Len(new[n + 1].scale) = 0
  <2>1. (n + 1) - 1 = n
    OBVIOUS
  <2> HIDE DEF new
  <2> QED
    BY <1>4, <2>1 DEF Partial
<1> HIDE DEF new
<1>7. ASSUME NEW i \in 1 .. n + 1
      PROVE  /\ new[i].prods = Whole(w, i - 1)
             /\ Len(new[i].scale) = n + 1 - i
             /\ \A j \in 1 .. n + 1 - i, r \in Subs : new[i].scale[j][r] = <<w, i - 1 + j>>
  <2>1. CASE i = n + 1
    BY <1>6, <2>1
  <2>2. CASE i # n + 1
    <3>1. i \in 1 .. n
      BY <2>2
    <3> QED
      BY <1>5, <3>1
  <2> QED
    BY <2>1, <2>2
<1>8. Len(new) = n + 1
  BY <1>4
<1>9. SumOf(w, n + 1, new)
  BY <1>7, <1>8 DEF SumOf
<1> QED
  BY <1>9 DEF new

\* An update leaves the sum of the tiles up to and including its own.
LEMMA UpdateSums ==
  ASSUME ResultInv, NEW v \in Aivs, vec[v].op = "gu", CanPop("pv", v)
  PROVE  SumOf(vec[v].job, vec[v].tile + 1, Updated(v))
<1> DEFINE p == vec[v]
           part == Partial(Whole(p.job, p.tile))
           e == expMax[v][Slot(p.tile)]
<1>1. /\ p \in Places(VecOps) /\ p.phase = "steady" /\ p.tile \in Nat
      /\ p.op # "claim" /\ TypeOK
  BY PlaceParts DEF ResultInv, RingInv, InLoop, TypeOK
<1>2. Partial(pvSlot[Slot(freed["pv"][v])]) = part
  BY PartialRead DEF ResultInv, TilesInv
<1>3. CASE p.tile = 0
  <2>1. Updated(v) = <<part>>
    BY <1>2, <1>3 DEF Updated
  <2>2. part.prods = Whole(p.job, 0) /\ part.scale = <<>>
    BY <1>3 DEF Partial
  <2> HIDE DEF part, p
  <2>3. SumOf(p.job, 1, <<part>>)
    <3>1. Len(<<part>>) = 1 /\ <<part>>[1] = part /\ Len(part.scale) = 0
      BY <2>2
    <3>2. ASSUME NEW i \in 1 .. 1
          PROVE  i = 1 /\ i - 1 = 0 /\ 1 - i = 0 /\ 1 .. 1 - i = {}
      OBVIOUS
    <3> QED
      BY <2>2, <3>1, <3>2 DEF SumOf
  <2> QED
    BY <1>3, <2>1, <2>3 DEF p
<1>4. CASE p.tile # 0
  <2>1. Updated(v) = Append(Rescaled(runO[v], e), part)
    BY <1>2, <1>4 DEF Updated
  <2>2. SumOf(p.job, p.tile, runO[v])
    BY <1>1, <1>4 DEF ResultInv, OutputSummed, FirstNeeded
  <2>3. runO[v] \in Sums /\ e \in Factors
    BY <1>1, SlotInRing DEF TypeOK
  <2>4. \A r \in Subs : e[r] = <<p.job, p.tile>>
    BY <1>1, <1>4, RingInvImplies DEF ResultInv, RescalesWithOwnExpMax
  <2> HIDE DEF e, p
  <2>5. SumOf(p.job, p.tile + 1, Append(Rescaled(runO[v], e), part))
    BY <1>1, <2>2, <2>3, <2>4, SumGrows
  <2> QED
    BY <2>1, <2>5 DEF p
<1> QED
  BY <1>3, <1>4

LEMMA AfterPKeepsFirst ==
  ASSUME NEW p \in Places(VecOps), p.op = "p_store", InLoop(p)
  PROVE  FirstNeeded(AfterP(p)) = FirstNeeded(p)
<1>1. p.job \in Jobs /\ p.phase \in {"preload", "steady"} /\ p.op # "claim"
  BY DEF InLoop
<1> QED
  BY <1>1, InBlock DEF FirstNeeded, AfterP, VecSteadyTile, Place, LastSub, MorePreload

LEMMA OutputStep ==
  ASSUME ResultInv, NEW u \in Aivs, VecStep(u)
  PROVE  OutputSummed'
<1> DEFINE p == vec[u]
<1>0. /\ TypeOK /\ p \in Places(VecOps) /\ InLoop(p) /\ 0 \in Subs
  BY PlaceParts DEF ResultInv, RingInv, TypeOK
<1>1. \A v \in Aivs : v # u => vec'[v] = vec[v] /\ runO'[v] = runO[v]
  BY <1>0 DEF TypeOK, VecStep, VecClaim, VecPLoad, VecPStore, VecUpdate
<1>2. SUFFICES ASSUME vec'[u].op # "claim", FirstNeeded(vec'[u]) > 0
               PROVE  SumOf(vec'[u].job, FirstNeeded(vec'[u]), runO'[u])
  BY <1>1 DEF ResultInv, OutputSummed
<1>3. CASE VecClaim(u)
  <2>1. vec'[u] = Place(p.job + 1, "preload", 0, 0, "p_load")
    BY <1>0, <1>3 DEF VecClaim, NextJob, TypeOK
  <2> QED
    BY <1>2, <2>1 DEF FirstNeeded, Place
<1>4. CASE VecPLoad(u)
  <2>1. /\ p.op = "p_load" /\ vec'[u] = Place(p.job, p.phase, p.tile, p.sub, "p_store")
        /\ runO' = runO
    BY <1>0, <1>4 DEF VecPLoad, TypeOK
  <2>2. vec'[u].job = p.job /\ FirstNeeded(vec'[u]) = FirstNeeded(p)
    BY <2>1 DEF Place, FirstNeeded
  <2> QED
    BY <1>2, <2>1, <2>2 DEF ResultInv, OutputSummed
<1>5. CASE VecPStore(u)
  <2>1. p.op = "p_store" /\ vec'[u] = AfterP(p) /\ runO' = runO
    BY <1>0, <1>5 DEF VecPStore, TypeOK
  <2>2. vec'[u].job = p.job /\ FirstNeeded(vec'[u]) = FirstNeeded(p)
    <3> HIDE DEF p
    <3> QED
      BY <1>0, <2>1, AfterPKeepsFirst, AfterPKeepsSoftmaxed
  <2> QED
    BY <1>2, <2>1, <2>2 DEF ResultInv, OutputSummed
<1>6. CASE VecUpdate(u)
  <2>1. p.op = "gu" /\ vec'[u] = VecSteadyTile(p, p.tile + 1) /\ CanPop("pv", u)
    BY <1>0, <1>6 DEF VecUpdate, TypeOK
  <2>2. runO'[u] = Updated(u)
    BY <1>0, <1>6 DEF VecUpdate, Updated, TypeOK
  <2>3. vec'[u].job = p.job /\ FirstNeeded(vec'[u]) = p.tile + 1
    <3> HIDE DEF p
    <3> QED
      BY <1>0, <1>2, <2>1, AfterUpdateKeepsSoftmaxed
  <2> QED
    BY <2>1, <2>2, <2>3, UpdateSums
<1> QED
  BY <1>3, <1>4, <1>5, <1>6 DEF VecStep

-----------------------------------------------------------------------------
(* What is stored.                                                         *)

\* The record the last update of a row-block stores.
Stored(v) == [sum |-> Updated(v), div |-> rowSum[v]]

\* An update stores its row-block's half if its tile is the last, and no
\* other step stores anything.
LEMMA OutputKept ==
  ASSUME ResultInv, Next, NEW w \in Jobs, NEW v \in Aivs
  PROVE  /\ oOut' = [x \in Jobs |-> [u \in Aivs |-> oOut'[x][u]]]
         /\ \/ oOut'[w][v] = oOut[w][v]
            \/ /\ VecUpdate(v) /\ vec[v].job = w /\ LastTile(w, vec[v].tile)
               /\ oOut'[w][v] = Stored(v)
               /\ \A x \in Jobs, u \in Aivs :
                    <<x, u>> # <<w, v>> => oOut'[x][u] = oOut[x][u]
<1>1. oOut = [x \in Jobs |-> [u \in Aivs |-> oOut[x][u]]]
  BY DEF ResultInv, OutputShape
<1>2. CASE oOut' = oOut
  BY <1>1, <1>2
<1>3. ASSUME NEW u \in Aivs, VecUpdate(u), LastTile(vec[u].job, vec[u].tile)
      PROVE  /\ oOut' = [x \in Jobs |-> [y \in Aivs |-> oOut'[x][y]]]
             /\ \A x \in Jobs, y \in Aivs :
                  oOut'[x][y] = IF x = vec[u].job /\ y = u THEN Stored(u) ELSE oOut[x][y]
  <2>1. oOut' = [oOut EXCEPT ![vec[u].job][u] = Stored(u)]
    BY <1>3 DEF VecUpdate, Stored, Updated
  <2>2. vec[u].job \in Jobs
    BY <1>3 DEF ResultInv, RingInv, InLoop, VecUpdate
  <2> DEFINE j == vec[u].job
             st == Stored(u)
  <2> HIDE DEF j, st
  <2> QED
    BY <1>1, <2>1, <2>2 DEF j, st
<1>4. CASE \E u \in Aivs : VecUpdate(u) /\ LastTile(vec[u].job, vec[u].tile)
  <2>1. PICK u \in Aivs : VecUpdate(u) /\ LastTile(vec[u].job, vec[u].tile)
    BY <1>4
  <2> QED
    BY <1>3, <2>1
<1>5. oOut' = oOut \/ \E u \in Aivs : VecUpdate(u) /\ LastTile(vec[u].job, vec[u].tile)
  <2>1. CASE CubeStep
    BY <2>1 DEF CubeStep, CubeClaim, CubeAssign, CubeQK, CubePvLoad, CubePvStore, vecData
  <2>2. ASSUME NEW u \in Aivs, VecStep(u)
        PROVE  oOut' = oOut \/ (VecUpdate(u) /\ LastTile(vec[u].job, vec[u].tile))
    BY <2>2 DEF VecStep, VecClaim, VecPLoad, VecPStore, VecUpdate
  <2> QED
    BY <2>1, <2>2 DEF Next
<1> QED
  BY <1>2, <1>4, <1>5

LEMMA HalvesStep ==
  ASSUME ResultInv, Next
  PROVE  HalvesOpen' /\ OutputShape'
<1>1. OutputShape'
  <2>1. CASE Jobs = {}
    <3>1. oOut' = oOut
      <4>1. \A u \in Aivs : ~VecUpdate(u)
        BY <2>1 DEF ResultInv, RingInv, InLoop, VecUpdate
      <4>2. CASE CubeStep
        BY <4>2 DEF CubeStep, CubeClaim, CubeAssign, CubeQK, CubePvLoad, CubePvStore, vecData
      <4>3. ASSUME NEW u \in Aivs, VecStep(u)
            PROVE  oOut' = oOut
        BY <4>1, <4>3 DEF VecStep, VecClaim, VecPLoad, VecPStore
      <4> QED
        BY <4>2, <4>3 DEF Next
    <3> QED
      BY <3>1 DEF ResultInv, OutputShape
  <2>2. CASE Jobs # {}
    <3>1. PICK w \in Jobs : TRUE
      BY <2>2
    <3>2. "aiv0" \in Aivs
      BY DEF Aivs
    <3> QED
      BY <3>1, <3>2, OutputKept DEF OutputShape
  <2> QED
    BY <2>1, <2>2
<1>2. SUFFICES ASSUME NEW v \in Aivs, NEW w \in Jobs,
                      vec'[v].job < w \/ (vec'[v].job = w /\ vec'[v].op # "claim")
               PROVE  oOut'[w][v] = Unwritten
  BY <1>1 DEF HalvesOpen
<1> DEFINE p == vec[v]
<1>3. /\ TypeOK /\ p \in Places(VecOps) /\ InLoop(p) /\ p.job \in Nat /\ w \in Nat
  <2>1. TypeOK /\ p \in Places(VecOps) /\ InLoop(p)
    BY DEF ResultInv, RingInv, TypeOK
  <2>2. p.job \in 0 .. Len(Work) /\ Len(Work) \in Nat
    BY <2>1, PlaceParts, GeometryAssumption
  <2> QED
    BY <2>1, <2>2 DEF Jobs
<1>4. p.job < w \/ (p.job = w /\ p.op # "claim")
  <2>1. CASE vec'[v] = vec[v]
    BY <1>2, <2>1
  <2>2. CASE VecClaim(v)
    <3>1. vec'[v] = Place(p.job + 1, "preload", 0, 0, "p_load")
      BY <1>3, <2>2 DEF VecClaim, NextJob, TypeOK
    <3> QED
      BY <1>2, <1>3, <3>1 DEF Place
  <2>3. CASE VecPLoad(v)
    <3>1. p.op = "p_load" /\ vec'[v].job = p.job
      BY <1>3, <2>3 DEF VecPLoad, TypeOK, Place
    <3> QED
      BY <1>2, <1>3, <3>1
  <2>4. CASE VecPStore(v)
    <3>1. p.op = "p_store" /\ vec'[v] = AfterP(p)
      BY <1>3, <2>4 DEF VecPStore, TypeOK
    <3>2. AfterP(p).job = p.job
      <4> HIDE DEF p
      <4> QED
        BY <1>3, <3>1, AfterPKeepsSoftmaxed DEF AfterP, VecSteadyTile, Place, EndJob, Claimable
    <3> QED
      BY <1>2, <1>3, <3>1, <3>2
  <2>5. CASE VecUpdate(v)
    <3>1. p.op = "gu" /\ vec'[v] = VecSteadyTile(p, p.tile + 1)
      BY <1>3, <2>5 DEF VecUpdate, TypeOK
    <3>2. VecSteadyTile(p, p.tile + 1).job = p.job
      BY DEF VecSteadyTile, Place, EndJob, Claimable
    <3> QED
      BY <1>2, <1>3, <3>1, <3>2
  <2>6. vec'[v] = vec[v] \/ VecStep(v)
    <3>1. CASE CubeStep
      BY <3>1 DEF CubeStep, CubeClaim, CubeAssign, CubeQK, CubePvLoad, CubePvStore
    <3>2. ASSUME NEW u \in Aivs, VecStep(u), u # v
          PROVE  vec'[v] = vec[v]
      <4>1. vec \in [Aivs -> Places(VecOps)]
        BY <1>3 DEF TypeOK
      <4>2. \E place : vec' = [vec EXCEPT ![u] = place]
        BY <3>2 DEF VecStep, VecClaim, VecPLoad, VecPStore, VecUpdate
      <4> QED
        BY <3>2, <4>1, <4>2
    <3> QED
      BY <3>1, <3>2 DEF Next
  <2> QED
    BY <2>1, <2>2, <2>3, <2>4, <2>5, <2>6 DEF VecStep
<1>5. oOut[w][v] = Unwritten
  BY <1>4 DEF ResultInv, HalvesOpen
<1>6. ~(VecUpdate(v) /\ p.job = w /\ LastTile(w, p.tile))
  <2> SUFFICES ASSUME VecUpdate(v), p.job = w, LastTile(w, p.tile) PROVE FALSE
    OBVIOUS
  <2>1. p.op = "gu" /\ vec'[v] = VecSteadyTile(p, p.tile + 1)
    BY <1>3 DEF VecUpdate, TypeOK
  <2>2. p.tile \in Nat /\ NumTiles(w) \in Nat /\ ~(p.tile + 1 < NumTiles(w))
    BY <1>3, PlaceParts, NumTilesPositive DEF LastTile
  <2>3. vec'[v] = Claimable(p.job)
    BY <2>1, <2>2 DEF VecSteadyTile, EndJob
  <2> QED
    BY <1>2, <1>3, <2>3 DEF Claimable, Place
<1> QED
  BY <1>5, <1>6, OutputKept

LEMMA ResultInit == Init => ResultInv
<1> SUFFICES ASSUME Init PROVE ResultInv
  OBVIOUS
<1>1. \A v \in Aivs : vec[v].op = "claim"
  BY DEF Init, Claimable, Place
<1>2. HalvesOpen /\ OutputShape
  BY DEF Init, HalvesOpen, OutputShape
<1> QED
  BY <1>1, <1>2, TilesInit, RingInit DEF ResultInv, RowsSummed, OutputSummed

LEMMA ResultStep ==
  ASSUME QkPreload < FifoSize, ResultInv, [Next]_vars
  PROVE  ResultInv'
<1>1. TilesInv' /\ RingInv'
  BY TilesStep, RingStep DEF ResultInv
<1>2. CASE UNCHANGED vars
  BY <1>1, <1>2
     DEF ResultInv, vars, vecData, RowsSummed, OutputSummed, HalvesOpen, OutputShape
<1>3. CASE CubeStep
  <2>1. UNCHANGED <<vec, rowSum, runO>>
    BY <1>3 DEF CubeStep, CubeClaim, CubeAssign, CubeQK, CubePvLoad, CubePvStore, vecData
  <2>2. RowsSummed' /\ OutputSummed'
    BY <2>1 DEF ResultInv, RowsSummed, OutputSummed
  <2> QED
    BY <1>1, <1>3, <2>2, HalvesStep DEF ResultInv, Next
<1>4. ASSUME NEW u \in Aivs, VecStep(u)
      PROVE  ResultInv'
  BY <1>1, <1>4, RowsStep, OutputStep, HalvesStep DEF ResultInv, Next
<1> QED
  BY <1>2, <1>3, <1>4 DEF Next

-----------------------------------------------------------------------------
(* The keys a finished row-block attends.                                  *)

\* The key blocks of the sub-tiles that are not skipped, over the tiles of
\* a row-block, are the key blocks the mask lets it attend.
LEMMA KeysOfTiles ==
  ASSUME NEW w \in Jobs
  PROVE  {t * TileFactor + s : t \in 0 .. NumTiles(w) - 1, s \in Subs} \subseteq Nat
         /\ \A k : k \in Attention!Attended(w) <=>
                \E t \in 0 .. NumTiles(w) - 1 : \E s \in Kept(w, t) : k = t * TileFactor + s
<1>1. /\ Work[w] \in Nat /\ FullTiles \in Nat \ {0} /\ TileFactor \in Nat \ {0}
      /\ Causal \in BOOLEAN /\ NumTiles(w) \in Nat \ {0}
  BY GeometryAssumption, NumTilesPositive DEF Jobs
<1>2. NumTiles(w) <= FullTiles
  BY <1>1 DEF NumTiles
<1>3. ASSUME NEW t \in 0 .. NumTiles(w) - 1, NEW s \in Subs
      PROVE  /\ t * TileFactor + s \in Nat
             /\ t * TileFactor + s <= FullTiles * TileFactor - 1
  <2>1. t + 1 <= FullTiles /\ t \in Nat /\ s \in Nat /\ s <= TileFactor - 1
    BY <1>1, <1>2 DEF Subs
  <2>2. (t + 1) * TileFactor <= FullTiles * TileFactor
    BY <1>1, <2>1
  <2>3. (t + 1) * TileFactor = t * TileFactor + TileFactor
    BY <1>1, <2>1
  <2>4. t * TileFactor \in Nat /\ FullTiles * TileFactor \in Nat
    BY <1>1, <2>1
  <2> QED
    BY <1>1, <2>1, <2>2, <2>3, <2>4
<1>4. ASSUME NEW k, k \in Attention!Attended(w)
      PROVE  \E t \in 0 .. NumTiles(w) - 1 : \E s \in Kept(w, t) : k = t * TileFactor + s
  <2> DEFINE t == k \div TileFactor
             s == k % TileFactor
  <2>1. k \in Nat /\ k < FullTiles * TileFactor /\ (Causal => k <= Work[w])
    BY <1>1, <1>4 DEF Attention!Attended, Attention!KeyBlocks
  <2>2. k = t * TileFactor + s /\ t \in Nat /\ s \in Subs
    BY <1>1, <2>1 DEF Subs
  <2>3. t < FullTiles
    <3> HIDE DEF t, s
    <3>1. SUFFICES ASSUME FullTiles <= t PROVE FALSE
      BY <1>1, <2>2
    <3>2. FullTiles * TileFactor <= t * TileFactor
      BY <1>1, <2>2, <3>1
    <3>3. FullTiles * TileFactor \in Nat /\ t * TileFactor \in Nat /\ s \in Nat
      BY <1>1, <2>2 DEF Subs
    <3> QED
      BY <2>1, <2>2, <3>2, <3>3
  <2>4. Causal => t <= Work[w] \div TileFactor
    <3> DEFINE d == Work[w] \div TileFactor
    <3>1. Work[w] < (d + 1) * TileFactor /\ d \in Nat
      BY <1>1
    <3> HIDE DEF t, s, d
    <3>2. SUFFICES ASSUME Causal, d + 1 <= t PROVE FALSE
      BY <2>2, <3>1 DEF d
    <3>3. (d + 1) * TileFactor <= t * TileFactor
      BY <1>1, <2>2, <3>1, <3>2
    <3>4. (d + 1) * TileFactor \in Nat /\ t * TileFactor \in Nat /\ s \in Nat
      BY <1>1, <2>2, <3>1 DEF Subs
    <3> QED
      BY <1>1, <2>1, <2>2, <3>1, <3>2, <3>3, <3>4
  <2> HIDE DEF t, s
  <2>5. t \in 0 .. NumTiles(w) - 1
    <3>1. Work[w] \div TileFactor \in Nat
      BY <1>1
    <3> QED
      BY <1>1, <2>2, <2>3, <2>4, <3>1 DEF NumTiles
  <2>6. s \in Kept(w, t)
    BY <1>1, <2>1, <2>2 DEF Kept, Skipped
  <2> QED
    BY <2>2, <2>5, <2>6
<1>5. ASSUME NEW t \in 0 .. NumTiles(w) - 1, NEW s \in Kept(w, t)
      PROVE  t * TileFactor + s \in Attention!Attended(w)
  <2>1. s \in Subs /\ ~Skipped(w, t, s)
    BY DEF Kept
  <2> DEFINE k == t * TileFactor + s
  <2>2. k \in Nat /\ k <= FullTiles * TileFactor - 1 /\ (Causal => k <= Work[w])
    BY <1>1, <1>3, <2>1 DEF Skipped
  <2> HIDE DEF k
  <2>3. FullTiles * TileFactor \in Nat
    BY <1>1
  <2>4. k \in 0 .. FullTiles * TileFactor - 1
    BY <2>2, <2>3
  <2>5. k \in Attention!Attended(w)
    BY <2>2, <2>4 DEF Attention!Attended, Attention!KeyBlocks
  <2> QED
    BY <2>5 DEF k
<1> QED
  BY <1>3, <1>4, <1>5

\* The record a row-block's last update stores means the attention over
\* exactly the row-block's keys.
LEMMA MeaningOfSum ==
  ASSUME NEW w \in Jobs, NEW o \in Sums, SumOf(w, NumTiles(w), o),
         NEW d, \A r \in Subs : d[r] = Tiles(w, NumTiles(w)),
         NEW x, x = [sum |-> o, div |-> d], x # Unwritten
  PROVE  Meaning(w, x) = Attention!Attended(w)
<1> DEFINE n == NumTiles(w)
<1>1. n \in Nat \ {0} /\ x.sum = o /\ x.div = d
  BY NumTilesPositive
<1>2. Len(o) = n /\ DOMAIN o = 1 .. n
  BY DEF SumOf, Sums
<1>3. \A i \in 1 .. n :
        /\ o[i].prods = Whole(w, i - 1)
        /\ Len(o[i].scale) = n - i
        /\ \A j \in 1 .. n - i, r \in Subs : o[i].scale[j][r] = <<w, i - 1 + j>>
  BY DEF SumOf
<1>4. ASSUME NEW i \in 1 .. n, NEW y
      PROVE  y \in o[i].prods <=> \E s \in Kept(w, i - 1) : y = <<{<<w, i - 1>>}, w, i - 1, s>>
  BY <1>3 DEF Whole, ProductsOf
<1>5. IsSoftmax(w, x)
  <2>1. \A i \in 1 .. n : \A y \in o[i].prods : y[1] = {<<w, i - 1>>}
    BY <1>4
  <2>2. \A r \in Subs : d[r] = {<<w, t>> : t \in 0 .. n - 1}
    BY DEF Tiles
  <2> QED
    BY <1>1, <1>2, <1>3, <2>1, <2>2 DEF IsSoftmax
<1>6. ASSUME NEW k
      PROVE  k \in KeysSummed(x) <=> k \in Attention!Attended(w)
  <2>1. k \in KeysSummed(x) <=> \E i \in 1 .. n : \E y \in o[i].prods : k = y[3] * TileFactor + y[4]
    BY <1>1, <1>2 DEF KeysSummed
  <2>2. ASSUME NEW i \in 1 .. n
        PROVE  (\E y \in o[i].prods : k = y[3] * TileFactor + y[4])
               <=> \E s \in Kept(w, i - 1) : k = (i - 1) * TileFactor + s
    <3>1. ASSUME NEW y \in o[i].prods, k = y[3] * TileFactor + y[4]
          PROVE  \E s \in Kept(w, i - 1) : k = (i - 1) * TileFactor + s
      BY <1>4, <3>1
    <3>2. ASSUME NEW s \in Kept(w, i - 1), k = (i - 1) * TileFactor + s
          PROVE  \E y \in o[i].prods : k = y[3] * TileFactor + y[4]
      <4> DEFINE y == <<{<<w, i - 1>>}, w, i - 1, s>>
      <4>1. y \in o[i].prods /\ y[3] = i - 1 /\ y[4] = s
        BY <1>4
      <4> QED
        BY <3>2, <4>1
    <3> QED
      BY <3>1, <3>2
  <2>3. (\E i \in 1 .. n : \E s \in Kept(w, i - 1) : k = (i - 1) * TileFactor + s)
        <=> \E t \in 0 .. n - 1 : \E s \in Kept(w, t) : k = t * TileFactor + s
    <3>1. ASSUME NEW i \in 1 .. n
          PROVE  i - 1 \in 0 .. n - 1
      BY <1>1
    <3>2. ASSUME NEW t \in 0 .. n - 1
          PROVE  t + 1 \in 1 .. n /\ (t + 1) - 1 = t
      BY <1>1
    <3> QED
      BY <3>1, <3>2
  <2> QED
    BY <2>1, <2>2, <2>3, KeysOfTiles
<1>7. KeysSummed(x) = Attention!Attended(w)
  BY <1>6
<1> QED
  BY <1>5, <1>7 DEF Meaning

-----------------------------------------------------------------------------
(* Refinement.                                                             *)

\* A step that stores a half is the specification's step for that half.
LEMMA StoreAttends ==
  ASSUME ResultInv, TypeOK', Next, NEW w \in Jobs, NEW v \in Aivs,
         VecUpdate(v), vec[v].job = w, LastTile(w, vec[v].tile), oOut'[w][v] = Stored(v)
  PROVE  /\ Meaning(w, oOut[w][v]) = Unwritten
         /\ Meaning(w, oOut'[w][v]) = Attention!Attended(w)
<1> DEFINE p == vec[v]
<1>1. /\ p \in Places(VecOps) /\ p.op = "gu" /\ InLoop(p) /\ CanPop("pv", v) /\ p.phase = "steady"
      /\ TypeOK
  BY DEF ResultInv, RingInv, TypeOK, VecUpdate, InLoop
<1>2. oOut[w][v] = Unwritten
  BY <1>1 DEF ResultInv, HalvesOpen
<1>3. p.tile + 1 = NumTiles(w) /\ p.tile \in Nat
  BY <1>1, PlaceParts, NumTilesPositive DEF LastTile
<1>4. SumOf(w, NumTiles(w), Updated(v))
  BY <1>1, <1>3, UpdateSums
<1>5. ASSUME NEW r \in Subs
      PROVE  rowSum[v][r] = Tiles(w, NumTiles(w))
  <2>1. Softmaxed(p, r) = NumTiles(w) /\ NumTiles(w) > 0
    BY <1>1, <1>3, PipelineAssumption, NumTilesPositive DEF Softmaxed, HasAhead
  <2> QED
    BY <1>1, <2>1 DEF ResultInv, RowsSummed
<1>6. Stored(v) \in [sum : Sums, div : [Subs -> SUBSET Tags]] /\ Updated(v) \in Sums
  <2>1. runO'[v] = Updated(v) /\ runO'[v] \in Sums
    <3>1. runO \in [Aivs -> Sums] /\ runO' \in [Aivs -> Sums]
      BY <1>1 DEF TypeOK
    <3>2. runO' = [runO EXCEPT ![v] = Updated(v)]
      BY DEF VecUpdate, Updated
    <3> QED
      BY <3>1, <3>2
  <2>2. rowSum[v] \in [Subs -> SUBSET Tags]
    BY <1>1 DEF TypeOK
  <2> QED
    BY <2>1, <2>2 DEF Stored
<1>7. Stored(v) # Unwritten
  BY <1>6, UnwrittenAssumption
<1>8. Meaning(w, Stored(v)) = Attention!Attended(w)
  BY <1>4, <1>5, <1>6, <1>7, MeaningOfSum DEF Stored
<1> QED
  BY <1>2, <1>8 DEF Meaning

\* Each step of the pipeline attends one half or leaves the results alone.
LEMMA ResultStepRefines ==
  ASSUME ResultInv, TypeOK', [Next]_vars
  PROVE  Attention!Next \/ UNCHANGED [w \in Jobs |-> [v \in Aivs |-> Meaning(w, oOut[w][v])]]
<1> DEFINE res == [w \in Jobs |-> [v \in Aivs |-> Meaning(w, oOut[w][v])]]
           new == [w \in Jobs |-> [v \in Aivs |-> Meaning(w, oOut'[w][v])]]
<1>1. CASE UNCHANGED vars
  BY <1>1 DEF vars, vecData
<1>2. CASE Next
  <2>1. CASE \A w \in Jobs, v \in Aivs : oOut'[w][v] = oOut[w][v]
    BY <2>1 DEF Meaning
  <2>2. CASE \E w \in Jobs, v \in Aivs : oOut'[w][v] # oOut[w][v]
    <3>1. PICK w \in Jobs, v \in Aivs : oOut'[w][v] # oOut[w][v]
      BY <2>2
    <3>2. /\ VecUpdate(v) /\ vec[v].job = w /\ LastTile(w, vec[v].tile) /\ oOut'[w][v] = Stored(v)
          /\ \A x \in Jobs, u \in Aivs : <<x, u>> # <<w, v>> => oOut'[x][u] = oOut[x][u]
      BY <1>2, <3>1, OutputKept
    <3>3. res[w][v] = Unwritten /\ new[w][v] = Attention!Attended(w)
      BY <1>2, <3>2, StoreAttends
    <3>4. new = [res EXCEPT ![w][v] = Attention!Attended(w)]
      <4>1. \A x \in Jobs, u \in Aivs :
              new[x][u] = IF x = w /\ u = v THEN Attention!Attended(w) ELSE res[x][u]
        BY <3>2, <3>3
      <4> DEFINE a == Attention!Attended(w)
      <4>2. new = [x \in Jobs |-> [u \in Aivs |-> new[x][u]]]
        OBVIOUS
      <4>3. res = [x \in Jobs |-> [u \in Aivs |-> res[x][u]]]
        OBVIOUS
      <4> DEFINE upd == [res EXCEPT ![w][v] = a]
      <4> HIDE DEF a, new, res
      <4>4. upd = [x \in Jobs |-> [u \in Aivs |-> IF x = w /\ u = v THEN a ELSE res[x][u]]]
        BY <4>3
      <4>5. new = upd
        <5> HIDE DEF upd
        <5> QED
          BY <4>1, <4>2, <4>4 DEF a
      <4> QED
        BY <4>5 DEF a
    <3>5. Attention!Attend(w, v)
      BY <3>3, <3>4 DEF Attention!Attend
    <3>6. w \in Attention!Jobs
      BY DEF Attention!Jobs, Jobs
    <3> QED
      BY <3>5, <3>6 DEF Attention!Next
  <2> QED
    BY <2>1, <2>2
<1> QED
  BY <1>1, <1>2

\* The pipeline implements the safety half of its specification: every half
\* of every row-block is stored at most once, and with the attention over
\* exactly its own keys, each tile weighted as softmax asks.
THEOREM ResultsCorrect ==
  ASSUME QkPreload < FifoSize
  PROVE  Spec => AttendsOwnKeys
<1>1. Init => Attention!Init
  <2>1. SUFFICES ASSUME Init PROVE Attention!Init
    OBVIOUS
  <2>2. \A w \in Jobs, v \in Aivs : Meaning(w, oOut[w][v]) = Unwritten
    BY <2>1 DEF Init, Meaning
  <2> QED
    BY <2>2 DEF Attention!Init, Attention!Jobs, Jobs
<1>2. ResultInv /\ ResultInv' /\ [Next]_vars =>
        [Attention!Next]_([w \in Jobs |-> [v \in Aivs |-> Meaning(w, oOut[w][v])]])
  BY ResultStepRefines DEF ResultInv, RingInv
<1>3. ResultInv /\ [Next]_vars => ResultInv'
  BY ResultStep
<1> QED
  BY <1>1, <1>2, <1>3, ResultInit, PTL DEF Spec, AttendsOwnKeys, Attention!Safety
=============================================================================
