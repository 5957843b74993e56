------------------------ MODULE FlashAttention_proof ------------------------
(***************************************************************************)
(* Proofs about FlashAttention for every work list, tiling, FIFO depth and *)
(* warm-up depth: its types; that softmax never laps the exp_max ring when *)
(* the warm-up is shorter than the ring; where every FIFO counter stands,  *)
(* as a function of the places of the cores in their loops; and what       *)
(* follows from the counters alone: a row-block's scores and probabilities *)
(* are consumed before the next row-block's, the counters balance when     *)
(* every core has returned, and the cores never wait for one another       *)
(* forever.                                                                *)
(***************************************************************************)
EXTENDS FlashAttention, WellFoundedInduction, TLAPS

-----------------------------------------------------------------------------
(* The tiling.                                                             *)

\* A row-block sweeps at least one key tile (blk_weight is never 0).
LEMMA NumTilesPositive ==
  ASSUME NEW w \in Jobs
  PROVE  NumTiles(w) \in Nat \ {0}
<1>1. Work[w] \in Nat
  BY GeometryAssumption DEF Jobs
<1>2. Work[w] \div TileFactor \in Nat
  <2>1. TileFactor \in Nat \ {0}
    BY GeometryAssumption
  <2> DEFINE x == Work[w]
  <2>2. x \in Nat
    BY <1>1
  <2> HIDE DEF x
  <2>3. x \div TileFactor \in Nat
    BY <2>1, <2>2
  <2> QED
    BY <2>3 DEF x
<1> QED
  BY <1>2, GeometryAssumption DEF NumTiles

\* Two tiles less than a ring apart are in different slots of the ring.
LEMMA SlotsDistinct ==
  ASSUME NEW s \in Nat, NEW t \in Nat, s < t, t - s < FifoSize
  PROVE  Slot(s) # Slot(t)
<1>1. /\ s = FifoSize * (s \div FifoSize) + Slot(s)
      /\ t = FifoSize * (t \div FifoSize) + Slot(t)
      /\ s \div FifoSize \in Int
      /\ t \div FifoSize \in Int
      /\ FifoSize \in Nat \ {0}
      /\ Slot(s) \in Int
      /\ Slot(t) \in Int
  BY PipelineAssumption DEF Slot
<1> DEFINE q == (t \div FifoSize) - (s \div FifoSize)
<1>2. q \in Int
  BY <1>1
<1>3. SUFFICES ASSUME Slot(s) = Slot(t)
               PROVE  FALSE
  OBVIOUS
<1>4. t - s = FifoSize * q
  BY <1>1, <1>3
<1> HIDE DEF q
<1>5. 0 < FifoSize * q /\ FifoSize * q < FifoSize
  BY <1>4, <1>1
<1>6. q <= 0 \/ q >= 1
  BY <1>2
<1>7. CASE q <= 0
  BY <1>7, <1>5, <1>1, <1>2
<1>8. CASE q >= 1
  BY <1>8, <1>5, <1>1, <1>2
<1> QED
  BY <1>6, <1>7, <1>8

\* A slot of a tile is a slot of the ring.
LEMMA SlotInRing ==
  ASSUME NEW t \in Nat
  PROVE  Slot(t) \in SlotNames
  BY PipelineAssumption DEF Slot, SlotNames

-----------------------------------------------------------------------------
(* Types.                                                                  *)

\* A record of the right components is a place, and has no other.
LEMMA PlaceType ==
  ASSUME NEW ops, NEW j \in 0 .. Len(Work), NEW t \in Nat, NEW s \in Subs,
         NEW op \in ops, NEW ph \in {"claim", "preload", "steady"}
  PROVE  Place(j, ph, t, s, op) \in Places(ops)
  BY DEF Place, Places

LEMMA PlaceParts ==
  ASSUME NEW ops, NEW p \in Places(ops)
  PROVE  /\ p.job \in 0 .. Len(Work) /\ p.tile \in Nat /\ p.tile + 1 \in Nat
         /\ p.phase \in {"claim", "preload", "steady"} /\ p.op \in ops
         /\ p.sub \in Subs /\ 0 \in Subs
         /\ ~LastSub(p) => p.sub + 1 \in Subs
<1>1. /\ p.job \in 0 .. Len(Work) /\ p.tile \in Nat /\ p.sub \in Subs
      /\ p.phase \in {"claim", "preload", "steady"} /\ p.op \in ops
  BY DEF Places
<1>2. 0 \in Subs /\ (p.sub # TileFactor - 1 => p.sub + 1 \in Subs)
  BY <1>1, GeometryAssumption DEF Subs
<1> QED
  BY <1>1, <1>2 DEF LastSub

\* The places the loops move to are places of the same core's work loop.
LEMMA CubePlaces ==
  ASSUME NEW p \in Places(CubeOps)
  PROVE  /\ AfterQK(p) \in Places(CubeOps)
         /\ AfterPV(p) \in Places(CubeOps)
<1>1. ASSUME NEW u \in Nat
      PROVE  CubeSteadyTile(p, u) \in Places(CubeOps)
  BY PlaceParts, PlaceType DEF CubeSteadyTile, EndJob, Claimable, CubeOps
<1>2. AfterQK(p) \in Places(CubeOps)
  BY <1>1, PlaceParts, PlaceType DEF AfterQK, CubeOps
<1>3. AfterPV(p) \in Places(CubeOps)
  BY <1>1, PlaceParts, PlaceType DEF AfterPV, CubeOps
<1> QED
  BY <1>2, <1>3

LEMMA VecPlaces ==
  ASSUME NEW p \in Places(VecOps)
  PROVE  /\ VecSteadyTile(p, p.tile + 1) \in Places(VecOps)
         /\ AfterP(p) \in Places(VecOps)
<1>1. ASSUME NEW u \in Nat
      PROVE  VecSteadyTile(p, u) \in Places(VecOps)
  BY PlaceParts, PlaceType DEF VecSteadyTile, EndJob, Claimable, VecOps
<1>2. AfterP(p) \in Places(VecOps)
  BY <1>1, PlaceParts, PlaceType DEF AfterP, VecOps
<1> QED
  BY <1>1, <1>2, PlaceParts

LEMMA ClaimPlaces ==
  ASSUME NEW ops, NEW p \in Places(ops), NEW op \in ops, HasNextJob(p)
  PROVE  NextJob(p, op) \in Places(ops)
  BY GeometryAssumption DEF Places, Place, HasNextJob, NextJob, Subs

\* The tile whose scores a place works on is a tile number.
LEMMA AheadType ==
  ASSUME NEW ops, NEW p \in Places(ops)
  PROVE  Ahead(p) \in Nat
  BY PipelineAssumption DEF Ahead, Places

LEMMA TypeInit == Init => TypeOK
<1> SUFFICES ASSUME Init PROVE TypeOK
  OBVIOUS
<1>1. 0 \in Subs /\ NoTile \in Tags /\ Claimable(0) \in Places(CubeOps)
      /\ Claimable(0) \in Places(VecOps)
  BY GeometryAssumption DEF Subs, NoTile, Tags, Claimable, Place, Places, CubeOps, VecOps
<1> QED
  BY <1>1 DEF Init, TypeOK, SlotNames, Factors, Products, Sums, NoLane
\* Counting up one entry of a two-level table of counters.
LEMMA CountUpType ==
  ASSUME NEW g \in [Fifos -> [Cores -> Nat]], NEW f \in Fifos, NEW c \in Cores
  PROVE  [g EXCEPT ![f][c] = @ + 1] \in [Fifos -> [Cores -> Nat]]
  OBVIOUS

LEMMA CubeTypeStep == TypeOK /\ CubeStep => TypeOK'
<1> SUFFICES ASSUME TypeOK, CubeStep PROVE TypeOK'
  OBVIOUS
<1> USE DEF fifoVars, cubeData, vecData
<1>0. cube \in Places(CubeOps) /\ cube.job \in Nat /\ cube.tile \in Nat
      /\ cube.sub \in Subs /\ Ahead(cube) \in Nat
  BY PlaceParts, AheadType DEF TypeOK
<1>1. CASE CubeClaim
  <2>1. cube' \in Places(CubeOps)
    BY <1>1, <1>0, ClaimPlaces DEF CubeClaim, CubeOps
  <2> QED
    BY <1>1, <2>1 DEF CubeClaim, TypeOK
<1>2. CASE CubeAssign
  <2>1. cube' \in Places(CubeOps)
    BY <1>2, <1>0, PlaceParts, PlaceType DEF CubeAssign, CubeOps
  <2>2. acc' \in [qk : 0 .. 1, pv : 0 .. 1, next : 0 .. 1]
    BY <1>2 DEF CubeAssign, TypeOK, AssignQK, AssignPV, Flip
  <2> QED
    BY <1>2, <2>1, <2>2 DEF CubeAssign, TypeOK
<1>3. CASE CubeQK
  <2>1. cube' \in Places(CubeOps)
    BY <1>3, <1>0, CubePlaces DEF CubeQK
  <2>2. acc' \in [qk : 0 .. 1, pv : 0 .. 1, next : 0 .. 1]
    BY <1>3 DEF CubeQK, TypeOK, AssignQK, AssignPV, Flip
  <2>3. pushed' \in [Fifos -> [Cores -> Nat]]
    BY <1>3, CountUpType DEF CubeQK, TypeOK, Cores, Fifos
  <2>4. <<cube.job, Ahead(cube)>> \in Tags
        /\ <<{}, cube.job, Ahead(cube), cube.sub>> \in
             (SUBSET Tags) \X Nat \X Nat \X Nat
    BY <1>0 DEF Tags, Subs
  <2>5. qkSlot' \in [SlotNames -> [Subs -> Tags]]
    <3> DEFINE x == <<cube.job, Ahead(cube)>>
               g == [qkSlot EXCEPT ![ScoreSlot(Ahead(cube))][cube.sub] = x]
    <3>1. qkSlot' = IF Skipped(cube.job, Ahead(cube), cube.sub) THEN qkSlot ELSE g
      BY <1>3 DEF CubeQK
    <3>2. x \in Tags
      BY <2>4
    <3> HIDE DEF x
    <3>3. g \in [SlotNames -> [Subs -> Tags]]
      BY <3>2 DEF TypeOK
    <3> HIDE DEF g
    <3> QED
      BY <3>1, <3>3 DEF TypeOK
  <2>6. l0c' \in [0 .. 1 -> Products]
    <3>1. {<<{}, cube.job, Ahead(cube), cube.sub>>} \in Products
      BY <2>4 DEF Products
    <3> QED
      BY <1>3, <3>1 DEF CubeQK, TypeOK
  <2> QED
    BY <1>3, <2>1, <2>2, <2>3, <2>5, <2>6 DEF CubeQK, TypeOK
<1>4. CASE CubePvLoad
  <2> DEFINE ps == {pSlot[Slot(cube.tile)][v][r] : v \in Aivs, r \in Subs}
  <2>1. cube' \in Places(CubeOps)
    BY <1>4, <1>0, CubePlaces, PlaceParts, PlaceType DEF CubePvLoad, CubeOps
  <2>2. freed' \in [Fifos -> [Cores -> Nat]]
    BY <1>4, CountUpType DEF CubePvLoad, TypeOK, Cores, Fifos
  <2>3. ps \in SUBSET Tags
    BY <1>0, SlotInRing DEF TypeOK
  <2>4. <<ps, cube.job, cube.tile, cube.sub>> \in (SUBSET Tags) \X Nat \X Nat \X Nat
    BY <1>0, <2>3 DEF Subs
  <2> HIDE DEF ps
  <2>5. ASSUME Skipped(cube.job, cube.tile, cube.sub)
        PROVE  l0c' \in [0 .. 1 -> Products]
    BY <1>4, <2>5 DEF CubePvLoad, TypeOK
  <2>6. ASSUME ~Skipped(cube.job, cube.tile, cube.sub)
        PROVE  l0c' \in [0 .. 1 -> Products]
    <3> DEFINE x == <<ps, cube.job, cube.tile, cube.sub>>
    <3>1. l0c' = [l0c EXCEPT ![acc.pv] = IF cube.sub = 0 THEN {x} ELSE @ \cup {x}]
      BY <1>4, <2>6 DEF CubePvLoad, ps
    <3>2. x \in (SUBSET Tags) \X Nat \X Nat \X Nat
      BY <2>4
    <3> HIDE DEF x
    <3>3. {x} \in Products /\ \A y \in Products : y \cup {x} \in Products
      BY <3>2 DEF Products
    <3>4. l0c' \in [0 .. 1 -> Products]
      BY <3>1, <3>3 DEF TypeOK
    <3> QED
      BY <3>4
  <2>7. l0c' \in [0 .. 1 -> Products]
    BY <2>5, <2>6
  <2> QED
    BY <1>4, <2>1, <2>2, <2>7 DEF CubePvLoad, TypeOK
<1>5. CASE CubePvStore
  <2>1. cube' \in Places(CubeOps)
    BY <1>5, <1>0, CubePlaces DEF CubePvStore
  <2>2. pushed' \in [Fifos -> [Cores -> Nat]]
    BY <1>5, CountUpType DEF CubePvStore, TypeOK, Cores, Fifos
  <2>3. pvSlot' \in [SlotNames -> Products]
    BY <1>5 DEF CubePvStore, TypeOK
  <2> QED
    BY <1>5, <2>1, <2>2, <2>3 DEF CubePvStore, TypeOK
<1> QED
  BY <1>1, <1>2, <1>3, <1>4, <1>5 DEF CubeStep

\* Flipping one subblock's ping-pong index.
LEMMA FlipPing ==
  ASSUME NEW g \in [Aivs -> 0 .. 1], NEW v \in Aivs
  PROVE  [g EXCEPT ![v] = 1 - @] \in [Aivs -> 0 .. 1]
<1>1. 1 - g[v] \in 0 .. 1
  OBVIOUS
<1> QED
  BY <1>1

LEMMA VecTypeStep ==
  ASSUME TypeOK, NEW v \in Aivs, VecStep(v)
  PROVE  TypeOK'
<1> USE DEF fifoVars, cubeData, vecData
<1> DEFINE p == vec[v]
<1>0. p \in Places(VecOps) /\ p.job \in Nat /\ p.tile \in Nat
      /\ p.sub \in Subs /\ Ahead(p) \in Nat
  <2>1. p \in Places(VecOps)
    BY DEF TypeOK
  <2> QED
    BY <2>1, PlaceParts, AheadType
<1>1. CASE VecClaim(v)
  <2>1. NextJob(p, "p_load") \in Places(VecOps)
    BY <1>1, <1>0, ClaimPlaces DEF VecClaim, VecOps
  <2>2. vec' \in [Aivs -> Places(VecOps)] /\ ping' \in [Aivs -> 0 .. 1]
    BY <1>1, <2>1 DEF VecClaim, TypeOK
  <2> QED
    BY <1>1, <2>2 DEF VecClaim, TypeOK
<1>2. CASE VecPLoad(v)
  <2> DEFINE t == Ahead(p)
             seen == {s \in Subs : ~Skipped(p.job, t, s)}
             row == [s \in Subs |-> IF s \in seen
                       THEN <<qkSlot[Slot(t)][s][1], qkSlot[Slot(t)][s][2], s, p.sub>>
                       ELSE lanes[v][ping[v]][s]]
             x == IF \A s \in seen : qkSlot[Slot(t)][s] = <<p.job, t>>
                  THEN <<p.job, t>> ELSE NoTile
  <2>1. vec' \in [Aivs -> Places(VecOps)]
    <3>1. Place(p.job, p.phase, p.tile, p.sub, "p_store") \in Places(VecOps)
      BY <1>0, PlaceParts, PlaceType DEF VecOps
    <3> QED
      BY <1>2, <3>1 DEF VecPLoad, TypeOK
  <2>2. freed' \in [Fifos -> [Cores -> Nat]]
    BY <1>2, CountUpType DEF VecPLoad, TypeOK, Cores, Fifos
  <2>3. x \in Tags /\ <<p.job, t>> \in Tags
    BY <1>0 DEF Tags, NoTile
  <2>4. row \in [Subs -> Nat \X Nat \X Nat \X Nat]
    <3>1. ASSUME NEW s \in Subs
          PROVE  /\ qkSlot[Slot(t)][s][1] \in Nat /\ qkSlot[Slot(t)][s][2] \in Nat
                 /\ lanes[v][ping[v]][s] \in Nat \X Nat \X Nat \X Nat
      <4>1. qkSlot[Slot(t)][s] \in Tags
        BY <1>0, SlotInRing DEF TypeOK
      <4>2. lanes[v][ping[v]][s] \in Nat \X Nat \X Nat \X Nat
        BY DEF TypeOK
      <4> QED
        BY <4>1, <4>2 DEF Tags
    <3>2. Subs \subseteq Nat
      BY DEF Subs
    <3> QED
      BY <1>0, <3>1, <3>2
  <2>5. xExp' = [xExp EXCEPT ![v] = x] /\ xExp'[v] = x
    BY <1>2 DEF VecPLoad, TypeOK
  <2>6. xExp' \in [Aivs -> Tags]
    BY <2>3, <2>5 DEF TypeOK
  <2>7. lanes' \in [Aivs -> [0 .. 1 -> [Subs -> Nat \X Nat \X Nat \X Nat]]]
    <3>1. lanes' = [lanes EXCEPT ![v][ping[v]] = row]
      BY <1>2 DEF VecPLoad, TypeOK
    <3> HIDE DEF row
    <3> QED
      BY <3>1, <2>4 DEF TypeOK
  <2>8. rowSum' \in [Aivs -> [Subs -> SUBSET Tags]]
    <3> DEFINE y == (IF t = 0 THEN {} ELSE rowSum[v][p.sub]) \cup {x}
    <3>1. rowSum' = [rowSum EXCEPT ![v][p.sub] = y]
      BY <1>2, <1>0, <2>5 DEF VecPLoad, TypeOK
    <3>2. rowSum[v][p.sub] \in SUBSET Tags
      BY <1>0 DEF TypeOK
    <3>3. y \in SUBSET Tags
      <4> HIDE DEF p, t, x
      <4> QED
        BY <2>3, <3>2
    <3> HIDE DEF y
    <3> QED
      BY <3>1, <3>3 DEF TypeOK
  <2>9. expMax' \in [Aivs -> [SlotNames -> Factors]]
    <3> DEFINE e == <<p.job, t>>
    <3>1. expMax' = IF t = 0 THEN expMax
                    ELSE [expMax EXCEPT ![v][Slot(t)][p.sub] = e]
      BY <1>2 DEF VecPLoad
    <3>2. e \in Tags
      BY <2>3
    <3> HIDE DEF e
    <3>3. [expMax EXCEPT ![v][Slot(t)][p.sub] = e] \in [Aivs -> [SlotNames -> Factors]]
      <4>1. Slot(t) \in SlotNames /\ expMax \in [Aivs -> [SlotNames -> Factors]]
        BY <1>0, SlotInRing DEF TypeOK
      <4>2. [expMax[v][Slot(t)] EXCEPT ![p.sub] = e] \in Factors
        BY <4>1, <3>2 DEF Factors
      <4>3. [expMax[v] EXCEPT ![Slot(t)][p.sub] = e] \in [SlotNames -> Factors]
        BY <4>1, <4>2
      <4> QED
        BY <4>1, <4>3
    <3> QED
      BY <3>1, <3>3 DEF TypeOK
  <2> QED
    BY <1>2, <2>1, <2>2, <2>6, <2>7, <2>8, <2>9 DEF VecPLoad, TypeOK
<1>3. CASE VecPStore(v)
  <2>1. vec' \in [Aivs -> Places(VecOps)] /\ ping' \in [Aivs -> 0 .. 1]
    <3>1. AfterP(p) \in Places(VecOps)
      BY <1>0, VecPlaces
    <3> QED
      BY <1>3, <3>1, FlipPing DEF VecPStore, TypeOK
  <2>2. pushed' \in [Fifos -> [Cores -> Nat]]
    BY <1>3, CountUpType DEF VecPStore, TypeOK, Cores, Fifos
  <2>3. pSlot' \in [SlotNames -> [Aivs -> [Subs -> Tags]]]
    <3>1. pSlot' = [pSlot EXCEPT ![Slot(Ahead(p))][v][p.sub] = xExp[v]]
      BY <1>3 DEF VecPStore
    <3>2. xExp[v] \in Tags
      BY DEF TypeOK
    <3>3. [pSlot EXCEPT ![Slot(Ahead(p))][v][p.sub] = xExp[v]]
            \in [SlotNames -> [Aivs -> [Subs -> Tags]]]
      <4> DEFINE k == Slot(Ahead(p))
      <4>1. k \in SlotNames /\ pSlot \in [SlotNames -> [Aivs -> [Subs -> Tags]]]
        BY <1>0, SlotInRing DEF TypeOK
      <4>2. [pSlot[k][v] EXCEPT ![p.sub] = xExp[v]] \in [Subs -> Tags]
        BY <4>1, <3>2
      <4>3. [pSlot[k] EXCEPT ![v][p.sub] = xExp[v]] \in [Aivs -> [Subs -> Tags]]
        BY <4>1, <4>2
      <4> QED
        BY <4>1, <4>3
    <3> QED
      BY <3>1, <3>3
  <2> QED
    BY <1>3, <2>1, <2>2, <2>3 DEF VecPStore, TypeOK
<1>4. CASE VecUpdate(v)
  <2> DEFINE part == Partial(pvSlot[Slot(freed["pv"][v])])
             o == IF p.tile = 0 THEN <<part>>
                  ELSE Append(Rescaled(runO[v], expMax[v][Slot(p.tile)]), part)
  <2>1. vec' \in [Aivs -> Places(VecOps)] /\ ping' \in [Aivs -> 0 .. 1]
    <3>1. VecSteadyTile(p, p.tile + 1) \in Places(VecOps)
      BY <1>0, VecPlaces
    <3> QED
      BY <1>4, <3>1, FlipPing DEF VecUpdate, TypeOK
  <2>2. freed' \in [Fifos -> [Cores -> Nat]]
    BY <1>4, CountUpType DEF VecUpdate, TypeOK, Cores, Fifos
  <2>3. lanes' \in [Aivs -> [0 .. 1 -> [Subs -> Nat \X Nat \X Nat \X Nat]]]
    <3> DEFINE row == [s \in Subs |-> PvLane(p)]
    <3>1. lanes' = IF p.tile = 0 THEN lanes ELSE [lanes EXCEPT ![v][ping[v]] = row]
      BY <1>4 DEF VecUpdate
    <3>2. row \in [Subs -> Nat \X Nat \X Nat \X Nat]
      BY <1>0, GeometryAssumption DEF PvLane
    <3> HIDE DEF row
    <3> QED
      BY <3>1, <3>2 DEF TypeOK
  <2>4. o \in Sums
    <3> DEFINE Term == [prods : Products, scale : Seq(Factors)]
    <3>1. freed["pv"][v] \in Nat
      BY DEF TypeOK, Fifos, Cores
    <3>2. part \in Term
      BY <3>1, SlotInRing DEF TypeOK, Partial
    <3>3. expMax[v][Slot(p.tile)] \in Factors
      BY <1>0, SlotInRing DEF TypeOK
    <3>4. ASSUME NEW a \in Sums, NEW e \in Factors
          PROVE  Rescaled(a, e) \in Sums
      <4>1. a \in Seq(Term) /\ DOMAIN a = 1 .. Len(a) /\ Len(a) \in Nat
        BY DEF Sums
      <4>2. ASSUME NEW i \in 1 .. Len(a)
            PROVE  [prods |-> a[i].prods, scale |-> Append(a[i].scale, e)] \in Term
        <5> HIDE DEF Term
        <5>1. a[i] \in Term
          BY <4>1
        <5>2. a[i].prods \in Products /\ a[i].scale \in Seq(Factors)
          BY <5>1 DEF Term
        <5>3. Append(a[i].scale, e) \in Seq(Factors)
          BY <5>2
        <5> QED
          BY <5>2, <5>3 DEF Term
      <4> HIDE DEF Term
      <4>3. Rescaled(a, e) \in [1 .. Len(a) -> Term]
        BY <4>1, <4>2 DEF Rescaled
      <4>4. Rescaled(a, e) \in Seq(Term)
        BY <4>1, <4>3
      <4> QED
        BY <4>4 DEF Sums, Term
    <3>5. runO[v] \in Sums
      BY DEF TypeOK
    <3>6. Rescaled(runO[v], expMax[v][Slot(p.tile)]) \in Sums
      BY <3>3, <3>4, <3>5
    <3> HIDE DEF part, Term
    <3>7. \A a \in Seq(Term) : Append(a, part) \in Seq(Term) /\ <<part>> \in Seq(Term)
      BY <3>2
    <3>8. Sums = Seq(Term)
      BY DEF Sums, Term
    <3> QED
      BY <3>6, <3>7, <3>8
  <2> HIDE DEF o
  <2>5. runO' \in [Aivs -> Sums]
    <3>1. runO' = [runO EXCEPT ![v] = o]
      BY <1>4 DEF VecUpdate, o
    <3> QED
      BY <3>1, <2>4 DEF TypeOK
  <2>6. ASSUME NEW w \in Jobs, NEW u \in Aivs
        PROVE  \/ oOut'[w][u] = Unwritten
               \/ oOut'[w][u] \in [sum : Sums, div : [Subs -> SUBSET Tags]]
    <3> DEFINE rec == [sum |-> o, div |-> rowSum[v]]
    <3>1. oOut' = IF LastTile(p.job, p.tile)
                  THEN [oOut EXCEPT ![p.job][v] = rec] ELSE oOut
      BY <1>4 DEF VecUpdate, o
    <3>2. rec \in [sum : Sums, div : [Subs -> SUBSET Tags]]
      BY <2>4 DEF TypeOK
    <3> HIDE DEF rec
    <3>3. oOut'[w][u] = oOut[w][u] \/ oOut'[w][u] = rec
      BY <3>1 DEF TypeOK
    <3> QED
      BY <3>2, <3>3 DEF TypeOK
  <2> QED
    BY <1>4, <2>1, <2>2, <2>3, <2>5, <2>6 DEF VecUpdate, TypeOK
<1> QED
  BY <1>1, <1>2, <1>3, <1>4 DEF VecStep

LEMMA TypeStep == TypeOK /\ [Next]_vars => TypeOK'
<1> SUFFICES ASSUME TypeOK, [Next]_vars PROVE TypeOK'
  OBVIOUS
<1>1. CASE UNCHANGED vars
  BY <1>1 DEF vars, fifoVars, cubeData, vecData, TypeOK
<1>2. CASE Next
  BY <1>2, CubeTypeStep, VecTypeStep DEF Next
<1> QED
  BY <1>1, <1>2

\* Every variable of the pipeline keeps its type: no step addresses a FIFO
\* slot, ring entry or L0C buffer that does not exist.
THEOREM TypeCorrect == Spec => []TypeOK
<1> QED
  BY TypeInit, TypeStep, PTL DEF Spec

-----------------------------------------------------------------------------
(* The exp_max ring.  Softmaxed(p, r) counts the tiles of the current      *)
(* row-block whose softmax of row slice r is done at place p; the ring     *)
(* must still hold the factors of all of them from the first one that the  *)
(* output update has not passed.                                           *)

Softmaxed(p, r) ==
  IF p.op = "gu"
  THEN IF HasAhead(p) THEN p.tile + QkPreload + 1 ELSE NumTiles(p.job)
  ELSE Ahead(p) + (IF r < p.sub \/ (r = p.sub /\ p.op = "p_store") THEN 1 ELSE 0)

FirstNeeded(p) == IF p.phase = "steady" THEN p.tile ELSE 0

\* Where a subblock inside a row-block can be in its loops.
InLoop(p) ==
  p.op # "claim" =>
    /\ p.job \in Jobs
    /\ p.phase \in {"preload", "steady"}
    /\ p.tile < NumTiles(p.job)
    /\ p.phase = "preload" => p.tile < QkPreload /\ p.op # "gu"
    /\ (p.phase = "steady" /\ p.op # "gu") => HasAhead(p)

HoldsFactors(p, ring) ==
  p.op # "claim" =>
    \A r \in Subs, t \in Nat \ {0} :
      (FirstNeeded(p) <= t /\ t < Softmaxed(p, r)) => ring[Slot(t)][r] = <<p.job, t>>

RingInv ==
  /\ TypeOK
  /\ \A v \in Aivs : InLoop(vec[v]) /\ HoldsFactors(vec[v], expMax[v])

\* At a place that rescales by tile t the ring is known to hold t's factor.
LEMMA RingInvImplies == RingInv => RescalesWithOwnExpMax
<1> SUFFICES ASSUME RingInv, NEW v \in Aivs, NEW r \in Subs,
                    vec[v].op = "gu", vec[v].tile > 0
             PROVE  expMax[v][Slot(vec[v].tile)][r] = <<vec[v].job, vec[v].tile>>
  BY DEF RescalesWithOwnExpMax
<1>1. vec[v] \in Places(VecOps) /\ vec[v].tile \in Nat \ {0}
  <2>1. vec[v] \in Places(VecOps)
    BY DEF RingInv, TypeOK
  <2>2. vec[v].tile \in Nat
    BY <2>1, PlaceParts
  <2> QED
    BY <2>1, <2>2
<1>2. InLoop(vec[v]) /\ HoldsFactors(vec[v], expMax[v])
  BY DEF RingInv
<1>3. vec[v].job \in Jobs /\ vec[v].tile < NumTiles(vec[v].job)
      /\ vec[v].phase = "steady"
  BY <1>2 DEF InLoop
<1>4. FirstNeeded(vec[v]) <= vec[v].tile
  BY <1>1, <1>3 DEF FirstNeeded
<1>5. vec[v].tile < Softmaxed(vec[v], r)
  BY <1>1, <1>3, PipelineAssumption DEF Softmaxed
<1> QED
  BY <1>1, <1>2, <1>4, <1>5 DEF HoldsFactors

LEMMA RingInit == Init => RingInv
  BY TypeInit DEF Init, RingInv, InLoop, HoldsFactors, Claimable, Place

\* Moving on without a new softmax asks no more of the ring.
LEMMA FactorsKept ==
  ASSUME NEW p, NEW q, NEW ring, p.op # "claim", HoldsFactors(p, ring),
         q.op # "claim" =>
           /\ q.job = p.job
           /\ FirstNeeded(p) \in Nat /\ FirstNeeded(q) \in Nat
           /\ FirstNeeded(p) <= FirstNeeded(q)
           /\ \A r \in Subs : /\ Softmaxed(p, r) \in Nat /\ Softmaxed(q, r) \in Nat
                              /\ Softmaxed(q, r) <= Softmaxed(p, r)
  PROVE  HoldsFactors(q, ring)
<1> SUFFICES ASSUME q.op # "claim", NEW r \in Subs, NEW t \in Nat \ {0},
                    FirstNeeded(q) <= t, t < Softmaxed(q, r)
             PROVE  ring[Slot(t)][r] = <<q.job, t>>
  BY DEF HoldsFactors
<1>1. FirstNeeded(p) <= t /\ t < Softmaxed(p, r)
  OBVIOUS
<1> QED
  BY <1>1 DEF HoldsFactors

\* The places after one row slice's probabilities are stored: still in the
\* loops, and no slice counts as softmaxed that was not.
LEMMA AfterPInLoop ==
  ASSUME NEW p \in Places(VecOps), p.op = "p_store", InLoop(p)
  PROVE  /\ InLoop(AfterP(p))
         /\ AfterP(p).op # "claim" =>
              /\ AfterP(p).job = p.job
              /\ FirstNeeded(p) \in Nat /\ FirstNeeded(AfterP(p)) \in Nat
              /\ FirstNeeded(p) <= FirstNeeded(AfterP(p))
              /\ \A r \in Subs :
                   /\ Softmaxed(p, r) \in Nat /\ Softmaxed(AfterP(p), r) \in Nat
                   /\ Softmaxed(AfterP(p), r) <= Softmaxed(p, r)
<1> DEFINE n == NumTiles(p.job)
<1>1. /\ p.job \in Jobs /\ p.tile \in Nat /\ p.sub \in Nat /\ p.sub <= TileFactor - 1
      /\ n \in Nat \ {0} /\ p.tile < n /\ QkPreload \in Nat \ {0}
      /\ TileFactor \in Nat \ {0}
      /\ \/ p.phase = "preload" /\ p.tile < QkPreload
         \/ p.phase = "steady" /\ p.tile + QkPreload < n
  BY PlaceParts, NumTilesPositive, PipelineAssumption, GeometryAssumption
     DEF InLoop, HasAhead, Subs
<1>2. ASSUME NEW r \in Subs
      PROVE  Softmaxed(p, r) = Ahead(p) + (IF r <= p.sub THEN 1 ELSE 0)
  BY <1>1 DEF Softmaxed, Subs
<1>3. CASE ~LastSub(p)
  <2>1. AfterP(p) = Place(p.job, p.phase, p.tile, p.sub + 1, "p_load")
    BY <1>3 DEF AfterP
  <2>2. ASSUME NEW r \in Subs
        PROVE  Softmaxed(AfterP(p), r) = Ahead(p) + (IF r <= p.sub THEN 1 ELSE 0)
    BY <1>1, <2>1 DEF Softmaxed, Place, Ahead, Subs
  <2> QED
    BY <1>1, <1>2, <2>1, <2>2 DEF InLoop, Place, HasAhead, FirstNeeded, Ahead
<1>4. CASE LastSub(p)
  <2>1. ASSUME NEW r \in Subs
        PROVE  Softmaxed(p, r) = Ahead(p) + 1
    BY <1>1, <1>2, <1>4 DEF LastSub, Subs
  <2>2. CASE p.phase = "steady"
    <3>1. AfterP(p) = Place(p.job, "steady", p.tile, 0, "gu")
      BY <1>4, <2>2 DEF AfterP
    <3> QED
      BY <1>1, <2>1, <2>2, <3>1
         DEF InLoop, Place, HasAhead, FirstNeeded, Softmaxed, Ahead
  <2>3. CASE p.phase = "preload" /\ MorePreload(p)
    <3>1. AfterP(p) = Place(p.job, "preload", p.tile + 1, 0, "p_load")
      BY <1>4, <2>3 DEF AfterP
    <3> QED
      BY <1>1, <2>1, <2>3, <3>1
         DEF InLoop, Place, FirstNeeded, Softmaxed, Ahead, MorePreload, Subs
  <2>4. CASE p.phase = "preload" /\ ~MorePreload(p)
    <3>1. AfterP(p) = VecSteadyTile(p, 0)
      BY <1>4, <2>4 DEF AfterP
    <3>2. AfterP(p) = Place(p.job, "steady", 0, 0,
                            IF QkPreload < n THEN "p_load" ELSE "gu")
      BY <1>1, <3>1 DEF VecSteadyTile
    <3>3. p.tile + 1 = QkPreload \/ (p.tile + 1 = n /\ n < QkPreload)
      BY <1>1, <2>4 DEF MorePreload
    <3>4. CASE QkPreload < n
      BY <1>1, <2>1, <2>4, <3>2, <3>3, <3>4
         DEF InLoop, Place, HasAhead, FirstNeeded, Softmaxed, Ahead, Subs
    <3>5. CASE ~(QkPreload < n)
      <4>1. p.tile + 1 = n
        BY <1>1, <3>3, <3>5
      <4> QED
        BY <1>1, <2>1, <2>4, <3>2, <3>5, <4>1
           DEF InLoop, Place, HasAhead, FirstNeeded, Softmaxed, Ahead
    <3> QED
      BY <3>4, <3>5
  <2> QED
    BY <1>1, <2>2, <2>3, <2>4
<1> QED
  BY <1>3, <1>4

\* The places after one output update, likewise.
LEMMA AfterUpdateInLoop ==
  ASSUME NEW p \in Places(VecOps), p.op = "gu", InLoop(p), NEW q,
         q = VecSteadyTile(p, p.tile + 1)
  PROVE  /\ InLoop(q)
         /\ q.op # "claim" =>
              /\ q.job = p.job
              /\ FirstNeeded(p) \in Nat /\ FirstNeeded(q) \in Nat
              /\ FirstNeeded(p) <= FirstNeeded(q)
              /\ \A r \in Subs : /\ Softmaxed(p, r) \in Nat /\ Softmaxed(q, r) \in Nat
                                 /\ Softmaxed(q, r) <= Softmaxed(p, r)
<1> DEFINE n == NumTiles(p.job)
<1>1. /\ p.job \in Jobs /\ p.tile \in Nat /\ p.phase = "steady"
      /\ n \in Nat \ {0} /\ p.tile < n /\ QkPreload \in Nat \ {0}
  BY PlaceParts, NumTilesPositive, PipelineAssumption DEF InLoop
<1>2. CASE p.tile + 1 < n
  <2>1. q = Place(p.job, "steady", p.tile + 1, 0,
                  IF p.tile + 1 + QkPreload < n THEN "p_load" ELSE "gu")
    BY <1>2 DEF VecSteadyTile
  <2>2. InLoop(q) /\ q.op # "claim"
    BY <1>1, <1>2, <2>1 DEF InLoop, Place, HasAhead
  <2>3. FirstNeeded(p) = p.tile /\ FirstNeeded(q) = p.tile + 1
    BY <1>1, <2>1 DEF FirstNeeded, Place
  <2>4. ASSUME NEW r \in Subs
        PROVE  /\ Softmaxed(p, r) \in Nat /\ Softmaxed(q, r) \in Nat
               /\ Softmaxed(q, r) <= Softmaxed(p, r)
    <3>1. CASE p.tile + 1 + QkPreload < n
      <4>1. Softmaxed(q, r) = p.tile + 1 + QkPreload
        BY <1>1, <2>1, <3>1 DEF Softmaxed, Place, Ahead, Subs
      <4>2. Softmaxed(p, r) = p.tile + QkPreload + 1
        BY <1>1, <3>1 DEF Softmaxed, HasAhead
      <4> QED
        BY <1>1, <4>1, <4>2
    <3>2. CASE ~(p.tile + 1 + QkPreload < n)
      <4>1. Softmaxed(q, r) = n
        BY <1>1, <2>1, <3>2 DEF Softmaxed, Place, HasAhead
      <4>2. Softmaxed(p, r) = n
        BY <1>1, <3>2 DEF Softmaxed, HasAhead
      <4> QED
        BY <1>1, <4>1, <4>2
    <3> QED
      BY <3>1, <3>2
  <2> QED
    BY <1>1, <2>1, <2>2, <2>3, <2>4 DEF Place
<1>3. CASE ~(p.tile + 1 < n)
  BY <1>3 DEF VecSteadyTile, EndJob, Claimable, Place, InLoop
<1> QED
  BY <1>2, <1>3

\* The softmax of one row slice writes the one ring entry it should, and,
\* with a warm-up shorter than the ring, none that is still needed.
LEMMA SoftmaxKeepsFactors ==
  ASSUME QkPreload < FifoSize,
         NEW p \in Places(VecOps), NEW ring \in [SlotNames -> Factors],
         p.op = "p_load", InLoop(p), HoldsFactors(p, ring)
  PROVE  LET q == Place(p.job, p.phase, p.tile, p.sub, "p_store")
             new == IF Ahead(p) = 0 THEN ring
                    ELSE [ring EXCEPT ![Slot(Ahead(p))][p.sub] = <<p.job, Ahead(p)>>]
         IN InLoop(q) /\ HoldsFactors(q, new)
<1> DEFINE q == Place(p.job, p.phase, p.tile, p.sub, "p_store")
           e == <<p.job, Ahead(p)>>
           new == IF Ahead(p) = 0 THEN ring
                  ELSE [ring EXCEPT ![Slot(Ahead(p))][p.sub] = e]
<1>1. /\ p.tile \in Nat /\ p.sub \in Subs /\ Ahead(p) \in Nat
      /\ QkPreload \in Nat /\ FifoSize \in Nat /\ Subs \subseteq Nat
  BY PlaceParts, AheadType, PipelineAssumption DEF Subs
<1>2. InLoop(q)
  BY DEF InLoop, Place, HasAhead
<1>3. FirstNeeded(q) \in Nat /\ FirstNeeded(q) = FirstNeeded(p)
      /\ Ahead(p) - FirstNeeded(p) <= QkPreload
  BY <1>1 DEF FirstNeeded, Place, Ahead, InLoop
<1>4. SUFFICES ASSUME NEW r \in Subs, NEW t \in Nat \ {0},
                      FirstNeeded(q) <= t, t < Softmaxed(q, r)
               PROVE  new[Slot(t)][r] = <<p.job, t>>
  BY <1>2 DEF HoldsFactors, Place
<1>5. CASE t < Softmaxed(p, r)
  <2>1. ring[Slot(t)][r] = <<p.job, t>>
    BY <1>3, <1>4, <1>5 DEF HoldsFactors
  <2>2. r = p.sub => t < Ahead(p)
    BY <1>1, <1>5 DEF Softmaxed
  <2>3. r = p.sub => Slot(t) # Slot(Ahead(p))
    BY <1>1, <1>3, <1>4, <2>2, SlotsDistinct
  <2>4. Slot(t) \in SlotNames /\ Slot(Ahead(p)) \in SlotNames
    BY <1>1, SlotInRing
  <2> HIDE DEF e
  <2>5. new[Slot(t)][r] = ring[Slot(t)][r]
    BY <1>1, <2>3, <2>4 DEF Factors
  <2> QED
    BY <2>1, <2>5
<1>6. CASE ~(t < Softmaxed(p, r))
  <2>1. r = p.sub /\ t = Ahead(p)
    BY <1>1, <1>4, <1>6 DEF Softmaxed, Place, Ahead
  <2>2. Slot(Ahead(p)) \in SlotNames
    BY <1>1, SlotInRing
  <2>3. new[Slot(t)][r] = e
    <3> HIDE DEF e
    <3> QED
      BY <1>1, <1>4, <2>1, <2>2 DEF Factors
  <2> QED
    BY <2>1, <2>3
<1> QED
  BY <1>5, <1>6

LEMMA RingStep ==
  ASSUME QkPreload < FifoSize, RingInv, [Next]_vars
  PROVE  RingInv'
<1>1. TypeOK /\ TypeOK'
  BY TypeStep DEF RingInv
<1>2. ASSUME NEW v \in Aivs, vec'[v] = vec[v], expMax'[v] = expMax[v]
      PROVE  InLoop(vec'[v]) /\ HoldsFactors(vec'[v], expMax'[v])
  BY <1>2 DEF RingInv
<1>3. ASSUME NEW v \in Aivs, VecStep(v)
      PROVE  InLoop(vec'[v]) /\ HoldsFactors(vec'[v], expMax'[v])
  <2> DEFINE p == vec[v]
  <2>0. p \in Places(VecOps) /\ InLoop(p) /\ HoldsFactors(p, expMax[v])
        /\ expMax[v] \in [SlotNames -> Factors] /\ vec \in [Aivs -> Places(VecOps)]
    BY DEF RingInv, TypeOK
  <2>1. CASE VecClaim(v)
    <3>1. vec'[v] = Place(p.job + 1, "preload", 0, 0, "p_load")
      BY <2>0, <2>1 DEF VecClaim, NextJob
    <3>2. p.job + 1 \in Jobs
      BY <2>0, <2>1, PlaceParts, GeometryAssumption DEF VecClaim, HasNextJob, Jobs
    <3>3. InLoop(vec'[v])
      BY <3>1, <3>2, NumTilesPositive, PipelineAssumption DEF InLoop, Place
    <3>4. \A r \in Subs : Softmaxed(vec'[v], r) = 0
      BY <3>1 DEF Softmaxed, Place, Ahead, Subs
    <3> QED
      BY <3>3, <3>4 DEF HoldsFactors
  <2>2. CASE VecPLoad(v)
    <3>1. p.op = "p_load"
          /\ vec'[v] = Place(p.job, p.phase, p.tile, p.sub, "p_store")
      BY <2>0, <2>2 DEF VecPLoad
    <3>2. expMax'[v] = IF Ahead(p) = 0 THEN expMax[v]
                       ELSE [expMax[v] EXCEPT ![Slot(Ahead(p))][p.sub] =
                               <<p.job, Ahead(p)>>]
      <4>1. expMax \in [Aivs -> [SlotNames -> Factors]]
        BY <1>1 DEF TypeOK
      <4> QED
        BY <2>2, <4>1 DEF VecPLoad
    <3> QED
      BY <2>0, <3>1, <3>2, SoftmaxKeepsFactors
  <2>3. CASE VecPStore(v)
    <3>1. p.op = "p_store" /\ vec'[v] = AfterP(p) /\ expMax' = expMax
      BY <2>0, <2>3 DEF VecPStore
    <3> HIDE DEF p
    <3> QED
      BY <2>0, <3>1, AfterPInLoop, FactorsKept DEF p
  <2>4. CASE VecUpdate(v)
    <3>1. p.op = "gu" /\ vec'[v] = VecSteadyTile(p, p.tile + 1) /\ expMax' = expMax
      BY <2>0, <2>4 DEF VecUpdate
    <3> HIDE DEF p
    <3> QED
      BY <2>0, <3>1, AfterUpdateInLoop, FactorsKept DEF p
  <2> QED
    BY <1>3, <2>1, <2>2, <2>3, <2>4 DEF VecStep
<1>4. ASSUME NEW v \in Aivs, NEW u \in Aivs, VecStep(v), u # v
      PROVE  vec'[u] = vec[u] /\ expMax'[u] = expMax[u]
  <2>1. /\ vec \in [Aivs -> Places(VecOps)]
        /\ expMax \in [Aivs -> [SlotNames -> Factors]]
    BY <1>1 DEF TypeOK
  <2>2. CASE VecClaim(v)
    BY <1>4, <2>1, <2>2 DEF VecClaim
  <2>3. CASE VecPLoad(v)
    BY <1>4, <2>1, <2>3 DEF VecPLoad
  <2>4. CASE VecPStore(v)
    BY <1>4, <2>1, <2>4 DEF VecPStore
  <2>5. CASE VecUpdate(v)
    BY <1>4, <2>1, <2>5 DEF VecUpdate
  <2> QED
    BY <1>4, <2>2, <2>3, <2>4, <2>5 DEF VecStep
<1>5. CASE UNCHANGED vars
  BY <1>1, <1>2, <1>5 DEF vars, vecData, RingInv
<1>6. CASE CubeStep
  BY <1>1, <1>2, <1>6 DEF CubeStep, CubeClaim, CubeAssign, CubeQK, CubePvLoad,
     CubePvStore, vecData, RingInv
<1>7. CASE \E v \in Aivs : VecStep(v)
  BY <1>1, <1>2, <1>3, <1>4, <1>7 DEF RingInv
<1> QED
  BY <1>5, <1>6, <1>7 DEF Next

\* With a warm-up shorter than the FIFO, the running output is always
\* rescaled by the factor of the tile being added, whatever the work list,
\* the tiling and the speeds of the cores.
THEOREM ExpMaxRingSafe ==
  ASSUME QkPreload < FifoSize
  PROVE  Spec => []RescalesWithOwnExpMax
<1> QED
  BY RingInit, RingStep, RingInvImplies, PTL DEF Spec

-----------------------------------------------------------------------------
(* The running count of tiles before a row-block: TilesBefore is defined   *)
(* by recursion over the work list, and everything a FIFO counter says is  *)
(* said relative to it.                                                    *)

\* Every non-empty set of numbers has a least element: the form of induction
\* used below is to take the least counterexample.
LEMMA LeastNat ==
  ASSUME NEW T \in SUBSET Nat, T # {}
  PROVE  \E x \in T : \A y \in T : x <= y
<1> DEFINE R == {ss \in Nat \X Nat : ss[1] < ss[2]}
<1>1. IsWellFoundedOn(R, Nat)
  <2>1. R = OpToRel(<, Nat)
    BY Zenon DEF OpToRel
  <2> QED
    BY <2>1, NatLessThanWellFounded, Zenon
<1> HIDE DEF R
<1>2. PICK x \in T : \A y \in T : ~(<<y, x>> \in R)
  BY <1>1, WFMin, Zenon
<1>3. ASSUME NEW y \in T
      PROVE  x <= y
  <2>1. <<y, x>> \notin R
    BY <1>2
  <2>2. ~(y < x)
    BY <2>1 DEF R
  <2> QED
    BY <2>2
<1> QED
  BY <1>3

-----------------------------------------------------------------------------
(* TilesBefore satisfies its own equation, and counts with numbers.        *)

CountsTiles(n, f) ==
  f \in [1 .. n + 1 -> Nat] /\ f[1] = 0 /\ \A w \in 1 .. n : f[w + 1] = f[w] + NumTiles(w)

\* The tiles of the first n row-blocks can be counted, for every n.
LEMMA TilesCount ==
  ASSUME NEW n \in 0 .. Len(Work)
  PROVE  \E f : CountsTiles(n, f)
<1> DEFINE T == {m \in 0 .. Len(Work) : ~\E f : CountsTiles(m, f)}
<1>0. Len(Work) \in Nat
  BY GeometryAssumption
<1>1. SUFFICES ASSUME T # {} PROVE FALSE
  OBVIOUS
<1>2. PICK m \in T : \A y \in T : m <= y
  <2>1. T \in SUBSET Nat
    BY <1>0
  <2> HIDE DEF T
  <2> QED
    BY <1>1, <2>1, LeastNat
<1>3. m \in Nat /\ m <= Len(Work) /\ ~\E f : CountsTiles(m, f)
  BY <1>0
<1>4. CASE m = 0
  <2>1. CountsTiles(0, [w \in 1 .. 1 |-> 0])
    BY DEF CountsTiles
  <2> QED
    BY <1>3, <1>4, <2>1
<1>5. CASE m # 0
  <2>1. m - 1 \in 0 .. Len(Work) /\ m - 1 \notin T
    BY <1>0, <1>2, <1>3, <1>5
  <2>2. PICK f : CountsTiles(m - 1, f)
    BY <2>1
  <2> DEFINE g == [w \in 1 .. m + 1 |-> IF w = m + 1 THEN f[m] + NumTiles(m) ELSE f[w]]
  <2>3. m \in Jobs /\ NumTiles(m) \in Nat
    BY <1>0, <1>3, <1>5, NumTilesPositive DEF Jobs
  <2>4. f \in [1 .. m -> Nat] /\ f[1] = 0
        /\ \A w \in 1 .. m - 1 : f[w + 1] = f[w] + NumTiles(w)
    BY <1>3, <2>2 DEF CountsTiles
  <2>5. g \in [1 .. m + 1 -> Nat] /\ g[1] = 0
    BY <1>3, <1>5, <2>3, <2>4
  <2>6. ASSUME NEW w \in 1 .. m
        PROVE  g[w + 1] = g[w] + NumTiles(w)
    BY <1>3, <1>5, <2>3, <2>4
  <2> HIDE DEF g
  <2>7. CountsTiles(m, g)
    BY <2>5, <2>6 DEF CountsTiles
  <2> QED
    BY <1>3, <2>7
<1> QED
  BY <1>4, <1>5

LEMMA TilesBeforeCounts == CountsTiles(Len(Work), TilesBefore)
<1> DEFINE n == Len(Work)
           Sum(f) == [w \in 1 .. n + 1 |-> IF w = 1 THEN 0 ELSE f[w - 1] + NumTiles(w - 1)]
<1>0. n \in Nat
  BY GeometryAssumption
<1>1. PICK f : CountsTiles(n, f)
  BY <1>0, TilesCount
<1>2. f = Sum(f)
  <2>1. f \in [1 .. n + 1 -> Nat] /\ f[1] = 0 /\ 1 \in 1 .. n + 1
    BY <1>0, <1>1 DEF CountsTiles
  <2>2. ASSUME NEW w \in 1 .. n + 1
        PROVE  f[w] = IF w = 1 THEN 0 ELSE f[w - 1] + NumTiles(w - 1)
    <3>1. CASE w = 1
      BY <2>1, <3>1
    <3>2. CASE w # 1
      <4>1. w - 1 \in 1 .. n /\ (w - 1) + 1 = w
        BY <1>0, <3>2
      <4> HIDE DEF n
      <4> QED
        BY <1>1, <3>2, <4>1 DEF CountsTiles
    <3> QED
      BY <3>1, <3>2
  <2> QED
    BY <2>1, <2>2
<1>3. TilesBefore = Sum(TilesBefore)
  BY <1>2 DEF TilesBefore
<1> HIDE DEF n
<1>4. ASSUME NEW w \in 1 .. n
      PROVE  TilesBefore[w + 1] = TilesBefore[w] + NumTiles(w)
  <2>1. w + 1 \in 1 .. n + 1 /\ w + 1 # 1 /\ (w + 1) - 1 = w
    BY <1>0
  <2> QED
    BY <1>3, <2>1
<1>5. 1 \in 1 .. n + 1 /\ TilesBefore[1] = 0
  BY <1>0, <1>3
<1> DEFINE T == {w \in 1 .. n + 1 : TilesBefore[w] \notin Nat}
<1>6. T = {}
  <2> SUFFICES ASSUME T # {} PROVE FALSE
    OBVIOUS
  <2>1. T \in SUBSET Nat
    BY <1>0
  <2>2. PICK w \in T : \A y \in T : w <= y
    <3> HIDE DEF T
    <3> QED
      BY <2>1, LeastNat
  <2>3. w - 1 \in 1 .. n /\ w - 1 \notin T /\ (w - 1) + 1 = w
    BY <1>0, <1>5, <2>2
  <2>4. TilesBefore[w - 1] \in Nat
    BY <1>0, <2>3
  <2>5. NumTiles(w - 1) \in Nat
    BY <2>3, NumTilesPositive DEF Jobs, n
  <2>6. TilesBefore[w] = TilesBefore[w - 1] + NumTiles(w - 1)
    BY <1>4, <2>3
  <2> QED
    BY <2>2, <2>4, <2>5, <2>6
<1>7. TilesBefore \in [1 .. n + 1 -> Nat]
  BY <1>3, <1>6
<1> QED
  BY <1>4, <1>5, <1>7 DEF CountsTiles, n

LEMMA TilesBeforeStep ==
  ASSUME NEW w \in Jobs
  PROVE  /\ w \in 1 .. Len(Work) + 1 /\ w + 1 \in 1 .. Len(Work) + 1
         /\ TilesBefore[w] \in Nat /\ TilesBefore[w + 1] \in Nat
         /\ NumTiles(w) \in Nat \ {0}
         /\ TilesBefore[w + 1] = TilesBefore[w] + NumTiles(w)
<1>1. Len(Work) \in Nat /\ w \in 1 .. Len(Work)
  BY GeometryAssumption DEF Jobs
<1> QED
  BY <1>1, TilesBeforeCounts, NumTilesPositive DEF CountsTiles

\* Earlier row-blocks have no more tiles before them.
LEMMA TilesBeforeGrows ==
  ASSUME NEW u \in 1 .. Len(Work) + 1, NEW w \in 1 .. Len(Work) + 1, u <= w
  PROVE  TilesBefore[u] \in Nat /\ TilesBefore[w] \in Nat /\ TilesBefore[u] <= TilesBefore[w]
<1>0. Len(Work) \in Nat /\ TilesBefore \in [1 .. Len(Work) + 1 -> Nat]
  BY TilesBeforeCounts, GeometryAssumption DEF CountsTiles
<1> DEFINE T == {x \in u .. Len(Work) + 1 : ~(TilesBefore[u] <= TilesBefore[x])}
<1>1. T = {}
  <2> SUFFICES ASSUME T # {} PROVE FALSE
    OBVIOUS
  <2>1. T \in SUBSET Nat
    BY <1>0
  <2>2. PICK x \in T : \A y \in T : x <= y
    <3> HIDE DEF T
    <3> QED
      BY <2>1, LeastNat
  <2>3. x # u
    BY <1>0, <2>2
  <2>4. x - 1 \in Jobs /\ x - 1 \in u .. Len(Work) + 1 /\ (x - 1) + 1 = x
    BY <1>0, <2>2, <2>3 DEF Jobs
  <2>5. x - 1 \notin T
    BY <1>0, <2>2, <2>4
  <2>6. TilesBefore[u] <= TilesBefore[x - 1]
    BY <2>4, <2>5
  <2>7. TilesBefore[x - 1] \in Nat /\ TilesBefore[x] \in Nat /\ TilesBefore[x - 1] <= TilesBefore[x]
    BY <2>4, TilesBeforeStep
  <2>8. TilesBefore[u] \in Nat
    BY <1>0
  <2> QED
    BY <2>2, <2>6, <2>7, <2>8
<1>2. w \in u .. Len(Work) + 1
  BY <1>0
<1> QED
  BY <1>0, <1>1, <1>2

\* A tile's place in the count says which row-block it belongs to.
LEMMA TileOfJob ==
  ASSUME NEW w \in Jobs, NEW t \in Nat, t < NumTiles(w), NEW u \in Jobs,
         TilesBefore[u] <= TilesBefore[w] + t,
         TilesBefore[w] + t < TilesBefore[u + 1]
  PROVE  u = w
<1>0. /\ u \in Nat /\ w \in Nat
      /\ u \in 1 .. Len(Work) + 1 /\ u + 1 \in 1 .. Len(Work) + 1
      /\ w \in 1 .. Len(Work) + 1 /\ w + 1 \in 1 .. Len(Work) + 1
      /\ TilesBefore[w] \in Nat /\ NumTiles(w) \in Nat
      /\ TilesBefore[w + 1] = TilesBefore[w] + NumTiles(w)
  BY TilesBeforeStep DEF Jobs
<1>1. CASE u < w
  <2>1. u + 1 <= w
    BY <1>0, <1>1
  <2>2. TilesBefore[u + 1] \in Nat /\ TilesBefore[u + 1] <= TilesBefore[w]
    BY <1>0, <2>1, TilesBeforeGrows
  <2> QED
    BY <1>0, <2>2
<1>2. CASE w < u
  <2>1. w + 1 <= u
    BY <1>0, <1>2
  <2>2. TilesBefore[u] \in Nat /\ TilesBefore[w + 1] <= TilesBefore[u]
    BY <1>0, <2>1, TilesBeforeGrows
  <2> QED
    BY <1>0, <2>2
<1> QED
  BY <1>0, <1>1, <1>2

-----------------------------------------------------------------------------
(* The sub-tiles above the diagonal.                                       *)

\* After a sub-tile above the diagonal come only sub-tiles above it.
LEMMA SkippedOnwards ==
  ASSUME NEW w \in Jobs, NEW t \in Nat, NEW s \in Nat, NEW u \in Nat,
         s <= u, Skipped(w, t, s)
  PROVE  Skipped(w, t, u)
<1>1. Work[w] \in Nat /\ t * TileFactor \in Nat
  BY GeometryAssumption DEF Jobs
<1> QED
  BY <1>1 DEF Skipped

\* The first sub-tile of a tile the row-block sweeps is never skipped.
LEMMA FirstSubKept ==
  ASSUME NEW w \in Jobs, NEW t \in Nat, t < NumTiles(w)
  PROVE  ~Skipped(w, t, 0)
<1> DEFINE d == Work[w] \div TileFactor
<1>1. Work[w] \in Nat /\ TileFactor \in Nat \ {0} /\ FullTiles \in Nat
  BY GeometryAssumption DEF Jobs
<1>2. d \in Nat /\ TileFactor * d <= Work[w]
  BY <1>1
<1>3. ASSUME Causal
      PROVE  t <= d
  BY <1>1, <1>2, <1>3 DEF NumTiles
<1> HIDE DEF d
<1>4. ASSUME t <= d
      PROVE  t * TileFactor <= TileFactor * d
  BY <1>1, <1>2, <1>4
<1>5. t * TileFactor \in Nat /\ TileFactor * d \in Nat
  BY <1>1, <1>2
<1> QED
  BY <1>1, <1>2, <1>3, <1>4, <1>5 DEF Skipped

-----------------------------------------------------------------------------
(* What a core at place p has done to the FIFOs since the launch: the      *)
(* tiles of its earlier row-blocks and n of this one.                      *)

From(p, n) ==
  IF p.op = "claim" THEN TilesBefore[p.job + 1] ELSE TilesBefore[p.job] + n
One(cond) == IF cond THEN 1 ELSE 0

\* Where the Cube core inside a row-block can be in its loops.
InCube(p) ==
  p.op # "claim" =>
    /\ p.job \in Jobs
    /\ p.phase \in {"preload", "steady"}
    /\ p.tile < NumTiles(p.job)
    /\ p.phase = "preload" => p.op = "qk" /\ p.tile < QkPreload
    /\ (p.phase = "steady" /\ p.op = "qk") => HasAhead(p)
    /\ p.op = "assign" => p.sub = 0
    /\ p.op = "pv_store" => ~Skipped(p.job, p.tile, p.sub) /\ StoresPV(p)

\* Sub-tiles of scores stored of tile Ahead(p), while any is left to store.
QkWorks(p) == p.phase = "preload" \/ HasAhead(p)
QkSubs(p) == IF p.op \in {"pv_load", "pv_store"} THEN p.sub + 1 ELSE p.sub

\* The Cube core's TALLOCs and TPUSHes of qk, TPOPs and TFREEs of p, TPUSHes
\* of pv.
QkAlloced(p) ==
  From(p, IF QkWorks(p) THEN Ahead(p) + One(QkSubs(p) > 0) ELSE NumTiles(p.job))
QkPushed(p) ==
  From(p, IF QkWorks(p) THEN Ahead(p) + One(QkSubs(p) = TileFactor) ELSE NumTiles(p.job))
PPopped(p) ==
  From(p, IF p.phase = "steady" THEN p.tile + One(p.op = "pv_store" \/ p.sub > 0) ELSE 0)
PFreed(p) ==
  From(p, IF p.phase = "steady" THEN p.tile + One(p.op = "pv_store" /\ LastSub(p)) ELSE 0)
PvPushed(p) ==
  From(p, IF p.phase = "steady"
          THEN p.tile + One(p.op \in {"qk", "pv_load"} /\ Skipped(p.job, p.tile, p.sub))
          ELSE 0)

\* A vector subblock's TPOPs and TFREEs of qk, TALLOCs and TPUSHes of p,
\* TFREEs of pv.
Softmaxes(p) == IF HasAhead(p) THEN p.tile + QkPreload + 1 ELSE NumTiles(p.job)
QkPopped(p) ==
  From(p, IF p.op = "gu" THEN Softmaxes(p) ELSE Ahead(p) + One(p.sub > 0 \/ p.op = "p_store"))
QkFreed(p) ==
  From(p, IF p.op = "gu" THEN Softmaxes(p) ELSE Ahead(p) + One(p.op = "p_store" /\ LastSub(p)))
PAlloced(p) ==
  From(p, IF p.op = "gu" THEN Softmaxes(p) ELSE Ahead(p) + One(p.sub > 0))
PPushed(p) ==
  From(p, IF p.op = "gu" THEN Softmaxes(p) ELSE Ahead(p))
PvFreed(p) == From(p, FirstNeeded(p))

Counters ==
  /\ pushed["qk"][Aic] = QkPushed(cube)
  /\ freed["p"][Aic] = PFreed(cube)
  /\ pushed["pv"][Aic] = PvPushed(cube)
  /\ \A v \in Aivs : /\ freed["qk"][v] = QkFreed(vec[v])
                     /\ pushed["p"][v] = PPushed(vec[v])
                     /\ freed["pv"][v] = PvFreed(vec[v])

\* No core is ahead of what the credits it waited for allow.
Flow ==
  \A v \in Aivs :
    /\ QkAlloced(cube) <= freed["qk"][v] + FifoSize
    /\ QkPopped(vec[v]) <= pushed["qk"][Aic]
    /\ PAlloced(vec[v]) <= freed["p"][Aic] + FifoSize
    /\ PPopped(cube) <= pushed["p"][v]
    /\ pushed["pv"][Aic] <= freed["pv"][v] + FifoSize
    /\ freed["pv"][v] <= pushed["pv"][Aic]

FifoInv ==
  /\ TypeOK
  /\ InCube(cube) /\ \A v \in Aivs : InLoop(vec[v])
  /\ Counters
  /\ Flow

-----------------------------------------------------------------------------
(* The counts of one place.                                                *)

\* Inside a row-block.
LEMMA InBlock ==
  ASSUME NEW ops, NEW p \in Places(ops), p.op # "claim", p.job \in Jobs
  PROVE  /\ p.tile \in Nat /\ p.sub \in Nat /\ p.sub <= TileFactor - 1
         /\ TileFactor \in Nat \ {0} /\ QkPreload \in Nat \ {0}
         /\ TilesBefore[p.job] \in Nat
         /\ NumTiles(p.job) \in Nat \ {0}
         /\ TilesBefore[p.job + 1] = TilesBefore[p.job] + NumTiles(p.job)
  BY TilesBeforeStep, GeometryAssumption, PipelineAssumption DEF Places, Subs

\* Every count is a number.
LEMMA ClaimCount ==
  ASSUME NEW ops, NEW p \in Places(ops)
  PROVE  TilesBefore[p.job + 1] \in Nat
  BY TilesBeforeCounts, GeometryAssumption DEF Places, CountsTiles

LEMMA CubeCountsType ==
  ASSUME NEW p \in Places(CubeOps), InCube(p)
  PROVE  /\ QkAlloced(p) \in Nat /\ QkPushed(p) \in Nat /\ PPopped(p) \in Nat
         /\ PFreed(p) \in Nat /\ PvPushed(p) \in Nat
<1>1. CASE p.op = "claim"
  BY <1>1, ClaimCount DEF From, QkAlloced, QkPushed, PPopped, PFreed, PvPushed
<1>2. CASE p.op # "claim"
  <2>1. p.job \in Jobs
    BY <1>2 DEF InCube
  <2> QED
    BY <1>2, <2>1, InBlock
       DEF From, QkAlloced, QkPushed, PPopped, PFreed, PvPushed, One, Ahead
<1> QED
  BY <1>1, <1>2

LEMMA VecCountsType ==
  ASSUME NEW p \in Places(VecOps), InLoop(p)
  PROVE  /\ QkPopped(p) \in Nat /\ QkFreed(p) \in Nat /\ PAlloced(p) \in Nat
         /\ PPushed(p) \in Nat /\ PvFreed(p) \in Nat
         /\ PPushed(p) <= QkFreed(p) /\ QkFreed(p) <= QkPopped(p)
<1>1. CASE p.op = "claim"
  BY <1>1, ClaimCount DEF From, QkPopped, QkFreed, PAlloced, PPushed, PvFreed
<1>2. CASE p.op # "claim"
  <2>1. p.job \in Jobs
    BY <1>2 DEF InLoop
  <2> QED
    BY <1>2, <2>1, InBlock
       DEF From, QkPopped, QkFreed, PAlloced, PPushed, PvFreed, One, Ahead, Softmaxes,
           FirstNeeded
<1> QED
  BY <1>1, <1>2

-----------------------------------------------------------------------------
(* The counts after each move of the Cube core.                            *)

\* The place at the top of the loop for tile t, or after the last tile.
LEMMA CubeNextTile ==
  ASSUME NEW p \in Places(CubeOps), p.op # "claim", InCube(p),
         NEW t \in Nat, t <= NumTiles(p.job), NEW q, q = CubeSteadyTile(p, t)
  PROVE  /\ InCube(q)
         /\ LET n == IF t + QkPreload < NumTiles(p.job) THEN t + QkPreload
                     ELSE NumTiles(p.job)
            IN QkAlloced(q) = TilesBefore[p.job] + n /\ QkPushed(q) = TilesBefore[p.job] + n
         /\ PPopped(q) = TilesBefore[p.job] + t
         /\ PFreed(q) = TilesBefore[p.job] + t
         /\ PvPushed(q) = TilesBefore[p.job] + t
<1>1. p.job \in Jobs /\ p.tile < NumTiles(p.job)
  BY DEF InCube
<1>2. CASE t < NumTiles(p.job)
  <2>1. q = Place(p.job, "steady", t, 0, "assign")
    BY <1>2 DEF CubeSteadyTile
  <2> QED
    BY <1>1, <1>2, <2>1, InBlock
       DEF InCube, Place, From, QkAlloced, QkPushed, PPopped, PFreed, PvPushed, One, Ahead,
           HasAhead, QkWorks, QkSubs
<1>3. CASE ~(t < NumTiles(p.job))
  <2>1. q = Place(p.job, "claim", 0, 0, "claim") /\ t = NumTiles(p.job)
    BY <1>1, <1>3, InBlock DEF CubeSteadyTile, EndJob, Claimable
  <2> QED
    BY <1>1, <2>1, InBlock
       DEF InCube, Place, From, QkAlloced, QkPushed, PPopped, PFreed, PvPushed
<1> QED
  BY <1>2, <1>3

LEMMA CubeClaimCounts ==
  ASSUME NEW p \in Places(CubeOps), p.op = "claim", HasNextJob(p),
         NEW q, q = NextJob(p, "qk")
  PROVE  /\ InCube(q)
         /\ QkAlloced(q) = QkAlloced(p) /\ QkPushed(q) = QkPushed(p)
         /\ PPopped(q) = PPopped(p) /\ PFreed(q) = PFreed(p)
         /\ PvPushed(q) = PvPushed(p)
<1>1. q = Place(p.job + 1, "preload", 0, 0, "qk") /\ p.job + 1 \in Jobs
  BY GeometryAssumption DEF NextJob, HasNextJob, Jobs, Places
<1>2. NumTiles(p.job + 1) \in Nat \ {0} /\ TilesBefore[p.job + 1] \in Nat
  BY <1>1, TilesBeforeStep
<1> QED
  BY <1>1, <1>2, PipelineAssumption, GeometryAssumption
     DEF InCube, Place, From, QkAlloced, QkPushed, PPopped, PFreed, PvPushed, One, Ahead,
         QkWorks, QkSubs

LEMMA CubeAssignCounts ==
  ASSUME NEW p \in Places(CubeOps), p.op = "assign", InCube(p), NEW q,
         q = Place(p.job, "steady", p.tile, 0, IF HasAhead(p) THEN "qk" ELSE "pv_load")
  PROVE  /\ InCube(q)
         /\ QkAlloced(q) = QkAlloced(p) /\ QkPushed(q) = QkPushed(p)
         /\ PPopped(q) = PPopped(p) /\ PFreed(q) = PFreed(p)
         /\ PvPushed(q) = PvPushed(p)
<1>1. p.job \in Jobs /\ p.phase = "steady" /\ p.sub = 0 /\ p.tile < NumTiles(p.job)
  BY DEF InCube
<1>2. ~Skipped(p.job, p.tile, 0)
  BY <1>1, FirstSubKept, InBlock
<1> QED
  BY <1>1, <1>2, InBlock
     DEF InCube, Place, From, QkAlloced, QkPushed, PPopped, PFreed, PvPushed, One, Ahead,
         HasAhead, QkWorks, QkSubs

LEMMA CubeQKCounts ==
  ASSUME NEW p \in Places(CubeOps), p.op = "qk", InCube(p), NEW q, q = AfterQK(p)
  PROVE  /\ InCube(q)
         /\ QkAlloced(q) = IF p.sub = 0 THEN QkPushed(p) + 1 ELSE QkAlloced(p)
         /\ QkPushed(q) = QkPushed(p) + One(LastSub(p))
         /\ PPopped(q) = PPopped(p) /\ PFreed(q) = PFreed(p)
         /\ PvPushed(q) = PvPushed(p)
<1> DEFINE n == NumTiles(p.job)
<1>1. p.job \in Jobs /\ p.tile < n
  BY DEF InCube
<1>2. CASE p.phase = "steady"
  <2>1. q = Place(p.job, "steady", p.tile, p.sub, "pv_load")
    BY <1>2 DEF AfterQK
  <2> QED
    BY <1>1, <1>2, <2>1, InBlock
       DEF InCube, Place, From, QkAlloced, QkPushed, PPopped, PFreed, PvPushed, One, Ahead,
           HasAhead, QkWorks, QkSubs, LastSub
<1>3. CASE p.phase = "preload" /\ ~LastSub(p)
  <2>1. q = Place(p.job, "preload", p.tile, p.sub + 1, "qk")
    BY <1>3 DEF AfterQK
  <2> QED
    BY <1>1, <1>3, <2>1, InBlock
       DEF InCube, Place, From, QkAlloced, QkPushed, PPopped, PFreed, PvPushed, One, Ahead,
           QkWorks, QkSubs, LastSub
<1>4. CASE p.phase = "preload" /\ LastSub(p)
  <2>1. /\ QkPushed(p) = TilesBefore[p.job] + p.tile
        /\ QkAlloced(p) = TilesBefore[p.job] + p.tile + One(p.sub > 0)
        /\ PPopped(p) = TilesBefore[p.job] /\ PFreed(p) = TilesBefore[p.job]
        /\ PvPushed(p) = TilesBefore[p.job]
    BY <1>1, <1>4, InBlock
       DEF From, QkAlloced, QkPushed, PPopped, PFreed, PvPushed, One, Ahead, QkWorks, QkSubs,
           LastSub
  <2>2. CASE MorePreload(p)
    <3>1. q = Place(p.job, "preload", p.tile + 1, 0, "qk")
      BY <1>4, <2>2 DEF AfterQK
    <3> QED
      BY <1>1, <1>4, <2>1, <2>2, <3>1, InBlock
         DEF InCube, Place, From, QkAlloced, QkPushed, PPopped, PFreed, PvPushed, One, Ahead,
             QkWorks, QkSubs, LastSub, MorePreload
  <2>3. CASE ~MorePreload(p)
    <3>1. q = CubeSteadyTile(p, 0)
      BY <1>4, <2>3 DEF AfterQK
    <3>2. /\ InCube(q)
          /\ LET m == IF QkPreload < n THEN QkPreload ELSE n
             IN QkAlloced(q) = TilesBefore[p.job] + m /\ QkPushed(q) = TilesBefore[p.job] + m
          /\ PPopped(q) = TilesBefore[p.job] /\ PFreed(q) = TilesBefore[p.job]
          /\ PvPushed(q) = TilesBefore[p.job]
      BY <1>1, <3>1, CubeNextTile, InBlock
    <3>3. p.tile + 1 = IF QkPreload < n THEN QkPreload ELSE n
      BY <1>1, <1>4, <2>3, InBlock DEF InCube, MorePreload
    <3> QED
      BY <1>1, <1>4, <2>1, <3>2, <3>3, InBlock DEF One, LastSub
  <2> QED
    BY <2>2, <2>3
<1> QED
  BY <1>2, <1>3, <1>4 DEF InCube

\* After the PV product of one sub-tile is made, and stored if it ends the
\* partial.
LEMMA AfterPVCounts ==
  ASSUME NEW p \in Places(CubeOps), p.op \in {"pv_load", "pv_store"}, InCube(p),
         NEW q, q = AfterPV(p),
         p.op = "pv_load" =>
           Skipped(p.job, p.tile, p.sub) \/ ~StoresPV(p)
  PROVE  /\ InCube(q)
         /\ QkAlloced(q) = QkAlloced(p) /\ QkPushed(q) = QkPushed(p)
         /\ PPopped(q) = TilesBefore[p.job] + p.tile + 1
         /\ PFreed(q) = TilesBefore[p.job] + p.tile + One(LastSub(p))
         /\ PvPushed(q) = PvPushed(p) + One(p.op = "pv_store")
<1> DEFINE n == NumTiles(p.job)
<1>1. p.job \in Jobs /\ p.tile < n /\ p.phase = "steady" /\ p.op # "claim"
  BY DEF InCube
<1>2. PvPushed(p) + One(p.op = "pv_store")
        = TilesBefore[p.job] + p.tile
          + One(p.op = "pv_store" \/ Skipped(p.job, p.tile, p.sub))
  BY <1>1, InBlock DEF PvPushed, From, One, InCube
<1>3. CASE ~LastSub(p)
  <2>1. q = Place(p.job, "steady", p.tile, p.sub + 1, IF HasAhead(p) THEN "qk" ELSE "pv_load")
    BY <1>3 DEF AfterPV
  <2>2. Skipped(p.job, p.tile, p.sub + 1)
          <=> (p.op = "pv_store" \/ Skipped(p.job, p.tile, p.sub))
    <3>1. Skipped(p.job, p.tile, p.sub) => Skipped(p.job, p.tile, p.sub + 1)
      BY <1>1, InBlock, SkippedOnwards
    <3>2. StoresPV(p) <=> Skipped(p.job, p.tile, p.sub + 1)
      BY <1>3 DEF StoresPV
    <3> QED
      BY <1>1, <3>1, <3>2 DEF InCube
  <2>3. PvPushed(q) = TilesBefore[p.job] + p.tile + One(Skipped(p.job, p.tile, p.sub + 1))
    <3>1. /\ q.job = p.job /\ q.tile = p.tile /\ q.sub = p.sub + 1
          /\ q.phase = "steady" /\ q.op \in {"qk", "pv_load"}
      BY <2>1 DEF Place
    <3>2. Skipped(q.job, q.tile, q.sub) <=> Skipped(p.job, p.tile, p.sub + 1)
      BY <3>1, Zenon
    <3> QED
      BY <1>1, <3>1, <3>2, InBlock DEF PvPushed, From, One
  <2> QED
    BY <1>1, <1>2, <1>3, <2>1, <2>2, <2>3, InBlock
       DEF InCube, Place, From, QkAlloced, QkPushed, PPopped, PFreed, One, Ahead, HasAhead,
           QkWorks, QkSubs, LastSub
<1>4. CASE LastSub(p)
  <2>1. q = CubeSteadyTile(p, p.tile + 1) /\ p.tile + 1 \in Nat /\ p.tile + 1 <= n
    BY <1>1, <1>4, InBlock DEF AfterPV
  <2>2. /\ InCube(q)
        /\ LET m == IF p.tile + 1 + QkPreload < n THEN p.tile + 1 + QkPreload ELSE n
           IN QkAlloced(q) = TilesBefore[p.job] + m /\ QkPushed(q) = TilesBefore[p.job] + m
        /\ PPopped(q) = TilesBefore[p.job] + (p.tile + 1)
        /\ PFreed(q) = TilesBefore[p.job] + (p.tile + 1)
        /\ PvPushed(q) = TilesBefore[p.job] + (p.tile + 1)
    BY <1>1, <2>1, CubeNextTile
  <2>3. LET m == IF p.tile + 1 + QkPreload < n THEN p.tile + 1 + QkPreload ELSE n
        IN QkAlloced(p) = TilesBefore[p.job] + m /\ QkPushed(p) = TilesBefore[p.job] + m
    BY <1>1, <1>4, InBlock
       DEF From, QkAlloced, QkPushed, One, Ahead, HasAhead, QkWorks, QkSubs, LastSub
  <2>4. p.op = "pv_store" \/ Skipped(p.job, p.tile, p.sub)
    BY <1>4 DEF StoresPV
  <2> QED
    BY <1>1, <1>2, <1>4, <2>2, <2>3, <2>4, InBlock DEF One
<1> QED
  BY <1>3, <1>4

LEMMA CubePvLoadCounts ==
  ASSUME NEW p \in Places(CubeOps), p.op = "pv_load", InCube(p), NEW q,
         q = IF ~Skipped(p.job, p.tile, p.sub) /\ StoresPV(p)
             THEN Place(p.job, "steady", p.tile, p.sub, "pv_store") ELSE AfterPV(p)
  PROVE  /\ InCube(q)
         /\ QkAlloced(q) = QkAlloced(p) /\ QkPushed(q) = QkPushed(p)
         /\ PPopped(q) = IF p.sub = 0 THEN PFreed(p) + 1 ELSE PPopped(p)
         /\ PFreed(q) = PFreed(p) + One(LastSub(p))
         /\ PvPushed(q) = PvPushed(p)
<1>1. p.job \in Jobs /\ p.tile < NumTiles(p.job) /\ p.phase = "steady" /\ p.op # "claim"
  BY DEF InCube
<1>2. /\ PFreed(p) = TilesBefore[p.job] + p.tile
      /\ p.sub # 0 => PPopped(p) = TilesBefore[p.job] + p.tile + 1
  BY <1>1, InBlock DEF PFreed, PPopped, From, One
<1>3. CASE ~Skipped(p.job, p.tile, p.sub) /\ StoresPV(p)
  <2>1. q = Place(p.job, "steady", p.tile, p.sub, "pv_store")
    BY <1>3
  <2>2. /\ q.job = p.job /\ q.tile = p.tile /\ q.sub = p.sub
        /\ q.phase = "steady" /\ q.op = "pv_store"
    BY <2>1 DEF Place
  <2>3. InCube(q)
    BY <1>1, <1>3, <2>2 DEF InCube, StoresPV, LastSub
  <2> QED
    BY <1>1, <1>2, <1>3, <2>2, <2>3, InBlock
       DEF From, QkAlloced, QkPushed, PPopped, PFreed, PvPushed, One, Ahead, HasAhead,
           QkWorks, QkSubs, LastSub
<1>4. CASE ~(~Skipped(p.job, p.tile, p.sub) /\ StoresPV(p))
  <2>1. q = AfterPV(p)
    BY <1>4
  <2>2. /\ InCube(q)
        /\ QkAlloced(q) = QkAlloced(p) /\ QkPushed(q) = QkPushed(p)
        /\ PPopped(q) = TilesBefore[p.job] + p.tile + 1
        /\ PFreed(q) = TilesBefore[p.job] + p.tile + One(LastSub(p))
        /\ PvPushed(q) = PvPushed(p) + One(p.op = "pv_store")
    BY <1>4, <2>1, AfterPVCounts
  <2>3. One(p.op = "pv_store") = 0 /\ PvPushed(p) \in Nat
    BY CubeCountsType DEF One
  <2> QED
    BY <1>2, <2>2, <2>3
<1> QED
  BY <1>3, <1>4

LEMMA CubePvStoreCounts ==
  ASSUME NEW p \in Places(CubeOps), p.op = "pv_store", InCube(p), NEW q, q = AfterPV(p)
  PROVE  /\ InCube(q)
         /\ QkAlloced(q) = QkAlloced(p) /\ QkPushed(q) = QkPushed(p)
         /\ PPopped(q) = PPopped(p) /\ PFreed(q) = PFreed(p)
         /\ PvPushed(q) = PvPushed(p) + 1
<1>1. p.job \in Jobs /\ p.phase = "steady"
  BY DEF InCube
<1>2. /\ PPopped(p) = TilesBefore[p.job] + p.tile + 1
      /\ PFreed(p) = TilesBefore[p.job] + p.tile + One(LastSub(p))
      /\ One(p.op = "pv_store") = 1
  BY <1>1, InBlock DEF PFreed, PPopped, From, One
<1> QED
  BY <1>2, AfterPVCounts

-----------------------------------------------------------------------------
(* The counts after each move of a vector subblock.                        *)

LEMMA VecClaimCounts ==
  ASSUME NEW p \in Places(VecOps), p.op = "claim", HasNextJob(p),
         NEW q, q = NextJob(p, "p_load")
  PROVE  /\ InLoop(q)
         /\ QkPopped(q) = QkPopped(p) /\ QkFreed(q) = QkFreed(p)
         /\ PAlloced(q) = PAlloced(p) /\ PPushed(q) = PPushed(p)
         /\ PvFreed(q) = PvFreed(p)
<1>1. q = Place(p.job + 1, "preload", 0, 0, "p_load") /\ p.job + 1 \in Jobs
  BY GeometryAssumption DEF NextJob, HasNextJob, Jobs, Places
<1>2. NumTiles(p.job + 1) \in Nat \ {0} /\ TilesBefore[p.job + 1] \in Nat
  BY <1>1, TilesBeforeStep
<1> QED
  BY <1>1, <1>2, PipelineAssumption, GeometryAssumption
     DEF InLoop, Place, From, QkPopped, QkFreed, PAlloced, PPushed, PvFreed, One, Ahead,
         FirstNeeded

LEMMA VecPLoadCounts ==
  ASSUME NEW p \in Places(VecOps), p.op = "p_load", InLoop(p),
         NEW q, q = Place(p.job, p.phase, p.tile, p.sub, "p_store")
  PROVE  /\ InLoop(q)
         /\ QkPopped(q) = IF p.sub = 0 THEN QkFreed(p) + 1 ELSE QkPopped(p)
         /\ QkFreed(q) = QkFreed(p) + One(LastSub(p))
         /\ PAlloced(q) = PAlloced(p) /\ PPushed(q) = PPushed(p)
         /\ PvFreed(q) = PvFreed(p)
<1>1. p.job \in Jobs
  BY DEF InLoop
<1> QED
  BY <1>1, InBlock
     DEF InLoop, Place, From, QkPopped, QkFreed, PAlloced, PPushed, PvFreed, One, Ahead,
         FirstNeeded, LastSub, HasAhead

\* The place at the top of the loop for tile t, or after the last tile.
LEMMA VecNextTile ==
  ASSUME NEW p \in Places(VecOps), p.op # "claim", InLoop(p),
         NEW t \in Nat, t <= NumTiles(p.job), NEW q, q = VecSteadyTile(p, t)
  PROVE  /\ LET n == IF t + QkPreload < NumTiles(p.job) THEN t + QkPreload
                     ELSE NumTiles(p.job)
            IN /\ QkPopped(q) = TilesBefore[p.job] + n
               /\ QkFreed(q) = TilesBefore[p.job] + n
               /\ PAlloced(q) = TilesBefore[p.job] + n
               /\ PPushed(q) = TilesBefore[p.job] + n
         /\ PvFreed(q) = TilesBefore[p.job] + t
<1>1. p.job \in Jobs /\ p.tile < NumTiles(p.job)
  BY DEF InLoop
<1>2. CASE t < NumTiles(p.job)
  <2>1. q = Place(p.job, "steady", t, 0,
                  IF t + QkPreload < NumTiles(p.job) THEN "p_load" ELSE "gu")
    BY <1>2 DEF VecSteadyTile
  <2> QED
    BY <1>1, <1>2, <2>1, InBlock
       DEF Place, From, QkPopped, QkFreed, PAlloced, PPushed, PvFreed, One, Ahead,
           FirstNeeded, HasAhead, Softmaxes
<1>3. CASE ~(t < NumTiles(p.job))
  <2>1. q = Place(p.job, "claim", 0, 0, "claim") /\ t = NumTiles(p.job)
    BY <1>1, <1>3, InBlock DEF VecSteadyTile, EndJob, Claimable
  <2> QED
    BY <1>1, <2>1, InBlock
       DEF Place, From, QkPopped, QkFreed, PAlloced, PPushed, PvFreed
<1> QED
  BY <1>2, <1>3

LEMMA VecPStoreCounts ==
  ASSUME NEW p \in Places(VecOps), p.op = "p_store", InLoop(p), NEW q, q = AfterP(p)
  PROVE  /\ QkPopped(q) = QkPopped(p) /\ QkFreed(q) = QkFreed(p)
         /\ PAlloced(q) = IF p.sub = 0 THEN PPushed(p) + 1 ELSE PAlloced(p)
         /\ PPushed(q) = PPushed(p) + One(LastSub(p))
         /\ PvFreed(q) = PvFreed(p)
<1> DEFINE n == NumTiles(p.job)
<1>1. p.job \in Jobs /\ p.tile < n /\ p.op # "claim"
  BY DEF InLoop
<1>2. CASE ~LastSub(p)
  <2>1. q = Place(p.job, p.phase, p.tile, p.sub + 1, "p_load")
    BY <1>2 DEF AfterP
  <2> QED
    BY <1>1, <1>2, <2>1, InBlock
       DEF Place, From, QkPopped, QkFreed, PAlloced, PPushed, PvFreed, One, Ahead,
           FirstNeeded, LastSub
<1>3. CASE LastSub(p) /\ p.phase = "steady"
  <2>1. q = Place(p.job, "steady", p.tile, 0, "gu") /\ HasAhead(p)
    BY <1>3 DEF AfterP, InLoop
  <2> QED
    BY <1>1, <1>3, <2>1, InBlock
       DEF Place, From, QkPopped, QkFreed, PAlloced, PPushed, PvFreed, One, Ahead,
           FirstNeeded, LastSub, HasAhead, Softmaxes
<1>4. CASE LastSub(p) /\ p.phase = "preload"
  <2>1. /\ QkPopped(p) = TilesBefore[p.job] + p.tile + 1
        /\ QkFreed(p) = TilesBefore[p.job] + p.tile + 1
        /\ PAlloced(p) = TilesBefore[p.job] + p.tile + One(p.sub > 0)
        /\ PPushed(p) = TilesBefore[p.job] + p.tile
        /\ PvFreed(p) = TilesBefore[p.job]
    BY <1>1, <1>4, InBlock
       DEF From, QkPopped, QkFreed, PAlloced, PPushed, PvFreed, One, Ahead, FirstNeeded
  <2>2. CASE MorePreload(p)
    <3>1. q = Place(p.job, "preload", p.tile + 1, 0, "p_load")
      BY <1>4, <2>2 DEF AfterP
    <3> QED
      BY <1>1, <1>4, <2>1, <3>1, InBlock
         DEF Place, From, QkPopped, QkFreed, PAlloced, PPushed, PvFreed, One, Ahead,
             FirstNeeded, LastSub
  <2>3. CASE ~MorePreload(p)
    <3>1. q = VecSteadyTile(p, 0)
      BY <1>4, <2>3 DEF AfterP
    <3>2. p.tile + 1 = IF QkPreload < n THEN QkPreload ELSE n
      BY <1>1, <1>4, <2>3, InBlock DEF InLoop, MorePreload
    <3>3. /\ LET m == IF QkPreload < n THEN QkPreload ELSE n
             IN /\ QkPopped(q) = TilesBefore[p.job] + m
                /\ QkFreed(q) = TilesBefore[p.job] + m
                /\ PAlloced(q) = TilesBefore[p.job] + m
                /\ PPushed(q) = TilesBefore[p.job] + m
          /\ PvFreed(q) = TilesBefore[p.job]
      BY <1>1, <3>1, VecNextTile, InBlock
    <3> QED
      BY <1>1, <1>4, <2>1, <3>2, <3>3, InBlock DEF One, LastSub
  <2> QED
    BY <2>2, <2>3
<1> QED
  BY <1>1, <1>2, <1>3, <1>4 DEF InLoop

LEMMA VecUpdateCounts ==
  ASSUME NEW p \in Places(VecOps), p.op = "gu", InLoop(p),
         NEW q, q = VecSteadyTile(p, p.tile + 1)
  PROVE  /\ QkPopped(q) = QkPopped(p) /\ QkFreed(q) = QkFreed(p)
         /\ PAlloced(q) = PAlloced(p) /\ PPushed(q) = PPushed(p)
         /\ PvFreed(q) = PvFreed(p) + 1
<1> DEFINE n == NumTiles(p.job)
           m == IF p.tile + 1 + QkPreload < n THEN p.tile + 1 + QkPreload ELSE n
<1>1. p.job \in Jobs /\ p.phase = "steady" /\ p.tile < n
  BY DEF InLoop
<1>2. /\ QkPopped(p) = TilesBefore[p.job] + m /\ QkFreed(p) = TilesBefore[p.job] + m
      /\ PAlloced(p) = TilesBefore[p.job] + m /\ PPushed(p) = TilesBefore[p.job] + m
      /\ PvFreed(p) = TilesBefore[p.job] + p.tile
  BY <1>1, InBlock
     DEF From, QkPopped, QkFreed, PAlloced, PPushed, PvFreed, FirstNeeded, HasAhead, Softmaxes
<1>3. p.tile + 1 \in Nat /\ p.tile + 1 <= n /\ p.op # "claim"
  BY <1>1, InBlock
<1>4. /\ QkPopped(q) = TilesBefore[p.job] + m /\ QkFreed(q) = TilesBefore[p.job] + m
      /\ PAlloced(q) = TilesBefore[p.job] + m /\ PPushed(q) = TilesBefore[p.job] + m
      /\ PvFreed(q) = TilesBefore[p.job] + (p.tile + 1)
  BY <1>3, VecNextTile
<1> QED
  BY <1>1, <1>2, <1>4, InBlock

-----------------------------------------------------------------------------
(* The counters are where the places say, and within the credits.          *)

LEMMA FifoInit == Init => FifoInv
<1> SUFFICES ASSUME Init PROVE FifoInv
  OBVIOUS
<1>1. TypeOK
  BY TypeInit
<1>2. TilesBefore[0 + 1] = 0
  BY TilesBeforeCounts DEF CountsTiles
<1>3. cube = Place(0, "claim", 0, 0, "claim")
      /\ \A v \in Aivs : vec[v] = Place(0, "claim", 0, 0, "claim")
  BY DEF Init, Claimable
<1>4. InCube(cube) /\ \A v \in Aivs : InLoop(vec[v])
  BY <1>3 DEF InCube, InLoop, Place
<1>5. /\ QkAlloced(cube) = 0 /\ QkPushed(cube) = 0 /\ PPopped(cube) = 0
      /\ PFreed(cube) = 0 /\ PvPushed(cube) = 0
  BY <1>2, <1>3 DEF QkAlloced, QkPushed, PPopped, PFreed, PvPushed, From, Place
<1>6. \A v \in Aivs :
         /\ QkPopped(vec[v]) = 0 /\ QkFreed(vec[v]) = 0 /\ PAlloced(vec[v]) = 0
         /\ PPushed(vec[v]) = 0 /\ PvFreed(vec[v]) = 0
  BY <1>2, <1>3 DEF QkPopped, QkFreed, PAlloced, PPushed, PvFreed, From, Place
<1>7. /\ \A v \in Aivs : freed["qk"][v] = 0 /\ pushed["p"][v] = 0 /\ freed["pv"][v] = 0
      /\ pushed["qk"][Aic] = 0 /\ freed["p"][Aic] = 0 /\ pushed["pv"][Aic] = 0
  BY DEF Init, Fifos, Cores
<1> QED
  BY <1>1, <1>4, <1>5, <1>6, <1>7, PipelineAssumption DEF FifoInv, Counters, Flow

\* Every counter, and what each place counts, is a number.
LEMMA FifoTypes ==
  ASSUME FifoInv
  PROVE  /\ cube \in Places(CubeOps) /\ FifoSize \in Nat \ {0}
         /\ pushed["qk"][Aic] \in Nat /\ freed["p"][Aic] \in Nat
         /\ pushed["pv"][Aic] \in Nat
         /\ QkAlloced(cube) \in Nat /\ PPopped(cube) \in Nat
         /\ \A v \in Aivs :
              /\ vec[v] \in Places(VecOps)
              /\ freed["qk"][v] \in Nat /\ pushed["p"][v] \in Nat
              /\ freed["pv"][v] \in Nat
              /\ QkPopped(vec[v]) \in Nat /\ PAlloced(vec[v]) \in Nat
<1>1. cube \in Places(CubeOps) /\ \A v \in Aivs : vec[v] \in Places(VecOps)
  BY DEF FifoInv, TypeOK
<1>2. /\ pushed["qk"][Aic] \in Nat /\ freed["p"][Aic] \in Nat /\ pushed["pv"][Aic] \in Nat
      /\ \A v \in Aivs : freed["qk"][v] \in Nat /\ pushed["p"][v] \in Nat
                         /\ freed["pv"][v] \in Nat
  BY DEF FifoInv, TypeOK, Fifos, Cores
<1> QED
  BY <1>1, <1>2, CubeCountsType, VecCountsType, PipelineAssumption DEF FifoInv

LEMMA CubeFifoStep ==
  ASSUME FifoInv, CubeStep
  PROVE  FifoInv'
<1>0. TypeOK' /\ TypeOK
  BY CubeTypeStep DEF FifoInv
<1>1. CASE CubeClaim
  <2>1. cube.op = "claim" /\ HasNextJob(cube) /\ cube' = NextJob(cube, "qk")
        /\ UNCHANGED <<vec, pushed, freed>>
    BY <1>1 DEF CubeClaim, fifoVars
  <2>2. /\ InCube(cube')
        /\ QkAlloced(cube') = QkAlloced(cube) /\ QkPushed(cube') = QkPushed(cube)
        /\ PPopped(cube') = PPopped(cube) /\ PFreed(cube') = PFreed(cube)
        /\ PvPushed(cube') = PvPushed(cube)
    BY <2>1, FifoTypes, CubeClaimCounts
  <2> QED
    BY <1>0, <2>1, <2>2 DEF FifoInv, Counters, Flow
<1>2. CASE CubeAssign
  <2>1. /\ cube.op = "assign" /\ UNCHANGED <<vec, pushed, freed>>
        /\ cube' = Place(cube.job, "steady", cube.tile, 0,
                         IF HasAhead(cube) THEN "qk" ELSE "pv_load")
    BY <1>2 DEF CubeAssign, fifoVars
  <2>2. /\ InCube(cube')
        /\ QkAlloced(cube') = QkAlloced(cube) /\ QkPushed(cube') = QkPushed(cube)
        /\ PPopped(cube') = PPopped(cube) /\ PFreed(cube') = PFreed(cube)
        /\ PvPushed(cube') = PvPushed(cube)
    BY <2>1, FifoTypes, CubeAssignCounts DEF FifoInv
  <2> QED
    BY <1>0, <2>1, <2>2 DEF FifoInv, Counters, Flow
<1>3. CASE CubeQK
  <2>1. /\ cube.op = "qk" /\ cube' = AfterQK(cube) /\ UNCHANGED <<vec, freed>>
        /\ pushed' = IF LastSub(cube) THEN [pushed EXCEPT !["qk"][Aic] = @ + 1] ELSE pushed
        /\ cube.sub = 0 => \A v \in Aivs : pushed["qk"][Aic] < freed["qk"][v] + FifoSize
    BY <1>3 DEF CubeQK, CanAlloc, Consumers
  <2>2. /\ InCube(cube')
        /\ QkAlloced(cube') = IF cube.sub = 0 THEN QkPushed(cube) + 1 ELSE QkAlloced(cube)
        /\ QkPushed(cube') = QkPushed(cube) + One(LastSub(cube))
        /\ PPopped(cube') = PPopped(cube) /\ PFreed(cube') = PFreed(cube)
        /\ PvPushed(cube') = PvPushed(cube)
    BY <2>1, FifoTypes, CubeQKCounts DEF FifoInv
  <2>3. /\ pushed'["qk"][Aic] = pushed["qk"][Aic] + One(LastSub(cube))
        /\ pushed'["pv"][Aic] = pushed["pv"][Aic]
        /\ \A v \in Aivs : pushed'["p"][v] = pushed["p"][v]
    BY <1>0, <2>1 DEF TypeOK, Fifos, Cores, Aivs, Aic, One, LastSub
  <2>4. One(LastSub(cube)) \in {0, 1}
    BY DEF One
  <2>5. Counters'
    BY <2>1, <2>2, <2>3 DEF FifoInv, Counters
  <2>6. Flow'
    BY <2>1, <2>2, <2>3, <2>4, FifoTypes DEF FifoInv, Counters, Flow
  <2> QED
    BY <1>0, <2>1, <2>2, <2>5, <2>6 DEF FifoInv
<1>4. CASE CubePvLoad
  <2>1. /\ cube.op = "pv_load" /\ UNCHANGED <<vec, pushed>>
        /\ cube' = IF ~Skipped(cube.job, cube.tile, cube.sub) /\ StoresPV(cube)
                   THEN Place(cube.job, "steady", cube.tile, cube.sub, "pv_store")
                   ELSE AfterPV(cube)
        /\ freed' = IF LastSub(cube) THEN [freed EXCEPT !["p"][Aic] = @ + 1] ELSE freed
        /\ cube.sub = 0 => \A v \in Aivs : freed["p"][Aic] < pushed["p"][v]
    BY <1>4 DEF CubePvLoad, CanPop, Producers
  <2>2. /\ InCube(cube')
        /\ QkAlloced(cube') = QkAlloced(cube) /\ QkPushed(cube') = QkPushed(cube)
        /\ PPopped(cube') = IF cube.sub = 0 THEN PFreed(cube) + 1 ELSE PPopped(cube)
        /\ PFreed(cube') = PFreed(cube) + One(LastSub(cube))
        /\ PvPushed(cube') = PvPushed(cube)
    BY <2>1, FifoTypes, CubePvLoadCounts DEF FifoInv
  <2>3. /\ freed'["p"][Aic] = freed["p"][Aic] + One(LastSub(cube))
        /\ \A v \in Aivs : freed'["qk"][v] = freed["qk"][v] /\ freed'["pv"][v] = freed["pv"][v]
    BY <1>0, <2>1 DEF TypeOK, Fifos, Cores, Aivs, Aic, One, LastSub
  <2>4. One(LastSub(cube)) \in {0, 1}
    BY DEF One
  <2>5. Counters'
    BY <2>1, <2>2, <2>3 DEF FifoInv, Counters
  <2>6. Flow'
    BY <2>1, <2>2, <2>3, <2>4, FifoTypes DEF FifoInv, Counters, Flow
  <2> QED
    BY <1>0, <2>1, <2>2, <2>5, <2>6 DEF FifoInv
<1>5. CASE CubePvStore
  <2>1. /\ cube.op = "pv_store" /\ cube' = AfterPV(cube) /\ UNCHANGED <<vec, freed>>
        /\ pushed' = [pushed EXCEPT !["pv"][Aic] = @ + 1]
        /\ \A v \in Aivs : pushed["pv"][Aic] < freed["pv"][v] + FifoSize
    BY <1>5 DEF CubePvStore, CanAlloc, Consumers
  <2>2. /\ InCube(cube')
        /\ QkAlloced(cube') = QkAlloced(cube) /\ QkPushed(cube') = QkPushed(cube)
        /\ PPopped(cube') = PPopped(cube) /\ PFreed(cube') = PFreed(cube)
        /\ PvPushed(cube') = PvPushed(cube) + 1
    BY <2>1, FifoTypes, CubePvStoreCounts DEF FifoInv
  <2>3. /\ pushed'["pv"][Aic] = pushed["pv"][Aic] + 1
        /\ pushed'["qk"][Aic] = pushed["qk"][Aic]
        /\ \A v \in Aivs : pushed'["p"][v] = pushed["p"][v]
    BY <1>0, <2>1 DEF TypeOK, Fifos, Cores, Aivs, Aic
  <2>5. Counters'
    BY <2>1, <2>2, <2>3 DEF FifoInv, Counters
  <2>6. Flow'
    BY <2>1, <2>2, <2>3, FifoTypes DEF FifoInv, Counters, Flow
  <2> QED
    BY <1>0, <2>1, <2>2, <2>5, <2>6 DEF FifoInv
<1> QED
  BY <1>1, <1>2, <1>3, <1>4, <1>5 DEF CubeStep

LEMMA VecFifoStep ==
  ASSUME FifoInv, NEW v \in Aivs, VecStep(v)
  PROVE  FifoInv'
<1> DEFINE p == vec[v]
<1>0. /\ TypeOK' /\ TypeOK /\ InLoop(p) /\ p \in Places(VecOps)
  BY VecTypeStep DEF FifoInv, TypeOK
<1>1. CASE VecClaim(v)
  <2>1. /\ p.op = "claim" /\ HasNextJob(p) /\ UNCHANGED <<cube, pushed, freed>>
        /\ vec' = [vec EXCEPT ![v] = NextJob(p, "p_load")]
    BY <1>1 DEF VecClaim, fifoVars
  <2>2. /\ vec'[v] = NextJob(p, "p_load")
        /\ \A u \in Aivs : u # v => vec'[u] = vec[u]
    BY <1>0, <2>1 DEF TypeOK
  <2>3. /\ InLoop(vec'[v])
        /\ QkPopped(vec'[v]) = QkPopped(p) /\ QkFreed(vec'[v]) = QkFreed(p)
        /\ PAlloced(vec'[v]) = PAlloced(p) /\ PPushed(vec'[v]) = PPushed(p)
        /\ PvFreed(vec'[v]) = PvFreed(p)
    <3> HIDE DEF p
    <3> QED
      BY <1>0, <2>1, <2>2, VecClaimCounts
  <2> QED
    BY <1>0, <2>1, <2>2, <2>3 DEF FifoInv, Counters, Flow
<1>2. CASE VecPLoad(v)
  <2>1. /\ p.op = "p_load" /\ UNCHANGED <<cube, pushed>>
        /\ vec' = [vec EXCEPT ![v] = Place(p.job, p.phase, p.tile, p.sub, "p_store")]
        /\ freed' = IF LastSub(p) THEN [freed EXCEPT !["qk"][v] = @ + 1] ELSE freed
        /\ p.sub = 0 => freed["qk"][v] < pushed["qk"][Aic]
    BY <1>2 DEF VecPLoad, CanPop, Producers
  <2>2. /\ vec'[v] = Place(p.job, p.phase, p.tile, p.sub, "p_store")
        /\ \A u \in Aivs : u # v => vec'[u] = vec[u]
    BY <1>0, <2>1 DEF TypeOK
  <2>3. /\ InLoop(vec'[v])
        /\ QkPopped(vec'[v]) = IF p.sub = 0 THEN QkFreed(p) + 1 ELSE QkPopped(p)
        /\ QkFreed(vec'[v]) = QkFreed(p) + One(LastSub(p))
        /\ PAlloced(vec'[v]) = PAlloced(p) /\ PPushed(vec'[v]) = PPushed(p)
        /\ PvFreed(vec'[v]) = PvFreed(p)
    <3> HIDE DEF p
    <3> QED
      BY <1>0, <2>1, <2>2, VecPLoadCounts
  <2>4. /\ freed'["qk"][v] = freed["qk"][v] + One(LastSub(p))
        /\ \A u \in Aivs : u # v => freed'["qk"][u] = freed["qk"][u]
        /\ \A u \in Aivs : freed'["pv"][u] = freed["pv"][u]
        /\ freed'["p"][Aic] = freed["p"][Aic]
    BY <1>0, <2>1 DEF TypeOK, Fifos, Cores, Aivs, Aic, One, LastSub
  <2>5. One(LastSub(p)) \in {0, 1}
    BY DEF One
  <2>6. Counters'
    BY <2>1, <2>2, <2>3, <2>4 DEF FifoInv, Counters
  <2>7. Flow'
    BY <2>1, <2>2, <2>3, <2>4, <2>5, FifoTypes DEF FifoInv, Counters, Flow
  <2> QED
    BY <1>0, <2>1, <2>2, <2>3, <2>6, <2>7 DEF FifoInv
<1>3. CASE VecPStore(v)
  <2>1. /\ p.op = "p_store" /\ UNCHANGED <<cube, freed>>
        /\ vec' = [vec EXCEPT ![v] = AfterP(p)]
        /\ pushed' = IF LastSub(p) THEN [pushed EXCEPT !["p"][v] = @ + 1] ELSE pushed
        /\ p.sub = 0 => pushed["p"][v] < freed["p"][Aic] + FifoSize
    BY <1>3 DEF VecPStore, CanAlloc, Consumers
  <2>2. /\ vec'[v] = AfterP(p)
        /\ \A u \in Aivs : u # v => vec'[u] = vec[u]
    BY <1>0, <2>1 DEF TypeOK
  <2>3. /\ InLoop(vec'[v])
        /\ QkPopped(vec'[v]) = QkPopped(p) /\ QkFreed(vec'[v]) = QkFreed(p)
        /\ PAlloced(vec'[v]) = IF p.sub = 0 THEN PPushed(p) + 1 ELSE PAlloced(p)
        /\ PPushed(vec'[v]) = PPushed(p) + One(LastSub(p))
        /\ PvFreed(vec'[v]) = PvFreed(p)
    <3> HIDE DEF p
    <3> QED
      BY <1>0, <2>1, <2>2, VecPStoreCounts, AfterPInLoop
  <2>4. /\ pushed'["p"][v] = pushed["p"][v] + One(LastSub(p))
        /\ \A u \in Aivs : u # v => pushed'["p"][u] = pushed["p"][u]
        /\ pushed'["qk"][Aic] = pushed["qk"][Aic] /\ pushed'["pv"][Aic] = pushed["pv"][Aic]
    BY <1>0, <2>1 DEF TypeOK, Fifos, Cores, Aivs, Aic, One, LastSub
  <2>5. One(LastSub(p)) \in {0, 1}
    BY DEF One
  <2>6. Counters'
    BY <2>1, <2>2, <2>3, <2>4 DEF FifoInv, Counters
  <2>7. Flow'
    BY <2>1, <2>2, <2>3, <2>4, <2>5, FifoTypes DEF FifoInv, Counters, Flow
  <2> QED
    BY <1>0, <2>1, <2>2, <2>3, <2>6, <2>7 DEF FifoInv
<1>4. CASE VecUpdate(v)
  <2>1. /\ p.op = "gu" /\ UNCHANGED <<cube, pushed>>
        /\ vec' = [vec EXCEPT ![v] = VecSteadyTile(p, p.tile + 1)]
        /\ freed' = [freed EXCEPT !["pv"][v] = @ + 1]
        /\ freed["pv"][v] < pushed["pv"][Aic]
    BY <1>4 DEF VecUpdate, CanPop, Producers
  <2>2. /\ vec'[v] = VecSteadyTile(p, p.tile + 1)
        /\ \A u \in Aivs : u # v => vec'[u] = vec[u]
    BY <1>0, <2>1 DEF TypeOK
  <2>3. /\ InLoop(vec'[v])
        /\ QkPopped(vec'[v]) = QkPopped(p) /\ QkFreed(vec'[v]) = QkFreed(p)
        /\ PAlloced(vec'[v]) = PAlloced(p) /\ PPushed(vec'[v]) = PPushed(p)
        /\ PvFreed(vec'[v]) = PvFreed(p) + 1
    <3> HIDE DEF p
    <3> QED
      BY <1>0, <2>1, <2>2, VecUpdateCounts, AfterUpdateInLoop
  <2>4. /\ freed'["pv"][v] = freed["pv"][v] + 1
        /\ \A u \in Aivs : u # v => freed'["pv"][u] = freed["pv"][u]
        /\ \A u \in Aivs : freed'["qk"][u] = freed["qk"][u]
        /\ freed'["p"][Aic] = freed["p"][Aic]
    <3>1. freed \in [Fifos -> [Cores -> Nat]]
      BY <1>0 DEF TypeOK
    <3> QED
      BY <2>1, <3>1 DEF Fifos, Cores
  <2>6. Counters'
    BY <2>1, <2>2, <2>3, <2>4 DEF FifoInv, Counters
  <2>7. Flow'
    BY <2>1, <2>2, <2>3, <2>4, FifoTypes DEF FifoInv, Counters, Flow
  <2> QED
    BY <1>0, <2>1, <2>2, <2>3, <2>6, <2>7 DEF FifoInv
<1> QED
  BY <1>1, <1>2, <1>3, <1>4 DEF VecStep

LEMMA FifoStep == FifoInv /\ [Next]_vars => FifoInv'
<1>1. ASSUME FifoInv, UNCHANGED vars
      PROVE  FifoInv'
  <2>1. TypeOK' /\ UNCHANGED <<cube, vec, pushed, freed>>
    BY <1>1, TypeStep DEF FifoInv, vars, fifoVars
  <2> QED
    BY <1>1, <2>1 DEF FifoInv, Counters, Flow
<1> QED
  BY <1>1, CubeFifoStep, VecFifoStep DEF Next

-----------------------------------------------------------------------------
(* What the counters say of the pipeline.                                  *)

\* No tile of an earlier row-block is left unread in qk or p when the Cube
\* core stores scores of a row-block's warm-up.
LEMMA FifoInvConsumed == FifoInv => ConsumedBeforeNextBlock
<1> SUFFICES ASSUME FifoInv, cube.op = "qk", cube.phase = "preload"
             PROVE  /\ freed["p"][Aic] = TilesBefore[cube.job]
                    /\ \A v \in Aivs : freed["qk"][v] >= TilesBefore[cube.job]
  BY DEF ConsumedBeforeNextBlock
<1>1. cube.job \in Jobs
  BY DEF FifoInv, InCube
<1>2. TilesBefore[cube.job] \in Nat
  BY <1>1, TilesBeforeStep
<1>3. PFreed(cube) = TilesBefore[cube.job] /\ PPopped(cube) = TilesBefore[cube.job]
  BY <1>2 DEF PFreed, PPopped, From
<1>4. ASSUME NEW v \in Aivs
      PROVE  freed["qk"][v] >= TilesBefore[cube.job]
  <2>1. TilesBefore[cube.job] <= pushed["p"][v]
    BY <1>3 DEF FifoInv, Flow
  <2>2. PPushed(vec[v]) <= QkFreed(vec[v]) /\ PPushed(vec[v]) \in Nat /\ QkFreed(vec[v]) \in Nat
    BY FifoTypes, VecCountsType DEF FifoInv
  <2> QED
    BY <1>2, <2>1, <2>2 DEF FifoInv, Counters
<1> QED
  BY <1>3, <1>4 DEF FifoInv, Counters

LEMMA FifoInvDrained == FifoInv => DrainedAtReturn
<1> SUFFICES ASSUME FifoInv, AllFinished
             PROVE  \A f \in Fifos :
                      /\ \A c \in Producers(f) : pushed[f][c] = TilesBefore[Len(Work) + 1]
                      /\ \A c \in Consumers(f) : freed[f][c] = TilesBefore[Len(Work) + 1]
  BY DEF DrainedAtReturn
<1>1. Len(Work) \in Nat
  BY GeometryAssumption
<1>2. cube.op = "claim" /\ cube.job = Len(Work)
  BY <1>1, FifoTypes DEF AllFinished, Finished, HasNextJob, Places
<1>3. \A v \in Aivs : vec[v].op = "claim" /\ vec[v].job = Len(Work)
  BY <1>1, FifoTypes DEF AllFinished, Finished, HasNextJob, Places
<1> QED
  BY <1>2, <1>3
     DEF FifoInv, Counters, Producers, Consumers, Fifos, QkPushed, PFreed, PvPushed, QkFreed,
         PPushed, PvFreed, From

\* Between row-blocks nothing is drained, and nothing has to be: when the
\* Cube core stores scores of a new row-block's warm-up, every tile of the
\* row-blocks before it has been consumed, at any speed of the cores.
THEOREM QkConsumed == Spec => []ConsumedBeforeNextBlock
<1> QED
  BY FifoInit, FifoStep, FifoInvConsumed, PTL DEF Spec

\* When every core has returned, each FIFO has seen every tile once at both
\* ends: no credit is missing and no tile is left in a slot.
THEOREM FifosDrained == Spec => []DrainedAtReturn
<1> QED
  BY FifoInit, FifoStep, FifoInvDrained, PTL DEF Spec

-----------------------------------------------------------------------------
(* No circle of waiting cores.                                             *)

\* A PV partial that is ready while a later tile's scores are due ends with
\* its tile's last sub-tile: only a row-block's last tile is cut short.
LEMMA StoresEarlyOnlyLast ==
  ASSUME NEW p \in Places(CubeOps), p.op = "pv_store", InCube(p), HasAhead(p)
  PROVE  LastSub(p)
<1>1. p.job \in Jobs /\ p.op # "claim" /\ StoresPV(p)
  BY DEF InCube
<1>2. /\ p.tile \in Nat /\ p.sub \in Nat /\ p.sub <= TileFactor - 1
      /\ TileFactor \in Nat \ {0} /\ p.tile + 1 \in Nat /\ p.tile + 1 < NumTiles(p.job)
      /\ Work[p.job] \in Nat
  <2>1. /\ p.tile \in Nat /\ p.sub \in Nat /\ p.sub <= TileFactor - 1
        /\ TileFactor \in Nat \ {0} /\ QkPreload \in Nat \ {0}
        /\ NumTiles(p.job) \in Nat \ {0}
    BY <1>1, InBlock
  <2>2. p.tile + QkPreload < NumTiles(p.job)
    BY DEF HasAhead
  <2>3. Work[p.job] \in Nat
    BY <1>1, GeometryAssumption DEF Jobs
  <2> QED
    BY <2>1, <2>2, <2>3
<1>3. ~Skipped(p.job, p.tile + 1, 0)
  BY <1>1, <1>2, FirstSubKept
<1>4. SUFFICES ASSUME ~LastSub(p) PROVE FALSE
  OBVIOUS
<1>5. Skipped(p.job, p.tile, p.sub + 1) /\ p.sub + 1 <= TileFactor - 1
  BY <1>1, <1>2, <1>4 DEF StoresPV, LastSub
<1>6. (p.tile + 1) * TileFactor = p.tile * TileFactor + TileFactor /\ p.tile * TileFactor \in Nat
  BY <1>2
<1> QED
  BY <1>2, <1>3, <1>5, <1>6 DEF Skipped

\* A subblock waits in row-block w, with t of its partials summed and a of
\* its tiles' probabilities stored: for scores, for a probability slot, or
\* (its next softmax done) for a partial.
SubblockWaits(v, w, t, a) ==
  /\ t < NumTiles(w)
  /\ freed["pv"][v] = TilesBefore[w] + t
  /\ pushed["p"][v] = TilesBefore[w] + a
  /\ \/ /\ a < NumTiles(w) /\ a <= t + QkPreload
        /\ freed["qk"][v] = TilesBefore[w] + a
        /\ pushed["qk"][Aic] <= TilesBefore[w] + a
     \/ /\ a < NumTiles(w) /\ a <= t + QkPreload
        /\ freed["qk"][v] >= TilesBefore[w] + a
        /\ freed["p"][Aic] + FifoSize <= TilesBefore[w] + a
     \/ /\ a = IF t + QkPreload < NumTiles(w) THEN t + QkPreload + 1 ELSE NumTiles(w)
        /\ freed["qk"][v] = TilesBefore[w] + a
        /\ pushed["pv"][Aic] <= TilesBefore[w] + t

\* The Cube core waits in row-block w, with t of its partials and a of its
\* tiles' scores stored: for a score slot, for probabilities, or for a
\* partial's slot; v is a subblock it waits for.
CubeWaits(v, w, t, a) ==
  /\ t < NumTiles(w) /\ a <= NumTiles(w)
  /\ pushed["pv"][Aic] = TilesBefore[w] + t
  /\ pushed["qk"][Aic] = TilesBefore[w] + a
  /\ \/ /\ freed["p"][Aic] = TilesBefore[w] + t
        /\ a < NumTiles(w) /\ a <= t + QkPreload
        /\ freed["qk"][v] + FifoSize <= TilesBefore[w] + a
     \/ /\ freed["p"][Aic] = TilesBefore[w] + t
        /\ t < a
        /\ pushed["p"][v] <= TilesBefore[w] + t
     \/ /\ freed["p"][Aic] >= TilesBefore[w] + t
        /\ a = IF t + QkPreload < NumTiles(w) THEN t + QkPreload + 1 ELSE NumTiles(w)
        /\ freed["pv"][v] + FifoSize <= TilesBefore[w] + t

LEMMA VecBlocked ==
  ASSUME FifoInv, NEW v \in Aivs, ~VecCanMove(v)
  PROVE  \/ /\ Finished(vec[v])
            /\ freed["qk"][v] = TilesBefore[Len(Work) + 1]
            /\ pushed["p"][v] = TilesBefore[Len(Work) + 1]
            /\ freed["pv"][v] = TilesBefore[Len(Work) + 1]
         \/ \E w \in Jobs, t \in Nat, a \in Nat : SubblockWaits(v, w, t, a)
<1> DEFINE p == vec[v]
<1>1. /\ p \in Places(VecOps) /\ InLoop(p)
      /\ freed["qk"][v] = QkFreed(p) /\ pushed["p"][v] = PPushed(p) /\ freed["pv"][v] = PvFreed(p)
      /\ pushed["qk"][Aic] \in Nat /\ pushed["pv"][Aic] \in Nat /\ freed["p"][Aic] \in Nat
      /\ FifoSize \in Nat
  BY FifoTypes DEF FifoInv, Counters
<1>2. CASE p.op = "claim"
  <2>1. Finished(p) /\ p.job = Len(Work)
    BY <1>1, <1>2, GeometryAssumption DEF VecCanMove, Finished, HasNextJob, Places
  <2> QED
    BY <1>1, <1>2, <2>1 DEF QkFreed, PPushed, PvFreed, From
<1>3. CASE p.op # "claim"
  <2>1. p.job \in Jobs /\ p.tile < NumTiles(p.job) /\ p.phase \in {"preload", "steady"}
    BY <1>1, <1>3 DEF InLoop
  <2> DEFINE n == NumTiles(p.job)
             t == FirstNeeded(p)
             a == IF p.op = "gu" THEN Softmaxes(p) ELSE Ahead(p)
  <2>2. /\ t \in Nat /\ a \in Nat /\ t < n /\ TilesBefore[p.job] \in Nat
        /\ freed["pv"][v] = TilesBefore[p.job] + t
    BY <1>1, <1>3, <2>1, InBlock DEF InLoop, FirstNeeded, Softmaxes, Ahead, HasAhead, PvFreed, From
  <2>3. CASE p.op = "p_load"
    <3>1. p.sub = 0 /\ pushed["qk"][Aic] <= freed["qk"][v]
      BY <1>1, <1>3, <2>3, VecCountsType DEF VecCanMove, CanPop, Producers
    <3>2. a < n /\ a <= t + QkPreload /\ QkFreed(p) = TilesBefore[p.job] + a /\ PPushed(p) = TilesBefore[p.job] + a
      BY <1>1, <1>3, <2>1, <2>3, InBlock
         DEF InLoop, FirstNeeded, Ahead, HasAhead, QkFreed, PPushed, From, One
    <3> HIDE DEF a, t
    <3>3. SubblockWaits(v, p.job, t, a)
      BY <1>1, <2>2, <3>1, <3>2 DEF SubblockWaits
    <3> QED
      BY <2>1, <2>2, <3>3
  <2>4. CASE p.op = "p_store"
    <3>1. p.sub = 0 /\ freed["p"][Aic] + FifoSize <= pushed["p"][v]
      BY <1>1, <1>3, <2>4, VecCountsType DEF VecCanMove, CanAlloc, Consumers
    <3>2. a < n /\ a <= t + QkPreload /\ QkFreed(p) >= TilesBefore[p.job] + a /\ PPushed(p) = TilesBefore[p.job] + a
      BY <1>1, <1>3, <2>1, <2>4, InBlock
         DEF InLoop, FirstNeeded, Ahead, HasAhead, QkFreed, PPushed, From, One
    <3> HIDE DEF a, t
    <3>3. SubblockWaits(v, p.job, t, a)
      BY <1>1, <2>2, <3>1, <3>2 DEF SubblockWaits
    <3> QED
      BY <2>1, <2>2, <3>3
  <2>5. CASE p.op = "gu"
    <3>1. pushed["pv"][Aic] <= freed["pv"][v]
      BY <1>1, <1>3, <2>5, VecCountsType DEF VecCanMove, CanPop, Producers
    <3>2. /\ a = IF t + QkPreload < n THEN t + QkPreload + 1 ELSE n
          /\ QkFreed(p) = TilesBefore[p.job] + a
          /\ PPushed(p) = TilesBefore[p.job] + a
      BY <1>1, <1>3, <2>1, <2>5, InBlock
         DEF InLoop, FirstNeeded, Softmaxes, HasAhead, QkFreed, PPushed, From
    <3> HIDE DEF a, t
    <3>3. SubblockWaits(v, p.job, t, a)
      BY <1>1, <2>2, <3>1, <3>2 DEF SubblockWaits
    <3> QED
      BY <2>1, <2>2, <3>3
  <2> QED
    BY <1>1, <1>3, <2>3, <2>4, <2>5, PlaceParts DEF VecOps
<1> QED
  BY <1>2, <1>3

LEMMA CubeBlocked ==
  ASSUME FifoInv, ~CubeCanMove
  PROVE  \/ /\ Finished(cube)
            /\ pushed["qk"][Aic] = TilesBefore[Len(Work) + 1]
            /\ freed["p"][Aic] = TilesBefore[Len(Work) + 1]
            /\ pushed["pv"][Aic] = TilesBefore[Len(Work) + 1]
         \/ \E v \in Aivs, w \in Jobs, t \in Nat, a \in Nat : CubeWaits(v, w, t, a)
<1> DEFINE p == cube
<1>1. /\ p \in Places(CubeOps) /\ InCube(p)
      /\ pushed["qk"][Aic] = QkPushed(p) /\ freed["p"][Aic] = PFreed(p) /\ pushed["pv"][Aic] = PvPushed(p)
      /\ \A v \in Aivs : freed["qk"][v] \in Nat /\ pushed["p"][v] \in Nat /\ freed["pv"][v] \in Nat
      /\ FifoSize \in Nat
  BY FifoTypes DEF FifoInv, Counters
<1>2. CASE p.op = "claim"
  <2>1. Finished(p) /\ p.job = Len(Work)
    BY <1>1, <1>2, GeometryAssumption DEF CubeCanMove, Finished, HasNextJob, Places
  <2> QED
    BY <1>1, <1>2, <2>1 DEF QkPushed, PFreed, PvPushed, From
<1>3. CASE p.op # "claim"
  <2>1. p.job \in Jobs /\ p.tile < NumTiles(p.job) /\ p.phase \in {"preload", "steady"}
    BY <1>1, <1>3 DEF InCube
  <2> DEFINE n == NumTiles(p.job)
             t == IF p.phase = "steady" THEN p.tile ELSE 0
             a == QkPushed(p) - TilesBefore[p.job]
  <2>2. ~Skipped(p.job, p.tile, 0)
    BY <1>1, <1>3, <2>1, FirstSubKept, InBlock
  <2>3. t \in Nat /\ n \in Nat /\ t < n /\ TilesBefore[p.job] \in Nat
    BY <1>1, <1>3, <2>1, InBlock
  <2>4. CASE p.op = "qk"
    <3>1. PICK v \in Aivs : p.sub = 0 /\ freed["qk"][v] + FifoSize <= pushed["qk"][Aic]
      BY <1>1, <1>3, <2>4, CubeCountsType DEF CubeCanMove, CanAlloc, Consumers
    <3>2. /\ a \in Nat /\ a < n /\ a <= t + QkPreload
          /\ PFreed(p) = TilesBefore[p.job] + t /\ PvPushed(p) = TilesBefore[p.job] + t
          /\ QkPushed(p) = TilesBefore[p.job] + a
      <4>1. CASE p.phase = "preload"
        BY <1>1, <1>3, <2>1, <2>4, <3>1, <4>1, InBlock
           DEF InCube, QkPushed, PFreed, PvPushed, From, One, QkWorks, QkSubs, Ahead
      <4>2. CASE p.phase = "steady"
        BY <1>1, <1>3, <2>1, <2>2, <2>4, <3>1, <4>2, InBlock
           DEF InCube, QkPushed, PFreed, PvPushed, From, One, QkWorks, QkSubs, Ahead, HasAhead
      <4> QED
        BY <2>1, <4>1, <4>2
    <3> HIDE DEF a, t
    <3>3. CubeWaits(v, p.job, t, a)
      BY <1>1, <2>1, <2>3, <3>1, <3>2 DEF CubeWaits
    <3> QED
      BY <2>1, <2>3, <3>2, <3>3
  <2>5. CASE p.op = "pv_load"
    <3>1. PICK v \in Aivs : p.sub = 0 /\ pushed["p"][v] <= freed["p"][Aic]
      BY <1>1, <1>3, <2>5, CubeCountsType DEF CubeCanMove, CanPop, Producers
    <3>2. /\ a \in Nat /\ a <= n /\ t < a
          /\ PFreed(p) = TilesBefore[p.job] + t /\ PvPushed(p) = TilesBefore[p.job] + t
          /\ QkPushed(p) = TilesBefore[p.job] + a
      <4>1. p.phase = "steady"
        BY <1>1, <1>3, <2>1, <2>5 DEF InCube
      <4> QED
        BY <1>1, <1>3, <2>1, <2>2, <2>5, <3>1, <4>1, InBlock
           DEF InCube, QkPushed, PFreed, PvPushed, From, One, QkWorks, QkSubs, Ahead, HasAhead
    <3> HIDE DEF a, t
    <3>3. CubeWaits(v, p.job, t, a)
      BY <1>1, <2>1, <2>3, <3>1, <3>2 DEF CubeWaits
    <3> QED
      BY <2>1, <2>3, <3>2, <3>3
  <2>6. CASE p.op = "pv_store"
    <3>1. PICK v \in Aivs : freed["pv"][v] + FifoSize <= pushed["pv"][Aic]
      BY <1>1, <1>3, <2>6, CubeCountsType DEF CubeCanMove, CanAlloc, Consumers
    <3>2. /\ a \in Nat /\ a <= n
          /\ a = IF t + QkPreload < n THEN t + QkPreload + 1 ELSE n
          /\ PFreed(p) >= TilesBefore[p.job] + t /\ PvPushed(p) = TilesBefore[p.job] + t
          /\ QkPushed(p) = TilesBefore[p.job] + a
      <4>1. p.phase = "steady"
        BY <1>1, <1>3, <2>1, <2>6 DEF InCube
      <4>2. HasAhead(p) => LastSub(p)
        BY <1>1, <2>6, StoresEarlyOnlyLast
      <4> QED
        BY <1>1, <1>3, <2>1, <2>6, <4>1, <4>2, InBlock
           DEF InCube, QkPushed, PFreed, PvPushed, From, One, QkWorks, QkSubs, Ahead, HasAhead,
               LastSub
    <3> HIDE DEF a, t
    <3>3. CubeWaits(v, p.job, t, a)
      BY <1>1, <2>1, <2>3, <3>1, <3>2 DEF CubeWaits
    <3> QED
      BY <2>1, <2>3, <3>2, <3>3
  <2>7. p.op # "assign"
    BY <1>3 DEF CubeCanMove
  <2> QED
    BY <1>1, <1>3, <2>4, <2>5, <2>6, <2>7, PlaceParts DEF CubeOps
<1> QED
  BY <1>2, <1>3

\* The Cube core and a subblock never wait at once: whichever is behind has
\* what it waits for, if the warm-up fits in the two FIFOs it fills.
LEMMA NotBothWait ==
  ASSUME QkPreload < 2 * FifoSize, FifoInv,
         NEW v \in Aivs, NEW w \in Jobs, NEW t \in Nat, NEW a \in Nat, CubeWaits(v, w, t, a),
         NEW x \in Jobs, NEW u \in Nat, NEW b \in Nat, SubblockWaits(v, x, u, b)
  PROVE  FALSE
<1>1. /\ NumTiles(w) \in Nat /\ NumTiles(x) \in Nat
      /\ TilesBefore[w] \in Nat /\ TilesBefore[x] \in Nat
      /\ FifoSize \in Nat \ {0} /\ QkPreload \in Nat \ {0}
      /\ freed["qk"][v] \in Nat /\ pushed["p"][v] \in Nat /\ freed["p"][Aic] \in Nat
      /\ TilesBefore[w + 1] = TilesBefore[w] + NumTiles(w)
      /\ TilesBefore[x + 1] = TilesBefore[x] + NumTiles(x)
  BY FifoTypes, TilesBeforeStep, PipelineAssumption DEF FifoInv
<1>2. t < NumTiles(w) /\ u < NumTiles(x) /\ a <= NumTiles(w)
  BY DEF CubeWaits, SubblockWaits
<1> DEFINE g == TilesBefore[w]
           h == TilesBefore[x]
<1>3. h + u <= g + t
  BY DEF FifoInv, Flow, CubeWaits, SubblockWaits
\* The subblock does not wait for scores of a row-block ahead of the Cube's.
<1>4. g + t <= h + u => x = w /\ t = u
  <2>1. SUFFICES ASSUME g + t <= h + u PROVE x = w /\ t = u
    OBVIOUS
  <2>2. g + t = h + u
    BY <1>1, <1>3, <2>1
  <2>3. x = w
    BY <1>1, <1>2, <2>2, TileOfJob
  <2> QED
    BY <1>1, <2>2, <2>3
<1>5. g + NumTiles(w) <= h + b /\ b < NumTiles(x) => g + NumTiles(w) <= h
  <2>1. SUFFICES ASSUME g + NumTiles(w) <= h + b, b < NumTiles(x), ~(g + NumTiles(w) <= h)
                 PROVE  FALSE
    OBVIOUS
  <2>2. w \in 1 .. Len(Work) /\ x \in 1 .. Len(Work) /\ Len(Work) \in Nat
    BY GeometryAssumption DEF Jobs
  <2>3. CASE w < x
    <3>1. w + 1 \in 1 .. Len(Work) + 1 /\ x \in 1 .. Len(Work) + 1 /\ w + 1 <= x
      BY <2>2, <2>3
    <3>2. TilesBefore[w + 1] <= TilesBefore[x]
      BY <3>1, TilesBeforeGrows
    <3> DEFINE n == NumTiles(w)
    <3>3. g + n <= h /\ ~(g + n <= h)
      BY <1>1, <2>1, <3>2
    <3> QED
      BY <3>3
  <2>4. CASE x <= w
    <3>0. w + 1 \in 1 .. Len(Work) + 1 /\ x + 1 \in 1 .. Len(Work) + 1 /\ x + 1 <= w + 1
      BY <2>2, <2>4
    <3>1. TilesBefore[x + 1] <= TilesBefore[w + 1]
      BY <3>0, TilesBeforeGrows
    <3> DEFINE n == NumTiles(w)
               m == NumTiles(x)
    <3>2. g + n <= h + b /\ b < m
      BY <2>1
    <3>3. g \in Nat /\ h \in Nat /\ n \in Nat /\ m \in Nat
      BY <1>1
    <3>4. h + m <= g + n
      BY <1>1, <3>1
    <3> HIDE DEF g, h, n, m
    <3> QED
      BY <3>2, <3>3, <3>4
  <2> QED
    BY <2>2, <2>3, <2>4
<1> HIDE DEF g, h
<1>6. /\ pushed["pv"][Aic] = g + t /\ pushed["qk"][Aic] = g + a
      /\ freed["pv"][v] = h + u /\ pushed["p"][v] = h + b /\ g \in Nat /\ h \in Nat
      /\ freed["p"][Aic] >= g + t
  BY <1>1 DEF CubeWaits, SubblockWaits, g, h
\* The Cube core waits for a score slot.
<1>7. CASE /\ freed["p"][Aic] = g + t /\ a < NumTiles(w) /\ a <= t + QkPreload
           /\ freed["qk"][v] + FifoSize <= g + a
  <2>1. CASE freed["qk"][v] = h + b /\ g + a <= h + b
    BY <1>1, <1>6, <1>7, <2>1
  <2>2. CASE freed["qk"][v] >= h + b /\ freed["p"][Aic] + FifoSize <= h + b
    BY <1>1, <1>6, <1>7, <2>2
  <2>3. CASE /\ b = IF u + QkPreload < NumTiles(x) THEN u + QkPreload + 1 ELSE NumTiles(x)
             /\ freed["qk"][v] = h + b /\ g + t <= h + u
    <3>1. x = w /\ t = u /\ h = g
      BY <1>4, <2>3 DEF g, h
    <3> QED
      BY <1>1, <1>6, <1>7, <2>3, <3>1
  <2> QED
    BY <1>6, <2>1, <2>2, <2>3 DEF SubblockWaits, g, h
\* It waits for probabilities.
<1>8. CASE freed["p"][Aic] = g + t /\ t < a /\ h + b <= g + t
  <2>1. CASE freed["qk"][v] = h + b /\ g + a <= h + b
    BY <1>1, <1>6, <1>8, <2>1
  <2>2. CASE freed["qk"][v] >= h + b /\ freed["p"][Aic] + FifoSize <= h + b
    BY <1>1, <1>6, <1>8, <2>2
  <2>3. CASE /\ b = IF u + QkPreload < NumTiles(x) THEN u + QkPreload + 1 ELSE NumTiles(x)
             /\ freed["qk"][v] = h + b /\ g + t <= h + u
    <3>1. u < b
      BY <1>1, <1>2, <2>3
    <3> QED
      BY <1>1, <1>6, <1>8, <2>3, <3>1
  <2> QED
    BY <1>6, <2>1, <2>2, <2>3 DEF SubblockWaits, g, h
\* It waits for a partial's slot.
<1>9. CASE /\ a = IF t + QkPreload < NumTiles(w) THEN t + QkPreload + 1 ELSE NumTiles(w)
           /\ h + u + FifoSize <= g + t
  <2>1. CASE b < NumTiles(x) /\ b <= u + QkPreload /\ g + a <= h + b
    <3>1. CASE t + QkPreload < NumTiles(w)
      BY <1>1, <1>9, <2>1, <3>1, <1>6
    <3>2. CASE ~(t + QkPreload < NumTiles(w))
      <4>1. g + NumTiles(w) <= h
        BY <1>5, <1>9, <2>1, <3>2 DEF g, h
      <4> QED
        BY <1>1, <1>2, <1>6, <1>9, <4>1
    <3> QED
      BY <3>1, <3>2
  <2>2. CASE b <= u + QkPreload /\ freed["p"][Aic] + FifoSize <= h + b
    BY <1>1, <1>6, <1>9, <2>2
  <2>3. CASE g + t <= h + u
    BY <1>1, <1>6, <1>9, <2>3
  <2> QED
    BY <1>6, <2>1, <2>2, <2>3 DEF SubblockWaits, g, h
<1> QED
  BY <1>6, <1>7, <1>8, <1>9 DEF CubeWaits, g, h

LEMMA FifoInvNeverStuck ==
  ASSUME QkPreload < 2 * FifoSize, FifoInv
  PROVE  NeverStuck
<1> DEFINE total == TilesBefore[Len(Work) + 1]
<1>1. SUFFICES ASSUME ~CubeCanMove, \A v \in Aivs : ~VecCanMove(v)
               PROVE  AllFinished
  BY DEF NeverStuck
<1>2. FifoSize \in Nat \ {0} /\ total \in Nat
  BY PipelineAssumption, TilesBeforeCounts, GeometryAssumption DEF CountsTiles
<1>3. ASSUME NEW w \in Jobs
      PROVE  /\ TilesBefore[w] \in Nat /\ NumTiles(w) \in Nat
             /\ TilesBefore[w] + NumTiles(w) <= total
  <2>1. w + 1 \in 1 .. Len(Work) + 1 /\ Len(Work) + 1 \in 1 .. Len(Work) + 1 /\ w + 1 <= Len(Work) + 1
    BY GeometryAssumption DEF Jobs
  <2> QED
    BY <2>1, TilesBeforeStep, TilesBeforeGrows
<1> HIDE DEF total
<1>4. ASSUME NEW v \in Aivs, Finished(cube), NEW x \in Jobs, NEW u \in Nat, NEW b \in Nat,
             SubblockWaits(v, x, u, b),
             pushed["qk"][Aic] = total, freed["p"][Aic] = total, pushed["pv"][Aic] = total
      PROVE  FALSE
  BY <1>2, <1>3, <1>4 DEF SubblockWaits
<1>5. ASSUME NEW v \in Aivs, NEW w \in Jobs, NEW t \in Nat, NEW a \in Nat, CubeWaits(v, w, t, a),
             freed["qk"][v] = total, pushed["p"][v] = total, freed["pv"][v] = total
      PROVE  FALSE
  BY <1>2, <1>3, <1>5 DEF CubeWaits
<1>6. ASSUME NEW v \in Aivs
      PROVE  \/ /\ Finished(vec[v])
                /\ freed["qk"][v] = total /\ pushed["p"][v] = total /\ freed["pv"][v] = total
             \/ \E x \in Jobs, u \in Nat, b \in Nat : SubblockWaits(v, x, u, b)
  BY <1>1, VecBlocked DEF total
<1>7. CASE \E v \in Aivs, w \in Jobs, t \in Nat, a \in Nat : CubeWaits(v, w, t, a)
  BY <1>5, <1>6, <1>7, NotBothWait
<1>8. CASE /\ Finished(cube)
           /\ pushed["qk"][Aic] = total /\ freed["p"][Aic] = total /\ pushed["pv"][Aic] = total
  BY <1>4, <1>6, <1>8 DEF AllFinished
<1> QED
  BY <1>1, <1>7, <1>8, CubeBlocked DEF total

\* With any warm-up the two FIFOs it fills can hold (the host admits only
\* qk_preload <= CV_FIFO_SIZE) the cores never all wait for one another.
THEOREM NoDeadlock ==
  ASSUME QkPreload < 2 * FifoSize
  PROVE  Spec => []NeverStuck
<1> QED
  BY FifoInit, FifoStep, FifoInvNeverStuck, PTL DEF Spec
=============================================================================
