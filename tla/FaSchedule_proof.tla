-------------------------- MODULE FaSchedule_proof --------------------------
(***************************************************************************)
(* Proofs about the deal of row-blocks in FaSchedule, for every number of  *)
(* problems, row-blocks, tiles, cores and units.                           *)
(***************************************************************************)
EXTENDS FaSchedule, TLAPS

\* Core b is the first of the least loaded among cores 0 .. n - 1.
Least(load, b, n) ==
  \A x \in 0 .. n - 1 : load[b] <= load[x] /\ (x < b => load[b] < load[x])

\* The loads once row-block k is booked on core b.
Book(load, b, k) == [x \in Blocks |-> load[x] + (IF x = b THEN SchedWeight(k) ELSE 0)]

\* The inner loop's invariant.
ScanOK ==
  \A r \in Runners : best[r] < scan[r] /\ Least(coreLoad[r][item[r]], best[r], scan[r])

\* How a runner of core own, with these loads and these claims, dealt out row-block k.
Dealt(loads, claims, own, k) ==
  \E b \in Blocks :
    /\ Least(loads[k], b, NumCores)
    /\ loads[k + 1] = Book(loads[k], b, k)
    /\ k \in claims <=> b = own

HistoryOK ==
  \A r \in Runners :
    /\ coreLoad[r][0] = [x \in Blocks |-> 0]
    /\ claimed[r] \subseteq 0 .. item[r] - 1
    /\ \A k \in 0 .. item[r] - 1 : Dealt(coreLoad[r], claimed[r], BlockIdx(r), k)

\* Two runners that have dealt out k row-blocks hold the same loads.
Agree ==
  \A r, s \in Runners : \A k \in Nat :
    (k <= item[r] /\ k <= item[s]) => coreLoad[r][k] = coreLoad[s][k]

IInv == TypeOK /\ ScanOK /\ HistoryOK /\ Agree /\ LoadsBalanced

-----------------------------------------------------------------------------
\* There is a core, and row-blocks weigh no more than a full sweep.
LEMMA Constants ==
  /\ TotalRowBlocks \in Nat \ {0} /\ NumCores \in Nat \ {0} /\ NumCores <= TotalRowBlocks
  /\ 0 \in Blocks
<1>1. TotalRowBlocks \in Nat \ {0}
  <2>1. \A m, n \in Nat \ {0} : m * n \in Nat \ {0}
    BY SMT
  <2> QED BY <2>1, ScheduleAssumption DEF TotalRowBlocks
<1>2. NumCores \in Nat \ {0} /\ NumCores <= TotalRowBlocks
  BY <1>1, ScheduleAssumption DEF NumCores
<1> QED BY <1>1, <1>2 DEF Blocks

\* Dividing a number cannot make it negative.
LEMMA Quotient == ASSUME NEW m \in Nat, NEW d \in Nat \ {0} PROVE m \div d \in Nat
  BY SMT

LEMMA Weights ==
  ASSUME NEW k \in Nat
  PROVE  SchedWeight(k) \in Nat \ {0} /\ SchedWeight(k) <= FullTiles + kSchedFixed
<1>1. k % BlockRows \in 0 .. BlockRows - 1
  BY ScheduleAssumption
<1>2. LogicalBlock(k) \in Nat
  BY <1>1, ScheduleAssumption DEF LogicalBlock
<1>3. LogicalBlock(k) \div TileFactor \in Nat
  BY <1>2, Quotient, ScheduleAssumption
<1>4. BlkWeight(k) \in Nat /\ BlkWeight(k) <= FullTiles
  <2> DEFINE q == LogicalBlock(k) \div TileFactor
  <2>1. q \in Nat
    BY <1>3
  <2>2. BlkWeight(k) = IF Causal /\ 1 + q < FullTiles THEN 1 + q ELSE FullTiles
    BY DEF BlkWeight
  <2> HIDE DEF q
  <2> QED BY <2>1, <2>2, ScheduleAssumption
<1> QED BY <1>4, ScheduleAssumption DEF SchedWeight, kSchedFixed

\* The first least loaded core is one.
LEMMA LeastUnique ==
  ASSUME NEW load \in [Blocks -> Nat], NEW a \in Blocks, NEW b \in Blocks,
         Least(load, a, NumCores), Least(load, b, NumCores)
  PROVE  a = b
  BY Constants DEF Least, Blocks

\* Looking at one more core keeps the best one best.
LEMMA ScanLeast ==
  ASSUME NEW load \in [Blocks -> Nat], NEW b \in Blocks, NEW c \in Blocks,
         b < c, Least(load, b, c)
  PROVE  LET nb == IF load[c] < load[b] THEN c ELSE b
         IN nb < c + 1 /\ Least(load, nb, c + 1)
  BY Constants DEF Least, Blocks

\* Booking a row-block on a least loaded core keeps the loads close together.
LEMMA BookBalances ==
  ASSUME NEW load \in [Blocks -> Nat], NEW b \in Blocks, NEW k \in Nat,
         Least(load, b, NumCores),
         \A x, y \in Blocks : load[x] - load[y] <= FullTiles + kSchedFixed
  PROVE  /\ Book(load, b, k) \in [Blocks -> Nat]
         /\ \A x, y \in Blocks :
              Book(load, b, k)[x] - Book(load, b, k)[y] <= FullTiles + kSchedFixed
<1> DEFINE w == SchedWeight(k)
           m == FullTiles + kSchedFixed
<1>1. w \in Nat /\ m \in Nat /\ w <= m
  BY Weights, ScheduleAssumption DEF kSchedFixed
<1>2. \A x \in Blocks : load[b] <= load[x]
  BY Constants DEF Least, Blocks
<1>3. \A x, y \in Blocks : load[x] - load[y] <= m
  OBVIOUS
<1> HIDE DEF w, m
<1>4. \A x, y \in Blocks :
        (load[x] + (IF x = b THEN w ELSE 0)) - (load[y] + (IF y = b THEN w ELSE 0)) <= m
  BY <1>1, <1>2, <1>3
<1>5. \A x \in Blocks : load[x] + (IF x = b THEN w ELSE 0) \in Nat
  BY <1>1
<1> USE DEF w, m
<1> QED BY <1>4, <1>5 DEF Book

-----------------------------------------------------------------------------
LEMMA InitIInv == Init => IInv
<1> SUFFICES ASSUME Init PROVE IInv
  OBVIOUS
<1> USE Constants
<1>1. \A r \in Runners : coreLoad[r] = [k \in {0} |-> [x \in Blocks |-> 0]]
                         /\ item[r] = 0 /\ claimed[r] = {} /\ best[r] = 0 /\ scan[r] = 1
  BY DEF Init, FirstBest
<1>2. TypeOK
  <2>1. \A r \in Runners : coreLoad[r] \in [0 .. item[r] -> [Blocks -> Nat]]
    <3>1. [k \in {0} |-> [x \in Blocks |-> 0]] \in [{0} -> [Blocks -> Nat]]
      OBVIOUS
    <3>2. \A r \in Runners : 0 .. item[r] = {0}
      BY <1>1
    <3> QED BY <1>1, <3>1, <3>2, Zenon
  <2> QED BY <2>1 DEF Init, TypeOK, FirstBest
<1>3. ScanOK
  BY <1>1 DEF ScanOK, Least
<1>4. HistoryOK
  BY <1>1 DEF HistoryOK
<1>5. Agree
  BY <1>1 DEF Agree
<1>6. LoadsBalanced
  BY <1>1, ScheduleAssumption DEF LoadsBalanced, kSchedFixed
<1> QED BY <1>2, <1>3, <1>4, <1>5, <1>6 DEF IInv

\* A round of the inner loop.
LEMMA ScanStep ==
  ASSUME IInv, NEW r \in Runners, Scan(r)
  PROVE  IInv'
<1> USE Constants
<1>0. UNCHANGED <<item, coreLoad, claimed>>
  BY DEF Scan
<1>1. scan[r] \in 1 .. NumCores /\ scan[r] < NumCores /\ scan[r] \in Blocks /\ best[r] \in Blocks
  BY DEF IInv, TypeOK, Scan, Blocks
<1>2. TypeOK'
  <2>1. best' \in [Runners -> Blocks] /\ scan' \in [Runners -> 1 .. NumCores]
    BY <1>1 DEF IInv, TypeOK, Scan
  <2> QED BY <2>1, <1>0 DEF IInv, TypeOK
<1>3. ScanOK'
  <2> SUFFICES ASSUME NEW s \in Runners
               PROVE  best'[s] < scan'[s] /\ Least(coreLoad[s][item[s]], best'[s], scan'[s])
    BY <1>0 DEF ScanOK
  <2> DEFINE load == coreLoad[s][item[s]]
  <2>1. load \in [Blocks -> Nat]
    BY DEF IInv, TypeOK
  <2>2. best[s] < scan[s] /\ Least(load, best[s], scan[s])
    BY DEF IInv, ScanOK
  <2>3. CASE s # r
    BY <2>2, <2>3 DEF Scan, IInv, TypeOK
  <2>4. CASE s = r
    <3>1. /\ best'[s] = (IF load[scan[s]] < load[best[s]] THEN scan[s] ELSE best[s])
          /\ scan'[s] = scan[s] + 1
      BY <2>4 DEF Scan, IInv, TypeOK, Lighter
    <3>2. scan[s] \in Blocks /\ best[s] \in Blocks
      BY <1>1, <2>4
    <3> QED BY ScanLeast, <2>1, <2>2, <3>1, <3>2
  <2> QED BY <2>3, <2>4
<1>4. HistoryOK'
  BY <1>0 DEF IInv, HistoryOK
<1>5. Agree'
  BY <1>0 DEF IInv, Agree
<1>6. LoadsBalanced'
  BY <1>0 DEF IInv, LoadsBalanced
<1> QED BY <1>2, <1>3, <1>4, <1>5, <1>6 DEF IInv

\* A row-block is dealt out.
LEMMA DealStep ==
  ASSUME IInv, NEW r \in Runners, Deal(r)
  PROVE  IInv'
<1> DEFINE k == item[r]
           load == coreLoad[r][k]
           b == best[r]
<1> USE Constants
<1>1. k \in 0 .. TotalRowBlocks - 1 /\ k \in Nat /\ k + 1 \in 0 .. TotalRowBlocks
  BY DEF IInv, TypeOK, Deal
<1>2. load \in [Blocks -> Nat] /\ b \in Blocks
  BY <1>1 DEF IInv, TypeOK
<1>3. Least(load, b, NumCores)
  <2>1. scan[r] = NumCores
    BY DEF IInv, TypeOK, Deal
  <2> QED BY <2>1 DEF IInv, ScanOK
<1>4. /\ Book(load, b, k) \in [Blocks -> Nat]
      /\ \A x, y \in Blocks :
           Book(load, b, k)[x] - Book(load, b, k)[y] <= FullTiles + kSchedFixed
  <2>1. \A x, y \in Blocks : load[x] - load[y] <= FullTiles + kSchedFixed
    BY DEF IInv, LoadsBalanced
  <2> QED BY <1>1, <1>2, <1>3, <2>1, BookBalances
\* The step, runner by runner.
<1>5. /\ item' = [item EXCEPT ![r] = k + 1]
      /\ scan' = [scan EXCEPT ![r] = 1]
      /\ best' = [best EXCEPT ![r] = 0]
      /\ claimed' = [claimed EXCEPT ![r] =
                       IF b = BlockIdx(r) THEN claimed[r] \cup {k} ELSE claimed[r]]
  BY DEF Deal, FirstBest
<1>6. /\ item'[r] = k + 1 /\ scan'[r] = 1 /\ best'[r] = 0
      /\ claimed'[r] = IF b = BlockIdx(r) THEN claimed[r] \cup {k} ELSE claimed[r]
  BY <1>5 DEF IInv, TypeOK
<1>7. coreLoad'[r] = [j \in 0 .. k + 1 |->
                        IF j <= k THEN coreLoad[r][j] ELSE Book(load, b, k)]
  <2>1. r \in DOMAIN coreLoad
    BY DEF IInv, TypeOK
  <2> QED BY <2>1 DEF Deal, Book
<1>8. \A s \in Runners : s # r =>
        /\ item'[s] = item[s] /\ scan'[s] = scan[s] /\ best'[s] = best[s]
        /\ claimed'[s] = claimed[s] /\ coreLoad'[s] = coreLoad[s]
  <2>1. \A s \in Runners : s # r => coreLoad'[s] = coreLoad[s]
    BY DEF Deal, IInv, TypeOK
  <2> QED BY <1>5, <2>1 DEF IInv, TypeOK
<1>9. /\ DOMAIN coreLoad' = Runners
      /\ coreLoad'[r] \in [0 .. k + 1 -> [Blocks -> Nat]]
      /\ coreLoad'[r][k + 1] = Book(load, b, k)
      /\ \A j \in 0 .. k : coreLoad'[r][j] = coreLoad[r][j]
  <2>1. \A j \in 0 .. k : coreLoad[r][j] \in [Blocks -> Nat]
    BY DEF IInv, TypeOK
  <2>2. DOMAIN coreLoad' = Runners
    BY DEF Deal, IInv, TypeOK
  <2>3. \A j \in 0 .. k + 1 : j <= k => j \in 0 .. k
    BY <1>1
  <2> HIDE DEF k, load, b
  <2>4. coreLoad'[r] \in [0 .. k + 1 -> [Blocks -> Nat]]
    BY <1>1, <1>4, <1>7, <2>1, <2>3
  <2>5. coreLoad'[r][k + 1] = Book(load, b, k)
    BY <1>1, <1>7
  <2>6. \A j \in 0 .. k : coreLoad'[r][j] = coreLoad[r][j]
    BY <1>1, <1>7
  <2> QED BY <2>2, <2>4, <2>5, <2>6
<1> HIDE DEF k, load, b
<1>10. k = item[r] /\ load = coreLoad[r][k] /\ b = best[r]
  BY DEF k, load, b
<1>11. TypeOK'
  <2>1. item' \in [Runners -> 0 .. TotalRowBlocks] /\ scan' \in [Runners -> 1 .. NumCores]
        /\ best' \in [Runners -> Blocks]
    BY <1>1, <1>5 DEF IInv, TypeOK
  <2>2. claimed' \in [Runners -> SUBSET (0 .. TotalRowBlocks - 1)]
    BY <1>1, <1>5 DEF IInv, TypeOK
  <2>3. \A s \in Runners : coreLoad'[s] \in [0 .. item'[s] -> [Blocks -> Nat]]
    BY <1>6, <1>8, <1>9 DEF IInv, TypeOK
  <2> QED BY <1>9, <2>1, <2>2, <2>3 DEF TypeOK
<1>12. ScanOK'
  <2>1. ASSUME NEW s \in Runners
        PROVE  best'[s] < scan'[s] /\ Least(coreLoad'[s][item'[s]], best'[s], scan'[s])
    <3>1. CASE s = r
      <4> DEFINE new == Book(load, b, k)
      <4>1. new \in [Blocks -> Nat] /\ coreLoad'[r][item'[r]] = new
        BY <1>4, <1>6, <1>9
      <4> HIDE DEF new
      <4>2. Least(new, 0, 1)
        BY <4>1 DEF Least
      <4> QED BY <1>6, <3>1, <4>1, <4>2
    <3>2. CASE s # r
      BY <1>8, <3>2 DEF IInv, ScanOK
    <3> QED BY <3>1, <3>2
  <2> QED BY <2>1 DEF ScanOK
<1>13. HistoryOK'
  <2>1. ASSUME NEW s \in Runners
        PROVE  /\ coreLoad'[s][0] = [x \in Blocks |-> 0]
               /\ claimed'[s] \subseteq 0 .. item'[s] - 1
               /\ \A j \in 0 .. item'[s] - 1 : Dealt(coreLoad'[s], claimed'[s], BlockIdx(s), j)
    <3>1. CASE s # r
      BY <1>8, <3>1 DEF IInv, HistoryOK
    <3>2. CASE s = r
      <4>1. coreLoad'[r][0] = [x \in Blocks |-> 0] /\ claimed'[r] \subseteq 0 .. k
        BY <1>1, <1>6, <1>9, <1>10 DEF IInv, HistoryOK
      <4>2. Dealt(coreLoad'[r], claimed'[r], BlockIdx(r), k)
        <5>1. k \in claimed'[r] <=> b = BlockIdx(r)
          BY <1>1, <1>6, <1>10 DEF IInv, HistoryOK
        <5>2. coreLoad'[r][k] = load /\ coreLoad'[r][k + 1] = Book(load, b, k)
          BY <1>1, <1>9, <1>10
        <5> QED BY <1>2, <1>3, <5>1, <5>2, Zenon DEF Dealt
      <4>3. ASSUME NEW j \in 0 .. k - 1
            PROVE  Dealt(coreLoad'[r], claimed'[r], BlockIdx(r), j)
        <5>1. Dealt(coreLoad[r], claimed[r], BlockIdx(r), j)
          BY <1>10 DEF IInv, HistoryOK
        <5>2. coreLoad'[r][j] = coreLoad[r][j] /\ coreLoad'[r][j + 1] = coreLoad[r][j + 1]
          BY <1>1, <1>9
        <5>3. j \in claimed'[r] <=> j \in claimed[r]
          BY <1>1, <1>6
        <5> QED BY <5>1, <5>2, <5>3, Zenon DEF Dealt
      <4>4. \A j \in 0 .. item'[r] - 1 : j = k \/ j \in 0 .. k - 1
        BY <1>1, <1>6
      <4>5. item'[r] - 1 = k
        BY <1>1, <1>6
      <4>6. \A j \in 0 .. item'[r] - 1 : Dealt(coreLoad'[r], claimed'[r], BlockIdx(r), j)
        BY <4>2, <4>3, <4>4
      <4> QED BY <3>2, <4>1, <4>5, <4>6
    <3> QED BY <3>1, <3>2
  <2> QED BY <2>1 DEF HistoryOK
<1>14. Agree'
  <2>1. ASSUME NEW s \in Runners, NEW t \in Runners, NEW j \in Nat,
               j <= item'[s], j <= item'[t]
        PROVE  coreLoad'[s][j] = coreLoad'[t][j]
    <3>1. ASSUME NEW u \in Runners, j <= item'[u], j <= k
          PROVE  j <= item[u] /\ coreLoad'[u][j] = coreLoad[u][j]
      BY <1>1, <1>6, <1>8, <1>9, <1>10, <3>1
    <3>2. CASE j <= k
      BY <2>1, <3>1, <3>2 DEF IInv, Agree
    <3>3. ASSUME NEW u \in Runners, u # r, ~(j <= k), j <= item'[u], j <= item'[r]
          PROVE  coreLoad'[u][j] = coreLoad'[r][j]
      <4>1. j = k + 1 /\ k < item[u]
        <5>1. item[u] \in Nat /\ item'[u] = item[u]
          BY <1>8, <3>3 DEF IInv, TypeOK
        <5> QED BY <1>1, <1>6, <3>3, <5>1
      <4>2. item[u] \in Nat /\ k \in 0 .. item[u] - 1
        BY <1>1, <4>1 DEF IInv, TypeOK
      <4>3. coreLoad[u][k] = load
        BY <1>1, <1>10, <4>2 DEF IInv, Agree
      <4>4. PICK a \in Blocks : /\ Least(coreLoad[u][k], a, NumCores)
                               /\ coreLoad[u][k + 1] = Book(coreLoad[u][k], a, k)
        BY <4>2 DEF IInv, HistoryOK, Dealt
      <4>5. a = b
        BY <1>2, <1>3, <4>3, <4>4, LeastUnique
      <4> QED BY <1>8, <1>9, <3>3, <4>1, <4>3, <4>4, <4>5
    <3>4. CASE ~(j <= k)
      <4>1. CASE s # r /\ t # r
        BY <1>8, <2>1, <4>1 DEF IInv, Agree
      <4>2. CASE s # r /\ t = r
        BY <2>1, <3>3, <3>4, <4>2
      <4>3. CASE s = r /\ t # r
        BY <2>1, <3>3, <3>4, <4>3
      <4> QED BY <4>1, <4>2, <4>3
    <3> QED BY <3>2, <3>4
  <2> QED BY <2>1 DEF Agree
<1>15. LoadsBalanced'
  <2>1. ASSUME NEW s \in Runners, NEW x \in Blocks, NEW y \in Blocks
        PROVE  coreLoad'[s][item'[s]][x] - coreLoad'[s][item'[s]][y] <= FullTiles + kSchedFixed
    <3>1. CASE s = r
      BY <1>4, <1>6, <1>9, <3>1
    <3>2. CASE s # r
      BY <1>8, <3>2 DEF IInv, LoadsBalanced
    <3> QED BY <3>1, <3>2
  <2> QED BY <2>1 DEF LoadsBalanced
<1> QED BY <1>11, <1>12, <1>13, <1>14, <1>15 DEF IInv

-----------------------------------------------------------------------------
LEMMA Inductive == Spec => []IInv
<1>1. IInv /\ [Next]_vars => IInv'
  <2> SUFFICES ASSUME IInv, [Next]_vars PROVE IInv'
    OBVIOUS
  <2>1. CASE UNCHANGED vars
    <3> USE <2>1 DEF vars, IInv
    <3>1. TypeOK'
      BY DEF TypeOK
    <3>2. ScanOK'
      BY DEF ScanOK
    <3>3. HistoryOK'
      BY DEF HistoryOK
    <3>4. Agree'
      BY DEF Agree
    <3>5. LoadsBalanced'
      BY DEF LoadsBalanced
    <3> QED BY <3>1, <3>2, <3>3, <3>4, <3>5
  <2>2. CASE Next
    <3>1. PICK r \in Runners : Scan(r) \/ Deal(r)
      BY <2>2 DEF Next
    <3> QED BY <3>1, ScanStep, DealStep
  <2> QED BY <2>1, <2>2
<1> QED BY <1>1, InitIInv, PTL DEF Spec

\* What one runner claims of the row-blocks both have passed decides what
\* every other may: they found the same core least loaded.
LEMMA ClaimsAgree ==
  ASSUME IInv, NEW r \in Runners, NEW s \in Runners, NEW k \in Nat,
         k < item[r], k < item[s]
  PROVE  \E a \in Blocks : /\ k \in claimed[r] <=> a = BlockIdx(r)
                           /\ k \in claimed[s] <=> a = BlockIdx(s)
<1>1. k \in 0 .. item[r] - 1 /\ k \in 0 .. item[s] - 1 /\ k \in 0 .. item[r]
  BY DEF IInv, TypeOK
<1>2. coreLoad[r][k] = coreLoad[s][k] /\ coreLoad[r][k] \in [Blocks -> Nat]
  BY <1>1 DEF IInv, TypeOK, Agree
<1>3. /\ Dealt(coreLoad[r], claimed[r], BlockIdx(r), k)
      /\ Dealt(coreLoad[s], claimed[s], BlockIdx(s), k)
  BY <1>1 DEF IInv, HistoryOK
<1>4. PICK a \in Blocks : Least(coreLoad[r][k], a, NumCores) /\ (k \in claimed[r] <=> a = BlockIdx(r))
  BY <1>3 DEF Dealt
<1>5. PICK d \in Blocks : Least(coreLoad[s][k], d, NumCores) /\ (k \in claimed[s] <=> d = BlockIdx(s))
  BY <1>3 DEF Dealt
<1>6. a = d
  BY <1>2, <1>4, <1>5, LeastUnique
<1> QED BY <1>4, <1>5, <1>6

LEMMA ClaimedPassed ==
  ASSUME IInv, NEW r \in Runners, NEW k \in claimed[r]
  PROVE  k \in Nat /\ k < item[r]
  BY DEF IInv, TypeOK, HistoryOK

LEMMA OnceFromIInv == IInv => EveryBlockOnce
<1> SUFFICES ASSUME IInv PROVE EveryBlockOnce
  OBVIOUS
<1>1. ASSUME NEW r \in Runners, NEW s \in Runners, BlockIdx(r) # BlockIdx(s),
             NEW k \in claimed[r], k \in claimed[s]
      PROVE  FALSE
  BY <1>1, ClaimedPassed, ClaimsAgree
<1>2. ASSUME NEW r \in Runners, NEW s \in Runners, BlockIdx(r) = BlockIdx(s),
             NEW k \in claimed[r], k < item[s]
      PROVE  k \in claimed[s]
  BY <1>2, ClaimedPassed, ClaimsAgree
<1>3. ASSUME NEW k \in 0 .. TotalRowBlocks - 1, \A r \in Runners : k < item[r]
      PROVE  \E b \in Blocks : \A u \in Units : k \in claimed[<<b, u>>]
  <2>1. CASE Units = {}
    BY <2>1, Constants
  <2>2. ASSUME NEW u \in Units
        PROVE  \E b \in Blocks : \A v \in Units : k \in claimed[<<b, v>>]
    <3>1. PICK q \in Runners : k \in Nat
      <4>1. <<0, u>> \in Runners
        BY Constants DEF Runners
      <4> QED BY <4>1
    <3>2. \A r \in Runners : k \in 0 .. item[r] - 1 /\ k \in 0 .. item[r]
      <4>1. \A r \in Runners : item[r] \in Nat /\ k < item[r]
        BY <1>3 DEF IInv, TypeOK
      <4> QED BY <3>1, <4>1
    <3>3. \A r \in Runners : Dealt(coreLoad[r], claimed[r], BlockIdx(r), k)
      BY <3>2 DEF IInv, HistoryOK
    <3>4. coreLoad[q][k] \in [Blocks -> Nat]
      BY <3>2 DEF IInv, TypeOK
    <3>5. \A r \in Runners : coreLoad[r][k] = coreLoad[q][k]
      BY <3>1, <3>2 DEF IInv, TypeOK, Agree
    <3>6. PICK load \in [Blocks -> Nat] : \A r \in Runners : coreLoad[r][k] = load
      BY <3>4, <3>5
    <3>7. PICK b \in Blocks : Least(load, b, NumCores)
      BY <3>3, <3>6 DEF Dealt
    <3>8. ASSUME NEW v \in Units PROVE k \in claimed[<<b, v>>]
      <4>1. PICK s \in Runners : s = <<b, v>> /\ BlockIdx(s) = b
        <5>1. <<b, v>> \in Runners /\ BlockIdx(<<b, v>>) = b
          BY DEF Runners, BlockIdx
        <5> QED BY <5>1, Zenon
      <4>2. PICK a \in Blocks : Least(load, a, NumCores) /\ (k \in claimed[s] <=> a = BlockIdx(s))
        BY <3>3, <3>6 DEF Dealt
      <4>3. a = b
        BY <3>7, <4>2, LeastUnique
      <4> QED BY <4>1, <4>2, <4>3
    <3> QED BY <3>8
  <2> QED BY <2>1, <2>2
<1> QED BY <1>1, <1>2, <1>3 DEF EveryBlockOnce

\* For every shape, grid and mask: no row-block is run by two AI cores or by
\* none, and the units of one AI core run the same row-blocks (runTFA's loop).
THEOREM DealtOnce == Spec => []EveryBlockOnce
  BY Inductive, OnceFromIInv, PTL

\* For every shape, grid and mask: at every point of the deal two cores' loads
\* differ by at most the weight of one full sweep (runTFA's core_load).
THEOREM DealtEvenly == Spec => []LoadsBalanced
<1>1. IInv => LoadsBalanced
  BY DEF IInv
<1> QED BY <1>1, Inductive, PTL

\* The tables every core keeps stay within the work and the launched grid.
THEOREM ScheduleTypeCorrect == Spec => []TypeOK
<1>1. IInv => TypeOK
  BY DEF IInv
<1> QED BY <1>1, Inductive, PTL

-----------------------------------------------------------------------------
(* The first round of the deal: while some core has nothing the least      *)
(* loaded one is the first that has nothing, so row-block k goes to core k. *)

FirstRound ==
  \A r \in Runners :
    /\ \A x \in Blocks :
         /\ x < item[r] => coreLoad[r][item[r]][x] > 0
         /\ x >= item[r] => coreLoad[r][item[r]][x] = 0
    /\ BlockIdx(r) < item[r] => BlockIdx(r) \in claimed[r]

LEMMA FirstRoundStep ==
  ASSUME IInv, IInv', FirstRound, [Next]_vars
  PROVE  FirstRound'
<1> USE Constants
<1>1. CASE UNCHANGED vars
  BY <1>1 DEF vars, FirstRound
<1>2. ASSUME NEW r \in Runners, Scan(r) PROVE FirstRound'
  BY <1>2 DEF Scan, FirstRound
<1>3. ASSUME NEW r \in Runners, Deal(r) PROVE FirstRound'
  <2> DEFINE k == item[r]
             load == coreLoad[r][k]
             b == best[r]
  <2>1. /\ k \in 0 .. TotalRowBlocks /\ k \in Nat /\ b \in Blocks /\ load \in [Blocks -> Nat]
        /\ SchedWeight(k) \in Nat \ {0}
    <3>1. k \in 0 .. TotalRowBlocks /\ b \in Blocks /\ load \in [Blocks -> Nat]
      BY DEF IInv, TypeOK
    <3>2. k \in Nat
      BY <3>1
    <3> QED
      BY <3>1, <3>2, Weights
  <2>2. Least(load, b, NumCores)
    BY <1>3 DEF IInv, TypeOK, ScanOK, Deal
  <2>3. /\ item'[r] = k + 1
        /\ claimed'[r] = IF b = BlockIdx(r) THEN claimed[r] \cup {k} ELSE claimed[r]
        /\ coreLoad'[r][k + 1] = Book(load, b, k)
    <3>1. item'[r] = k + 1 /\ claimed'[r] = IF b = BlockIdx(r) THEN claimed[r] \cup {k} ELSE claimed[r]
      BY <1>3 DEF Deal, IInv, TypeOK
    <3>2. coreLoad'[r] = [j \in 0 .. k + 1 |-> IF j <= k THEN coreLoad[r][j] ELSE Book(load, b, k)]
      BY <1>3 DEF Deal, Book, IInv, TypeOK
    <3> HIDE DEF k, load, b
    <3>3. coreLoad'[r][k + 1] = Book(load, b, k)
      BY <2>1, <3>2
    <3> QED
      BY <3>1, <3>3
  <2>4. ASSUME NEW s \in Runners, s # r
        PROVE  item'[s] = item[s] /\ claimed'[s] = claimed[s] /\ coreLoad'[s] = coreLoad[s]
    BY <1>3, <2>4 DEF Deal, IInv, TypeOK
  <2>5. ASSUME NEW x \in Blocks
        PROVE  (x < k => load[x] > 0) /\ (x >= k => load[x] = 0)
    BY DEF FirstRound
  <2>6. BlockIdx(r) < k => BlockIdx(r) \in claimed[r]
    BY DEF FirstRound
  <2>7. BlockIdx(r) \in Blocks
    BY DEF Runners, BlockIdx
  <2> HIDE DEF k, load, b
  <2>8. k < NumCores => b = k
    BY <2>1, <2>2, <2>5 DEF Least, Blocks
  <2>9. ASSUME NEW x \in Blocks
        PROVE  /\ x < k + 1 => Book(load, b, k)[x] > 0
               /\ x >= k + 1 => Book(load, b, k)[x] = 0
    <3>1. /\ Book(load, b, k)[x] = IF x = b THEN load[x] + SchedWeight(k) ELSE load[x] + 0
          /\ x \in Nat /\ x < NumCores /\ load[x] \in Nat
      BY <2>1 DEF Book, Blocks
    <3> QED
      BY <2>1, <2>5, <2>8, <3>1
  <2>10. BlockIdx(r) < k + 1 => BlockIdx(r) \in claimed'[r]
    BY <2>1, <2>3, <2>6, <2>7, <2>8 DEF Blocks
  <2>11. ASSUME NEW s \in Runners
         PROVE  /\ \A x \in Blocks :
                     /\ x < item'[s] => coreLoad'[s][item'[s]][x] > 0
                     /\ x >= item'[s] => coreLoad'[s][item'[s]][x] = 0
                /\ BlockIdx(s) < item'[s] => BlockIdx(s) \in claimed'[s]
    <3>1. CASE s = r
      BY <2>3, <2>9, <2>10, <3>1
    <3>2. CASE s # r
      BY <2>4, <3>2 DEF FirstRound
    <3> QED
      BY <3>1, <3>2
  <2> QED
    BY <2>11 DEF FirstRound
<1> QED
  BY <1>1, <1>2, <1>3 DEF Next

LEMMA FirstRoundInit == Init => FirstRound
<1> SUFFICES ASSUME Init PROVE FirstRound
  OBVIOUS
<1>1. ASSUME NEW r \in Runners
      PROVE  /\ item[r] = 0 /\ \A x \in Blocks : coreLoad[r][0][x] = 0
             /\ BlockIdx(r) \in Nat /\ \A x \in Blocks : x \in Nat
  BY DEF Init, Runners, BlockIdx, Blocks
<1> QED
  BY <1>1 DEF FirstRound

\* Every launched core gets something to run, whatever the shape and the
\* mask: the grid is never larger than the row-blocks, and the first round
\* of the deal gives each core one.
THEOREM EveryCoreServed == Spec => []EveryCoreWorks
<1>1. IInv /\ FirstRound => EveryCoreWorks
  <2> SUFFICES ASSUME IInv, FirstRound, NEW r \in Runners, Done(r) PROVE claimed[r] # {}
    BY DEF EveryCoreWorks
  <2>1. BlockIdx(r) < item[r]
    BY Constants DEF Done, Runners, BlockIdx, Blocks
  <2> QED
    BY <2>1 DEF FirstRound
<1> QED
  BY <1>1, Inductive, FirstRoundInit, FirstRoundStep, PTL DEF Spec
=============================================================================
