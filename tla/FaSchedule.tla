----------------------------- MODULE FaSchedule -----------------------------
(***************************************************************************)
(* How the flash-attention kernel deals its row-blocks out (runTFA's work  *)
(* loop).  No core tells another what it takes: the Cube core and the      *)
(* vector subblocks of every AI core each walk through all row-blocks,     *)
(* problem by problem and heaviest first, keep a table of the load of      *)
(* every core in core_load, give each row-block to the least loaded core,  *)
(* and run it if that is their own.                                        *)
(***************************************************************************)
EXTENDS Integers

CONSTANTS
  Problems,    \* batch * num_q_heads
  BlockRows,   \* block_rows: row-blocks of one problem
  FullTiles,   \* S1 / Tile_S1
  TileFactor,  \* Tile_S1 / Cube_S0
  Causal,      \* CAUSAL_MASK
  MaxCores,    \* kFaMaxCores
  Units        \* the Cube core and the vector subblocks of an AI core

ASSUME ScheduleAssumption ==
  /\ Problems \in Nat \ {0} /\ BlockRows \in Nat \ {0} /\ FullTiles \in Nat \ {0}
  /\ TileFactor \in Nat \ {0} /\ MaxCores \in Nat \ {0} /\ Causal \in BOOLEAN

TotalRowBlocks == Problems * BlockRows

\* n_cores, and the grid FaNumCores launches.
NumCores == IF TotalRowBlocks < MaxCores THEN TotalRowBlocks ELSE MaxCores

Blocks == 0 .. NumCores - 1
Runners == Blocks \X Units
BlockIdx(r) == r[1]

\* The k-th row-block in the order of the loops.
LogicalBlock(k) == BlockRows - 1 - (k % BlockRows)
BlkWeight(k) ==
  LET diag_tiles == 1 + LogicalBlock(k) \div TileFactor
  IN IF Causal /\ diag_tiles < FullTiles THEN diag_tiles ELSE FullTiles
kSchedFixed == 2
SchedWeight(k) == BlkWeight(k) + kSchedFixed

VARIABLES
  item,      \* item[r]: how many row-blocks runner r has dealt out
  coreLoad,  \* coreLoad[r][k]: r's core_load after k row-blocks, to the current one
  scan,      \* scan[r]: c, the core the inner loop looks at next
  best,      \* best[r]: best_core
  claimed    \* claimed[r]: the row-blocks r ran

vars == <<item, coreLoad, scan, best, claimed>>

\* The core the inner loop starts from.
\* Mutant of FirstBest: every core starts from itself, so ties fall apart.
FirstBestSelf(r) == BlockIdx(r)
\* Mutant of FirstBest: one past the last core.
FirstBestBeyond(r) == NumCores
FirstBest(r) == 0

\* Mutant of Lighter: the heavier core is preferred.
LighterSwapped(load, x, y) == load[x] > load[y]
Lighter(load, x, y) == load[x] < load[y]

Init ==
  /\ item = [r \in Runners |-> 0]
  /\ coreLoad = [r \in Runners |-> [k \in {0} |-> [x \in Blocks |-> 0]]]
  /\ scan = [r \in Runners |-> 1]
  /\ best = [r \in Runners |-> FirstBest(r)]
  /\ claimed = [r \in Runners |-> {}]

\* One round of the inner loop.
Scan(r) ==
  /\ item[r] < TotalRowBlocks /\ scan[r] < NumCores
  /\ best' = [best EXCEPT ![r] =
                IF Lighter(coreLoad[r][item[r]], scan[r], best[r]) THEN scan[r] ELSE best[r]]
  /\ scan' = [scan EXCEPT ![r] = scan[r] + 1]
  /\ UNCHANGED <<item, coreLoad, claimed>>

\* The row-block is booked on best_core, and run if that is the runner's own.
Deal(r) ==
  LET k == item[r]
  IN /\ k < TotalRowBlocks /\ scan[r] >= NumCores
     /\ coreLoad' = [coreLoad EXCEPT ![r] =
          [j \in 0 .. k + 1 |->
             IF j <= k THEN coreLoad[r][j]
             ELSE [x \in Blocks |-> coreLoad[r][k][x]
                                    + (IF x = best[r] THEN SchedWeight(k) ELSE 0)]]]
     /\ claimed' = [claimed EXCEPT ![r] =
                      IF best[r] = BlockIdx(r) THEN claimed[r] \cup {k} ELSE claimed[r]]
     /\ item' = [item EXCEPT ![r] = k + 1]
     /\ scan' = [scan EXCEPT ![r] = 1]
     /\ best' = [best EXCEPT ![r] = FirstBest(r)]

Next == \E r \in Runners : Scan(r) \/ Deal(r)

Spec == Init /\ [][Next]_vars

Done(r) == item[r] = TotalRowBlocks

-----------------------------------------------------------------------------
\* Every runner's tables stay within the work and the launched grid.
TypeOK ==
  /\ item \in [Runners -> 0 .. TotalRowBlocks]
  /\ scan \in [Runners -> 1 .. NumCores]
  /\ best \in [Runners -> Blocks]
  /\ claimed \in [Runners -> SUBSET (0 .. TotalRowBlocks - 1)]
  /\ DOMAIN coreLoad = Runners
  /\ \A r \in Runners : coreLoad[r] \in [0 .. item[r] -> [Blocks -> Nat]]

\* Though no core asks another, no row-block is run by two AI cores, none a
\* core has passed is left out by all, and the Cube core and the vector
\* subblocks of an AI core run the same ones: their FIFOs pair up.
EveryBlockOnce ==
  /\ \A r, s \in Runners : BlockIdx(r) # BlockIdx(s) => claimed[r] \cap claimed[s] = {}
  /\ \A r, s \in Runners : BlockIdx(r) = BlockIdx(s) =>
       \A k \in claimed[r] : k < item[s] => k \in claimed[s]
  /\ \A k \in 0 .. TotalRowBlocks - 1 :
       (\A r \in Runners : k < item[r]) =>
         \E b \in Blocks : \A u \in Units : k \in claimed[<<b, u>>]

\* At no point of the deal do two cores' loads differ by more than the
\* heaviest row-block weighs.
LoadsBalanced ==
  \A r \in Runners : \A x, y \in Blocks :
    coreLoad[r][item[r]][x] - coreLoad[r][item[r]][y] <= FullTiles + kSchedFixed

\* Every launched core gets something to run.
EveryCoreWorks == \A r \in Runners : Done(r) => claimed[r] # {}
=============================================================================
