----------------------------- MODULE TileRounds -----------------------------
(***************************************************************************)
(* How a Cube core goes through its matrices in the triangular inverses    *)
(* that take several at a time (tri_inv_rec_unroll, tri_inv_ns): rounds of *)
(* one load per slot and then one inversion per slot.  A slot's load waits *)
(* for its last inversion; one FIX-to-M flag, which says the accumulators  *)
(* are stored, is handed from the slot just stored to the one inverted     *)
(* next.                                                                   *)
(***************************************************************************)
EXTENDS CoreCode

\* NumTilesPerCubeIter, from the tiles and cores of the launch.
Slots(l) == IF l.tiles <= l.cores THEN 1 ELSE IF l.tiles <= 2 * l.cores THEN 2 ELSE 4

\* max_iters_per_aic.
Rounds(l) == (l.tiles + Slots(l) * l.cores - 1) \div (Slots(l) * l.cores)

\* The tiles of a core's k-th round, one per slot: fewer in its last one.
RoundTiles(l, core, k) ==
  LET first == ((k - 1) * l.cores + core) * Slots(l)
  IN SelectSeq([i \in 1 .. Slots(l) |-> first + i - 1], LAMBDA t : t < l.tiles)

\* Where the FIX-to-M flag goes from "slot".
NextSlot(l, slot) == (slot + 1) % Slots(l)

FirstFlags(l) ==
  <<SetFlag("FIX", "M", 0)>> \o [i \in 1 .. Slots(l) |-> SetFlag("M", "MTE2", i - 1)]

\* The FIX-to-M flag is where the core's last tile left it.
\* Mutant of LastFlags: it is drained as if every round were full.
LastFlagsOfFullRound(l, core) ==
  [i \in 1 .. Slots(l) |-> WaitFlag("M", "MTE2", i - 1)] \o <<WaitFlag("FIX", "M", 0)>>
LastFlags(l, core) ==
  LET worked == {k \in 1 .. Rounds(l) : RoundTiles(l, core, k) # <<>>}
      left == IF worked = {} THEN 0
              ELSE NextSlot(l, Len(RoundTiles(l, core, Max(worked))) - 1)
  IN [i \in 1 .. Slots(l) |-> WaitFlag("M", "MTE2", i - 1)] \o <<WaitFlag("FIX", "M", left)>>
=============================================================================
