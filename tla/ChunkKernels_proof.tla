------------------------- MODULE ChunkKernels_proof --------------------------
(***************************************************************************)
(* The kernels of gated linear attention, for all sequences: one whose     *)
(* programs are synchronized returns, is free of races and finds its own   *)
(* in every buffer it protects, in whatever order the pipes of its three   *)
(* cores take their turns.                                                 *)
(*                                                                         *)
(* That they are synchronized is a matter of their programs alone.  It is  *)
(* the hypothesis here; ChunksSynchronized is the same, for TLC to look at *)
(* for the sequences it is given.                                          *)
(***************************************************************************)
EXTENDS ChunkKernels, TLAPS

Machine == INSTANCE PipeMachine_proof

AllSynchronized == \A k \in DOMAIN Programs : Synchronized(k)

-----------------------------------------------------------------------------
(* The machine of ChunkKernels and that of PipeMachine_proof are the same. *)

Walk == [k \in DOMAIN Programs |-> Core!Walked(k)]
Leaving == [k \in DOMAIN Programs |-> {}]

LEMMA SameCounts == \A S : Core!Cardinality(S) = Machine!Cardinality(S)
  BY Zenon DEF Core!Cardinality, Machine!Cardinality

LEMMA SameTables ==
  /\ Core!Kernels = Machine!Kernels /\ Core!Pipes = Machine!Pipes
  /\ Core!Steps = Machine!Steps /\ Core!Flags = Machine!Flags /\ Core!Buffers = Machine!Buffers
  /\ Core!Setters = Machine!Setters /\ Core!Waiters = Machine!Waiters
  /\ Core!Writers = Machine!Writers
  /\ Core!Raises = Machine!Raises /\ Core!Waits = Machine!Waits
<1>1. Core!Kernels = Machine!Kernels /\ Core!Pipes = Machine!Pipes
  BY DEF Core!Kernels, Machine!Kernels, Core!Pipes, Machine!Pipes
<1>2. Core!Steps = Machine!Steps
  BY DEF Core!Kernels, Machine!Kernels, Core!Steps, Machine!Steps
<1>3. Core!Flags = Machine!Flags /\ Core!Buffers = Machine!Buffers
  BY Zenon DEF Core!Kernels, Machine!Kernels, Core!Flags, Machine!Flags, Core!Buffers,
     Machine!Buffers, Core!Instructions, Machine!Instructions
<1>4. \A k, x : Core!Step(k, x) = Machine!Step(k, x)
  BY DEF Core!Step, Machine!Step
<1>5. Core!Setters = Machine!Setters /\ Core!Waiters = Machine!Waiters
  BY <1>1, <1>2, <1>3, <1>4, Zenon DEF Core!Setters, Machine!Setters, Core!Waiters, Machine!Waiters
<1>6. Core!Writers = Machine!Writers
  BY <1>1, <1>2, <1>3, <1>4, Zenon DEF Core!Writers, Machine!Writers
<1>7. \A steps : Core!Numbers(steps) = Machine!Numbers(steps)
  BY SameCounts, Zenon DEF Core!Numbers, Machine!Numbers
<1>8. Core!Raises = Machine!Raises /\ Core!Waits = Machine!Waits
  BY <1>1, <1>3, <1>5, <1>7, Zenon DEF Core!Raises, Machine!Raises, Core!Waits, Machine!Waits
<1> QED
  BY <1>1, <1>2, <1>3, <1>5, <1>6, <1>8

LEMMA SameOrders ==
  ASSUME NEW k, NEW x, NEW y
  PROVE  /\ Core!Step(k, x) = Machine!Step(k, x)
         /\ Core!Precedes(k, x, y) <=> Machine!Precedes(k, x, y)
         /\ \A f : Core!Pairs(k, f, x, y) <=> Machine!Pairs(k, f, x, y)
         /\ Core!Enables(k, x, y) <=> Machine!Enables(k, x, y)
<1>1. Core!Step(k, x) = Machine!Step(k, x) /\ Core!Step(k, y) = Machine!Step(k, y)
  BY DEF Core!Step, Machine!Step
<1>2. Core!Precedes(k, x, y) <=> Machine!Precedes(k, x, y)
  BY <1>1 DEF Core!Precedes, Machine!Precedes
<1>3. \A f : Core!Pairs(k, f, x, y) <=> Machine!Pairs(k, f, x, y)
  BY SameTables, Zenon DEF Core!Pairs, Machine!Pairs
<1> QED
  BY <1>1, <1>2, <1>3 DEF Core!Enables, Machine!Enables

LEMMA SameClocks ==
  ASSUME NEW k, NEW walk
  PROVE  /\ \A x, c, p : Core!Tells(k, walk, x, c, p) = Machine!Tells(k, walk, x, c, p)
         /\ \A x, y : Core!Before(k, walk, x, y) <=> Machine!Before(k, walk, x, y)
         /\ Core!IsClock(k, walk) => Machine!IsClock(k, walk)
<1>1. \A x, c, p : Core!Tells(k, walk, x, c, p) = Machine!Tells(k, walk, x, c, p)
  BY SameOrders DEF Core!Tells, Machine!Tells
<1>2. \A x, y : Core!Before(k, walk, x, y) <=> Machine!Before(k, walk, x, y)
  BY SameOrders DEF Core!Before, Machine!Before
<1>3. Core!IsClock(k, walk) => Machine!IsClock(k, walk)
  BY <1>1, SameTables, SameOrders DEF Core!IsClock, Machine!IsClock
<1> QED
  BY <1>1, <1>2, <1>3

LEMMA SameRules ==
  ASSUME NEW k, NEW walk, NEW exempt, NEW left, NEW outputs,
         Core!Synchronized(k, walk, exempt, left, outputs)
  PROVE  Machine!Synchronized(k, walk, exempt, left, outputs)
<1>1. Machine!WellFormed(k)
  <2>1. Core!WellFormed(k)
    BY DEF Core!Synchronized
  <2> QED
    BY <2>1 DEF Core!WellFormed, Machine!WellFormed, Core!Pipes, Machine!Pipes
<1>2. Machine!FlagsHavePipes(k)
  <2>1. Core!FlagsHavePipes(k)
    BY DEF Core!Synchronized
  <2>2. ASSUME NEW steps, Core!OnOnePipe(k, steps)
        PROVE  Machine!OnOnePipe(k, steps)
    BY <2>2, SameTables, SameOrders DEF Core!OnOnePipe, Machine!OnOnePipe
  <2> QED
    BY <2>1, <2>2, SameTables DEF Core!FlagsHavePipes, Machine!FlagsHavePipes
<1>0. Machine!ReturnsInTurn(k, walk, left)
  <2>1. Core!ReturnsInTurn(k, walk, left)
    BY DEF Core!Synchronized
  <2>2. \A x, y : Core!Precedes(k, x, y) <=> Machine!Precedes(k, x, y)
    BY SameOrders
  <2>3. \A f, x, y : Core!Pairs(k, f, x, y) <=> Machine!Pairs(k, f, x, y)
    BY SameOrders
  <2> QED
    BY <2>1, <2>2, <2>3, SameCounts, SameTables, Zenon
    DEF Core!ReturnsInTurn, Machine!ReturnsInTurn
<1>3. Machine!IsClock(k, walk)
  BY SameClocks DEF Core!Synchronized
<1>4. Machine!Unraced(k, walk, exempt)
  BY SameTables, SameOrders, SameClocks DEF Core!Synchronized, Core!Unraced, Machine!Unraced
<1>5. ASSUME NEW b, NEW v, NEW later, Core!LastGives(k, walk, b, v, later)
      PROVE  Machine!LastGives(k, walk, b, v, later)
  <2>1. Core!Nothing = Machine!Nothing
    BY DEF Core!Nothing, Machine!Nothing
  <2> QED
    BY <1>5, <2>1, SameTables, SameOrders, SameClocks DEF Core!LastGives, Machine!LastGives
<1>6. Machine!FindsOwn(k, walk, exempt)
  BY <1>5, SameTables, SameOrders, SameClocks DEF Core!Synchronized, Core!FindsOwn, Machine!FindsOwn
<1>7. Machine!Leaves(k, walk, outputs)
  BY <1>5, SameTables DEF Core!Synchronized, Core!Leaves, Machine!Leaves
<1> QED
  BY <1>0, <1>1, <1>2, <1>3, <1>4, <1>6, <1>7 DEF Machine!Synchronized

LEMMA SameInit == Core!Init => Machine!Init
  BY DEF Core!Init, Core!Cores, Core!Program, Core!After, Core!NextAt, Core!Kernels, Core!Flags,
         Core!Buffers, Core!Instructions, Core!Nothing, Core!Pipes,
         Machine!Init, Machine!Cores, Machine!Program, Machine!After, Machine!NextAt,
         Machine!Kernels, Machine!Flags, Machine!Buffers, Machine!Instructions, Machine!Nothing,
         Machine!Pipes

LEMMA SameNext == [Core!Next]_(Core!machine) => [Machine!Next]_(Machine!machine)
  BY DEF Core!Next, Core!Execute, Core!Barrier, Core!AtBarrier, Core!InFlight, Core!Idle,
         Core!Issued, Core!Current, Core!machine, Core!Cores, Core!Program, Core!After, Core!NextAt,
         Core!Kernels, Core!Pipes,
         Machine!Next, Machine!Execute, Machine!Barrier, Machine!AtBarrier, Machine!InFlight,
         Machine!Idle, Machine!Issued, Machine!Current, Machine!machine, Machine!Cores,
         Machine!Program, Machine!After, Machine!NextAt, Machine!Kernels, Machine!Pipes

LEMMA SameViews ==
  /\ \A c, p : Core!InFlight(c, p) <=> Machine!InFlight(c, p)
  /\ \A c, p : Core!Current(c, p) = Machine!Current(c, p)
  /\ \A c, p : Core!Idle(c, p) <=> Machine!Idle(c, p)
  /\ Core!Running = Machine!Running /\ Core!Cores = Machine!Cores
<1>1. Core!Cores = Machine!Cores /\ Core!Program = Machine!Program
  BY DEF Core!Cores, Core!Program, Machine!Cores, Machine!Program
<1>2. \A c, p : Core!Current(c, p) = Machine!Current(c, p)
  BY <1>1 DEF Core!Current, Machine!Current
<1>3. \A c, p : Core!Idle(c, p) <=> Machine!Idle(c, p)
  BY <1>1 DEF Core!Idle, Machine!Idle
<1>4. \A c, p : Core!InFlight(c, p) <=> Machine!InFlight(c, p)
  BY <1>2, <1>3 DEF Core!InFlight, Core!Issued, Machine!InFlight, Machine!Issued
<1>5. Core!Running = Machine!Running
  BY <1>1, <1>4, SameTables DEF Core!Running, Machine!Running
<1> QED
  BY <1>1, <1>2, <1>3, <1>4, <1>5

LEMMA SamePromises ==
  ASSUME NEW exempt, NEW left, NEW outputs, Machine!RunsWell(exempt, left, outputs)
  PROVE  /\ Core!RaceFreeBut(exempt)
         /\ Core!ReadsOwnBut(exempt)
         /\ Core!Quiescent => Core!Returned /\ Core!FlagsDownBut(left)
<1>1. Core!RaceFreeBut(exempt)
  BY SameViews DEF Machine!RunsWell, Machine!RaceFreeBut, Core!RaceFreeBut
<1>2. Core!ReadsOwnBut(exempt)
  BY SameViews DEF Machine!RunsWell, Machine!ReadsOwnBut, Core!ReadsOwnBut
<1>3. ASSUME Core!Quiescent
      PROVE  Core!Returned /\ Core!FlagsDownBut(left)
  <2>1. Machine!Quiescent
    BY <1>3, SameViews, SameTables
    DEF Core!Quiescent, Core!AtBarrier, Machine!Quiescent, Machine!AtBarrier
  <2>2. Machine!Returned /\ Machine!FlagsDownBut(left)
    BY <2>1 DEF Machine!RunsWell
  <2> QED
    BY <2>2, SameViews, SameTables
    DEF Core!Returned, Core!FlagsDownBut, Machine!Returned, Machine!FlagsDownBut
<1> QED
  BY <1>1, <1>2, <1>3

-----------------------------------------------------------------------------
Chunks == Machine!AllSynchronized(Machine!Kernels, Walk, Exempt, FlagsLeft, Leaving)
InStep == Machine!RunsInStep(Machine!Kernels, Walk)

LEMMA ChunksAre == AllSynchronized => Chunks
<1> SUFFICES ASSUME AllSynchronized,
                    NEW k \in Machine!Kernels
             PROVE  Machine!Synchronized(k, Walk[k], Exempt[k], FlagsLeft[k], Leaving[k])
  BY DEF Chunks, Machine!AllSynchronized
<1>1. k \in DOMAIN Programs
  BY DEF Machine!Kernels
<1>2. Core!Synchronized(k, Core!Walked(k), Exempt[k], FlagsLeft[k], {})
  BY <1>1 DEF AllSynchronized, Synchronized
<1>3. Walk[k] = Core!Walked(k) /\ Leaving[k] = {}
  BY <1>1 DEF Walk, Leaving
<1> QED
  BY <1>2, <1>3, SameRules

\* The pipes and cores of a kernel whose programs are synchronized, in step.
LEMMA ChunkRuns ==
  ASSUME AllSynchronized
  PROVE  Spec => []Machine!RunsWell(Exempt[kernel], FlagsLeft[kernel], Leaving[kernel])
<1>1. Chunks
  BY ChunksAre
<1>2. Core!Init => InStep
  <2>1. Machine!Init => kernel \in Machine!Kernels
    BY DEF Machine!Init
  <2> QED
    BY <1>1, <2>1, SameInit, Machine!SynchronizedInit DEF Chunks, InStep
<1>3. InStep /\ [Core!Next]_(Core!machine) => InStep'
  BY <1>1, SameNext, Machine!SynchronizedNext DEF Chunks, InStep
<1>4. InStep => Machine!RunsWell(Exempt[kernel], FlagsLeft[kernel], Leaving[kernel])
  BY <1>1, Machine!SynchronizedWell DEF Chunks, InStep
<1> QED
  BY <1>2, <1>3, <1>4, PTL DEF Spec, Core!Spec

\* What the Cube and the vector subblocks hand one another through GM is the
\* reader's own, for all sequences and orders of the pipes.
THEOREM WorkspacesAreOwn == AllSynchronized => (Spec => []WorkspaceIsOwn)
<1> SUFFICES ASSUME AllSynchronized
             PROVE  Spec => []WorkspaceIsOwn
  OBVIOUS
<1>1. Spec => []Machine!RunsWell(Exempt[kernel], FlagsLeft[kernel], Leaving[kernel])
  BY ChunkRuns
<1>2. Machine!RunsWell(Exempt[kernel], FlagsLeft[kernel], Leaving[kernel]) => WorkspaceIsOwn
  BY SamePromises DEF WorkspaceIsOwn
<1> QED
  BY <1>1, <1>2, PTL

\* No pipe or core touches a buffer that another is still using, but those
\* known to be unprotected.
THEOREM ChunksRaceFree == AllSynchronized => (Spec => []ChunkRaceFree)
<1> SUFFICES ASSUME AllSynchronized
             PROVE  Spec => []ChunkRaceFree
  OBVIOUS
<1>1. Spec => []Machine!RunsWell(Exempt[kernel], FlagsLeft[kernel], Leaving[kernel])
  BY ChunkRuns
<1>2. Machine!RunsWell(Exempt[kernel], FlagsLeft[kernel], Leaving[kernel]) => ChunkRaceFree
  BY SamePromises DEF ChunkRaceFree
<1> QED
  BY <1>1, <1>2, PTL

\* The three cores never wait for one another forever, and leave up no flag
\* but those the kernel is known to leave.
THEOREM ChunksReturn == AllSynchronized => (Spec => []ChunkReturns)
<1> SUFFICES ASSUME AllSynchronized
             PROVE  Spec => []ChunkReturns
  OBVIOUS
<1>1. Spec => []Machine!RunsWell(Exempt[kernel], FlagsLeft[kernel], Leaving[kernel])
  BY ChunkRuns
<1>2. Machine!RunsWell(Exempt[kernel], FlagsLeft[kernel], Leaving[kernel]) => ChunkReturns
  BY SamePromises DEF ChunkReturns
<1> QED
  BY <1>1, <1>2, PTL
=============================================================================
