# pto-kernels: models, checks and proofs

This directory holds a verification development of the kernels in `csrc/`: TLA+
modules translated from the source, TLC configurations that check them on small
instances, and theorems checked by TLAPS.

    tlc -config FaCausal.cfg MCFlashAttention.tla     # a run (PROJECT.json lists all)
    tlapm FaSchedule_proof.tla                        # a proof module

`PROJECT.json` lists the components, the runs, what each definition translates
(`map`), the hazards of the code with the properties that watch them, the mutant
that breaks each property, the findings and the theorems.

## 1. The system

pto-kernels is a set of kernels for Ascend NPUs with thin PyTorch wrappers.  An
AI core is one **Cube core** (matrix products) and two **vector subblocks**.
Each of the three executes its own instruction stream, and *within* each the
scalar unit issues instructions to several **pipes** that run concurrently:
MTE2 loads, MTE1 and FIX move tiles, M multiplies, V computes, MTE3 stores.
Between pipes of one core order exists only through `set_flag`/`wait_flag`
pairs and pipe barriers, between cores only through counted cross-core flags
and the tile FIFOs (`TPipe`) built on them.  Nearly every hard question about
this code is therefore of one kind: *is the order the flags give enough, and do
the flags come out even?*  Tests hardly reach it: a race needs the pipes to
drift apart in a way that depends on the hardware's timing.

| Component | State | Operations | Talks to | What is hard, what makes it correct |
|---|---|---|---|---|
| flash attention pipeline, `runTFA` | three GM FIFOs, exp_max ring, L0C ping-pong, running max/sum/output | `compute_qk`, `compute_p`, `compute_pv`, `compute_gu` | Cube and both subblocks through the FIFOs | software pipelining `qk_preload` tiles ahead, a causal early exit, no drain between row-blocks; every stage must find its own tile, and the output must be the attention |
| flash attention deal, `runTFA` | `core_load` of every unit | the LPT loop | nobody | every unit computes the deal alone: the row-blocks must be partitioned, and evenly |
| FA host wrapper, workspace | - | checks, grid size, carving | launches | host and kernel must agree |
| gdn `chunk_cumsum`, kda `gate_cumsum` | one UB tile of gates, one of sums | one vector subblock: load, prefix sum, store | pipes of one core | the tiles are reused for every chunk |
| gdn `scaled_dot_kkt` | two GM workspace slots | Cube: `K K^T`; Vec: gate, mask | credits 2, 3 and flags 0, 1 | slots alternate per sequence, credits count across sequences |
| gdn `wy_fast`, kda `wy` | one GM workspace slot each for A2 and A1/K_eff | Vec: scale A; Cube: `U`, `W` | four flags | first chunk waits for nothing, last chunk's flags |
| gdn `chunk_h`, kda `chunk_h` | recurrent state in UB, one GM workspace slot per quantity | Cube: `W S`, `K^T V`; Vec: residual, decay, update | four flags | no FIFO: each slot must be read before it is rewritten; UB tiles double as staging |
| gdn `chunk_o`, kda `chunk_o` | GM workspace slots, L0C | Cube: `Q K^T`, `Q S`, `QK V`; Vec: gate, combine | up to four flags | slots and accumulators shared by two products |
| kda `kkt` | UB tiles | vector lanes, column by column | pipes of one core | no Cube: every lane reuses its tiles per column |
| triangular inverse, four algorithms | L1/L0 tiles | unrolled recursion, Newton-Schulz, column sweep | pipes of one core | buffer reuse across tiles; flags that wander between tile slots |
| abs, csr_gather, swiglu | UB buffers, one to three stages | load, compute, store | pipes of one core | reuse of buffers across tiles, flags primed and drained |
| scan_ul1, simple_matmul, batch_matrix_square | L1/L0 tiles | straight-line Cube programs | pipes of one core | buffer reuse |
| kernel_utils | - | `CeilDiv`, flag helpers, tile lookup, `SyncAll` | included by all | tile lookup must invert the host's tile count; `SyncAll` must order everything before it before everything after |
| host wrappers, bindings | - | argument checks, launch | kernels | what they let through bounds the models |
| example scan_mc | a GM tensor and a buffer of carries | scan a tile, add up the tiles' sums, add the carry | all cores of all AI cores, by `SyncAll` | three steps on different cores and pipes over the same GM |
| other examples, tests, scripts | - | - | - | not part of the package |

## 2. Modules

    FaGeometry -- FlashAttention -- FlashAttention_proof     FaSchedule -- FaSchedule_proof
                       | INSTANCE        |
                  AttentionSpec  FlashAttentionTiles_proof   SwiGluTiling -- SwiGluTiling_proof

    PipeProgram
        |
        +-- ChunkTiles -- ChunkCumsum, GdnKkt, GdnWyFast, GdnChunkH, GdnChunkO,
        |                 KdaKkt, KdaWy, KdaChunkH, KdaChunkO    } INSTANCEs of ChunkKernels
        +-- VectorStream -- VAbs, CsrGather, SwiGlu              }
        +-- CoreCode -- TriInvTrick, TriInvColSweep,             } INSTANCEs of
                 |      CubeSamples, ScanMCSSA, FaPipes          } IndependentKernels
                 +-- TileRounds -- TriInvNS, TriInvRecUnroll     }

    PipeMachine -- HappensBefore, an INSTANCE of which runs ChunkKernels
        |                         and IndependentKernels -- KernelReference
        +-- PipeMachine_proof, an INSTANCE of which ChunkKernels_proof
                               and IndependentKernels_proof -- VectorKernels_proof
                               use

`MC*` modules give constants their values; `FaSchedule.cfg` needs none.

**PipeProgram, PipeMachine** - the execution model of all pipe-level modules.
A kernel module defines `Program[c]`, the instructions core `c` issues, as a
sequence: each instruction names its pipe, the flags it waits for, the buffers
it reads, *which contents* it needs there, what it leaves in the buffers it
writes, and the flags it raises.  `PipeMachine` picks one of the programs it is
given (`kernel`) and runs it: `Execute(c, p)` completes the next instruction of
pipe `p`, if the scalar unit has got that far and its flags are up; `Barrier(c)`
passes a `pipe_barrier(PIPE_ALL)`.  A `set_flag` belongs to the instruction of
its source pipe before it, a `wait_flag` to that of its destination pipe after
it, and stands alone (`Signal`, `Await`) where there is no such instruction.
This is external hardware, modelled from how `csrc/` uses it and from
`.skills/testing-pto-kernels/reference/synchronization-and-architecture.md`.
A buffer holds the *name* of what was put there: `<<"U", w, ci>>` is U of chunk
`ci` of item `w`.  A race is two instructions that may execute at once, one of
them writing what the other touches.  Consecutive instructions of one pipe with
no flag between them are one.

**ChunkTiles** - what the chunk kernels share: the cores, which chunks an AI core
has, which half of a chunk a subblock has live rows of, the flags in mode 2
(a Cube core waits for *both* subblocks, and signals both), and `gemm_v0`.
**GdnKkt ... KdaChunkO, ChunkCumsum** - one module per kernel (`ChunkCumsum` holds
both prefix sums), one operator per stretch of the code, named after what the
stretch makes.  **ChunkKernels** composes them into one machine that launches any
of the ten, and states their properties.

**VAbs, CsrGather, SwiGlu** - the stream kernels, with their ragged shares of the
tiles, written as instructions with their flags around them.

**CoreCode** - a second way to write a program: the kernel's statements in the
order of the source, `set_flag` and `wait_flag` among them. `Issued` groups them into
`PipeMachine`'s instructions: a stretch of one pipe's waits, its work and the flags
it raises, cut wherever the scalar unit may hold back in between. Each instruction
needs what the statements, executed *in order*, would have left in its operands;
so the machine compares every order of the pipes with the sequential reading of
the code. **KernelReference** says, without reference to the code, which matrices a
launch has to produce and what must be in them, and runs the same statements in order
on numbers, square matrices of residues modulo `Prime`, from buffers full of garbage.

**HappensBefore** - what can be told of a kernel by reading its programs instead of
running them in every way the pipes might. `Enables`: a step (instruction j of core c)
holds up another if it is before it on its pipe, or in the scalar unit, or raises the
flag the other waits for, the n-th raise being for the n-th wait. A program is
`Synchronized` if its steps can be done in one order in which no wait is in vain, the
flags then come out as they should, and of every two steps that touch a buffer, one of
them writing, one is held up by the other, through however many steps between; and
if what each step needs is what the last write before it, in this order, gives.
`Walked` finds the evidence, doing the steps one at a time.

**TriInvRecUnroll, TriInvNS, TriInvTrick, TriInvColSweep** - the four triangular
inverses, one operator per function or loop of the source; **TileRounds** holds what
the first two share, the rounds of one, two or four tile slots and the FIX-to-M flag
handed from slot to slot; `TriInvRecUnroll` also has `kernel_utils.h`'s lookup of the place
and size of a tile in a tensor of sequences of equal or variable lengths. **CubeSamples** - `scan_ul1`,
`simple_matmul`, `batch_matrix_square`. **ScanMCSSA** - the prefix sum over several
AI cores and `SyncAll`, the barrier of all cores that nothing else calls. **FaPipes** - the inside of one core of flash
attention: `compute_qk` and `compute_pv` for the Cube core, `compute_p` and
`compute_gu` for a vector subblock, called as `runTFA` calls them, row-block after
row-block. **IndependentKernels** composes all of these, the stream kernels
included, into one machine that launches any of them on any core, and states
their properties.

**FlashAttention** - one AI core running its row-blocks.  Every handler of the
code is one action (`CubeQK` is `compute_qk`, `VecUpdate` is `compute_gu`);
`compute_pv` and `compute_p` are two each, cut where they may block on a second
FIFO.  Places in the loops are records `[job, phase, tile, sub, op]`.  Tiles are
named by row-block and tile number, so every slot, ring entry, accumulator and
buffer says whose data it holds.  **AttentionSpec** says what the kernel
promises: every half of every row-block is written once, with the attention over
exactly the keys the mask allows; `ImplementsAttention` is the refinement, under
the mapping `Meaning`, by which a stored half is an attention only if each
partial product was rescaled by the factors of all later tiles in order and
divided by the sum over all. `AttendsOwnKeys` is the safety half of the
refinement, which is also proved.

**FaSchedule** - the loop by which every unit deals row-blocks out: `Scan` is a
round of the search for the least loaded core, `Deal` books the row-block.
`coreLoad[r]` keeps the history of runner r's table, which the proof needs.
**SwiGluTiling** - the search for a tile shape, and which rows and columns a tile
covers.

## 3. Runs

Each property is broken by a mutant of the code that PROJECT.json names.
Deadlock checking is off throughout, because the kernels return; that they *do*
return is checked, as `EveryCoreReturns`, `KernelsReturn` and `ChunkReturns`,
and the two searches end by construction.

| Run | Instance | Shows |
|---|---|---|
| `fa_causal` | 4 causal row-blocks, 4 tiles of 2 sub-tiles, FIFO 3, preload 2 | every stage reads its own tile, FIFOs drain, the cores never all wait and return, the output is the attention |
| `fa_schedule` | 2 AI cores, 2 units each, 6 causal row-blocks | each row-block is run once, by both units; loads stay close; no core idle |
| `chunk_kernels` | each of ten kernels, on a sequence of 2 chunks with a dead stripe and one of 1 chunk | handovers through the workspace are each chunk's own; no race outside the tiles listed below; all cores return, with flags down outside the list below; every kernel is synchronized |
| `independent_kernels` | 20 launches of ten programs (below) and the three stream kernels, 2 cores, 5 to 7 tiles, uneven shares | no race, inside a core or between cores' outputs; every instruction finds what the code read in order would leave it; flags down at the end; every output there, in its place, and right; every kernel is synchronized |
| `swiglu_tiling` | all shapes up to 9 x 19, up to 12 cores, slots of 16 | tiles partition the output, fit a slot; the search keeps the best width |

Why the bounds suffice: what can go wrong in the attention pipeline depends on
the position of a tile relative to the FIFO depth, to the preload and to the end
of its row-block, and on the row-block before. The work list contains row-blocks
shorter than the preload, as long as it, and longer than the ring, following one
another in orders that leave the FIFO counters at every residue. A chunk kernel
treats all chunks of an item alike but the first and the last, and keeps nothing
for longer than a chunk (kkt: two): an item with a first and a last chunk,
followed by an item where they are the same, has every pair of neighbours a
longer run has, except two middle chunks; those differ from a first and a
second only in what the first does not wait for. The second chunk has a
subblock without live rows. The stream kernels repeat after as many tiles as
they have buffers; the instances have cores with at least one full cycle more, and
one core with a short share.

The launches of `independent_kernels` (`MCIndependentKernels`) are chosen for the
shapes a kernel's control can take. `rec_unroll`: four slots with a partial last
round on one core, where the wandering flag ends elsewhere than it began; two
slots; doubling without recursion (the matrix is no larger than the doubling
block) and with it; upper and lower triangular; BSND with equal lengths on two
cores; with variable lengths, among them an empty sequence, a short tail after a
whole chunk, and sequences shorter than a chunk, and as host and kernel count them.
`ns`: a partial last round; cores without a tile, whose flags must still come out
even. `trick`: a block size at which the sum is the inverse, and one at which it
stops early. `col_sweep`: three matrices on two cores. `scan_mc`: two AI cores, six
cores in all; the first has no carry, the second has. Flash attention: causal
row-blocks longer than, as long as and shorter than the preload, with two
sub-tiles of which the diagonal cuts the second off, and plain ones with one; a
last row-block of one tile. Matrices are scaled down (sizes 2 to 16 for 16 to 128,
doubling blocks of 2 and 8 for 16): flags depend on the number of passes through a
loop, of which each loop has none, one and more than one. An identity
between matrices that holds modulo 97 for inputs without structure is not an
accident; one that fails modulo 97 is false.

What "right" means is what the algorithm gives. `rec_unroll` and `col_sweep`: the
inverse. `trick`: the sum of the first `2 * max_block_size` powers of -M, which is the
inverse if that power of M vanishes; the host always passes 16, so that for sizes
above 32 it is the inverse only of matrices so nilpotent. `ns`: each iteration
squares what is missing from the inverse, for a number of iterations the host
chooses so that nothing is left up to rounding. The tiling has slots, widths and alignment scaled down
together, so that ragged last rows, ragged last columns and both occur.

Fairness. `FlashAttention` assumes weak fairness of each core: a core whose next
handler is not blocked on a FIFO runs, as hardware with its own instruction
stream does. `PipeMachine` assumes less: something that can go on does; every
step moves a pipe forward, so a finite program ends, and `Quiescent` is a state
in which nothing can.

### What the flags do not protect

`ChunkRaceFree` and `WorkspaceIsOwn` leave out the buffers `Unsynchronized` of each
module names. All other buffers, and all of the kernels not listed, are free of
races on the instance:

| Kernel | Buffer | Nothing orders | Run |
|---|---|---|---|
| gdn `chunk_cumsum` | `g_ub` | the load of the next gates after the sum of these | `gdn_cumsum_serial` |
| gdn `scaled_dot_kkt` | `a_l0` | the next product after FIX has stored this one | - |
| gdn `chunk_h` | `u_ub_half` | the load of `W S`, and of the next U, after V has converted what is there | `gdn_chunk_h_residual` |
| gdn `chunk_h` | `s_ub_half` | the next item's zero state after the store of the final one | - |
| gdn `chunk_o` | `WS_QS_QKV` | the Cube's QKV after a subblock's load of QS | `gdn_chunk_o_scores` |
| kda `chunk_h` | `u_ub_half` | the load of `W S` after V has converted U | - |
| kda `chunk_h` | `gcs_ub`, `gtotal_ub` | the next chunk's load after V has read this one's tile | - |

`ChunkReturns` says which cross-core flags are up at the end (`FlagsLeft`): `kkt`
leaves 2 and 3, `wy_fast` 3 and 4, `chunk_o` 3; the kda kernels none. With an empty
sequence both `chunk_h` leave flag 3 too. Each launch is taken to
start with all flags down; if the hardware or the runtime does not see to that,
the flags left would shift the waits of the next kernel
(the reference above, lines 34-35, advises against reusing them).

### Findings

Runs expected to fail, each checking one statement of the repository:

* `fa_preload_full` - with `qk_preload` equal to the ring's depth, which
  `torch_flash_attention.h` documents and accepts, softmax overwrites the
  exp_max factor `compute_gu` is about to use. The theorem below shows
  that every smaller value is safe.
* `fa_masked_lanes` - a comment in `compute_p` says that the mask overwrites
  the lanes of a sub-tile that is not loaded; it is added to them, and the row
  maximum sees what another tile left there.
* `gdn_chunk_h_residual` - `W S` may be loaded over U before it is converted, so
  that the residual is not `U - W S`.
* `gdn_chunk_h_empty` - a sequence of length 0 leaves a cross-core flag over,
  and the Cube then takes every later state one chunk early.
* `gdn_chunk_o_scores` - the comment says that flag 1 keeps the Cube from writing
  QKV before QS is read; the flag follows a store on another pipe than the load.
* `gdn_cumsum_serial` - the chunks are said to be serialized, but the next load is
  not ordered after this chunk's sum. `kda_gate_cumsum` has the missing flag.
* `gdn_wy_fast_drain` - `wy_fast` returns with flags up; `kda_wy`, of the same
  design, drains them and says that the next launch is corrupted otherwise.

Also met, not checked: the comment above `block_idx` in `runTFA` gives the grid
as `min(block_rows, kFaMaxCores)`; host and kernel use
`min(batch * heads * block_rows, kFaMaxCores)`, as `FaSchedule` does. The
comments of `kda_wy` speak of flags 1 to 4 where the code uses 10 to 13, those of
`kda_chunk_o` of four flags where it uses two.

## 4. Proofs

Every property of the runs is also a theorem, for all values of the constants, but
those under "Only model-checked": what TLC shows on an instance of three FIFO slots
holds for any depth, list of row-blocks, number of sub-tiles, mask and warm-up.

### The flash attention pipeline

The only assumptions are those `FaGeometry` and `FlashAttention` state about
their constants: positive sizes, a finite list of row-blocks, at least one tile
of warm-up, and (`UnwrittenAssumption`) that the mark for a half that was not
stored is no value the kernel stores. Where a theorem needs more of
`qk_preload`, it says so:

| Module | Theorem | Property | Needs |
|---|---|---|---|
| `FlashAttention_proof` | `TypeCorrect` | `TypeOK` | - |
| | `ExpMaxRingSafe` | `RescalesWithOwnExpMax` | `QkPreload < FifoSize` |
| | `QkConsumed` | `ConsumedBeforeNextBlock` | - |
| | `FifosDrained` | `DrainedAtReturn` | - |
| | `NoDeadlock` | `NeverStuck` | `QkPreload < 2 * FifoSize` |
| `FlashAttentionTiles_proof` | `ScoresCorrect` | `ScoresAreOwn` | - |
| | `ProbabilitiesCorrect` | `ProbabilitiesAreOwn` | - |
| | `PartialsCorrect` | `PartialsAreOwn` | - |
| | `ResultsCorrect` | `AttendsOwnKeys` | `QkPreload < FifoSize` |

`QkPreload < FifoSize` is exactly what `fa_preload_full` violates: the ring is
overrun at equality. `QkPreload < 2 * FifoSize` is tight as well (at equality
TLC finds a configuration in which the Cube core waits for a score slot and
both subblocks for a probability slot), and the host, which admits at most
`FifoSize`, stays clear of it. The FIFOs themselves need no bound.

The argument goes in four steps, each an invariant on top of the one before.

1. *The ring* (`RingInv`). `RescalesWithOwnExpMax` alone is not inductive,
   because a factor is written `QkPreload` tiles before it is used. The invariant
   says how far each entry reaches: a subblock at tile t of a row-block has
   recorded the factors of tiles 1 .. t + QkPreload - 1, capped at the row-block's
   tiles, each in entry tile mod FifoSize; fewer than FifoSize consecutive tiles
   never collide.
2. *The counters* (`FifoInv`). `Counters`: each counter of a FIFO is a function
   of one core's place in its loops and of `TilesBefore`, the tiles of the
   row-blocks before. `Flow`: no core is ahead of what the credits it waited for
   allow. From the two follows how far apart cores can be: a subblock that holds
   scores is in the Cube core's own row-block (`SameBlock`), which is why the work loop
   needs no drain. Deadlock freedom follows too: whichever of Cube core and
   subblock is behind has what it waits for (`NotBothWait`).
3. *The tiles* (`TilesInv`). Between push and free a slot holds the tile the counters
   say: `ScoresHeld` under the Cube core's own numbering (tile % depth), and
   `ProbabilitiesHeld`, `PartialsHeld` and, within a tile, `SlicesHeld` and `PartialSummed`.
   The last also says that the QK and PV matmuls use different accumulators while
   they are interleaved, though one toggle is flipped for both.
4. *The result* (`ResultInv`). The running output is the list of the partials so far,
   each multiplied by the factors of all later tiles in order (`OutputSummed`); the
   row sums are over the tiles softmaxed (`RowsSummed`); a half not finished is not yet
   written (`HalvesOpen`). So a stored half means the attention over exactly the keys
   the mask leaves (`MeaningOfSum`, `KeysOfTiles`), and each step is a step of `AttentionSpec` or
   leaves its variable alone (`ResultStepRefines`).

`TilesBefore` is a recursive function; that it counts what it should, and grows,
is proved by taking the least counterexample (`LeastNat`, from the library's
`WFMin`), as the library's induction theorems take an operator the provers cannot
instantiate.

### The deal of row-blocks

`FaSchedule_proof`: `DealtOnce` (`[]EveryBlockOnce`), `DealtEvenly`
(`[]LoadsBalanced`), `EveryCoreServed` (`[]EveryCoreWorks`) and `ScheduleTypeCorrect`, for every
number of problems, row-blocks, tiles, cores and units. The inductive invariant `IInv` conjoins

* `ScanOK` - the inner loop holds the *first* of the least loaded cores it has
  looked at, strictly lighter than all before it;
* `HistoryOK` - each earlier row-block was booked on the first least loaded
  core of the table at that point, and claimed exactly by that core's units;
* `Agree` - two runners that have dealt k row-blocks have equal tables: the deal
  is deterministic, though nobody talks to anybody;
* `LoadsBalanced` - booking on a least loaded core adds at most the heaviest weight.

The first least loaded core being unique (`LeastUnique`) makes `Agree` inductive;
`EveryBlockOnce` follows from `Agree` and `HistoryOK`. For `EveryCoreWorks` a second
invariant, `FirstRound`, follows the first row-blocks: after k of them exactly cores
0 .. k - 1 have any load, so the next goes to core k. Assumptions are those
of the module: positive sizes, and `MaxCores` positive.

### The tiling

`SwiGluTiling_proof`: `TilesPartitioned`, `TilesFit`, `TargetMet` and `LargestKept`, one for each
property of `swiglu_tiling`, for every slot size, list of candidate widths (aligned,
and dividing the slot, as the source's are), alignment, shape and number of cores. The
invariant `TilingInv` says that the configuration kept is one of a candidate, and
`KeepsLargestTile`; the latter is inductive because preferring a candidate never loses the
target, and among those that meet it never loses area. `TilesPartitioned` rests on the grid
(`TileOfGrid`: t is tile t % n of row t / n) and on the parts of a line (`PartHolds`).
`TargetMet` goes by the narrowest width (`NarrowestMeetsTarget`): the cap on its rows leaves
`MinRowTiles` rows of tiles, or cuts single rows. Multiplying and dividing variables is out of
the solvers' reach in one piece, so the lemmas `TimesMonotone`, `Parts`, `PartsUnique`,
`RoundUp`, `RoundUpLeast` and `RoundUpMost` carry all of it.

### The pipes

Whether a kernel's flags suffice is a question about its programs: `Synchronized`
(`HappensBefore`) asks for nothing that a run does. `PipeMachine_proof` shows that this is
enough, for all programs, however many cores, pipes, flags and steps: `SynchronizedRuns`
says that in every run of a synchronized kernel, whatever order its pipes take, no two steps race
(`RaceFreeBut`), each finds what it needs (`ReadsOwnBut`), and when nothing more can happen all
cores have returned with their flags down and the outputs in place. The runs check
`ChunksSynchronized` and `KernelsSynchronized`, a walk of each program in *one* order, next to the
properties themselves in *every* order; where only the first is done, by TLC or
by hand, for other lengths, tiles and cores, the theorems give the second:

| Module | Theorem | Property |
|---|---|---|
| `ChunkKernels_proof` | `WorkspacesAreOwn` | `WorkspaceIsOwn` |
| | `ChunksRaceFree` | `ChunkRaceFree` |
| | `ChunksReturn` | `ChunkReturns` |
| `IndependentKernels_proof` | `KernelsAreRaceFree` | `KernelsRaceFree` |
| | `KernelsAreInOrder` | `KernelsInOrder` |
| | `KernelsAllReturn` | `KernelsReturn` |
| `VectorKernels_proof` | `AbsRuns` | all three, of `abs` |

All but the last have the hypothesis `AllSynchronized`, that every kernel launched is; it does not
mention the machine or its states. (That the cores of the kernels run one core at a time
leave each other's outputs alone, `OutputsApart`, is part of it, being no matter of runs.)

The invariant (`InStep`) has four parts.

1. *Places* (`Placed`, `Aligned`). Each pipe stands at one of its steps,
   all its steps before are done and none after; the scalar unit and a barrier hold
   everybody up. So a step is done after all that precede it on its core.
2. *Flags* (`FlagsCounted`). A flag stands as high as there are more of its raises done than
   of its waits. Both are done in order, being each on one pipe, so by counting (`FS_*` theorems of the
   library) the n-th wait is over only after the n-th raise; and if
   fewer waits are done than raises the next wait can go.
3. *Clocks* (`ClocksReached`). A step that is done, or can go, finds every pipe of every core at least as far as
   its clock says: a clock says no more than one of the steps that enable it tells, and
   those are done (`CanGoClock`). So if a step's clock is past another step, the two are never at work at the same time.
4. *Memory* (`MemoryIsLast`). A buffer holds what one of the done steps that write it gives, and none
   of the others must come after that one; the initial `Nothing`, if none is done.

That all cores return is by the walk's order: were some step not done when nothing can
happen, the first of them in that order would be held up by no step before it and by no
flag. `StraightReturns`, `StraightClock` and `StraightBefore` restate the conditions for kernels
whose cores do not wait for one another, where the order of the program itself will do.

`AbsRuns` has no hypothesis: for any number of tiles and of vector cores it is proved that
`abs` *is* synchronized. `AbsShape` works out what stands at each position of a core's program (`FlattenRows`:
where `FlattenSeq` puts the tiles' steps; `AbsTilesOf`: which tiles they are), and from there on
everything goes by the position's remainder by 3: load, computation, store. A flag is
raised one or two positions before it is waited for (`AbsMatched`); `AbsClock` writes down how far the
other pipes have got when a step goes on, and each entry is what the matching raise or the step
three positions before tells (`AbsOwnClock`). By that clock loads and computations take turns at one buffer,
computations and stores at the other (`AbsUnraced`), each finds the tile put there one position before
(`AbsFindsOwn`), and as the shares of the cores are disjoint and cover all tiles
(`AbsTilesApart`, `AbsLeaves`), each tile of the output is stored once.

### Only model-checked

Liveness and the fair half of the refinement (`EveryCoreReturns`, `ImplementsAttention`:
the prover has no `ENABLED`); `NeverStuck` and weak fairness of each core are what
they come from. `ChunksSynchronized` and `KernelsSynchronized`, but for `abs`: a kernel's
program is a long sequence put together from its launch, and is looked at launch by
launch. `KernelsCompute`, whether the matrices are right, as running code on
numbers is a recursion over the code. And all findings, which are about an instance
anyway.

## 5. Abstractions

Except in `KernelReference` numbers are not computed: tiles are named, not filled.
`KernelReference` computes without rounding. Precision, overflow of half-precision
values and rounding are outside, and so is the softmax: in `FaPipes` its operands
are checked, and its result is not. Offsets are tile numbers, so the
32-bit products that form addresses are too. One AI core is modelled where AI
cores do not interact, which is everywhere but in the deal, between the
stream kernels' cores and in `scan_mc`.

The A5 build (`__CCE_AICORE__` other than 220, `REGISTER` base mode) uses other
cross-core instructions and more barriers, and is not modelled.

A tile is one buffer: zero padding inside it (`TFILLPAD`), row and column
views and UB addresses below the granularity of tiles are left out. In `KdaWy`,
where the tiles of two phases overlap, four regions stand for them, each the
larger of the overlapping tiles. Where a kernel works column by column between
barriers of all pipes (`KdaKkt`, the scores of `KdaChunkO`) one column stands for
all; the column tiles of `kda_gate_cumsum` follow one another as chunks do, and
one stands for all.

Most chunk kernels have a path for equal and one for variable lengths with the
same instructions; one program stands for both. In `wy_fast` the path for
variable lengths has a barrier of all pipes after each of the Cube's waits that
the other lacks; modelled is the program without, which allows all the other does.

Flash attention is modelled at two levels that are not composed.
`FlashAttention` runs a handler in one or two steps, with three cores and the
FIFOs between them. `FaPipes` runs one core's pipes by itself, and leaves the waits on
FIFOs out: the pipes are freer than in the code, so what holds here holds there. A
product is one slice, as `calculateFittingCubeK` finds for the built sizes
(all dimensions 128), and the hand-over of an accumulator by "unit flags"
(`AccPhase::Final`, `STPhase::Final`), which pto-isa hides, is a pair of flags.

`IndependentKernels` runs the Cube programs one core at a time, but for `scan_mc`,
of which all cores of all AI cores run together. The others share no flag,
and `KernelsRaceFree` checks that no core writes a buffer in GM another
touches. In `scan_mc` the scalar unit of a subblock reads and writes GM directly;
GM is taken to be coherent, though hardware puts a data cache in between that
the code neither invalidates nor flushes. All blocks are taken to run at once, as
they do when there are no more tiles than AI cores; with more, `SyncAll` would
wait for a block that has not begun (the host's FIXME, line 399, leaves
more tiles open). Which pipe executes `TFILLPAD` of an L1 tile is pto-isa's choice: the
launches have it on MTE1 and on MTE2.

Not modelled: host wrappers beyond the grids and tile counts mentioned (argument
checks and allocation without state), the other examples,
samples, tests, benchmarks and scripts, which are not part of the package.

## 6. What could come next

1. `FaPipes` with the FIFO waits, composed with its two neighbours; the carving of the
   workspace of host and kernel.
2. Zero padding inside tiles of the chunk kernels: `TFILLPAD_INPLACE` (vector pipe)
   follows `TLOAD` (MTE2) without a flag in `gdn chunk_h`.
3. An abstract handover (one slot, full or empty) that the workspaces of the
   chunk kernels implement; the same for the two slots of `kkt`.
4. That the programs of each kernel are synchronized for all lengths, numbers of tiles and
   cores (`Synchronized`), which needs no run, as for `abs`: `csr_gather` and `swiglu` next,
   whose steps go by two remainders, that of the kind of step and that of the buffer stage.
