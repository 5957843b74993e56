-------------------------- MODULE IndependentKernels --------------------------
(***************************************************************************)
(* The kernels whose cores do not wait for one another: the elementwise    *)
(* ones on the vector cores (abs, CSR gather, SwiGLU), the triangular      *)
(* inverses, the prefix sum and the plain products, and those of flash     *)
(* attention between two waits on a FIFO; and the prefix sum over several  *)
(* AI cores, whose cores all wait for all.  Inside a core the pipes hand   *)
(* buffers to one another by flags.                                        *)
(*                                                                         *)
(* The kernels written as code are run a core at a time, but for the last: *)
(* the cores share no flag and, which KernelsRaceFree states, no output.   *)
(***************************************************************************)
EXTENDS CoreCode

CONSTANTS
  Launches,     \* the launches of the kernels written as code
  AivCores,     \* vector cores of the elementwise kernels
  AbsTiles,     \* tiles of each elementwise kernel's tensors
  GatherTiles,
  SwiGluTiles,
  N_BUF         \* stages of CSR gather's UB buffers

ASSUME VectorAssumption ==
  /\ AivCores \in Nat \ {0} /\ N_BUF \in Nat \ {0}
  /\ AbsTiles \in Nat /\ GatherTiles \in Nat /\ SwiGluTiles \in Nat
  /\ DOMAIN Launches \cap {"abs", "csr_gather", "swiglu"} = {}

VARIABLES kernel, at, flag, mem

Abs == INSTANCE VAbs WITH NumTiles <- AbsTiles
Gather == INSTANCE CsrGather WITH NumTiles <- GatherTiles
SwiGLU == INSTANCE SwiGlu WITH NumCores <- AivCores, TotalTiles <- SwiGluTiles

RecUnroll == INSTANCE TriInvRecUnroll
NS == INSTANCE TriInvNS
Trick == INSTANCE TriInvTrick
ColSweep == INSTANCE TriInvColSweep
Samples == INSTANCE CubeSamples
MCScan == INSTANCE ScanMCSSA
Attention == INSTANCE FaPipes

-----------------------------------------------------------------------------
\* The code core "core" runs in launch l.
Code(l, core) ==
  CASE l.kernel = "tri_inv_rec_unroll" -> RecUnroll!TriInvRecUnrollKernel(l, core)
    [] l.kernel = "tri_inv_ns" -> NS!runKernelTriInvNS(l, core)
    [] l.kernel = "tri_inv_trick" -> Trick!runKernelTriInvTrick(core, l.max_block_size)
    [] l.kernel = "tri_inv_col_sweep" -> ColSweep!runTTriInv(core, l.n, l.cores, l.tiles)
    [] l.kernel = "scan_ul1" -> Samples!runKernelScanUl1
    [] l.kernel = "simple_matmul" -> Samples!runKernelSimpleMatMul
    [] l.kernel = "batch_matrix_square" -> Samples!runKernelBatchMatrixSquare(core)
    [] l.kernel = "fa_cube" -> Attention!CubeTFA(l)
    [] l.kernel = "fa_vec" -> Attention!VecTFA(l)

\* A run is a launch and the core looked at, or -1 for all its cores.
CoresOf(l) == IF l.kernel = "scan_mcssa" THEN {-1} ELSE 0 .. l.cores - 1
RunsOf(name) == {name} \X CoresOf(Launches[name])
CodeRuns == UNION {RunsOf(name) : name \in DOMAIN Launches}

Codes ==
  Evaluated([run \in CodeRuns |->
    LET l == Launches[run[1]]
    IN IF run[2] = -1 THEN MCScan!runKernelScanMCSSA(l.cores) ELSE On(run[2], Code(l, run[2]))])

\* The elementwise kernels, all cores at once.
VectorPrograms ==
  [abs |-> Abs!Program, csr_gather |-> Gather!Program, swiglu |-> SwiGLU!Program]
VectorOutputs ==
  [abs |-> Abs!Outputs, csr_gather |-> Gather!Outputs, swiglu |-> SwiGLU!Outputs]
VectorRuns == {"abs", "csr_gather", "swiglu"} \X {-1}

Programs ==
  Evaluated([run \in CodeRuns \cup VectorRuns |->
    IF run \in CodeRuns THEN [c \in CoresIn(Codes[run]) |-> Issued(c, Codes[run])]
    ELSE VectorPrograms[run[1]]])

\* What a run leaves in GM.
Outputs ==
  Evaluated([run \in CodeRuns \cup VectorRuns |->
    IF run \in CodeRuns THEN LeftBehind(Codes[run]) ELSE VectorOutputs[run[1]]])

Core == INSTANCE HappensBefore
Spec == Core!Spec

-----------------------------------------------------------------------------
Touched(run) == {b \in BuffersOf(Codes[run]) : InGm(b)}
Written(run) == {o[1] : o \in Outputs[run]}

OutputsThere == \A o \in Outputs[kernel] : mem[o[1]] = o[2]

\* No core of the launch touches what another writes to GM.
OutputsApart(run) ==
  \A other \in CodeRuns \ {run} :
    other[1] = run[1] => Written(run) \cap Touched(other) = {}

\* No pipe touches a buffer another is still using, and no core an output of
\* another: the flags of every kernel are enough for as many tiles as it has
\* in flight, loads ahead and the flags handed from slot to slot included.
KernelsRaceFree ==
  /\ Core!RaceFreeBut({})
  /\ kernel \in CodeRuns => OutputsApart(kernel)

\* Whatever is loaded, moved, multiplied or stored is what the code, read one
\* statement after another, would have found there, through however many
\* buffers and rounds it goes.
KernelsInOrder == Core!ReadsOwnBut({})

\* When nothing more can happen every core has returned, with its flags down
\* for the next launch, the last round's, however few tiles it had, included,
\* and every output is there.
KernelsReturn ==
  Core!Quiescent =>
    /\ Core!Returned /\ Core!FlagsDownBut({})
    /\ OutputsThere

\* The programs of a run can be seen to be in order without running them, and
\* its outputs are no other core's to touch.
Synchronized(run) ==
  /\ Core!Synchronized(run, Core!Walked(run), {}, {}, Outputs[run])
  /\ run \in CodeRuns => OutputsApart(run)

\* The code hands every buffer on by flags, not by luck: for every two steps
\* that touch one, its flags, barriers and pipes say which is first, in all
\* runs, and no step waits for what is never raised.
KernelsSynchronized == Core!NotBegun => Synchronized(kernel)
=============================================================================
