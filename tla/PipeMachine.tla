---------------------------- MODULE PipeMachine -----------------------------
(***************************************************************************)
(* How an AI core executes a kernel.  The core's scalar unit issues the    *)
(* kernel's instructions in program order; each goes to the queue of its   *)
(* pipe (MTE2 loads, MTE1 and FIX move tiles, M multiplies, V computes,    *)
(* MTE3 stores, S is the scalar unit itself).  A pipe runs its own queue   *)
(* in order, but the pipes run independently of one another: only          *)
(* set_flag/wait_flag pairs, pipe barriers and, between cores, FFTS flags  *)
(* order an instruction of one pipe after an instruction of another.       *)
(*                                                                         *)
(* Kernel modules give every core its program; this module runs one of     *)
(* them, whichever is launched.                                            *)
(***************************************************************************)
EXTENDS PipeProgram

\* Programs[k][c]: the instructions core c issues in kernel k, in order.
CONSTANT Programs

Kernels == DOMAIN Programs

VARIABLES
  kernel,  \* the kernel launched
  at,      \* at[c][p]: the position of the next instruction of c's pipe p
  flag,    \* flag[f]: how often f was set and not yet waited for
  mem      \* mem[b]: the contents of buffer b

machine == <<kernel, at, flag, mem>>

Program == Programs[kernel]
Cores == DOMAIN Program

Instructions(k) ==
  UNION {{Programs[k][c][j] : j \in DOMAIN Programs[k][c]} : c \in DOMAIN Programs[k]}
Buffers == [k \in Kernels |-> UNION {i.reads \cup i.writes : i \in Instructions(k)}]
Flags == [k \in Kernels |-> UNION {i.wait \cup i.set : i \in Instructions(k)}]

\* The position at or after j of the next instruction pipe p takes part in.
NextAt ==
  [k \in Kernels |-> [c \in DOMAIN Programs[k] |-> [p \in Pipes |->
    [j \in 1 .. Len(Programs[k][c]) + 1 |->
       LET later == {l \in j .. Len(Programs[k][c]) : Programs[k][c][l].pipe \in {p, "ALL"}}
       IN IF later = {} THEN Len(Programs[k][c]) + 1
          ELSE CHOOSE l \in later : \A m \in later : l <= m]]]]
After(c, p, j) == NextAt[kernel][c][p][j]

Init ==
  /\ kernel \in Kernels
  /\ at = [c \in Cores |-> [p \in Pipes |-> After(c, p, 1)]]
  /\ flag = [f \in Flags[kernel] |-> 0]
  /\ mem = [b \in Buffers[kernel] |-> Nothing]

Idle(c, p) == at[c][p] > Len(Program[c])
Current(c, p) == Program[c][at[c][p]]

\* The scalar unit has got as far as pipe p's next instruction.
Issued(c, p) == at[c][p] <= at[c]["S"]

\* Pipe p may be executing its next instruction: nothing holds it back.
InFlight(c, p) ==
  /\ ~Idle(c, p)
  /\ Current(c, p).pipe = p
  /\ Issued(c, p)
  /\ \A f \in Current(c, p).wait : flag[f] > 0

\* Pipe p of core c completes its instruction.
Execute(c, p) ==
  LET i == Current(c, p)
  IN /\ InFlight(c, p)
     /\ flag' = [f \in DOMAIN flag |->
                   flag[f] - (IF f \in i.wait THEN 1 ELSE 0)
                           + (IF f \in i.set THEN 1 ELSE 0)]
     /\ mem' = IF i.writes = {} THEN mem
               ELSE [b \in DOMAIN mem |-> IF b \in i.writes THEN i.gives ELSE mem[b]]
     /\ at' = [at EXCEPT ![c][p] = After(c, p, @ + 1)]
     /\ UNCHANGED kernel

\* Every pipe of core c has reached the same pipe_barrier(PIPE_ALL).
AtBarrier(c) == \A p \in Pipes : ~Idle(c, p) /\ Current(c, p).pipe = "ALL"
Barrier(c) ==
  /\ AtBarrier(c)
  /\ at' = [at EXCEPT ![c] = [p \in Pipes |-> After(c, p, @[p] + 1)]]
  /\ UNCHANGED <<kernel, flag, mem>>

Next == \E c \in Cores : Barrier(c) \/ \E p \in Pipes : Execute(c, p)

\* Some pipe that nothing holds back goes on.  Every step moves a pipe
\* forward, so this is all the progress the hardware has to promise.
Spec == Init /\ [][Next]_machine /\ WF_machine(Next)

-----------------------------------------------------------------------------
Returned == \A c \in Cores, p \in Pipes : Idle(c, p)

\* Every flag set was waited for, but those in "left", which are up once.
FlagsDownBut(left) ==
  \A f \in DOMAIN flag : flag[f] = (IF f \in left THEN 1 ELSE 0)

\* Nothing holds any pipe back from anything: nothing more will happen.
Quiescent ==
  /\ \A c \in Cores, p \in Pipes : ~InFlight(c, p)
  /\ \A c \in Cores : ~AtBarrier(c)

Running == {x \in Cores \X Pipes : InFlight(x[1], x[2])}

\* Of two instructions that may be executing at once, on two pipes of a core
\* or on two cores, neither writes a buffer the other touches, but those in
\* "exempt".
RaceFreeBut(exempt) ==
  \A x, y \in Running : x # y =>
    LET i == Current(x[1], x[2])
        j == Current(y[1], y[2])
    IN i.writes \cap (j.reads \cup j.writes) \subseteq exempt

\* Every instruction that may be executing finds what it needs in the buffers
\* it reads, but in those in "exempt".
ReadsOwnBut(exempt) ==
  \A x \in Running : \A n \in Current(x[1], x[2]).needs :
    n[1] \notin exempt => mem[n[1]] = n[2]

TypeOK ==
  /\ kernel \in Kernels
  /\ at \in [Cores -> [Pipes -> Nat]]
  /\ flag \in [Flags[kernel] -> Nat]
  /\ DOMAIN mem = Buffers[kernel]
=============================================================================
