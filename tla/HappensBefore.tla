---------------------------- MODULE HappensBefore ----------------------------
(***************************************************************************)
(* What can be told of a kernel by reading its programs instead of running *)
(* them in every way the pipes might.  A program is synchronized when its  *)
(* steps can be put in one order in which no wait is in vain, and when its *)
(* flags, barriers and pipes put every two steps that touch a buffer, one  *)
(* of them writing, in an order that every run keeps.                      *)
(*                                                                         *)
(* That every run of a synchronized program returns, and that in all of    *)
(* them every step finds what it should, is proved in PipeMachine_proof.   *)
(*                                                                         *)
(* A step is <<c, j>>, the j-th instruction of core c.                     *)
(***************************************************************************)
EXTENDS PipeMachine, FiniteSets

Steps == [k \in Kernels |-> UNION {{c} \X DOMAIN Programs[k][c] : c \in DOMAIN Programs[k]}]
Step(k, x) == Programs[k][x[1]][x[2]]

\* The steps that raise flag f, that wait for it, that write buffer b.
Setters == [k \in Kernels |-> [f \in Flags[k] |-> {x \in Steps[k] : f \in Step(k, x).set}]]
Waiters == [k \in Kernels |-> [f \in Flags[k] |-> {x \in Steps[k] : f \in Step(k, x).wait}]]
Writers == [k \in Kernels |-> [b \in Buffers[k] |-> {x \in Steps[k] : b \in Step(k, x).writes}]]

\* Of the steps in "steps", all of one pipe, x is the Numbers(steps)[x]-th.
Numbers(steps) == [x \in steps |-> Cardinality({y \in steps : y[2] <= x[2]})]
Raises == [k \in Kernels |-> [f \in Flags[k] |-> Numbers(Setters[k][f])]]
Waits == [k \in Kernels |-> [f \in Flags[k] |-> Numbers(Waiters[k][f])]]

\* What step y waits for at flag f is what step x raises there.
Pairs(k, f, x, y) == Raises[k][f][x] = Waits[k][f][y]

\* Step x is issued before step y, on a pipe that holds up y until x is over.
Precedes(k, x, y) ==
  /\ x[1] = y[1] /\ x[2] < y[2]
  /\ \/ Step(k, x).pipe \in {Step(k, y).pipe, "S", "ALL"}
     \/ Step(k, y).pipe = "ALL"

Enables(k, x, y) ==
  \/ Precedes(k, x, y)
  \/ \E f \in Step(k, x).set \cap Step(k, y).wait : Pairs(k, f, x, y)

-----------------------------------------------------------------------------
\* Cores issue lists of instructions, each for a pipe or a barrier, which is
\* nothing else.
WellFormed(k) ==
  \A c \in DOMAIN Programs[k] :
    LET prog == Programs[k][c]
    IN /\ Len(prog) \in Nat /\ DOMAIN prog = 1 .. Len(prog)
       /\ \A j \in DOMAIN prog :
            /\ prog[j].pipe \in Pipes \cup {"ALL"}
            /\ prog[j].pipe = "ALL" =>
                 prog[j].wait = {} /\ prog[j].set = {} /\ prog[j].writes = {} /\ prog[j].needs = {}
            /\ \A n \in prog[j].needs : n[1] \in prog[j].reads

\* Every flag is raised on one pipe and waited for on one pipe.
OnOnePipe(k, steps) ==
  \E c \in DOMAIN Programs[k], p \in Pipes : \A x \in steps : x[1] = c /\ Step(k, x).pipe = p
FlagsHavePipes(k) ==
  \A f \in Flags[k] : OnOnePipe(k, Setters[k][f]) /\ OnOnePipe(k, Waiters[k][f])

(* A walk through a program is evidence of the rest: turn[c][j], when step *)
(* <<c, j>> is done if the steps are done one at a time; from[c][j], steps *)
(* that enable it; clock[c][j], how far every pipe has got, at the least,  *)
(* before it goes on.                                                      *)

\* No step waits in vain, and the flags in "left" are those up at the end.
ReturnsInTurn(k, walk, left) ==
  LET Sooner(x, y) == walk.turn[x[1]][x[2]] < walk.turn[y[1]][y[2]]
  IN /\ \A x \in Steps[k] : walk.turn[x[1]][x[2]] \in Nat
     /\ \A x, y \in Steps[k] : Precedes(k, x, y) => Sooner(x, y)
     /\ \A f \in Flags[k] : \A y \in Waiters[k][f] :
          \E x \in Setters[k][f] \cap walk.from[y[1]][y[2]] : Pairs(k, f, x, y) /\ Sooner(x, y)
     /\ \A f \in Flags[k] :
          Cardinality(Setters[k][f]) =
            Cardinality(Waiters[k][f]) + (IF f \in left THEN 1 ELSE 0)

\* What step x, once it is over, tells of pipe p of core c.
Tells(k, walk, x, c, p) ==
  IF x[1] = c /\ Step(k, x).pipe \in {p, "ALL"} THEN x[2] + 1
  ELSE walk.clock[x[1]][x[2]][c][p]

\* A step's clock says no more than one or another that enables it tells.
IsClock(k, walk) ==
  \A y \in Steps[k] :
    LET own == walk.clock[y[1]][y[2]]
        enablers == walk.from[y[1]][y[2]]
    IN /\ \A x \in enablers : x \in Steps[k] /\ Enables(k, x, y)
       /\ \A c \in DOMAIN Programs[k], p \in Pipes :
            /\ own[c][p] \in Nat
            /\ own[c][p] = 0 \/ \E x \in enablers : own[c][p] <= Tells(k, walk, x, c, p)

\* By its clock step y does not go on before step x is over.
Before(k, walk, x, y) == x[2] < walk.clock[y[1]][y[2]][x[1]][Step(k, x).pipe]

-----------------------------------------------------------------------------
\* Whoever touches a buffer does so before or after whoever else writes it.
Unraced(k, walk, exempt) ==
  \A b \in Buffers[k] \ exempt : \A x \in Writers[k][b], y \in Steps[k] :
    y # x /\ b \in Step(k, y).reads \cup Step(k, y).writes =>
      Before(k, walk, x, y) \/ Before(k, walk, y, x)

\* Of the steps that write b and are not among "later", the last gives v.
LastGives(k, walk, b, v, later) ==
  \/ v = Nothing /\ Writers[k][b] \subseteq later
  \/ \E x \in Writers[k][b] \ later :
       /\ Step(k, x).gives = v
       /\ \A w \in Writers[k][b] \ (later \cup {x}) : Before(k, walk, w, x)

\* What a step needs in a buffer is what was last written there before it.
FindsOwn(k, walk, exempt) ==
  \A y \in Steps[k] : \A n \in Step(k, y).needs : n[1] \notin exempt =>
    LET later == {w \in Writers[k][n[1]] : w = y \/ Before(k, walk, y, w)}
    IN /\ \A w \in Writers[k][n[1]] \ later : Before(k, walk, w, y)
       /\ LastGives(k, walk, n[1], n[2], later)

Leaves(k, walk, outputs) ==
  \A o \in outputs : o[1] \in Buffers[k] /\ LastGives(k, walk, o[1], o[2], {})

-----------------------------------------------------------------------------
(* A turn and a clock, by doing the steps one after another: last[c][p] is *)
(* the step pipe p of core c has done last, up[f] are those that raised f  *)
(* and have not been waited for.                                           *)

\* The comparison makes TLC evaluate v at once and not at each use.
Known(v) == IF v = v THEN v ELSE v
Greatest(numbers) == CHOOSE n \in numbers : \A m \in numbers : m <= n

Walked(k) ==
  LET prog == Programs[k]
      cores == DOMAIN prog
      each(v) == [c \in cores |-> [j \in DOMAIN prog[c] |-> v]]
      start ==
        [at |-> [c \in cores |-> [p \in Pipes |-> NextAt[k][c][p][1]]], steps |-> 0,
         last |-> [c \in cores |-> [p \in Pipes |-> {}]], up |-> [f \in Flags[k] |-> <<>>],
         turn |-> each(0), from |-> each({}), clock |-> each(<<>>)]
      free(s) ==
        {x \in UNION {{<<c, s.at[c][p]>> : p \in Pipes} : c \in cores} :
           /\ x \in Steps[k] /\ x[2] <= s.at[x[1]]["S"]
           /\ \A f \in Step(k, x).wait : s.up[f] # <<>>
           /\ Step(k, x).pipe = "ALL" => \A p \in Pipes : s.at[x[1]][p] = x[2]}
      done(s, x) ==
        LET c == x[1]
            j == x[2]
            i == Step(k, x)
            pipes == IF i.pipe = "ALL" THEN Pipes ELSE {i.pipe}
            from == UNION {s.last[c][p] : p \in pipes \cup {"S"}}
                    \cup {Head(s.up[f]) : f \in i.wait}
            told(d, p) == {0} \cup {Tells(k, s, y, d, p) : y \in from}
        IN Known(
             [at |-> [s.at EXCEPT ![c] = [p \in Pipes |->
                        IF p \in pipes THEN NextAt[k][c][p][j + 1] ELSE @[p]]],
              steps |-> s.steps + 1,
              last |-> [s.last EXCEPT ![c] = [p \in Pipes |->
                          IF p \in pipes THEN {x} ELSE @[p]]],
              up |-> [f \in Flags[k] |->
                        (IF f \in i.wait THEN Tail(s.up[f]) ELSE s.up[f])
                        \o (IF f \in i.set THEN <<x>> ELSE <<>>)],
              turn |-> [s.turn EXCEPT ![c][j] = s.steps],
              from |-> [s.from EXCEPT ![c][j] = from],
              clock |-> [s.clock EXCEPT ![c][j] =
                           [d \in cores |-> [p \in Pipes |-> Greatest(told(d, p))]]]])
      go(s) == IF free(s) = {} THEN s ELSE done(s, CHOOSE x \in free(s) : TRUE)
      \* Thirty steps at a time, for TLC's stack.
      some(s) == LET then[n \in 0 .. 30] == IF n = 0 THEN s ELSE go(then[n - 1])
                 IN IF s = s THEN then[30] ELSE s
      all[n \in Nat] == IF n = 0 THEN start ELSE some(all[n - 1])
  IN all[(Cardinality(Steps[k]) \div 30) + 1]

\* Kernel k needs no luck: no deadlock and no race outside "exempt", and
\* what its steps read there and leave in "outputs" is what they should.
Synchronized(k, walk, exempt, left, outputs) ==
  /\ WellFormed(k)
  /\ FlagsHavePipes(k)
  /\ ReturnsInTurn(k, walk, left)
  /\ IsClock(k, walk)
  /\ Unraced(k, walk, exempt)
  /\ FindsOwn(k, walk, exempt)
  /\ Leaves(k, walk, outputs)

\* No pipe has done anything yet.
NotBegun == \A c \in Cores, p \in Pipes : at[c][p] = After(c, p, 1)
=============================================================================
