-------------------------- MODULE PipeMachine_proof --------------------------
(***************************************************************************)
(* What HappensBefore reads off a kernel's programs is true of every run   *)
(* of PipeMachine, for all programs: one whose steps can all be done in    *)
(* some order returns however its pipes run, with the flags up that should *)
(* be; steps its flags put in an order never run at the same time; and     *)
(* what a step needs to find in a buffer is there when it may run.         *)
(*                                                                         *)
(* The argument counts flags.  Of the steps that raise a flag and those    *)
(* that wait for it, as many more of the first are done as the flag stands *)
(* high; each are done in order, being on one pipe; so the n-th wait is    *)
(* over only after the n-th raise.  A step's clock is then never ahead of  *)
(* the pipes, and everything else is read off the clocks.                  *)
(***************************************************************************)
EXTENDS HappensBefore, FiniteSetTheorems, FunctionTheorems, WellFoundedInduction, TLAPS

-----------------------------------------------------------------------------
(* Positions in a program.                                                 *)

\* Every non-empty set of numbers has a least element.
LEMMA LeastNumber ==
  ASSUME NEW T \in SUBSET Nat, T # {}
  PROVE  \E x \in T : \A y \in T : x <= y
<1> DEFINE R == {ss \in Nat \X Nat : ss[1] < ss[2]}
<1>1. IsWellFoundedOn(R, Nat)
  <2>1. R = OpToRel(<, Nat)
    BY Zenon DEF OpToRel
  <2> QED
    BY <2>1, NatLessThanWellFounded, Zenon
<1> HIDE DEF R
<1>2. PICK x \in T : \A y \in T : ~(<<y, x>> \in R)
  BY <1>1, WFMin, Zenon
<1>3. ASSUME NEW y \in T
      PROVE  x <= y
  <2>1. <<y, x>> \notin R
    BY <1>2
  <2>2. ~(y < x)
    BY <2>1 DEF R
  <2> QED
    BY <2>2
<1> QED
  BY <1>3

LEMMA StepsAre ==
  ASSUME NEW k \in Kernels, NEW x
  PROVE  x \in Steps[k] <=>
           \E c \in DOMAIN Programs[k] : \E j \in DOMAIN Programs[k][c] : x = <<c, j>>
<1>1. Steps[k] = UNION {{c} \X DOMAIN Programs[k][c] : c \in DOMAIN Programs[k]}
  BY DEF Steps
<1> QED
  BY <1>1

\* Step x as it is found in its core's program.
LEMMA StepParts ==
  ASSUME NEW k \in Kernels, WellFormed(k), NEW x \in Steps[k]
  PROVE  /\ x = <<x[1], x[2]>>
         /\ x[1] \in DOMAIN Programs[k]
         /\ Len(Programs[k][x[1]]) \in Nat
         /\ x[2] \in 1 .. Len(Programs[k][x[1]])
         /\ Step(k, x) = Programs[k][x[1]][x[2]]
         /\ Step(k, x).pipe \in Pipes \cup {"ALL"}
         /\ Step(k, x).pipe = "ALL" =>
              /\ Step(k, x).wait = {} /\ Step(k, x).set = {}
              /\ Step(k, x).writes = {} /\ Step(k, x).needs = {}
         /\ \A n \in Step(k, x).needs : n[1] \in Step(k, x).reads
<1>1. PICK c \in DOMAIN Programs[k] : \E j \in DOMAIN Programs[k][c] : x = <<c, j>>
  BY StepsAre
<1>2. PICK j \in DOMAIN Programs[k][c] : x = <<c, j>>
  BY <1>1
<1> QED
  BY <1>2 DEF WellFormed, Step

\* Pipe p of core c takes part in the instruction at j.
TakesPart(k, c, p, j) == Programs[k][c][j].pipe \in {p, "ALL"}

\* The pipes that take part in step x.
PipesOf(k, x) == IF Step(k, x).pipe = "ALL" THEN Pipes ELSE {Step(k, x).pipe}

LEMMA PipesOfStep ==
  ASSUME NEW k \in Kernels, WellFormed(k), NEW x \in Steps[k]
  PROVE  /\ PipesOf(k, x) \subseteq Pipes /\ PipesOf(k, x) # {}
         /\ \A p \in Pipes : p \in PipesOf(k, x) <=> TakesPart(k, x[1], p, x[2])
         /\ Step(k, x).pipe # "ALL" => Step(k, x).pipe \in Pipes
         /\ "ALL" \notin Pipes
  BY StepParts DEF PipesOf, TakesPart, Pipes, Step

LEMMA NextAtIs ==
  ASSUME NEW k \in Kernels, WellFormed(k), NEW c \in DOMAIN Programs[k], NEW p \in Pipes,
         NEW j \in 1 .. Len(Programs[k][c]) + 1
  PROVE  /\ NextAt[k][c][p][j] \in j .. Len(Programs[k][c]) + 1
         /\ NextAt[k][c][p][j] <= Len(Programs[k][c]) => TakesPart(k, c, p, NextAt[k][c][p][j])
         /\ \A l \in j .. NextAt[k][c][p][j] - 1 : ~TakesPart(k, c, p, l)
<1> DEFINE n == Len(Programs[k][c])
           later == {l \in j .. n : TakesPart(k, c, p, l)}
           r == NextAt[k][c][p][j]
<1>1. n \in Nat
  BY DEF WellFormed
<1>2. r = IF later = {} THEN n + 1 ELSE CHOOSE l \in later : \A m \in later : l <= m
  BY <1>1 DEF NextAt, TakesPart
<1>3. CASE later = {}
  <2>1. r = n + 1
    BY <1>2, <1>3, Zenon
  <2> QED
    BY <1>1, <1>3, <2>1
<1>4. CASE later # {}
  <2>1. \E l \in later : \A m \in later : l <= m
    <3>1. later \in SUBSET Nat
      BY <1>1
    <3> HIDE DEF later
    <3> QED
      BY <1>4, <3>1, LeastNumber
  <2>2. r \in later /\ \A m \in later : r <= m
    <3> HIDE DEF later, n, r
    <3> QED
      BY <1>2, <1>4, <2>1, Zenon
  <2> QED
    BY <1>1, <2>2
<1> QED
  BY <1>3, <1>4

-----------------------------------------------------------------------------
(* A step of the machine is a step of the program that is held up by       *)
(* nothing, on all the pipes that take part in it.                         *)

\* All pipes that take part in step x are past it.
Done(k, x) == \A p \in PipesOf(k, x) : at[x[1]][p] > x[2]

\* Nothing holds up step x.
CanGo(k, x) ==
  /\ \A p \in PipesOf(k, x) : at[x[1]][p] = x[2]
  /\ x[2] <= at[x[1]]["S"]
  /\ \A f \in Step(k, x).wait : flag[f] > 0

One(P) == IF P THEN 1 ELSE 0

\* Step x is done now.
Goes(k, x) ==
  /\ \A c \in DOMAIN Programs[k], p \in Pipes :
       at'[c][p] = IF c = x[1] /\ p \in PipesOf(k, x)
                   THEN NextAt[k][c][p][x[2] + 1] ELSE at[c][p]
  /\ \A f \in Flags[k] :
       flag'[f] = flag[f] - One(f \in Step(k, x).wait) + One(f \in Step(k, x).set)
  /\ \A b \in Buffers[k] :
       mem'[b] = IF b \in Step(k, x).writes THEN Step(k, x).gives ELSE mem[b]

\* Every pipe is at an instruction it takes part in, or at the end.
Placed(k) ==
  /\ at \in [DOMAIN Programs[k] -> [Pipes -> Nat]]
  /\ \A c \in DOMAIN Programs[k], p \in Pipes :
       LET n == Len(Programs[k][c])
       IN at[c][p] \in 1 .. n + 1 /\ (at[c][p] <= n => TakesPart(k, c, p, at[c][p]))

Typed(k) ==
  /\ kernel = k
  /\ Placed(k)
  /\ flag \in [Flags[k] -> Nat]
  /\ DOMAIN mem = Buffers[k]

\* What a pipe is at that nothing holds back is a step that can go.
LEMMA InFlightCanGo ==
  ASSUME NEW k \in Kernels, WellFormed(k), Typed(k), NEW c \in Cores, NEW p \in Pipes,
         InFlight(c, p)
  PROVE  LET x == <<c, at[c][p]>>
         IN x \in Steps[k] /\ CanGo(k, x) /\ Step(k, x) = Current(c, p) /\ Step(k, x).pipe = p
<1> DEFINE x == <<c, at[c][p]>>
<1>1. c \in DOMAIN Programs[k] /\ Len(Programs[k][c]) \in Nat
      /\ DOMAIN Programs[k][c] = 1 .. Len(Programs[k][c])
  BY DEF Typed, Cores, Program, WellFormed
<1>2. at[c][p] \in DOMAIN Programs[k][c]
  BY <1>1 DEF Typed, Placed, InFlight, Idle, Program
<1>3. x \in Steps[k]
  BY <1>1, <1>2, StepsAre
<1>4. Step(k, x) = Current(c, p) /\ Step(k, x).pipe = p
  BY DEF Step, Current, Program, Typed, InFlight
<1>5. PipesOf(k, x) = {p}
  BY <1>4 DEF PipesOf, Pipes
<1>6. CanGo(k, x)
  BY <1>4, <1>5 DEF CanGo, InFlight, Issued
<1> QED
  BY <1>3, <1>4, <1>6

\* No pipe is past a barrier that another has yet to get past.
Aligned(k) ==
  \A x \in Steps[k] :
    Step(k, x).pipe = "ALL" =>
      \/ \A p \in Pipes : at[x[1]][p] > x[2]
      \/ \A p \in Pipes : at[x[1]][p] <= x[2]

\* The pipes of a core that are all at barriers are at the same one.
LEMMA AtBarrierCanGo ==
  ASSUME NEW k \in Kernels, WellFormed(k), Typed(k), Aligned(k), NEW c \in Cores, AtBarrier(c)
  PROVE  LET x == <<c, at[c]["S"]>>
         IN /\ x \in Steps[k] /\ CanGo(k, x) /\ Step(k, x).pipe = "ALL"
            /\ \A p \in Pipes : at[c][p] = x[2]
<1> DEFINE x == <<c, at[c]["S"]>>
<1>0. "S" \in Pipes
  BY DEF Pipes
<1>1. c \in DOMAIN Programs[k] /\ Len(Programs[k][c]) \in Nat
      /\ DOMAIN Programs[k][c] = 1 .. Len(Programs[k][c])
  BY DEF Typed, Cores, Program, WellFormed
<1>2. ASSUME NEW p \in Pipes
      PROVE  /\ at[c][p] \in Nat /\ at[c][p] \in DOMAIN Programs[k][c]
             /\ Programs[k][c][at[c][p]].pipe = "ALL"
  <2>1. at[c][p] \in 1 .. Len(Programs[k][c]) + 1
    BY <1>1 DEF Typed, Placed
  <2>2. at[c][p] <= Len(Programs[k][c]) /\ Programs[k][c][at[c][p]].pipe = "ALL"
    BY <1>1, <2>1 DEF AtBarrier, Idle, Current, Program, Typed
  <2> QED
    BY <1>1, <2>1, <2>2
<1>3. \A p \in Pipes : <<c, at[c][p]>> \in Steps[k] /\ Step(k, <<c, at[c][p]>>).pipe = "ALL"
  BY <1>1, <1>2, StepsAre DEF Step
<1>4. ASSUME NEW p \in Pipes
      PROVE  at[c][p] = x[2]
  <2>1. ASSUME NEW y \in Steps[k], Step(k, y).pipe = "ALL", y[1] = c
        PROVE  (\A q \in Pipes : at[c][q] > y[2]) \/ (\A q \in Pipes : at[c][q] <= y[2])
    BY <2>1 DEF Aligned
  <2>2. \A q \in Pipes :
          (\A r \in Pipes : at[c][r] > at[c][q]) \/ (\A r \in Pipes : at[c][r] <= at[c][q])
    BY <1>3, <2>1
  <2> QED
    BY <1>0, <1>2, <2>1, <2>2
<1>5. Step(k, x).wait = {}
  BY <1>0, <1>3, StepParts
<1>6. CanGo(k, x)
  BY <1>0, <1>2, <1>3, <1>4, <1>5 DEF CanGo, PipesOf
<1> QED
  BY <1>0, <1>3, <1>4, <1>6

\* Conversely, a step that can go is in flight, or its core at a barrier.
LEMMA CanGoGoes ==
  ASSUME NEW k \in Kernels, WellFormed(k), Typed(k), NEW x \in Steps[k], CanGo(k, x)
  PROVE  \/ \E p \in Pipes : InFlight(x[1], p)
         \/ AtBarrier(x[1])
<1> DEFINE c == x[1]
<1>1. /\ c \in DOMAIN Programs[k] /\ x[2] \in 1 .. Len(Programs[k][c])
      /\ Len(Programs[k][c]) \in Nat
      /\ Program = Programs[k] /\ Step(k, x) = Programs[k][c][x[2]]
  BY StepParts DEF Typed, Program
<1> HIDE DEF c
<1>2. CASE Step(k, x).pipe = "ALL"
  <2>1. \A p \in Pipes : at[c][p] = x[2]
    BY <1>2 DEF CanGo, PipesOf, c
  <2>2. ASSUME NEW p \in Pipes
        PROVE  ~Idle(c, p) /\ Current(c, p).pipe = "ALL"
    <3>1. at[c][p] = x[2]
      BY <2>1
    <3> QED
      BY <1>1, <1>2, <3>1 DEF Idle, Current
  <2> QED
    BY <2>2 DEF AtBarrier, c
<1>3. CASE Step(k, x).pipe # "ALL"
  <2> DEFINE p == Step(k, x).pipe
  <2>1. p \in Pipes /\ at[c][p] = x[2]
    BY <1>3, PipesOfStep DEF CanGo, PipesOf, c
  <2>2. ~Idle(c, p) /\ Current(c, p) = Step(k, x)
    BY <1>1, <2>1 DEF Idle, Current
  <2>3. InFlight(c, p)
    BY <2>1, <2>2 DEF InFlight, Issued, CanGo, c
  <2> QED
    BY <2>1, <2>3 DEF c
<1> QED
  BY <1>2, <1>3

\* Whatever the machine does is a step of the program that could go.
LEMMA NextGoes ==
  ASSUME NEW k \in Kernels, WellFormed(k), Typed(k), Aligned(k), Next
  PROVE  /\ kernel' = k
         /\ at' \in [DOMAIN Programs[k] -> [Pipes -> Nat]]
         /\ DOMAIN flag' = Flags[k] /\ DOMAIN mem' = Buffers[k]
         /\ \E x \in Steps[k] : CanGo(k, x) /\ Goes(k, x)
<1> DEFINE prog == Programs[k]
<1>0. Program = prog /\ Cores = DOMAIN prog /\ kernel = k /\ "S" \in Pipes
      /\ at \in [DOMAIN prog -> [Pipes -> Nat]] /\ DOMAIN flag = Flags[k]
      /\ DOMAIN mem = Buffers[k] /\ \A f \in Flags[k] : flag[f] \in Nat
  BY DEF Program, Cores, Typed, Placed, Pipes
<1>1. ASSUME NEW c \in Cores, NEW p \in Pipes
      PROVE  at[c][p] + 1 \in Nat
             /\ (at[c][p] <= Len(prog[c]) => NextAt[k][c][p][at[c][p] + 1] \in Nat)
  <2>1. at[c][p] \in 1 .. Len(prog[c]) + 1 /\ Len(prog[c]) \in Nat
    BY <1>0 DEF Typed, Placed, WellFormed
  <2>2. ASSUME at[c][p] <= Len(prog[c])
        PROVE  NextAt[k][c][p][at[c][p] + 1] \in Nat
    <3> DEFINE j == at[c][p] + 1
    <3>1. j \in 1 .. Len(Programs[k][c]) + 1 /\ c \in DOMAIN Programs[k]
      BY <1>0, <2>1, <2>2
    <3>2. NextAt[k][c][p][j] \in j .. Len(Programs[k][c]) + 1
      <4> HIDE DEF j
      <4> QED
        BY <3>1, NextAtIs
    <3> QED
      BY <2>1, <3>1, <3>2
  <2> QED
    BY <2>1, <2>2
<1>2. ASSUME NEW c \in Cores, NEW p \in Pipes, Execute(c, p)
      PROVE  /\ kernel' = k
             /\ at' \in [DOMAIN prog -> [Pipes -> Nat]]
             /\ DOMAIN flag' = Flags[k] /\ DOMAIN mem' = Buffers[k]
             /\ \E x \in Steps[k] : CanGo(k, x) /\ Goes(k, x)
  <2> DEFINE x == <<c, at[c][p]>>
  <2>1. x \in Steps[k] /\ CanGo(k, x) /\ Step(k, x) = Current(c, p) /\ Step(k, x).pipe = p
    BY <1>2, InFlightCanGo DEF Execute
  <2>2. x[2] \in 1 .. Len(prog[c]) /\ PipesOf(k, x) = {p}
    BY <2>1, StepParts DEF PipesOf, Pipes
  <2>3. at' = [at EXCEPT ![c][p] = NextAt[k][c][p][at[c][p] + 1]]
    BY <1>0, <1>2 DEF Execute, After
  <2>4. NextAt[k][c][p][at[c][p] + 1] \in Nat
    BY <1>1, <2>2
  <2>5. at' \in [DOMAIN prog -> [Pipes -> Nat]]
    BY <1>0, <2>3, <2>4
  <2>6. ASSUME NEW d \in DOMAIN prog, NEW q \in Pipes
        PROVE  at'[d][q] = IF d = x[1] /\ q \in PipesOf(k, x)
                           THEN NextAt[k][d][q][x[2] + 1] ELSE at[d][q]
    BY <1>0, <2>2, <2>3
  <2>7. DOMAIN flag' = Flags[k] /\ DOMAIN mem' = Buffers[k]
    BY <1>0, <1>2 DEF Execute
  <2>8. ASSUME NEW f \in Flags[k]
        PROVE  flag'[f] = flag[f] - One(f \in Step(k, x).wait) + One(f \in Step(k, x).set)
    BY <1>0, <1>2, <2>1 DEF Execute, One
  <2>9. ASSUME NEW b \in Buffers[k]
        PROVE  mem'[b] = IF b \in Step(k, x).writes THEN Step(k, x).gives ELSE mem[b]
    BY <1>0, <1>2, <2>1 DEF Execute
  <2>10. Goes(k, x)
    BY <2>6, <2>8, <2>9 DEF Goes
  <2> QED
    BY <1>0, <1>2, <2>1, <2>5, <2>7, <2>10 DEF Execute
<1>3. ASSUME NEW c \in Cores, Barrier(c)
      PROVE  /\ kernel' = k
             /\ at' \in [DOMAIN prog -> [Pipes -> Nat]]
             /\ DOMAIN flag' = Flags[k] /\ DOMAIN mem' = Buffers[k]
             /\ \E x \in Steps[k] : CanGo(k, x) /\ Goes(k, x)
  <2> DEFINE x == <<c, at[c]["S"]>>
  <2>1. /\ x \in Steps[k] /\ CanGo(k, x) /\ Step(k, x).pipe = "ALL"
        /\ \A p \in Pipes : at[c][p] = x[2]
    BY <1>3, AtBarrierCanGo DEF Barrier
  <2>2. /\ x[2] \in 1 .. Len(prog[c]) /\ PipesOf(k, x) = Pipes
        /\ Step(k, x).wait = {} /\ Step(k, x).set = {} /\ Step(k, x).writes = {}
    BY <2>1, StepParts DEF PipesOf
  <2>3. at' = [at EXCEPT ![c] = [p \in Pipes |-> NextAt[k][c][p][at[c][p] + 1]]]
    BY <1>0, <1>3 DEF Barrier, After
  <2>4. \A p \in Pipes : NextAt[k][c][p][at[c][p] + 1] \in Nat
    <3>1. ASSUME NEW p \in Pipes
          PROVE  at[c][p] <= Len(prog[c])
      BY <2>1, <2>2
    <3> QED
      BY <1>1, <3>1
  <2>5. at' \in [DOMAIN prog -> [Pipes -> Nat]]
    BY <1>0, <2>3, <2>4
  <2>6. ASSUME NEW d \in DOMAIN prog, NEW q \in Pipes
        PROVE  at'[d][q] = IF d = x[1] /\ q \in PipesOf(k, x)
                           THEN NextAt[k][d][q][x[2] + 1] ELSE at[d][q]
    BY <1>0, <2>1, <2>2, <2>3
  <2>7. flag' = flag /\ mem' = mem /\ kernel' = kernel
    BY <1>3 DEF Barrier
  <2>8. Goes(k, x)
    <3>1. \A f \in Flags[k] :
            flag'[f] = flag[f] - One(f \in Step(k, x).wait) + One(f \in Step(k, x).set)
      <4>1. \A f \in Flags[k] : One(f \in Step(k, x).wait) = 0 /\ One(f \in Step(k, x).set) = 0
        BY <2>2 DEF One
      <4> QED
        BY <1>0, <2>7, <4>1
    <3>2. \A b \in Buffers[k] :
            mem'[b] = IF b \in Step(k, x).writes THEN Step(k, x).gives ELSE mem[b]
      BY <2>2, <2>7
    <3> QED
      BY <2>6, <3>1, <3>2 DEF Goes
  <2> QED
    BY <1>0, <2>1, <2>5, <2>7, <2>8
<1> QED
  BY <1>2, <1>3 DEF Next

-----------------------------------------------------------------------------
(* A step that goes is done after it, and the other steps are as before.   *)

\* A pipe gets past one position it takes part in, that of the step.
LEMMA GoesPast ==
  ASSUME NEW k \in Kernels, WellFormed(k), Placed(k), NEW x \in Steps[k], CanGo(k, x), Goes(k, x),
         NEW y \in Steps[k], NEW p \in PipesOf(k, y)
  PROVE  at'[y[1]][p] > y[2] <=> at[y[1]][p] > y[2] \/ y = x
<1> DEFINE c == y[1]
           l == y[2]
           n == Len(Programs[k][c])
           r == NextAt[k][c][p][x[2] + 1]
<1>1. /\ c \in DOMAIN Programs[k] /\ n \in Nat /\ l \in 1 .. n /\ y = <<c, l>>
      /\ p \in Pipes /\ TakesPart(k, c, p, l)
      /\ x = <<x[1], x[2]>> /\ x[2] \in Nat
  BY StepParts, PipesOfStep
<1>2. at[c][p] \in Nat
  BY <1>1 DEF Placed
<1>3. CASE ~(c = x[1] /\ p \in PipesOf(k, x))
  <2>1. at'[c][p] = at[c][p]
    BY <1>1, <1>3 DEF Goes
  <2>2. y # x
    BY <1>3
  <2> QED
    BY <2>1, <2>2
<1>4. CASE c = x[1] /\ p \in PipesOf(k, x)
  <2>1. at'[c][p] = r /\ at[c][p] = x[2]
    BY <1>1, <1>4 DEF Goes, CanGo
  <2>2. x[2] \in 1 .. n
    BY <1>4, StepParts
  <2>3. x[2] + 1 \in 1 .. n + 1
    BY <1>1, <2>2
  <2>4. r \in x[2] + 1 .. n + 1 /\ \A m \in x[2] + 1 .. r - 1 : ~TakesPart(k, c, p, m)
    BY <1>1, <2>3, NextAtIs
  <2>5. r > l <=> l <= x[2]
    <3>1. ASSUME r > l, l > x[2]
          PROVE  FALSE
      <4> HIDE DEF r, c, n
      <4> QED
        BY <1>1, <2>2, <2>4, <3>1
    <3> HIDE DEF r, c, n
    <3> QED
      BY <1>1, <2>2, <2>4, <3>1
  <2>6. y = x <=> l = x[2]
    BY <1>1, <1>4
  <2> HIDE DEF r, c, n
  <2> QED
    BY <1>1, <2>1, <2>2, <2>5, <2>6 DEF c
<1> QED
  BY <1>3, <1>4

LEMMA GoesDone ==
  ASSUME NEW k \in Kernels, WellFormed(k), Placed(k), NEW x \in Steps[k], CanGo(k, x), Goes(k, x)
  PROVE  /\ ~Done(k, x)
         /\ \A y \in Steps[k] : Done(k, y)' <=> Done(k, y) \/ y = x
<1>1. ~Done(k, x)
  <2>1. PICK p \in PipesOf(k, x) : TRUE
    BY PipesOfStep
  <2>2. at[x[1]][p] = x[2] /\ x[2] \in Nat
    BY <2>1, StepParts DEF CanGo
  <2> QED
    BY <2>1, <2>2 DEF Done
<1>2. ASSUME NEW y \in Steps[k]
      PROVE  Done(k, y)' <=> Done(k, y) \/ y = x
  <2>1. Done(k, y)' <=> \A p \in PipesOf(k, y) : at'[y[1]][p] > y[2]
    BY DEF Done
  <2>2. Done(k, y)' <=> \A p \in PipesOf(k, y) : at[y[1]][p] > y[2] \/ y = x
    BY <2>1, GoesPast
  <2> QED
    BY <2>2 DEF Done
<1> QED
  BY <1>1, <1>2

LEMMA GoesPlaced ==
  ASSUME NEW k \in Kernels, WellFormed(k), Placed(k), NEW x \in Steps[k], CanGo(k, x), Goes(k, x),
         at' \in [DOMAIN Programs[k] -> [Pipes -> Nat]]
  PROVE  Placed(k)'
<1>1. ASSUME NEW c \in DOMAIN Programs[k], NEW p \in Pipes
      PROVE  /\ at'[c][p] \in 1 .. Len(Programs[k][c]) + 1
             /\ at'[c][p] <= Len(Programs[k][c]) => TakesPart(k, c, p, at'[c][p])
  <2> DEFINE n == Len(Programs[k][c])
             r == NextAt[k][c][p][x[2] + 1]
  <2>1. CASE ~(c = x[1] /\ p \in PipesOf(k, x))
    <3>1. at'[c][p] = at[c][p]
      BY <2>1 DEF Goes
    <3> QED
      BY <3>1 DEF Placed
  <2>2. CASE c = x[1] /\ p \in PipesOf(k, x)
    <3>1. at'[c][p] = r
      BY <2>2 DEF Goes
    <3>2. n \in Nat /\ x[2] \in 1 .. n
      BY <2>2, StepParts
    <3>3. x[2] + 1 \in 1 .. n + 1
      BY <3>2
    <3>4. r \in x[2] + 1 .. n + 1 /\ (r <= n => TakesPart(k, c, p, r))
      BY <3>3, NextAtIs
    <3> QED
      BY <3>1, <3>2, <3>4
  <2> QED
    BY <2>1, <2>2
<1> QED
  BY <1>1 DEF Placed

LEMMA GoesAligned ==
  ASSUME NEW k \in Kernels, WellFormed(k), Placed(k), Aligned(k), NEW x \in Steps[k],
         CanGo(k, x), Goes(k, x), Placed(k)'
  PROVE  Aligned(k)'
<1>1. SUFFICES ASSUME NEW y \in Steps[k], Step(k, y).pipe = "ALL"
               PROVE  \/ \A p \in Pipes : at'[y[1]][p] > y[2]
                      \/ \A p \in Pipes : at'[y[1]][p] <= y[2]
  BY DEF Aligned
<1>2. PipesOf(k, y) = Pipes /\ y[1] \in DOMAIN Programs[k] /\ y[2] \in Nat
  BY <1>1, StepParts DEF PipesOf
<1>3. \A p \in Pipes : at'[y[1]][p] > y[2] <=> at[y[1]][p] > y[2] \/ y = x
  BY <1>2, GoesPast
<1>4. \A p \in Pipes : at[y[1]][p] \in Nat /\ at'[y[1]][p] \in Nat
  BY <1>2 DEF Placed
<1>5. \/ \A p \in Pipes : at[y[1]][p] > y[2]
      \/ \A p \in Pipes : at[y[1]][p] <= y[2]
  BY <1>1 DEF Aligned
<1> QED
  BY <1>2, <1>3, <1>4, <1>5

-----------------------------------------------------------------------------
(* Flags are counted by the steps that are done.                           *)

DoneOf(k, steps) == {x \in steps : Done(k, x)}

FlagsCounted(k) ==
  \A f \in Flags[k] :
    /\ flag[f] \in Nat
    /\ Cardinality(DoneOf(k, Setters[k][f])) =
         flag[f] + Cardinality(DoneOf(k, Waiters[k][f]))

LEMMA StepsOfOnePipe ==
  ASSUME NEW k \in Kernels, WellFormed(k), NEW T \in SUBSET Steps[k], OnOnePipe(k, T)
  PROVE  /\ IsFiniteSet(T)
         /\ \E c \in DOMAIN Programs[k], p \in Pipes :
              \A x \in T : x[1] = c /\ x[2] \in Nat /\ x = <<c, x[2]>> /\ PipesOf(k, x) = {p}
<1>1. PICK c \in DOMAIN Programs[k], p \in Pipes : \A x \in T : x[1] = c /\ Step(k, x).pipe = p
  BY DEF OnOnePipe
<1> DEFINE n == Len(Programs[k][c])
<1>2. n \in Nat /\ "ALL" \notin Pipes
  BY DEF WellFormed, Pipes
<1>3. \A x \in T : x[1] = c /\ x[2] \in 1 .. n /\ x = <<c, x[2]>> /\ PipesOf(k, x) = {p}
  BY <1>1, <1>2, StepParts DEF PipesOf
<1>4. IsFiniteSet({c} \X (1 .. n))
  <2>1. IsFiniteSet({c})
    BY FS_Singleton, Zenon
  <2>2. IsFiniteSet(1 .. n)
    BY <1>2, FS_Interval
  <2> QED
    BY <2>1, <2>2, FS_Product
<1>5. T \subseteq {c} \X (1 .. n)
  BY <1>3
<1>6. IsFiniteSet(T)
  BY <1>4, <1>5, FS_Subset
<1> QED
  BY <1>2, <1>3, <1>6

\* The steps around a flag are finitely many, on one pipe each.
LEMMA FlagSteps ==
  ASSUME NEW k \in Kernels, WellFormed(k), FlagsHavePipes(k), NEW f \in Flags[k]
  PROVE  /\ Setters[k][f] \in SUBSET Steps[k] /\ OnOnePipe(k, Setters[k][f])
         /\ Waiters[k][f] \in SUBSET Steps[k] /\ OnOnePipe(k, Waiters[k][f])
         /\ IsFiniteSet(Setters[k][f]) /\ IsFiniteSet(Waiters[k][f])
         /\ \A x \in Steps[k] : x \in Setters[k][f] <=> f \in Step(k, x).set
         /\ \A x \in Steps[k] : x \in Waiters[k][f] <=> f \in Step(k, x).wait
<1>1. /\ Setters[k][f] = {x \in Steps[k] : f \in Step(k, x).set}
      /\ Waiters[k][f] = {x \in Steps[k] : f \in Step(k, x).wait}
  BY DEF Setters, Waiters
<1>2. OnOnePipe(k, Setters[k][f]) /\ OnOnePipe(k, Waiters[k][f])
  BY DEF FlagsHavePipes
<1> QED
  BY <1>1, <1>2, StepsOfOnePipe

LEMMA GoesCounts ==
  ASSUME NEW k \in Kernels, WellFormed(k), Placed(k), NEW x \in Steps[k], CanGo(k, x), Goes(k, x),
         NEW T \in SUBSET Steps[k], IsFiniteSet(T)
  PROVE  /\ Cardinality(DoneOf(k, T)) \in Nat
         /\ Cardinality(DoneOf(k, T)') = Cardinality(DoneOf(k, T)) + One(x \in T)
<1> DEFINE D == DoneOf(k, T)
<1>1. IsFiniteSet(D) /\ Cardinality(D) \in Nat
  <2>1. D \in SUBSET T
    BY DEF DoneOf
  <2> QED
    BY <2>1, FS_Subset, FS_CardinalityType
<1>2. D' = {y \in T : Done(k, y)'}
  BY DEF DoneOf
<1>3. ~Done(k, x) /\ \A y \in T : Done(k, y)' <=> Done(k, y) \/ y = x
  BY GoesDone
<1>4. CASE x \in T
  <2>1. D' = D \cup {x} /\ x \notin D
    BY <1>2, <1>3, <1>4 DEF DoneOf
  <2>2. Cardinality(D \cup {x}) = Cardinality(D) + 1
    <3> HIDE DEF D
    <3> QED
      BY <1>1, <2>1, FS_AddElement
  <2> QED
    BY <1>1, <1>4, <2>1, <2>2 DEF One
<1>5. CASE x \notin T
  <2>1. D' = D
    BY <1>2, <1>3, <1>5 DEF DoneOf
  <2> QED
    BY <1>1, <1>5, <2>1 DEF One
<1> QED
  BY <1>4, <1>5

LEMMA GoesFlagsCounted ==
  ASSUME NEW k \in Kernels, WellFormed(k), FlagsHavePipes(k), Placed(k), FlagsCounted(k),
         NEW x \in Steps[k], CanGo(k, x), Goes(k, x)
  PROVE  FlagsCounted(k)'
<1>1. SUFFICES ASSUME NEW f \in Flags[k]
               PROVE  /\ flag'[f] \in Nat
                      /\ Cardinality(DoneOf(k, Setters[k][f])') =
                           flag'[f] + Cardinality(DoneOf(k, Waiters[k][f])')
  BY DEF FlagsCounted
<1> DEFINE S == Setters[k][f]
           W == Waiters[k][f]
<1>2. /\ Cardinality(DoneOf(k, S)) \in Nat /\ Cardinality(DoneOf(k, W)) \in Nat
      /\ Cardinality(DoneOf(k, S)') = Cardinality(DoneOf(k, S)) + One(x \in S)
      /\ Cardinality(DoneOf(k, W)') = Cardinality(DoneOf(k, W)) + One(x \in W)
  BY FlagSteps, GoesCounts
<1>3. One(x \in S) = One(f \in Step(k, x).set) /\ One(x \in W) = One(f \in Step(k, x).wait)
  BY FlagSteps DEF One
<1>4. flag[f] \in Nat /\ Cardinality(DoneOf(k, S)) = flag[f] + Cardinality(DoneOf(k, W))
  BY DEF FlagsCounted
<1>5. flag'[f] = flag[f] - One(f \in Step(k, x).wait) + One(f \in Step(k, x).set)
  BY DEF Goes
<1>6. flag[f] - One(f \in Step(k, x).wait) \in Nat /\ One(f \in Step(k, x).wait) \in Nat
  BY <1>4 DEF CanGo, One
<1>7. One(f \in Step(k, x).set) \in Nat
  BY DEF One
<1> HIDE DEF S, W
<1>8. /\ flag'[f] \in Nat
      /\ Cardinality(DoneOf(k, S)') = flag'[f] + Cardinality(DoneOf(k, W)')
  BY <1>2, <1>3, <1>4, <1>5, <1>6, <1>7
<1> QED
  BY <1>8 DEF S, W

-----------------------------------------------------------------------------
(* The steps of one pipe are done in their order, so how many are done     *)
(* tells which.                                                            *)

\* T's steps up to x.
UpTo(T, x) == {y \in T : y[2] <= x[2]}

LEMMA NumbersAre ==
  ASSUME NEW k \in Kernels, WellFormed(k), Placed(k),
         NEW T \in SUBSET Steps[k], OnOnePipe(k, T), NEW x \in T
  PROVE  /\ Numbers(T)[x] \in Nat /\ Cardinality(DoneOf(k, T)) \in Nat
         /\ Done(k, x) => Cardinality(DoneOf(k, T)) >= Numbers(T)[x]
         /\ ~Done(k, x) => Cardinality(DoneOf(k, T)) < Numbers(T)[x]
         /\ CanGo(k, x) => Cardinality(DoneOf(k, T)) = Numbers(T)[x] - 1
<1>1. PICK c \in DOMAIN Programs[k], p \in Pipes :
        \A y \in T : y[1] = c /\ y[2] \in Nat /\ y = <<c, y[2]>> /\ PipesOf(k, y) = {p}
  BY StepsOfOnePipe
<1>2. at[c][p] \in Nat
  BY DEF Placed
<1>3. \A y \in T : Done(k, y) <=> y[2] < at[c][p]
  BY <1>1, <1>2 DEF Done
<1>4. Numbers(T)[x] = Cardinality(UpTo(T, x))
  BY DEF Numbers, UpTo
<1>5. /\ IsFiniteSet(UpTo(T, x)) /\ Cardinality(UpTo(T, x)) \in Nat
      /\ IsFiniteSet(DoneOf(k, T)) /\ Cardinality(DoneOf(k, T)) \in Nat
  <2>1. IsFiniteSet(T)
    BY StepsOfOnePipe
  <2>2. UpTo(T, x) \in SUBSET T /\ DoneOf(k, T) \in SUBSET T
    BY DEF UpTo, DoneOf
  <2> QED
    BY <2>1, <2>2, FS_Subset, FS_CardinalityType
<1>6. ASSUME Done(k, x)
      PROVE  Cardinality(DoneOf(k, T)) >= Cardinality(UpTo(T, x))
  <2>1. UpTo(T, x) \in SUBSET DoneOf(k, T)
    BY <1>1, <1>2, <1>3, <1>6 DEF UpTo, DoneOf
  <2> QED
    BY <1>5, <2>1, FS_Subset
<1>7. /\ IsFiniteSet(UpTo(T, x) \ {x})
      /\ Cardinality(UpTo(T, x) \ {x}) = Cardinality(UpTo(T, x)) - 1
  <2>1. x \in UpTo(T, x)
    BY <1>1 DEF UpTo
  <2> QED
    BY <1>5, <2>1, FS_RemoveElement
<1>8. ASSUME ~Done(k, x)
      PROVE  Cardinality(DoneOf(k, T)) < Cardinality(UpTo(T, x))
  <2>1. DoneOf(k, T) \in SUBSET (UpTo(T, x) \ {x})
    BY <1>1, <1>2, <1>3, <1>8 DEF UpTo, DoneOf
  <2>2. Cardinality(DoneOf(k, T)) <= Cardinality(UpTo(T, x) \ {x})
    BY <1>7, <2>1, FS_Subset
  <2> QED
    BY <1>5, <1>7, <2>2
<1>9. ASSUME CanGo(k, x)
      PROVE  DoneOf(k, T) = UpTo(T, x) \ {x}
  <2>1. at[c][p] = x[2]
    BY <1>1, <1>9 DEF CanGo
  <2>2. \A y \in T : y[2] < x[2] <=> y[2] <= x[2] /\ y # x
    BY <1>1
  <2> QED
    BY <1>3, <2>1, <2>2 DEF UpTo, DoneOf
<1> QED
  BY <1>4, <1>5, <1>6, <1>7, <1>8, <1>9

-----------------------------------------------------------------------------
(* Every run keeps the order the flags, barriers and pipes ask for.        *)

\* The n-th wait at a flag is over only after the n-th raise.
LEMMA RaisedBefore ==
  ASSUME NEW k \in Kernels, WellFormed(k), FlagsHavePipes(k), Placed(k), FlagsCounted(k),
         NEW f \in Flags[k], NEW x \in Setters[k][f], NEW y \in Waiters[k][f], Pairs(k, f, x, y),
         CanGo(k, y)
  PROVE  Done(k, x)
<1> DEFINE S == Setters[k][f]
           W == Waiters[k][f]
           s == Cardinality(DoneOf(k, S))
           w == Cardinality(DoneOf(k, W))
<1>1. Numbers(S)[x] = Numbers(W)[y]
  BY DEF Pairs, Raises, Waits
<1>2. w \in Nat /\ w = Numbers(W)[y] - 1 /\ Numbers(W)[y] \in Nat
  BY FlagSteps, NumbersAre
<1>3. s = flag[f] + w /\ flag[f] \in Nat
  BY DEF FlagsCounted
<1>4. flag[f] > 0
  BY FlagSteps DEF CanGo
<1>5. ~Done(k, x) => s < Numbers(S)[x]
  BY FlagSteps, NumbersAre
<1> HIDE DEF S, W, s, w
<1> QED
  BY <1>1, <1>2, <1>3, <1>4, <1>5

LEMMA PrecedingDone ==
  ASSUME NEW k \in Kernels, WellFormed(k), Placed(k), Aligned(k),
         NEW x \in Steps[k], NEW y \in Steps[k], Precedes(k, x, y), CanGo(k, y)
  PROVE  Done(k, x)
<1> DEFINE c == y[1]
<1>1. x[1] = c /\ x[2] < y[2] /\ x[2] \in Nat /\ y[2] \in Nat /\ c \in DOMAIN Programs[k]
  BY StepParts DEF Precedes
<1>2. \A p \in Pipes : at[c][p] \in Nat
  BY <1>1 DEF Placed
<1>3. \A p \in PipesOf(k, y) : at[c][p] > x[2]
  BY <1>1 DEF CanGo
<1>4. CASE Step(k, y).pipe = "ALL"
  BY <1>1, <1>3, <1>4, PipesOfStep DEF Done, PipesOf
<1>5. CASE Step(k, x).pipe = "S"
  <2>1. at[c]["S"] > x[2]
    BY <1>1, <1>2 DEF CanGo, Pipes
  <2> QED
    BY <1>1, <1>5, <2>1 DEF Done, PipesOf
<1>6. CASE Step(k, x).pipe = "ALL"
  <2>1. PICK p \in PipesOf(k, y) : p \in Pipes /\ at[c][p] > x[2]
    BY <1>3, PipesOfStep
  <2>2. \A q \in Pipes : at[c][q] > x[2]
    BY <1>1, <1>2, <1>6, <2>1 DEF Aligned
  <2> QED
    BY <1>1, <1>6, <2>2 DEF Done, PipesOf
<1>7. CASE Step(k, x).pipe = Step(k, y).pipe /\ Step(k, x).pipe # "ALL"
  BY <1>1, <1>3, <1>7 DEF Done, PipesOf
<1> QED
  BY <1>4, <1>5, <1>6, <1>7 DEF Precedes

LEMMA StepFlags ==
  ASSUME NEW k \in Kernels, NEW x \in Steps[k]
  PROVE  Step(k, x).wait \cup Step(k, x).set \subseteq Flags[k]
<1>1. PICK c \in DOMAIN Programs[k] : \E j \in DOMAIN Programs[k][c] : x = <<c, j>>
  BY StepsAre
<1>2. PICK j \in DOMAIN Programs[k][c] : x = <<c, j>>
  BY <1>1
<1>3. Step(k, x) \in Instructions(k)
  BY <1>2 DEF Instructions, Step
<1> QED
  BY <1>3 DEF Flags

LEMMA EnablersDone ==
  ASSUME NEW k \in Kernels, WellFormed(k), FlagsHavePipes(k), Placed(k), Aligned(k),
         FlagsCounted(k), NEW x \in Steps[k], NEW y \in Steps[k], Enables(k, x, y), CanGo(k, y)
  PROVE  Done(k, x)
<1>1. CASE Precedes(k, x, y)
  BY <1>1, PrecedingDone
<1>2. ASSUME NEW f \in Step(k, x).set \cap Step(k, y).wait, Pairs(k, f, x, y)
      PROVE  Done(k, x)
  <2>1. f \in Flags[k]
    BY StepFlags
  <2>2. x \in Setters[k][f] /\ y \in Waiters[k][f]
    BY <2>1, FlagSteps
  <2> QED
    BY <1>2, <2>1, <2>2, RaisedBefore
<1> QED
  BY <1>1, <1>2 DEF Enables

-----------------------------------------------------------------------------
(* A step that is done, or can go, finds the pipes where its clock says    *)
(* they are at the least.                                                  *)

ClockReached(k, walk, y) ==
  \A c \in DOMAIN Programs[k], p \in Pipes : walk.clock[y[1]][y[2]][c][p] <= at[c][p]

ClocksReached(k, walk) == \A y \in Steps[k] : Done(k, y) => ClockReached(k, walk, y)

LEMMA CanGoClock ==
  ASSUME NEW k \in Kernels, NEW walk, WellFormed(k), FlagsHavePipes(k), IsClock(k, walk),
         Placed(k), Aligned(k), FlagsCounted(k), ClocksReached(k, walk),
         NEW y \in Steps[k], CanGo(k, y)
  PROVE  ClockReached(k, walk, y)
<1> DEFINE own == walk.clock[y[1]][y[2]]
           enablers == walk.from[y[1]][y[2]]
<1>1. SUFFICES ASSUME NEW c \in DOMAIN Programs[k], NEW p \in Pipes
               PROVE  own[c][p] <= at[c][p]
  BY DEF ClockReached
<1>2. /\ \A x \in enablers : x \in Steps[k] /\ Enables(k, x, y)
      /\ own[c][p] \in Nat
      /\ own[c][p] = 0 \/ \E x \in enablers : own[c][p] <= Tells(k, walk, x, c, p)
  BY DEF IsClock
<1>3. at[c][p] \in Nat
  BY DEF Placed
<1>4. ASSUME NEW x \in enablers, own[c][p] <= Tells(k, walk, x, c, p)
      PROVE  own[c][p] <= at[c][p]
  <2>1. x \in Steps[k] /\ Done(k, x)
    BY <1>2, <1>4, EnablersDone
  <2>2. CASE x[1] = c /\ Step(k, x).pipe \in {p, "ALL"}
    <3>1. p \in PipesOf(k, x)
      BY <2>2 DEF PipesOf
    <3>2. at[c][p] > x[2] /\ x[2] \in Nat
      BY <2>1, <2>2, <3>1, StepParts DEF Done
    <3>3. own[c][p] <= x[2] + 1
      BY <1>4, <2>2 DEF Tells
    <3> HIDE DEF own
    <3> QED
      BY <1>2, <1>3, <3>2, <3>3
  <2>3. CASE ~(x[1] = c /\ Step(k, x).pipe \in {p, "ALL"})
    <3> DEFINE told == walk.clock[x[1]][x[2]][c][p]
    <3>1. own[c][p] <= told
      BY <1>4, <2>3 DEF Tells
    <3>2. told <= at[c][p] /\ told \in Nat
      BY <2>1 DEF ClocksReached, ClockReached, IsClock
    <3> HIDE DEF own, told
    <3> QED
      BY <1>2, <1>3, <3>1, <3>2
  <2> QED
    BY <2>2, <2>3
<1>5. ASSUME own[c][p] = 0
      PROVE  own[c][p] <= at[c][p]
  BY <1>3, <1>5
<1> QED
  BY <1>2, <1>4, <1>5, Zenon

\* The pipes never turn back, so the clock of a step done stays reached.
LEMMA GoesClocksReached ==
  ASSUME NEW k \in Kernels, NEW walk, WellFormed(k), FlagsHavePipes(k), IsClock(k, walk),
         Placed(k), Aligned(k), FlagsCounted(k), ClocksReached(k, walk), Placed(k)',
         NEW x \in Steps[k], CanGo(k, x), Goes(k, x)
  PROVE  ClocksReached(k, walk)'
<1>1. ASSUME NEW c \in DOMAIN Programs[k], NEW p \in Pipes
      PROVE  at[c][p] \in Nat /\ at'[c][p] \in Nat /\ at[c][p] <= at'[c][p]
  <2>1. at[c][p] \in Nat /\ at'[c][p] \in Nat
    BY DEF Placed
  <2>2. CASE ~(c = x[1] /\ p \in PipesOf(k, x))
    BY <2>1, <2>2 DEF Goes
  <2>3. CASE c = x[1] /\ p \in PipesOf(k, x)
    <3> DEFINE j == x[2] + 1
               r == NextAt[k][c][p][j]
    <3>1. Len(Programs[k][c]) \in Nat /\ x[2] \in 1 .. Len(Programs[k][c])
      BY <2>3, StepParts
    <3>2. j \in 1 .. Len(Programs[k][c]) + 1
      BY <3>1
    <3>3. r \in j .. Len(Programs[k][c]) + 1
      <4> HIDE DEF j
      <4> QED
        BY <3>2, NextAtIs
    <3>4. at'[c][p] = r /\ at[c][p] = x[2]
      BY <2>3 DEF Goes, CanGo
    <3> HIDE DEF r
    <3> QED
      BY <3>1, <3>3, <3>4
  <2> QED
    BY <2>2, <2>3
<1>2. ASSUME NEW y \in Steps[k], Done(k, y)',
             NEW c \in DOMAIN Programs[k], NEW p \in Pipes
      PROVE  walk.clock[y[1]][y[2]][c][p] <= at'[c][p]
  <2> DEFINE own == walk.clock[y[1]][y[2]][c][p]
  <2>1. ClockReached(k, walk, y)
    BY <1>2, GoesDone, CanGoClock DEF ClocksReached
  <2>2. own <= at[c][p] /\ own \in Nat
    BY <2>1 DEF ClockReached, IsClock
  <2> HIDE DEF own
  <2>3. own <= at'[c][p]
    BY <1>1, <2>2
  <2> QED
    BY <2>3 DEF own
<1> QED
  BY <1>2 DEF ClocksReached, ClockReached

-----------------------------------------------------------------------------
(* What a buffer holds is what the last of the steps that are done and     *)
(* write it gives; none of the others has to come after that one.          *)

MemoryIsLast(k, walk) ==
  \A b \in Buffers[k] :
    \/ mem[b] = Nothing /\ \A w \in Writers[k][b] : ~Done(k, w)
    \/ \E w \in Writers[k][b] :
         /\ Done(k, w) /\ mem[b] = Step(k, w).gives
         /\ \A v \in Writers[k][b] : Done(k, v) /\ v # w => ~Before(k, walk, w, v)

LEMMA WritersAre ==
  ASSUME NEW k \in Kernels, WellFormed(k), NEW b \in Buffers[k]
  PROVE  \A w : w \in Writers[k][b] <=> w \in Steps[k] /\ b \in Step(k, w).writes
  BY DEF Writers

LEMMA StepBuffers ==
  ASSUME NEW k \in Kernels, NEW x \in Steps[k]
  PROVE  Step(k, x).reads \cup Step(k, x).writes \subseteq Buffers[k]
<1>1. PICK c \in DOMAIN Programs[k] : \E j \in DOMAIN Programs[k][c] : x = <<c, j>>
  BY StepsAre
<1>2. PICK j \in DOMAIN Programs[k][c] : x = <<c, j>>
  BY <1>1
<1>3. Step(k, x) \in Instructions(k)
  BY <1>2 DEF Instructions, Step
<1> QED
  BY <1>3 DEF Buffers

\* A step that is no barrier and before one that has reached its clock is
\* over.
LEMMA BeforeDone ==
  ASSUME NEW k \in Kernels, NEW walk, WellFormed(k), IsClock(k, walk), Placed(k),
         NEW x \in Steps[k], Step(k, x).pipe # "ALL",
         NEW y \in Steps[k], ClockReached(k, walk, y), Before(k, walk, x, y)
  PROVE  Done(k, x) /\ ~CanGo(k, x)
<1> DEFINE p == Step(k, x).pipe
           told == walk.clock[y[1]][y[2]][x[1]][p]
<1>1. p \in Pipes /\ PipesOf(k, x) = {p} /\ x[1] \in DOMAIN Programs[k] /\ x[2] \in Nat
  BY StepParts, PipesOfStep DEF PipesOf
<1>2. x[2] < told
  BY DEF Before
<1>3. told \in Nat /\ told <= at[x[1]][p] /\ at[x[1]][p] \in Nat
  BY <1>1 DEF IsClock, ClockReached, Placed
<1> HIDE DEF p, told
<1>4. at[x[1]][p] > x[2]
  BY <1>1, <1>2, <1>3
<1> QED
  BY <1>1, <1>4 DEF Done, CanGo

LEMMA GoesMemory ==
  ASSUME NEW k \in Kernels, NEW walk, WellFormed(k), FlagsHavePipes(k), IsClock(k, walk),
         Placed(k), ClocksReached(k, walk), MemoryIsLast(k, walk),
         NEW x \in Steps[k], CanGo(k, x), Goes(k, x)
  PROVE  MemoryIsLast(k, walk)'
<1>1. SUFFICES ASSUME NEW b \in Buffers[k]
               PROVE  \/ mem'[b] = Nothing /\ \A w \in Writers[k][b] : ~Done(k, w)'
                      \/ \E w \in Writers[k][b] :
                           /\ Done(k, w)' /\ mem'[b] = Step(k, w).gives
                           /\ \A v \in Writers[k][b] :
                                Done(k, v)' /\ v # w => ~Before(k, walk, w, v)
  BY DEF MemoryIsLast, Before
<1>2. ~Done(k, x) /\ \A w \in Writers[k][b] : Done(k, w)' <=> Done(k, w) \/ w = x
  BY GoesDone, WritersAre
<1>3. CASE b \in Step(k, x).writes
  <2>1. x \in Writers[k][b] /\ Done(k, x)' /\ mem'[b] = Step(k, x).gives
    BY <1>2, <1>3, WritersAre DEF Goes
  <2>2. Step(k, x).pipe # "ALL"
    BY <1>3, StepParts
  <2>3. ASSUME NEW v \in Writers[k][b], Done(k, v)', v # x
        PROVE  ~Before(k, walk, x, v)
    <3>1. v \in Steps[k] /\ ClockReached(k, walk, v)
      BY <1>2, <2>3, WritersAre DEF ClocksReached
    <3> QED
      BY <1>2, <2>2, <3>1, BeforeDone
  <2> QED
    BY <2>1, <2>3
<1>4. CASE b \notin Step(k, x).writes
  <2>1. mem'[b] = mem[b]
    BY <1>4 DEF Goes
  <2>2. \A w \in Writers[k][b] : Done(k, w)' <=> Done(k, w)
    BY <1>2, <1>4, WritersAre
  <2>3. \/ mem[b] = Nothing /\ \A w \in Writers[k][b] : ~Done(k, w)
        \/ \E w \in Writers[k][b] :
             /\ Done(k, w) /\ mem[b] = Step(k, w).gives
             /\ \A v \in Writers[k][b] : Done(k, v) /\ v # w => ~Before(k, walk, w, v)
    BY DEF MemoryIsLast
  <2> QED
    BY <2>1, <2>2, <2>3
<1> QED
  BY <1>3, <1>4

\* If the steps done among those that write b are those not in "later", b
\* holds what the last of them gives.
LEMMA HoldsLast ==
  ASSUME NEW k \in Kernels, NEW walk, MemoryIsLast(k, walk), NEW b \in Buffers[k],
         NEW later, \A w \in Writers[k][b] : Done(k, w) <=> w \notin later,
         NEW v, LastGives(k, walk, b, v, later)
  PROVE  mem[b] = v
<1>1. CASE v = Nothing /\ Writers[k][b] \subseteq later
  BY <1>1 DEF MemoryIsLast
<1>2. ASSUME NEW x \in Writers[k][b] \ later, Step(k, x).gives = v,
             \A w \in Writers[k][b] \ (later \cup {x}) : Before(k, walk, w, x)
      PROVE  mem[b] = v
  <2>1. PICK w \in Writers[k][b] :
          /\ Done(k, w) /\ mem[b] = Step(k, w).gives
          /\ \A u \in Writers[k][b] : Done(k, u) /\ u # w => ~Before(k, walk, w, u)
    BY DEF MemoryIsLast
  <2>2. w = x
    BY <1>2, <2>1
  <2> QED
    BY <1>2, <2>1, <2>2
<1> QED
  BY <1>1, <1>2 DEF LastGives

-----------------------------------------------------------------------------
(* All of this holds in every state of a kernel whose flags have pipes and *)
(* whose clocks are clocks.                                                *)

InStep(k, walk) ==
  /\ Typed(k)
  /\ Aligned(k)
  /\ FlagsCounted(k)
  /\ ClocksReached(k, walk)
  /\ MemoryIsLast(k, walk)

LEMMA InitInStep ==
  ASSUME NEW k \in Kernels, NEW walk, WellFormed(k), FlagsHavePipes(k), Init, kernel = k
  PROVE  InStep(k, walk)
<1> DEFINE prog == Programs[k]
<1>1. /\ at = [c \in DOMAIN prog |-> [p \in Pipes |-> NextAt[k][c][p][1]]]
      /\ flag = [f \in Flags[k] |-> 0] /\ mem = [b \in Buffers[k] |-> Nothing]
  BY DEF Init, Cores, Program, After
<1>2. ASSUME NEW c \in DOMAIN prog, NEW p \in Pipes
      PROVE  /\ at[c][p] \in Nat /\ at[c][p] \in 1 .. Len(prog[c]) + 1
             /\ at[c][p] <= Len(prog[c]) => TakesPart(k, c, p, at[c][p])
             /\ \A l \in 1 .. Len(prog[c]) : TakesPart(k, c, p, l) => at[c][p] <= l
  <2> DEFINE r == NextAt[k][c][p][1]
  <2>1. Len(prog[c]) \in Nat
    BY DEF WellFormed
  <2>2. 1 \in 1 .. Len(prog[c]) + 1
    BY <2>1
  <2>3. /\ r \in 1 .. Len(prog[c]) + 1 /\ (r <= Len(prog[c]) => TakesPart(k, c, p, r))
        /\ \A l \in 1 .. r - 1 : ~TakesPart(k, c, p, l)
    BY <2>2, NextAtIs
  <2>4. at[c][p] = r
    BY <1>1
  <2> HIDE DEF r, prog
  <2> QED
    BY <2>1, <2>3, <2>4
<1>3. Placed(k)
  BY <1>1, <1>2 DEF Placed
<1>4. Typed(k)
  BY <1>1, <1>3 DEF Typed
<1>5. ASSUME NEW x \in Steps[k], NEW p \in PipesOf(k, x)
      PROVE  at[x[1]][p] <= x[2] /\ ~(at[x[1]][p] > x[2])
  <2>1. x[1] \in DOMAIN prog /\ x[2] \in 1 .. Len(prog[x[1]]) /\ Len(prog[x[1]]) \in Nat
        /\ p \in Pipes /\ TakesPart(k, x[1], p, x[2])
    BY StepParts, PipesOfStep
  <2> HIDE DEF prog
  <2>2. at[x[1]][p] \in Nat /\ at[x[1]][p] <= x[2]
    BY <1>2, <2>1
  <2> QED
    BY <2>1, <2>2
<1>6. \A x \in Steps[k] : ~Done(k, x)
  BY <1>5, PipesOfStep DEF Done
<1>7. Aligned(k)
  BY <1>5 DEF Aligned, PipesOf
<1>8. FlagsCounted(k)
  <2>1. ASSUME NEW f \in Flags[k]
        PROVE  /\ flag[f] \in Nat
               /\ Cardinality(DoneOf(k, Setters[k][f])) =
                    flag[f] + Cardinality(DoneOf(k, Waiters[k][f]))
    <3>1. DoneOf(k, Setters[k][f]) = {} /\ DoneOf(k, Waiters[k][f]) = {}
      BY <1>6, FlagSteps DEF DoneOf
    <3>2. Cardinality({}) = 0
      BY FS_EmptySet
    <3> QED
      BY <1>1, <3>1, <3>2
  <2> QED
    BY <2>1 DEF FlagsCounted
<1>9. ClocksReached(k, walk)
  BY <1>6 DEF ClocksReached
<1>10. MemoryIsLast(k, walk)
  BY <1>1, <1>6, WritersAre DEF MemoryIsLast
<1> QED
  BY <1>4, <1>7, <1>8, <1>9, <1>10 DEF InStep

\* The flags of a kernel are functions, whatever it does.
LEMMA FlagsKept ==
  ASSUME NEW k \in Kernels, Typed(k), Next, DOMAIN flag' = Flags[k],
         FlagsCounted(k)'
  PROVE  flag' \in [Flags[k] -> Nat]
<1>1. \A f \in Flags[k] : flag'[f] \in Nat
  BY DEF FlagsCounted
<1>2. flag' = [f \in DOMAIN flag' |-> flag'[f]]
  <2>1. ASSUME NEW c \in Cores, NEW p \in Pipes, Execute(c, p)
        PROVE  flag' = [f \in DOMAIN flag' |-> flag'[f]]
    BY <2>1 DEF Execute
  <2>2. ASSUME NEW c \in Cores, Barrier(c)
        PROVE  flag' = [f \in DOMAIN flag' |-> flag'[f]]
    BY <2>2 DEF Barrier, Typed
  <2> QED
    BY <2>1, <2>2 DEF Next
<1> QED
  BY <1>1, <1>2

LEMMA NextInStep ==
  ASSUME NEW k \in Kernels, NEW walk, WellFormed(k), FlagsHavePipes(k), IsClock(k, walk),
         InStep(k, walk), [Next]_machine
  PROVE  InStep(k, walk)'
<1>1. CASE Next
  <2>1. Typed(k) /\ Placed(k) /\ Aligned(k) /\ FlagsCounted(k) /\ ClocksReached(k, walk)
        /\ MemoryIsLast(k, walk)
    BY DEF InStep, Typed
  <2>2. /\ kernel' = k
        /\ at' \in [DOMAIN Programs[k] -> [Pipes -> Nat]]
        /\ DOMAIN flag' = Flags[k] /\ DOMAIN mem' = Buffers[k]
        /\ \E x \in Steps[k] : CanGo(k, x) /\ Goes(k, x)
    BY <1>1, <2>1, NextGoes
  <2>3. PICK x \in Steps[k] : CanGo(k, x) /\ Goes(k, x)
    BY <2>2
  <2>4. Placed(k)'
    BY <2>1, <2>2, <2>3, GoesPlaced
  <2>5. Aligned(k)'
    BY <2>1, <2>3, <2>4, GoesAligned
  <2>6. FlagsCounted(k)'
    BY <2>1, <2>3, GoesFlagsCounted
  <2>7. ClocksReached(k, walk)'
    BY <2>1, <2>3, <2>4, GoesClocksReached
  <2>8. MemoryIsLast(k, walk)'
    BY <2>1, <2>3, GoesMemory
  <2>9. flag' \in [Flags[k] -> Nat]
    BY <1>1, <2>1, <2>2, <2>6, FlagsKept
  <2> QED
    BY <2>2, <2>4, <2>5, <2>6, <2>7, <2>8, <2>9 DEF InStep, Typed
<1>2. CASE UNCHANGED machine
  <2>1. kernel' = kernel /\ at' = at /\ flag' = flag /\ mem' = mem
    BY <1>2 DEF machine
  <2> QED
    BY <2>1 DEF InStep, Typed, Placed, Aligned, FlagsCounted, DoneOf, Done, ClocksReached,
                ClockReached, MemoryIsLast
<1> QED
  BY <1>1, <1>2

-----------------------------------------------------------------------------
(* What follows of the steps that can go.                                  *)

\* No two steps that may go at once race for a buffer outside "exempt".
LEMMA InStepRaceFree ==
  ASSUME NEW k \in Kernels, NEW walk, NEW exempt, WellFormed(k), FlagsHavePipes(k),
         IsClock(k, walk), Unraced(k, walk, exempt), InStep(k, walk)
  PROVE  RaceFreeBut(exempt)
<1> USE DEF InStep
<1>1. SUFFICES ASSUME NEW u \in Running, NEW v \in Running, u # v,
                      NEW b \in Current(u[1], u[2]).writes
                                  \cap (Current(v[1], v[2]).reads \cup Current(v[1], v[2]).writes),
                      b \notin exempt
               PROVE  FALSE
  BY DEF RaceFreeBut
<1> DEFINE x == <<u[1], at[u[1]][u[2]]>>
           y == <<v[1], at[v[1]][v[2]]>>
<1>2. /\ u = <<u[1], u[2]>> /\ u[1] \in Cores /\ u[2] \in Pipes /\ InFlight(u[1], u[2])
      /\ v = <<v[1], v[2]>> /\ v[1] \in Cores /\ v[2] \in Pipes /\ InFlight(v[1], v[2])
  BY DEF Running
<1>3. /\ x \in Steps[k] /\ CanGo(k, x) /\ Step(k, x) = Current(u[1], u[2])
      /\ Step(k, x).pipe = u[2]
      /\ y \in Steps[k] /\ CanGo(k, y) /\ Step(k, y) = Current(v[1], v[2])
      /\ Step(k, y).pipe = v[2]
  BY <1>2, InFlightCanGo
<1>4. x # y
  BY <1>1, <1>2, <1>3
<1>5. ClockReached(k, walk, x) /\ ClockReached(k, walk, y)
  BY <1>3, CanGoClock DEF Typed
<1> HIDE DEF x, y
<1>6. b \in Buffers[k] /\ x \in Writers[k][b]
  <2>1. b \in Buffers[k]
    BY <1>1, <1>3, StepBuffers
  <2> QED
    BY <1>1, <1>3, <2>1, WritersAre
<1>7. Before(k, walk, x, y) \/ Before(k, walk, y, x)
  BY <1>1, <1>3, <1>4, <1>6 DEF Unraced
<1>8. Step(k, x).pipe # "ALL" /\ Step(k, y).pipe # "ALL"
  BY <1>2, <1>3 DEF Pipes
<1> QED
  BY <1>3, <1>5, <1>7, <1>8, BeforeDone DEF Typed

\* A step that may go finds what it needs in the buffers outside "exempt".
LEMMA InStepReadsOwn ==
  ASSUME NEW k \in Kernels, NEW walk, NEW exempt, WellFormed(k), FlagsHavePipes(k),
         IsClock(k, walk), FindsOwn(k, walk, exempt), InStep(k, walk)
  PROVE  ReadsOwnBut(exempt)
<1> USE DEF InStep
<1>1. SUFFICES ASSUME NEW u \in Running, NEW n \in Current(u[1], u[2]).needs, n[1] \notin exempt
               PROVE  mem[n[1]] = n[2]
  BY DEF ReadsOwnBut
<1> DEFINE y == <<u[1], at[u[1]][u[2]]>>
           b == n[1]
           later == {w \in Writers[k][b] : w = y \/ Before(k, walk, y, w)}
<1>2. u[1] \in Cores /\ u[2] \in Pipes /\ InFlight(u[1], u[2])
  BY DEF Running
<1>3. y \in Steps[k] /\ CanGo(k, y) /\ Step(k, y) = Current(u[1], u[2]) /\ Step(k, y).pipe = u[2]
  BY <1>2, InFlightCanGo
<1>4. n \in Step(k, y).needs /\ Step(k, y).pipe # "ALL" /\ Typed(k) /\ Placed(k)
  BY <1>1, <1>2, <1>3 DEF Pipes, Typed
<1>5. ClockReached(k, walk, y)
  BY <1>3, <1>4, CanGoClock
<1> HIDE DEF y
<1>6. b \in Buffers[k]
  BY <1>3, <1>4, StepParts, StepBuffers
<1>7. /\ \A w \in Writers[k][b] \ later : Before(k, walk, w, y)
      /\ LastGives(k, walk, b, n[2], later)
  BY <1>1, <1>3, <1>4 DEF FindsOwn
<1>8. ASSUME NEW w \in Writers[k][b]
      PROVE  Done(k, w) <=> w \notin later
  <2>1. w \in Steps[k] /\ Step(k, w).pipe # "ALL"
    BY <1>6, WritersAre, StepParts
  <2>2. ASSUME w \notin later
        PROVE  Done(k, w)
    BY <1>3, <1>4, <1>5, <1>7, <2>1, <2>2, BeforeDone
  <2>3. ASSUME Done(k, w), w \in later
        PROVE  FALSE
    <3>1. CASE w = y
      <4>1. PICK p \in PipesOf(k, y) : TRUE
        BY <1>3, PipesOfStep
      <4>2. at[y[1]][p] = y[2] /\ at[y[1]][p] > y[2] /\ y[2] \in Nat
        BY <1>3, <2>3, <3>1, <4>1, StepParts DEF CanGo, Done
      <4> QED
        BY <4>2
    <3>2. CASE Before(k, walk, y, w)
      <4>1. ClockReached(k, walk, w)
        BY <2>1, <2>3 DEF ClocksReached
      <4> QED
        BY <1>3, <1>4, <2>1, <3>2, <4>1, BeforeDone
    <3> QED
      BY <2>3, <3>1, <3>2
  <2> QED
    BY <2>2, <2>3
<1> HIDE DEF later, b
<1>9. mem[b] = n[2]
  BY <1>6, <1>7, <1>8, HoldsLast
<1> QED
  BY <1>9 DEF b

-----------------------------------------------------------------------------
(* What follows when nothing more happens.                                 *)

\* What a pipe is at, if it is not past its program, is a step not done.
LEMMA CurrentNotDone ==
  ASSUME NEW k \in Kernels, WellFormed(k), Placed(k), NEW c \in DOMAIN Programs[k], NEW q \in Pipes,
         at[c][q] <= Len(Programs[k][c])
  PROVE  LET z == <<c, at[c][q]>>
         IN z \in Steps[k] /\ q \in PipesOf(k, z) /\ Step(k, z).pipe \in {q, "ALL"} /\ ~Done(k, z)
<1> DEFINE z == <<c, at[c][q]>>
<1>1. /\ at[c][q] \in 1 .. Len(Programs[k][c]) /\ TakesPart(k, c, q, at[c][q])
      /\ at[c][q] \in DOMAIN Programs[k][c]
  BY DEF WellFormed, Placed
<1>2. z \in Steps[k]
  BY <1>1, StepsAre
<1>3. q \in PipesOf(k, z)
  BY <1>1, <1>2, PipesOfStep
<1>4. ~Done(k, z)
  BY <1>1, <1>3 DEF Done
<1> QED
  BY <1>1, <1>2, <1>3, <1>4 DEF TakesPart, Step

\* If some step is not done, one can go: that of the least turn.
LEMMA SomeCanGo ==
  ASSUME NEW k \in Kernels, NEW walk, NEW left, WellFormed(k), FlagsHavePipes(k),
         ReturnsInTurn(k, walk, left), InStep(k, walk), NEW u \in Steps[k], ~Done(k, u)
  PROVE  \E x \in Steps[k] : CanGo(k, x)
<1> DEFINE turn(y) == walk.turn[y[1]][y[2]]
<1>0. Placed(k) /\ Aligned(k) /\ FlagsCounted(k)
  BY DEF InStep, Typed
<1>1. \A y \in Steps[k] : turn(y) \in Nat
  BY DEF ReturnsInTurn
<1>2. PICK x \in Steps[k] :
        ~Done(k, x) /\ \A y \in Steps[k] : ~Done(k, y) => turn(x) <= turn(y)
  <2> DEFINE T == {turn(y) : y \in {z \in Steps[k] : ~Done(k, z)}}
  <2>1. T \in SUBSET Nat /\ T # {}
    BY <1>1
  <2>2. PICK t \in T : \A s \in T : t <= s
    <3> HIDE DEF T
    <3> QED
      BY <2>1, LeastNumber
  <2> QED
    BY <2>2
<1>3. \A y \in Steps[k] : turn(y) < turn(x) => Done(k, y)
  BY <1>1, <1>2
<1>4. \A y \in Steps[k] : Precedes(k, y, x) => Done(k, y)
  BY <1>3 DEF ReturnsInTurn
<1> DEFINE c == x[1]
           i == Step(k, x)
<1>5. c \in DOMAIN Programs[k] /\ x[2] \in 1 .. Len(Programs[k][c]) /\ Len(Programs[k][c]) \in Nat
  BY StepParts
<1>6. ASSUME NEW q \in Pipes, i.pipe \in {q, "ALL"} \/ q = "S"
      PROVE  at[c][q] >= x[2]
  <2>1. at[c][q] \in Nat
    BY <1>0, <1>5 DEF Placed
  <2>2. SUFFICES ASSUME at[c][q] < x[2] PROVE FALSE
    BY <1>5, <2>1
  <2> DEFINE z == <<c, at[c][q]>>
  <2>3. z \in Steps[k] /\ Step(k, z).pipe \in {q, "ALL"} /\ ~Done(k, z)
    BY <1>0, <1>5, <2>1, <2>2, CurrentNotDone
  <2>4. Precedes(k, z, x)
    BY <1>6, <2>2, <2>3 DEF Precedes
  <2> QED
    BY <1>4, <2>3, <2>4
<1>7. ASSUME NEW q \in PipesOf(k, x)
      PROVE  at[c][q] = x[2]
  <2>1. q \in Pipes /\ i.pipe \in {q, "ALL"}
    BY PipesOfStep DEF PipesOf
  <2>2. at[c][q] \in Nat /\ at[c][q] >= x[2] /\ x[2] \in Nat
    BY <1>0, <1>5, <1>6, <2>1 DEF Placed
  <2>3. at[c][q] <= x[2]
    <3>1. PICK p \in PipesOf(k, x) : ~(at[c][p] > x[2])
      BY <1>2 DEF Done
    <3>2. CASE i.pipe = "ALL"
      BY <1>0, <2>1, <3>1, <3>2 DEF Aligned, PipesOf
    <3>3. CASE i.pipe # "ALL"
      BY <2>1, <2>2, <3>1, <3>3 DEF PipesOf
    <3> QED
      BY <3>2, <3>3
  <2> QED
    BY <2>2, <2>3
<1>8. x[2] <= at[c]["S"]
  BY <1>0, <1>5, <1>6 DEF Pipes, Placed
<1>9. ASSUME NEW f \in i.wait
      PROVE  flag[f] > 0
  <2> DEFINE S == Setters[k][f]
             W == Waiters[k][f]
             s == Cardinality(DoneOf(k, S))
             w == Cardinality(DoneOf(k, W))
  <2>1. f \in Flags[k] /\ x \in W
    BY <1>2, StepFlags, FlagSteps
  <2>2. PICK y \in S : Pairs(k, f, y, x) /\ turn(y) < turn(x)
    BY <2>1 DEF ReturnsInTurn
  <2>3. Done(k, y)
    BY <1>3, <2>1, <2>2, FlagSteps
  <2>4. s \in Nat /\ s >= Numbers(S)[y] /\ Numbers(S)[y] \in Nat
    BY <1>0, <2>1, <2>2, <2>3, FlagSteps, NumbersAre
  <2>5. w \in Nat /\ w < Numbers(W)[x] /\ Numbers(W)[x] \in Nat
    BY <1>0, <1>2, <2>1, FlagSteps, NumbersAre
  <2>6. Numbers(S)[y] = Numbers(W)[x]
    BY <2>1, <2>2 DEF Pairs, Raises, Waits
  <2>7. flag[f] \in Nat /\ s = flag[f] + w
    BY <1>0, <2>1 DEF FlagsCounted
  <2> HIDE DEF S, W, s, w
  <2> QED
    BY <2>4, <2>5, <2>6, <2>7
<1> QED
  BY <1>7, <1>8, <1>9 DEF CanGo

LEMMA QuiescentDone ==
  ASSUME NEW k \in Kernels, NEW walk, NEW left, WellFormed(k), FlagsHavePipes(k),
         ReturnsInTurn(k, walk, left), InStep(k, walk), Quiescent, NEW u \in Steps[k]
  PROVE  Done(k, u)
<1>1. SUFFICES ASSUME ~Done(k, u) PROVE FALSE
  OBVIOUS
<1>2. PICK x \in Steps[k] : CanGo(k, x)
  BY <1>1, SomeCanGo
<1>3. x[1] \in Cores
  BY StepParts DEF InStep, Typed, Cores, Program
<1> QED
  BY <1>2, <1>3, CanGoGoes DEF Quiescent, InStep

\* When nothing more happens every core has returned, with the flags in
\* "left" up and the others down.
LEMMA InStepReturns ==
  ASSUME NEW k \in Kernels, NEW walk, NEW left, WellFormed(k), FlagsHavePipes(k),
         ReturnsInTurn(k, walk, left), InStep(k, walk), Quiescent
  PROVE  Returned /\ FlagsDownBut(left)
<1>0. Typed(k) /\ Placed(k) /\ FlagsCounted(k)
  BY DEF InStep, Typed
<1>1. Returned
  <2>1. SUFFICES ASSUME NEW c \in Cores, NEW p \in Pipes
                 PROVE  Idle(c, p)
    BY DEF Returned
  <2>2. c \in DOMAIN Programs[k] /\ Program = Programs[k]
    BY <1>0 DEF Typed, Cores, Program
  <2>3. at[c][p] \in Nat /\ Len(Programs[k][c]) \in Nat
    BY <1>0, <2>2 DEF Placed, WellFormed
  <2>4. ~(at[c][p] <= Len(Programs[k][c]))
    BY <1>0, <2>2, CurrentNotDone, QuiescentDone
  <2> QED
    BY <2>2, <2>3, <2>4 DEF Idle
<1>2. ASSUME NEW f \in Flags[k]
      PROVE  flag[f] = IF f \in left THEN 1 ELSE 0
  <2> DEFINE S == Setters[k][f]
             W == Waiters[k][f]
             up == IF f \in left THEN 1 ELSE 0
  <2>1. DoneOf(k, S) = S /\ DoneOf(k, W) = W
    BY QuiescentDone, FlagSteps DEF DoneOf
  <2>2. Cardinality(S) \in Nat /\ Cardinality(W) \in Nat
    BY FlagSteps, FS_CardinalityType
  <2>3. Cardinality(S) = flag[f] + Cardinality(W) /\ flag[f] \in Nat
    BY <1>0, <2>1 DEF FlagsCounted
  <2>4. Cardinality(S) = Cardinality(W) + up /\ up \in Nat
    BY DEF ReturnsInTurn
  <2> HIDE DEF S, W, up
  <2>5. flag[f] = up
    BY <2>2, <2>3, <2>4
  <2> QED
    BY <2>5 DEF up
<1> QED
  BY <1>0, <1>1, <1>2 DEF FlagsDownBut, Typed

\* And "outputs" is there.
LEMMA InStepLeaves ==
  ASSUME NEW k \in Kernels, NEW walk, NEW left, NEW outputs, WellFormed(k), FlagsHavePipes(k),
         ReturnsInTurn(k, walk, left), Leaves(k, walk, outputs), InStep(k, walk), Quiescent
  PROVE  \A o \in outputs : mem[o[1]] = o[2]
<1>1. SUFFICES ASSUME NEW o \in outputs
               PROVE  mem[o[1]] = o[2]
  OBVIOUS
<1> DEFINE b == o[1]
<1>2. b \in Buffers[k] /\ LastGives(k, walk, b, o[2], {})
  BY DEF Leaves
<1> HIDE DEF b
<1>3. \A w \in Writers[k][b] : Done(k, w) <=> w \notin {}
  BY <1>2, WritersAre, QuiescentDone
<1>4. mem[b] = o[2]
  BY <1>2, <1>3, HoldsLast DEF InStep
<1> QED
  BY <1>4 DEF b

-----------------------------------------------------------------------------
(* The specification, if each kernel of it is synchronized: walk[k] is the *)
(* evidence, exempt[k] the buffers left out, left[k] the flags that remain *)
(* up and outputs[k] what kernel k leaves behind.                          *)

AllSynchronized(these, walk, exempt, left, outputs) ==
  \A k \in these : Synchronized(k, walk[k], exempt[k], left[k], outputs[k])

RunsInStep(these, walk) == \E k \in these : InStep(k, walk[k])

\* What every run of a synchronized kernel is to satisfy.
RunsWell(exempt, left, outputs) ==
  /\ RaceFreeBut(exempt)
  /\ ReadsOwnBut(exempt)
  /\ Quiescent => /\ Returned
                  /\ FlagsDownBut(left)
                  /\ \A o \in outputs : mem[o[1]] = o[2]

LEMMA SynchronizedInit ==
  ASSUME NEW these \in SUBSET Kernels, NEW walk, NEW exempt, NEW left, NEW outputs,
         AllSynchronized(these, walk, exempt, left, outputs), Init, kernel \in these
  PROVE  RunsInStep(these, walk)
<1>1. PICK k \in these : k = kernel
  OBVIOUS
<1>2. WellFormed(k) /\ FlagsHavePipes(k)
  BY DEF AllSynchronized, Synchronized
<1> QED
  BY <1>1, <1>2, InitInStep DEF RunsInStep

LEMMA SynchronizedNext ==
  ASSUME NEW these \in SUBSET Kernels, NEW walk, NEW exempt, NEW left, NEW outputs,
         AllSynchronized(these, walk, exempt, left, outputs),
         RunsInStep(these, walk), [Next]_machine
  PROVE  RunsInStep(these, walk)'
<1>1. PICK k \in these : InStep(k, walk[k])
  BY DEF RunsInStep
<1>2. WellFormed(k) /\ FlagsHavePipes(k) /\ IsClock(k, walk[k])
  BY DEF AllSynchronized, Synchronized
<1>3. InStep(k, walk[k])'
  BY <1>1, <1>2, NextInStep
<1> QED
  BY <1>3 DEF RunsInStep

LEMMA SynchronizedWell ==
  ASSUME NEW these \in SUBSET Kernels, NEW walk, NEW exempt, NEW left, NEW outputs,
         AllSynchronized(these, walk, exempt, left, outputs), RunsInStep(these, walk)
  PROVE  kernel \in these /\ RunsWell(exempt[kernel], left[kernel], outputs[kernel])
<1>1. PICK k \in these : InStep(k, walk[k])
  BY DEF RunsInStep
<1>2. kernel = k
  BY <1>1 DEF InStep, Typed
<1>3. Synchronized(k, walk[k], exempt[k], left[k], outputs[k])
  BY DEF AllSynchronized
<1>4. RaceFreeBut(exempt[k])
  BY <1>1, <1>3, InStepRaceFree DEF Synchronized
<1>5. ReadsOwnBut(exempt[k])
  BY <1>1, <1>3, InStepReadsOwn DEF Synchronized
<1>6. ASSUME Quiescent
      PROVE  Returned /\ FlagsDownBut(left[k]) /\ \A o \in outputs[k] : mem[o[1]] = o[2]
  BY <1>1, <1>3, <1>6, InStepReturns, InStepLeaves DEF Synchronized
<1> QED
  BY <1>2, <1>4, <1>5, <1>6 DEF RunsWell

\* A kernel that is synchronized, which its programs alone decide, runs well
\* however its pipes take turns: no two of them race, each finds what it
\* should in the buffers, and when nothing more happens all have returned.
THEOREM SynchronizedRuns ==
  ASSUME NEW CONSTANT these, NEW CONSTANT walk, NEW CONSTANT exempt, NEW CONSTANT left,
         NEW CONSTANT outputs, these \subseteq Kernels,
         AllSynchronized(these, walk, exempt, left, outputs)
  PROVE  Spec /\ kernel \in these =>
           []RunsWell(exempt[kernel], left[kernel], outputs[kernel])
<1>1. Init /\ kernel \in these => RunsInStep(these, walk)
  BY SynchronizedInit
<1>2. RunsInStep(these, walk) /\ [Next]_machine => RunsInStep(these, walk)'
  BY SynchronizedNext
<1>3. RunsInStep(these, walk) => RunsWell(exempt[kernel], left[kernel], outputs[kernel])
  BY SynchronizedWell
<1> QED
  BY <1>1, <1>2, <1>3, PTL DEF Spec

-----------------------------------------------------------------------------
(* Kernels whose cores go their own way, each of which could do its steps  *)
(* in the order of its program.                                            *)

\* match[f][y], a step before y on its core, raises what y waits for at flag
\* f: all of what is raised there, and in the order it is waited for.
Matched(k, match) ==
  \A f \in Flags[k] :
    /\ match[f] \in [Waiters[k][f] -> Setters[k][f]]
    /\ \A x \in Setters[k][f] : \E y \in Waiters[k][f] : match[f][y] = x
    /\ \A y \in Waiters[k][f] : match[f][y][1] = y[1] /\ match[f][y][2] < y[2]
    /\ \A y, z \in Waiters[k][f] : z[2] <= y[2] <=> match[f][z][2] <= match[f][y][2]

\* clock[c][j][p] is how far pipe p of core c has got when step <<c, j>> goes on.
Told(k, clock, x, p) ==
  IF Step(k, x).pipe \in {p, "ALL"} THEN x[2] + 1 ELSE clock[x[1]][x[2]][p]
IsOwnClock(k, clock) ==
  \A y \in Steps[k], p \in Pipes :
    LET own == clock[y[1]][y[2]][p]
    IN /\ own \in Nat
       /\ \/ own = 0
          \/ \E x \in Steps[k] : Enables(k, x, y) /\ x[1] = y[1] /\ own <= Told(k, clock, x, p)

\* A walk of which each core does its part in the order of its program.
Straight(k, clock) ==
  LET cores == DOMAIN Programs[k]
      each(c) == DOMAIN Programs[k][c]
  IN [turn |-> [c \in cores |-> [j \in each(c) |-> j]],
      from |-> [c \in cores |-> [j \in each(c) |-> {x \in Steps[k] : Enables(k, x, <<c, j>>)}]],
      clock |-> [c \in cores |-> [j \in each(c) |-> [d \in cores |->
                   [p \in Pipes |-> IF d = c THEN clock[c][j][p] ELSE 0]]]]]

LEMMA StraightParts ==
  ASSUME NEW k \in Kernels, NEW clock, NEW y \in Steps[k], WellFormed(k)
  PROVE  LET w == Straight(k, clock)
         IN /\ w.turn[y[1]][y[2]] = y[2]
            /\ w.from[y[1]][y[2]] = {x \in Steps[k] : Enables(k, x, y)}
            /\ \A d \in DOMAIN Programs[k], p \in Pipes :
                 w.clock[y[1]][y[2]][d][p] =
                   IF d = y[1] THEN clock[y[1]][y[2]][p] ELSE 0
<1>1. y = <<y[1], y[2]>> /\ y[1] \in DOMAIN Programs[k] /\ y[2] \in DOMAIN Programs[k][y[1]]
  BY StepParts DEF WellFormed
<1> DEFINE w == Straight(k, clock)
<1>2. w.turn[y[1]][y[2]] = y[2]
  BY <1>1 DEF Straight
<1>3. w.from[y[1]][y[2]] = {x \in Steps[k] : Enables(k, x, <<y[1], y[2]>>)}
  BY <1>1, Zenon DEF Straight
<1>4. \A d \in DOMAIN Programs[k], p \in Pipes :
        w.clock[y[1]][y[2]][d][p] = IF d = y[1] THEN clock[y[1]][y[2]][p] ELSE 0
  BY <1>1, Zenon DEF Straight
<1> QED
  BY <1>1, <1>2, <1>3, <1>4

\* Two sets of steps that can be matched in order are numbered alike.
LEMMA SameNumbers ==
  ASSUME NEW S, NEW W, IsFiniteSet(W), NEW g \in [W -> S],
         \A x \in S : \E y \in W : g[y] = x,
         \A y \in W : y[2] \in Int /\ g[y][2] \in Int,
         \A y, z \in W : y[2] = z[2] => y = z,
         \A y, z \in W : z[2] <= y[2] <=> g[z][2] <= g[y][2]
  PROVE  Cardinality(S) = Cardinality(W) /\ \A y \in W : Numbers(S)[g[y]] = Numbers(W)[y]
<1>1. \A y, z \in W : g[y] = g[z] => y = z
  <2> SUFFICES ASSUME NEW y \in W, NEW z \in W, g[y] = g[z]
               PROVE  y = z
    OBVIOUS
  <2>1. y[2] <= z[2] /\ z[2] <= y[2]
    OBVIOUS
  <2> QED
    BY <2>1
<1>2. g \in Bijection(W, S)
  BY <1>1, Fun_IsBij
<1>3. Cardinality(S) = Cardinality(W)
  BY <1>2, FS_Bijection, Zenon DEF ExistsBijection
<1>4. ASSUME NEW y \in W
      PROVE  Numbers(S)[g[y]] = Numbers(W)[y]
  <2> DEFINE A == UpTo(W, y)
             B == UpTo(S, g[y])
             h == [z \in A |-> g[z]]
  <2>1. \A z \in A : z \in W /\ g[z] \in B /\ h[z] = g[z]
    BY DEF UpTo
  <2>2. h \in [A -> B]
    BY <2>1
  <2>3. \A a, b \in A : h[a] = h[b] => a = b
    BY <1>1, <2>1
  <2>4. \A t \in B : \E z \in A : h[z] = t
    BY <2>1 DEF UpTo
  <2>5. h \in Bijection(A, B)
    <3> HIDE DEF h, A, B
    <3> QED
      BY <2>2, <2>3, <2>4, Fun_IsBij
  <2>6. IsFiniteSet(A)
    BY FS_Subset DEF UpTo
  <2>7. Cardinality(B) = Cardinality(A)
    BY <2>5, <2>6, FS_Bijection, Zenon DEF ExistsBijection
  <2> QED
    BY <2>7 DEF Numbers, UpTo
<1> QED
  BY <1>3, <1>4

\* What step y waits for at flag f is what the step it is matched with raises.
LEMMA MatchedPairs ==
  ASSUME NEW k \in Kernels, NEW match, WellFormed(k), FlagsHavePipes(k), Matched(k, match),
         NEW f \in Flags[k]
  PROVE  /\ Cardinality(Setters[k][f]) = Cardinality(Waiters[k][f])
         /\ Cardinality(Waiters[k][f]) \in Nat
         /\ \A y \in Waiters[k][f] :
              /\ y \in Steps[k] /\ match[f][y] \in Setters[k][f] /\ match[f][y] \in Steps[k]
              /\ Pairs(k, f, match[f][y], y) /\ Enables(k, match[f][y], y)
              /\ match[f][y][2] < y[2]
<1>0. \A x \in Steps[k] : x[2] \in Nat
  BY StepParts
<1> DEFINE S == Setters[k][f]
           W == Waiters[k][f]
<1>1. /\ IsFiniteSet(W) /\ S \in SUBSET Steps[k] /\ W \in SUBSET Steps[k]
      /\ \A x \in Steps[k] : (x \in S <=> f \in Step(k, x).set)
                             /\ (x \in W <=> f \in Step(k, x).wait)
  BY FlagSteps, StepsOfOnePipe
<1>2. \A y \in W : y[2] \in Int /\ match[f][y] \in S /\ match[f][y][2] \in Int
  BY <1>0, <1>1 DEF Matched
<1>3. \A y, z \in W : y[2] = z[2] => y = z
  BY <1>1, FlagSteps, StepsOfOnePipe
<1>4. /\ match[f] \in [W -> S]
      /\ \A x \in S : \E y \in W : match[f][y] = x
      /\ \A y, z \in W : z[2] <= y[2] <=> match[f][z][2] <= match[f][y][2]
  BY DEF Matched
<1>5. Cardinality(S) = Cardinality(W) /\ \A y \in W : Numbers(S)[match[f][y]] = Numbers(W)[y]
  <2> HIDE DEF S, W
  <2> QED
    BY <1>1, <1>2, <1>3, <1>4, SameNumbers
<1>6. ASSUME NEW y \in W
      PROVE  Pairs(k, f, match[f][y], y) /\ Enables(k, match[f][y], y) /\ match[f][y][2] < y[2]
  <2>1. Pairs(k, f, match[f][y], y)
    BY <1>5 DEF Pairs, Raises, Waits
  <2>2. f \in Step(k, match[f][y]).set \cap Step(k, y).wait
    BY <1>1, <1>2
  <2> QED
    BY <2>1, <2>2 DEF Enables, Matched
<1>7. Cardinality(W) \in Nat
  BY <1>1, FS_CardinalityType
<1> QED
  BY <1>1, <1>2, <1>5, <1>6, <1>7

LEMMA StraightReturns ==
  ASSUME NEW k \in Kernels, NEW clock, NEW match, WellFormed(k), FlagsHavePipes(k),
         Matched(k, match)
  PROVE  ReturnsInTurn(k, Straight(k, clock), {})
<1> DEFINE w == Straight(k, clock)
<1>1. \A x \in Steps[k] : w.turn[x[1]][x[2]] = x[2] /\ x[2] \in Nat
  BY StraightParts, StepParts
<1>2. \A x, y \in Steps[k] : Precedes(k, x, y) => x[2] < y[2]
  BY DEF Precedes
<1>3. ASSUME NEW f \in Flags[k]
      PROVE  /\ Cardinality(Setters[k][f]) = Cardinality(Waiters[k][f])
             /\ Cardinality(Waiters[k][f]) \in Nat
             /\ \A y \in Waiters[k][f] :
                  /\ y \in Steps[k] /\ match[f][y] \in Setters[k][f] /\ match[f][y] \in Steps[k]
                  /\ Pairs(k, f, match[f][y], y) /\ Enables(k, match[f][y], y)
                  /\ match[f][y][2] < y[2]
  BY MatchedPairs
<1>4. ASSUME NEW f \in Flags[k], NEW y \in Waiters[k][f]
      PROVE  \E x \in Setters[k][f] \cap w.from[y[1]][y[2]] :
               Pairs(k, f, x, y) /\ w.turn[x[1]][x[2]] < w.turn[y[1]][y[2]]
  <2>1. match[f][y] \in w.from[y[1]][y[2]]
    BY <1>3, StraightParts
  <2> QED
    BY <1>1, <1>3, <2>1
<1> HIDE DEF w
<1> QED
  BY <1>1, <1>2, <1>3, <1>4 DEF ReturnsInTurn, w

LEMMA StraightClock ==
  ASSUME NEW k \in Kernels, NEW clock, WellFormed(k), IsOwnClock(k, clock)
  PROVE  IsClock(k, Straight(k, clock))
<1> DEFINE w == Straight(k, clock)
<1> SUFFICES ASSUME NEW y \in Steps[k]
             PROVE  /\ \A x \in w.from[y[1]][y[2]] : x \in Steps[k] /\ Enables(k, x, y)
                    /\ \A c \in DOMAIN Programs[k], p \in Pipes :
                         /\ w.clock[y[1]][y[2]][c][p] \in Nat
                         /\ \/ w.clock[y[1]][y[2]][c][p] = 0
                            \/ \E x \in w.from[y[1]][y[2]] :
                                 w.clock[y[1]][y[2]][c][p] <= Tells(k, w, x, c, p)
  BY DEF IsClock
<1>1. w.from[y[1]][y[2]] = {x \in Steps[k] : Enables(k, x, y)}
  BY StraightParts
<1>2. ASSUME NEW c \in DOMAIN Programs[k], NEW p \in Pipes
      PROVE  /\ w.clock[y[1]][y[2]][c][p] \in Nat
             /\ \/ w.clock[y[1]][y[2]][c][p] = 0
                \/ \E x \in w.from[y[1]][y[2]] :
                     w.clock[y[1]][y[2]][c][p] <= Tells(k, w, x, c, p)
  <2>1. w.clock[y[1]][y[2]][c][p] = IF c = y[1] THEN clock[y[1]][y[2]][p] ELSE 0
    BY StraightParts
  <2>2. CASE c # y[1] \/ clock[y[1]][y[2]][p] = 0
    BY <2>1, <2>2
  <2>3. CASE c = y[1] /\ clock[y[1]][y[2]][p] # 0
    <3>1. PICK x \in Steps[k] : /\ Enables(k, x, y) /\ x[1] = y[1]
                                /\ clock[y[1]][y[2]][p] <= Told(k, clock, x, p)
      BY <2>3 DEF IsOwnClock
    <3>2. w.clock[x[1]][x[2]][c][p] = clock[x[1]][x[2]][p]
      <4>1. \A d \in DOMAIN Programs[k], q \in Pipes :
              w.clock[x[1]][x[2]][d][q] = IF d = x[1] THEN clock[x[1]][x[2]][q] ELSE 0
        BY StraightParts
      <4> HIDE DEF w
      <4> QED
        BY <2>3, <3>1, <4>1
    <3>3. Tells(k, w, x, c, p) = Told(k, clock, x, p)
      BY <2>3, <3>1, <3>2 DEF Tells, Told
    <3> QED
      BY <1>1, <2>1, <2>3, <3>1, <3>3 DEF IsOwnClock
  <2> QED
    BY <2>2, <2>3
<1> QED
  BY <1>1, <1>2

\* By such a clock step y does not go on before step x of its core is over.
LEMMA StraightBefore ==
  ASSUME NEW k \in Kernels, NEW clock, WellFormed(k), NEW x \in Steps[k], NEW y \in Steps[k],
         x[1] = y[1], Step(k, x).pipe # "ALL"
  PROVE  Before(k, Straight(k, clock), x, y) <=> x[2] < clock[y[1]][y[2]][Step(k, x).pipe]
<1>1. Step(k, x).pipe \in Pipes /\ x[1] \in DOMAIN Programs[k]
  BY StepParts
<1>2. \A d \in DOMAIN Programs[k], q \in Pipes :
        Straight(k, clock).clock[y[1]][y[2]][d][q] =
          IF d = y[1] THEN clock[y[1]][y[2]][q] ELSE 0
  BY StraightParts
<1> QED
  BY <1>1, <1>2 DEF Before
=============================================================================
