------------------------------ MODULE CoreCode -------------------------------
(***************************************************************************)
(* Code as the source lists it, one statement after another: moves and     *)
(* computations, each for one pipe, set_flag, wait_flag and barriers.      *)
(* This module gives such code its two meanings.  Issued is what the pipes *)
(* of a core are given: the instructions of PipeProgram, each with the     *)
(* flags around it, and each needing what the code would have left in its  *)
(* buffers had it run statement by statement.  LeftBehind is what such a   *)
(* run puts in GM.                                                         *)
(*                                                                         *)
(* A statement names its core's buffers and flags <<name, index>> and      *)
(* <<src, dst, id>>.  On says whose they are; code of several cores is one *)
(* list, with their statements in the order they are meant to take effect. *)
(* The Cube kernels' statements, over square tiles, have names at the end. *)
(***************************************************************************)
EXTENDS PipeProgram, FiniteSets, SequencesExt

\* One pipe reads "from", a sequence of buffers, and works "op" on them into
\* one buffer.
Do(pipe, op, from, into) ==
  [kind |-> "do", pipe |-> pipe, op |-> op, from |-> from, into |-> into]
SetFlag(src, dst, id) == [kind |-> "set", pipe |-> src, flags |-> {<<src, dst, id>>}]
WaitFlag(src, dst, id) == [kind |-> "wait", pipe |-> dst, flags |-> {<<src, dst, id>>}]
BarrierAll == [kind |-> "barrier", pipe |-> "ALL", flags |-> {}]

\* ffts_cross_core_sync, behind what the pipe has been given; wait_flag_dev
\* holds up the scalar unit.
SyncCores(pipe, c, others, id) ==
  [kind |-> "set", pipe |-> pipe, flags |-> {CrossFlag(d, c, id) : d \in others}]
WaitCores(c, others, id) ==
  [kind |-> "wait", pipe |-> "S", flags |-> {CrossFlag(c, d, id) : d \in others}]

\* set_flag and the wait_flag the code puts right after it.
Pass(src, dst, id) == <<SetFlag(src, dst, id), WaitFlag(src, dst, id)>>

Gm(name, index) == <<-1, name, index>>
InGm(b) == b[1] = -1

\* The comparison makes TLC evaluate the entries at once and not at each use.
Evaluated(m) == IF m = m THEN m ELSE m

\* "code" as core c's.
On(c, code) ==
  LET buffer(b) == IF Len(b) = 2 THEN <<c>> \o b ELSE b
      event(f) == IF Len(f) = 3 THEN <<c>> \o f ELSE f
      own(s) ==
        IF s.kind = "do"
        THEN [kind |-> "do", core |-> c, pipe |-> s.pipe, op |-> s.op,
              from |-> [k \in DOMAIN s.from |-> buffer(s.from[k])], into |-> buffer(s.into)]
        ELSE [kind |-> s.kind, core |-> c, pipe |-> s.pipe,
              flags |-> {event(f) : f \in s.flags}]
  IN [j \in DOMAIN code |-> own(code[j])]

CoresIn(code) == {code[j].core : j \in DOMAIN code}

BuffersOf(code) ==
  UNION {{code[j].into} \cup {code[j].from[k] : k \in DOMAIN code[j].from} :
           j \in {i \in DOMAIN code : code[i].kind = "do"}}

-----------------------------------------------------------------------------
\* The last position before j that Fits, or 0.
LastBefore(j, Fits(_)) ==
  IF \E i \in 1 .. j - 1 : Fits(i)
  THEN CHOOSE i \in 1 .. j - 1 : Fits(i) /\ \A k \in i + 1 .. j - 1 : ~Fits(k)
  ELSE 0

SamePipe(code, i, j) == code[i].pipe = code[j].pipe /\ code[i].core = code[j].core

\* Statement j cannot go into one instruction with the one before it: that
\* has already done its work or raised a flag, or has this very flag, or the
\* scalar unit may hold back in between.
Starts(code, j) ==
  LET i == LastBefore(j, LAMBDA k : SamePipe(code, k, j))
      work == LastBefore(j, LAMBDA k : SamePipe(code, k, j) /\ code[k].kind = "do")
      between == {k \in i + 1 .. j - 1 : code[k].core = code[j].core}
  IN \/ i = 0
     \/ code[j].kind # "set" /\ code[i].kind # "wait"
     \/ code[j].kind = "barrier"
     \/ \E k \in work + 1 .. j - 1 : code[k] = code[j]
     \/ \E k \in between : code[k].pipe \in {"S", "ALL"}
     \/ code[j].pipe = "S" /\ between # {}

\* What statement j leaves in the buffer it works into, told apart from
\* whatever any other statement leaves anywhere.
Made(code, j) == <<"by", code[j].core, j>>

\* The contents of buffer b when statement j is reached in the code's order.
Held(code, j, b) ==
  LET i == LastBefore(j, LAMBDA k : code[k].kind = "do" /\ code[k].into = b)
  IN IF i = 0 THEN Nothing ELSE Made(code, i)

Instr(code, group) ==
  LET first == Min(group)
      flags(kind) == UNION {code[j].flags : j \in {i \in group : code[i].kind = kind}}
      done == {j \in group : code[j].kind = "do"}
      works == IF done = {} THEN 0 ELSE CHOOSE j \in done : TRUE
  IN IF code[first].kind = "barrier" THEN PipeBarrierAll
     ELSE IF works = 0
          THEN Instruction(code[first].pipe, flags("wait"), {}, Nothing, {}, flags("set"))
          ELSE Instruction(
                 code[works].pipe, flags("wait"),
                 {<<b, Held(code, works, b)>> :
                    b \in {code[works].from[k] : k \in DOMAIN code[works].from}},
                 Made(code, works), {code[works].into}, flags("set"))

\* The instructions core c issues in "code".
Issued(c, code) ==
  LET mine == SelectSeq([j \in DOMAIN code |-> j], LAMBDA j : code[j].core = c)
      starts == SelectSeq(mine, LAMBDA j : Starts(code, j))
      next(k) == LET later == {m \in k + 1 .. Len(starts) : SamePipe(code, starts[m], starts[k])}
                 IN IF later = {} THEN Len(code) + 1 ELSE starts[Min(later)]
  IN [k \in DOMAIN starts |->
        Instr(code, {i \in starts[k] .. next(k) - 1 : SamePipe(code, i, starts[k])})]

\* The buffers in GM written by "code", each with what it leaves there.
LeftBehind(code) ==
  {<<code[j].into, Held(code, Len(code) + 1, code[j].into)>> :
     j \in {i \in DOMAIN code : code[i].kind = "do" /\ InGm(code[i].into)}}

-----------------------------------------------------------------------------
(* Loads into L1, moves to the left and right operands in L0, products     *)
(* into an accumulator, and the fixpipe's moves and stores of one.         *)

Same == <<"same">>

\* GM to L1, L1 to L0A or L0B, L0C to L1, L0C to GM.
TLOAD(l1, gm) == Do("MTE2", Same, <<gm>>, l1)
ToL0(l0, l1) == Do("MTE1", Same, <<l1>>, l0)
ToL1(l1, l0c) == Do("FIX", Same, <<l0c>>, l1)
TSTORE(gm, l0c) == Do("FIX", Same, <<l0c>>, gm)

TMATMUL(c, a, b) == Do("M", <<"times">>, <<a, b>>, c)
TMATMUL_ACC(c, a, b) == Do("M", <<"plus times">>, <<c, a, b>>, c)

\* The operands and accumulators of L0, double-buffered where there are two.
A(i) == <<"a_l0", i>>
B(i) == <<"b_l0", i>>
C(i) == <<"c_l0", i>>
=============================================================================
