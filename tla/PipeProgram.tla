---------------------------- MODULE PipeProgram -----------------------------
(***************************************************************************)
(* The vocabulary kernels are written in: what one core issues, as a       *)
(* sequence of instructions for its pipes.  An instruction waits for a set *)
(* of flags, works on a set of buffers and raises a set of flags when it   *)
(* is done.  A set_flag belongs to the instruction of its source pipe that *)
(* precedes it, a wait_flag to the instruction of its destination pipe     *)
(* that follows it; one that has no such instruction stands alone.         *)
(*                                                                         *)
(* Contents are names: an instruction says which contents it NEEDS in      *)
(* which buffers, and what it GIVES the buffers it writes.                 *)
(***************************************************************************)
EXTENDS Integers, Sequences

Pipes == {"S", "MTE2", "MTE1", "M", "FIX", "V", "MTE3"}

Instruction(pipe, wait, needs, gives, into, set) ==
  [pipe |-> pipe, wait |-> wait, needs |-> needs, gives |-> gives,
   reads |-> {n[1] : n \in needs}, writes |-> into, set |-> set]

\* What a buffer holds before anything is put there.
Nothing == <<"nothing", 0, 0>>

Signal(pipe, set) == Instruction(pipe, {}, {}, Nothing, {}, set)
Await(pipe, wait) == Instruction(pipe, wait, {}, Nothing, {}, {})

\* pipe_barrier(PIPE_ALL).
PipeBarrierAll == Instruction("ALL", {}, {}, Nothing, {}, {})

\* The flag of set_flag(src, dst, id) and wait_flag(src, dst, id) on core c.
Event(c, src, dst, id) == <<c, src, dst, id>>
\* The flag core "from" raises at core c by ffts_cross_core_sync.
CrossFlag(c, from, id) == <<c, "dev", from, id>>
=============================================================================
