----------------------------- MODULE CsrGather ------------------------------
(***************************************************************************)
(* The CSR gather kernel (runTCsrGather), z = values * x[indices]: every   *)
(* vector core keeps all of x in UB and streams its tiles of indices and   *)
(* values through N_BUF stages, so that the loads of one tile overlap the  *)
(* gather, the multiplication and the store of others.                     *)
(***************************************************************************)
EXTENDS VectorStream

CONSTANTS
  AivCores,  \* get_block_num()
  NumTiles,  \* num_tiles
  N_BUF      \* stages of every UB buffer

Aivs == 0 .. AivCores - 1
Stages == 0 .. N_BUF - 1

\* The two event ids of a stage.
Ev0(s) == 2 * s
Ev1(s) == 2 * s + 1
XLoaded(c) == Event(c, "MTE2", "V", 7)

\* x is loaded once; then "Unlock first iteration".
Prologue(c) ==
  <<Instruction("MTE2", {}, {}, <<"x", 0, 0>>, {Ub(c, "x", 0)}, {XLoaded(c)}),
    Signal("MTE3", {Event(c, "MTE3", "V", Ev0(s)) : s \in Stages}),
    Signal("V", {Event(c, "V", "MTE2", Ev0(s)) : s \in Stages}
                \cup {Event(c, "V", "MTE2", Ev1(s)) : s \in Stages})>>

LoadIdx(c, t, s) ==
  Instruction("MTE2", {Event(c, "V", "MTE2", Ev1(s))}, {}, <<"idx", t, 0>>,
              {Ub(c, "idx", s)}, {Event(c, "MTE2", "V", Ev0(s))})

\* The wait for x is handed on from tile to tile by waiting and setting it
\* again; wTiles and tmpTiles are one buffer.
Gather(c, t, s) ==
  <<Await("V", {Event(c, "MTE2", "V", Ev0(s)), XLoaded(c)}),
    Signal("MTE2", {XLoaded(c)}),
    Instruction("V", {},
                {<<Ub(c, "x", 0), <<"x", 0, 0>>>>, <<Ub(c, "idx", s), <<"idx", t, 0>>>>},
                <<"w", t, 0>>, {Ub(c, "w", s)}, {Event(c, "V", "MTE2", Ev1(s))})>>

LoadVal(c, t, s) ==
  Instruction("MTE2", {Event(c, "V", "MTE2", Ev0(s))}, {}, <<"val", t, 0>>,
              {Ub(c, "val", s)}, {Event(c, "MTE2", "V", Ev0(s))})

\* Mutant of Multiply: it does not wait for the store of N_BUF tiles ago.
MultiplyEarly(c, t, s) ==
  Instruction("V", {Event(c, "MTE2", "V", Ev0(s))},
              {<<Ub(c, "val", s), <<"val", t, 0>>>>, <<Ub(c, "w", s), <<"w", t, 0>>>>},
              <<"z", t, 0>>, {Ub(c, "z", s)},
              {Event(c, "V", "MTE3", Ev0(s)), Event(c, "V", "MTE2", Ev0(s))})
Multiply(c, t, s) ==
  Instruction("V", {Event(c, "MTE2", "V", Ev0(s)), Event(c, "MTE3", "V", Ev0(s))},
              {<<Ub(c, "val", s), <<"val", t, 0>>>>, <<Ub(c, "w", s), <<"w", t, 0>>>>},
              <<"z", t, 0>>, {Ub(c, "z", s)},
              {Event(c, "V", "MTE3", Ev0(s)), Event(c, "V", "MTE2", Ev0(s))})

Store(c, t, s) ==
  Instruction("MTE3", {Event(c, "V", "MTE3", Ev0(s))},
              {<<Ub(c, "z", s), <<"z", t, 0>>>>}, <<"z", t, 0>>, {Out(t)},
              {Event(c, "MTE3", "V", Ev0(s))})

Tile(c, t, s) ==
  <<LoadIdx(c, t, s)>> \o Gather(c, t, s)
  \o <<LoadVal(c, t, s), Multiply(c, t, s), Store(c, t, s)>>

\* "Cleanup flags".
Cleanup(c) ==
  <<Await("V", {Event(c, "MTE3", "V", Ev0(s)) : s \in Stages} \cup {XLoaded(c)}),
    Await("MTE2", {Event(c, "V", "MTE2", Ev0(s)) : s \in Stages}
                  \cup {Event(c, "V", "MTE2", Ev1(s)) : s \in Stages})>>

\* The stages are used in turn: stage = (stage + 1) % N_BUF.
Program ==
  [c \in Aivs |->
     LET mine == TilesOf(c, AivCores, NumTiles)
     IN Prologue(c)
        \o FlattenSeq([k \in DOMAIN mine |-> Tile(c, mine[k], (k - 1) % N_BUF)])
        \o Cleanup(c)]

\* Every tile of z is the gather of its own indices times its own values.
Outputs == {<<Out(t), <<"z", t, 0>>>> : t \in 0 .. NumTiles - 1}
=============================================================================
