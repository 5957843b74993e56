------------------------------- MODULE VAbs ---------------------------------
(***************************************************************************)
(* The elementwise absolute value (runTAbs): one input and one output      *)
(* buffer per core, which a tile's load, TABS and store hand to one        *)
(* another, and to the next tile, by flags alone.                          *)
(***************************************************************************)
EXTENDS VectorStream

CONSTANTS
  AivCores,  \* get_block_num()
  NumTiles   \* num_tiles

Aivs == 0 .. AivCores - 1

\* "Unlock first iteration": as if a tile before the first had been done.
Unlock(c) ==
  <<Signal("V", {Event(c, "V", "MTE2", 0)}),
    Signal("MTE3", {Event(c, "MTE3", "V", 0)})>>

Load(c, t) ==
  Instruction("MTE2", {Event(c, "V", "MTE2", 0)}, {}, <<"x", t, 0>>,
              {Ub(c, "x", 0)}, {Event(c, "MTE2", "V", 0)})

Compute(c, t) ==
  Instruction("V", {Event(c, "MTE2", "V", 0), Event(c, "MTE3", "V", 0)},
              {<<Ub(c, "x", 0), <<"x", t, 0>>>>}, <<"z", t, 0>>, {Ub(c, "z", 0)},
              {Event(c, "V", "MTE2", 0), Event(c, "V", "MTE3", 0)})

Store(c, t) ==
  Instruction("MTE3", {Event(c, "V", "MTE3", 0)},
              {<<Ub(c, "z", 0), <<"z", t, 0>>>>}, <<"z", t, 0>>, {Out(t)},
              {Event(c, "MTE3", "V", 0)})

\* "Cleanup flags".
Cleanup(c) ==
  <<Await("MTE2", {Event(c, "V", "MTE2", 0)}), Await("V", {Event(c, "MTE3", "V", 0)})>>

Program ==
  [c \in Aivs |->
     LET mine == TilesOf(c, AivCores, NumTiles)
     IN Unlock(c)
        \o FlattenSeq([k \in DOMAIN mine |->
             <<Load(c, mine[k]), Compute(c, mine[k]), Store(c, mine[k])>>])
        \o Cleanup(c)]

\* What the kernel leaves behind: every tile of z is |x|.
Outputs == {<<Out(t), <<"z", t, 0>>>> : t \in 0 .. NumTiles - 1}
=============================================================================
