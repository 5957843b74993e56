------------------------------- MODULE SwiGlu -------------------------------
(***************************************************************************)
(* The SwiGLU kernel on its vector cores (runTSwiGLUTiled): core vid takes *)
(* tiles vid, vid + num_cores, ... through two sets of UB buffers, ping    *)
(* and pong; the next tile's halves are loaded while one is computed.      *)
(***************************************************************************)
EXTENDS VectorStream

CONSTANTS
  NumCores,   \* get_block_num() * get_subblockdim()
  TotalTiles  \* total_tiles

Vids == 0 .. NumCores - 1
PingPong == {0, 1}

\* The tiles core vid takes, in turn through ping and pong.
TileIndices(vid) ==
  [k \in 1 .. CeilDiv(IF vid < TotalTiles THEN TotalTiles - vid ELSE 0, NumCores) |->
     vid + (k - 1) * NumCores]

initTilePipeFlags(c) ==
  <<Signal("V", {Event(c, "V", "MTE2", s) : s \in PingPong}),
    Signal("MTE3", {Event(c, "MTE3", "V", s) : s \in PingPong})>>

drainTilePipeFlags(c) ==
  <<Await("MTE2", {Event(c, "V", "MTE2", s) : s \in PingPong}),
    Await("V", {Event(c, "MTE3", "V", s) : s \in PingPong})>>

\* Both halves, gate and up, of tile t; V waits for the store before last
\* here, not where it computes.  Mutant of issueTLoad: V does not wait at all.
issueTLoadAlone(c, t, s) ==
  <<Instruction("MTE2", {Event(c, "V", "MTE2", s)}, {}, <<"x", t, 0>>,
                {Ub(c, "x", s)}, {Event(c, "MTE2", "V", s)})>>
issueTLoad(c, t, s) ==
  <<Await("V", {Event(c, "MTE3", "V", s)}),
    Instruction("MTE2", {Event(c, "V", "MTE2", s)}, {}, <<"x", t, 0>>,
                {Ub(c, "x", s)}, {Event(c, "MTE2", "V", s)})>>

computeSwiGLUTile(c, t, s) ==
  Instruction("V", {}, {<<Ub(c, "x", s), <<"x", t, 0>>>>}, <<"y", t, 0>>, {Ub(c, "y", s)},
              {Event(c, "V", "MTE3", s), Event(c, "V", "MTE2", s)})

issueTStore(c, t, s) ==
  Instruction("MTE3", {Event(c, "V", "MTE3", s)}, {<<Ub(c, "y", s), <<"y", t, 0>>>>},
              <<"y", t, 0>>, {Out(t)}, {Event(c, "MTE3", "V", s)})

\* The loop's k-th round: the tile loaded in the round before is computed.
Round(c, mine, k) ==
  LET s == (k - 1) % 2
  IN <<Await("V", {Event(c, "MTE2", "V", s)})>>
     \o (IF k < Len(mine) THEN issueTLoad(c, mine[k + 1], 1 - s) ELSE <<>>)
     \o <<computeSwiGLUTile(c, mine[k], s), issueTStore(c, mine[k], s)>>

\* A core without a tile returns at once.
Program ==
  [c \in Vids |->
     LET mine == TileIndices(c)
     IN IF mine = <<>> THEN <<>>
        ELSE initTilePipeFlags(c) \o issueTLoad(c, mine[1], 0)
             \o FlattenSeq([k \in DOMAIN mine |-> Round(c, mine, k)])
             \o drainTilePipeFlags(c)]

\* Every tile of y is made from its own gate and up.
Outputs == {<<Out(t), <<"y", t, 0>>>> : t \in 0 .. TotalTiles - 1}
=============================================================================
