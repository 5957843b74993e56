----------------------------- MODULE ChunkTiles -----------------------------
(***************************************************************************)
(* What the kernels of gated linear attention have in common, on one AI    *)
(* core: its sequences are cut into chunks; the Cube core multiplies whole *)
(* chunks, each of the two vector subblocks owns one stripe of HalfC rows  *)
(* of every tile, and the three hand tiles over through a workspace in GM, *)
(* telling one another so by cross-core flags.                             *)
(***************************************************************************)
EXTENDS PipeProgram, SequencesExt

CONSTANT Lengths  \* per item of this core: its tokens, in stripes of HalfC

Cube == "aic"
Vecs == {"aiv0", "aiv1"}
Vid(v) == IF v = "aiv0" THEN 0 ELSE 1
ChunkCores == {Cube} \cup Vecs

Items == 1 .. Len(Lengths)
NumChunks(w) == (Lengths[w] + 1) \div 2
\* Stripe v of chunk ci has live rows.
Live(w, ci, v) == 2 * ci + Vid(v) < Lengths[w]

\* Every chunk of every item, in order, as <<w, ci>>.
Chunks == FlattenSeq([w \in Items |-> [k \in 1 .. NumChunks(w) |-> <<w, k - 1>>]])

\* A tile of core c, and a subblock's stripe of a tile in GM.
Tile(c, name) == <<c, name, 0, 0>>
Gm(v, name, w, ci) == <<v, name, w, ci>>
Workspace(v, name) == Gm(v, name, 0, 0)   \* reused by every chunk
Is(b, name, w, ci) == <<b, <<name, w, ci>>>>

-----------------------------------------------------------------------------
CubeAt(src, dst, id) == Event(Cube, src, dst, id)
FromVecs(id) == {CrossFlag(Cube, v, id) : v \in Vecs}
ToVecs(id) == {CrossFlag(v, Cube, id) : v \in Vecs}

\* The stores from L0C so far are over.
FixDone == Signal("FIX", {CubeAt("FIX", "M", 0)})

\* gemm_v0 with its single K block: once "after" is up, the operands a and b,
\* each a tile of L1 and what it should hold, are multiplied to l0c.
Gemm(after, a, b, product, l0c) ==
  <<Instruction("M", after, {}, Nothing, {}, {CubeAt("M", "MTE1", 1)}),
    Instruction("MTE1", {CubeAt("MTE2", "MTE1", 1), CubeAt("M", "MTE1", 1)},
                {a, b}, product, {Tile(Cube, "l0a"), Tile(Cube, "l0b")},
                {CubeAt("MTE1", "M", 1), CubeAt("MTE1", "MTE2", 1)}),
    Instruction("M", {CubeAt("MTE1", "M", 1)},
                {<<Tile(Cube, "l0a"), product>>, <<Tile(Cube, "l0b"), product>>},
                product, {l0c}, {CubeAt("M", "FIX", 1)}),
    Await("MTE2", {CubeAt("MTE1", "MTE2", 1)})>>
GemmAfterFix(a, b, product, l0c) == Gemm({CubeAt("FIX", "M", 0)}, a, b, product, l0c)

\* A load of the Cube's; the last one before a gemm raises its flag.
CubeLoad(from, gives, into, set) == Instruction("MTE2", {}, from, gives, {into}, set)
ToGemm == {CubeAt("MTE2", "MTE1", 1)}
\* A product's store to GM, then the flags it raises.
FromGemm == {CubeAt("M", "FIX", 1)}
FixStore(wait, from, gives, into, set) ==
  Instruction("FIX", wait, {<<from, gives>>}, gives, into, set)

-----------------------------------------------------------------------------
At(v, src, dst) == {Event(v, src, dst, 0)}
Ub(v, name) == Tile(v, name)

Vector(v, wait, needs, gives, into, set) == Instruction("V", wait, needs, gives, into, set)
Load(from, gives, into, set) == Instruction("MTE2", {}, from, gives, {into}, set)
Store(wait, from, gives, into, set) == Instruction("MTE3", wait, {from}, gives, into, set)
=============================================================================
