-------------------------- MODULE TriInvRecUnroll ---------------------------
(***************************************************************************)
(* The triangular inverse by unrolled recursion (tri_inv_rec_unroll): a    *)
(* Cube core loads up to four matrices at a time into slots of L1 and      *)
(* inverts I + M for each, first the diagonal blocks of DoublingBlockSize  *)
(* by repeated squaring, then ever larger blocks from pairs of smaller     *)
(* ones.  Every slot has two event ids of its own on every pair of pipes.  *)
(*                                                                         *)
(* A launch is a record: its matrices' size n, the block size d doubling   *)
(* stops at, the cores, the tiles, their layout (heads = 0: one after      *)
(* another; cu_seqlens = <<>>: sequences of equal length), lower or upper. *)
(***************************************************************************)
EXTENDS TileRounds

(* Where the tiles of a tensor in BSND layout lie (kernel_utils.h): B      *)
(* sequences of S rows, N heads and D columns, a tile being D rows of one  *)
(* head.  Tiles are numbered chunk by chunk and, in a chunk, head by head. *)

CeilDiv(value, divisor) == (value + divisor - 1) \div divisor
Lesser(a, b) == IF a <= b THEN a ELSE b

BSND_OFFSET(tile_id, N, S, D) == (tile_id \div N) * S * N * D + (tile_id % N) * D

GetBSNDFixedTileOffset(tile_id, heads, size) == BSND_OFFSET(tile_id, heads, size, size)

\* The chunks of the sequences before sequence s, counted from 0.
ChunksBefore(cu_seqlens, size, s) ==
  LET before[i \in 0 .. s] ==
        IF i = 0 THEN 0
        ELSE before[i - 1] + CeilDiv(cu_seqlens[i + 1] - cu_seqlens[i], size)
  IN before[s]

\* The first sequence whose chunks reach the tile's own.  The scan goes on
\* until it finds one: a tile_id past the last chunk would run off the array.
\* Mutant of OwnerOf: an empty sequence is taken for the owner.
OwnerOfEmpty(chunk, cu_seqlens, size) ==
  CHOOSE s \in 0 .. Len(cu_seqlens) - 2 :
    /\ chunk <= ChunksBefore(cu_seqlens, size, s + 1)
    /\ \A earlier \in 0 .. s - 1 : chunk > ChunksBefore(cu_seqlens, size, earlier + 1)
OwnerOf(chunk, cu_seqlens, size) ==
  CHOOSE s \in 0 .. Len(cu_seqlens) - 2 :
    /\ chunk < ChunksBefore(cu_seqlens, size, s + 1)
    /\ \A earlier \in 0 .. s - 1 : chunk >= ChunksBefore(cu_seqlens, size, earlier + 1)

GetBSNDVarlenTileInfoFromCuSeqlens(tile_id, heads, size, cu_seqlens) ==
  LET head == tile_id % heads
      chunk == tile_id \div heads
      s == OwnerOf(chunk, cu_seqlens, size)
      row == cu_seqlens[s + 1] + (chunk - ChunksBefore(cu_seqlens, size, s)) * size
  IN [bsnd_offset |-> row * heads * size + head * size,
      valid_size |-> Lesser(cu_seqlens[s + 2] - row, size)]

-----------------------------------------------------------------------------

I_l1 == <<"I", 0>>
I_neg_l1 == <<"I_neg", 0>>
Zero_l1 == <<"Zero", 0>>
M_neg_l1 == <<"M_neg", 0>>
X_l1 == <<"X", 0>>
Y_l1(slot) == <<"Y", slot>>

\* Every second diagonal block of src, from the first or the second on, into
\* an L0 operand whose other entries stay.
CopyOddOrEvenBlocksL1ToL0(src, dst, size, swap_parity) ==
  LET is_left == dst[1] = "a_l0"
      start == IF is_left = swap_parity THEN 1 ELSE 0
  IN <<Do("MTE1", <<"blocks", size, start>>, <<dst, src>>, dst)>>

CopyDiagonalBlocksL1ToL0(src, dst, size, n) ==
  IF size >= n THEN <<ToL0(dst, src)>>
  ELSE CopyOddOrEvenBlocksL1ToL0(src, dst, size, FALSE)
       \o CopyOddOrEvenBlocksL1ToL0(src, dst, size, TRUE)

\* I = (-I)(-I) and 0 = I - I.
PrepareAuxiliaryMatrices ==
  <<ToL0(A(0), I_neg_l1), ToL0(B(0), I_neg_l1)>> \o Pass("MTE1", "M", 0)
  \o <<TMATMUL(C(0), A(0), B(0))>> \o Pass("M", "FIX", 0)
  \o <<ToL1(I_l1, C(0))>> \o Pass("FIX", "MTE1", 0)
  \o <<ToL0(B(0), I_l1)>> \o Pass("MTE1", "M", 0)
  \o <<TMATMUL_ACC(C(0), A(0), B(0))>> \o Pass("M", "FIX", 0)
  \o <<ToL1(Zero_l1, C(0))>> \o Pass("FIX", "MTE1", 0)

-----------------------------------------------------------------------------
\* X = I - diag(M), Y = diag(M)^2 and M_neg = -M; e0 and e1 are the slot's
\* event ids, y its buffer.
FirstMatmuls(l, y, e0, e1) ==
  <<ToL0(B(0), y), ToL0(A(0), I_neg_l1), SetFlag("MTE1", "M", e0),
    ToL0(A(1), Zero_l1), ToL0(B(1), Zero_l1)>>
  \o Pass("MTE1", "M", e1) \o Pass("M", "MTE1", e1)
  \o CopyDiagonalBlocksL1ToL0(y, A(1), l.d, l.n)
  \o CopyDiagonalBlocksL1ToL0(y, B(1), l.d, l.n)
  \o <<SetFlag("MTE1", "M", e1),
       WaitFlag("MTE1", "M", e0), TMATMUL(C(0), A(0), B(0)),
       SetFlag("M", "FIX", e0), SetFlag("M", "MTE1", e0),
       WaitFlag("M", "FIX", e0), ToL1(M_neg_l1, C(0)), SetFlag("FIX", "M", e0),
       WaitFlag("MTE1", "M", e1), SetFlag("MTE1", "M", e1),
       TMATMUL(C(1), A(1), B(1))>>
  \o Pass("M", "FIX", e1) \o <<ToL1(y, C(1))>> \o Pass("FIX", "M", e1)
  \o <<WaitFlag("M", "MTE1", e0), ToL0(B(0), I_neg_l1), ToL0(A(0), I_neg_l1)>>
  \o Pass("MTE1", "M", e0)
  \o <<WaitFlag("FIX", "M", e0), WaitFlag("MTE1", "M", e1), TMATMUL(C(0), A(1), B(0))>>
  \o Pass("M", "FIX", e0) \o Pass("FIX", "M", e0)
  \o <<TMATMUL_ACC(C(0), A(0), B(0))>> \o Pass("M", "FIX", e1)
  \o <<ToL1(X_l1, C(0))>>

\* The flags the doubling phase hands from one round to the next.
DoublingFlags(e0, e1) ==
  <<<<"FIX", "M", e0>>, <<"M", "MTE1", e0>>, <<"FIX", "MTE1", e0>>,
    <<"FIX", "M", e1>>, <<"M", "MTE1", e1>>, <<"FIX", "MTE1", e1>>>>
SetAll(flags) == [i \in DOMAIN flags |-> SetFlag(flags[i][1], flags[i][2], flags[i][3])]
WaitAll(flags) == [i \in DOMAIN flags |-> WaitFlag(flags[i][1], flags[i][2], flags[i][3])]

\* X = X + X Y, and before it Y = Y Y, but in the last round.
Doubling(l, y, e0, e1, block_size) ==
  <<WaitFlag("M", "MTE1", e0), ToL0(B(0), I_l1),
    WaitFlag("FIX", "MTE1", e0), ToL0(A(0), X_l1), SetFlag("MTE1", "M", e0),
    WaitFlag("FIX", "MTE1", e1), ToL0(B(1), y), SetFlag("MTE1", "M", e1),
    WaitFlag("FIX", "M", e0), WaitFlag("MTE1", "M", e0)>>
  \o (IF block_size < l.d \div 4
      THEN <<WaitFlag("M", "MTE1", e1), ToL0(A(1), y),
             WaitFlag("MTE1", "M", e1), SetFlag("MTE1", "M", e1),
             WaitFlag("MTE1", "M", e1), WaitFlag("FIX", "M", e1),
             TMATMUL(C(1), A(1), B(1)), SetFlag("M", "MTE1", e1),
             SetFlag("M", "FIX", e1), SetFlag("MTE1", "M", e1),
             WaitFlag("M", "FIX", e1), ToL1(y, C(1)), SetFlag("FIX", "M", e1)>>
      ELSE <<>>)
  \o <<SetFlag("FIX", "MTE1", e1),
       WaitFlag("MTE1", "M", e1), TMATMUL_ACC(C(0), A(0), B(1)),
       SetFlag("M", "MTE1", e0), SetFlag("M", "FIX", e0),
       WaitFlag("M", "FIX", e0), ToL1(X_l1, C(0)),
       SetFlag("FIX", "M", e0), SetFlag("FIX", "MTE1", e0)>>

\* With LX and RX every second diagonal block of X, Y = LX (-M) + I and then
\* X = Y RX + LX, which the last round leaves in the accumulator only.
Recursion(l, y, e0, e1, block_size) ==
  <<WaitFlag("M", "MTE1", e0), ToL0(A(1), Zero_l1),
    WaitFlag("M", "MTE1", e1), ToL0(B(0), I_l1), SetFlag("MTE1", "M", e0),
    WaitFlag("FIX", "MTE1", e1)>>
  \o CopyOddOrEvenBlocksL1ToL0(X_l1, A(1), block_size, l.lower)
  \o <<SetFlag("MTE1", "M", e1),
       WaitFlag("MTE1", "M", e0), WaitFlag("FIX", "M", e0), TMATMUL(C(0), A(0), B(0)),
       WaitFlag("MTE1", "M", e1), WaitFlag("FIX", "M", e1), TMATMUL(C(1), A(1), B(0)),
       SetFlag("M", "MTE1", e1),
       TMATMUL_ACC(C(0), A(1), B(1)), SetFlag("M", "FIX", e0), SetFlag("M", "MTE1", e0),
       WaitFlag("M", "FIX", e0), ToL1(y, C(0)),
       SetFlag("FIX", "MTE1", e0), SetFlag("FIX", "M", e0),
       WaitFlag("M", "MTE1", e1), ToL0(B(0), Zero_l1)>>
  \o CopyOddOrEvenBlocksL1ToL0(X_l1, B(0), block_size, l.lower)
  \o <<WaitFlag("M", "MTE1", e0), WaitFlag("FIX", "MTE1", e0), ToL0(A(1), y)>>
  \o Pass("MTE1", "M", e0)
  \o <<TMATMUL_ACC(C(1), A(1), B(0)), SetFlag("M", "MTE1", e0), SetFlag("M", "MTE1", e1)>>
  \o Pass("M", "FIX", e0)
  \o (IF block_size < l.n \div 2
      THEN <<ToL1(X_l1, C(1)), SetFlag("FIX", "M", e1)>> ELSE <<>>)
  \o <<SetFlag("FIX", "MTE1", e1)>>

\* from, 2 from, 4 from, ... below "below".
Powers(from, below) ==
  SelectSeq([k \in 1 .. 8 |-> from * 2^(k - 1)], LAMBDA s : s < below)

InvertSingleTile(l, slot) ==
  LET e0 == slot
      e1 == slot + Slots(l)
      y == Y_l1(slot)
      doubling == Powers(1, l.d \div 2)
      recursion == Powers(l.d, l.n)
  IN FirstMatmuls(l, y, e0, e1)
     \o SetAll(DoublingFlags(e0, e1))
     \o FlattenSeq([k \in DOMAIN doubling |-> Doubling(l, y, e0, e1, doubling[k])])
     \o WaitAll(DoublingFlags(e0, e1))
     \o <<ToL0(B(1), M_neg_l1), ToL0(A(0), I_l1)>>
     \o (IF l.n > l.d THEN <<SetFlag("FIX", "M", e1)>> ELSE <<>>)
     \o SetAll(<<<<"M", "MTE1", e1>>, <<"M", "MTE1", e0>>,
                 <<"FIX", "MTE1", e1>>, <<"FIX", "M", e0>>>>)
     \o FlattenSeq([k \in DOMAIN recursion |-> Recursion(l, y, e0, e1, recursion[k])])
     \o WaitAll(<<<<"M", "MTE1", e0>>, <<"M", "MTE1", e1>>,
                  <<"FIX", "M", e0>>, <<"FIX", "MTE1", e1>>>>)

-----------------------------------------------------------------------------
\* The host counts the tiles in a tensor of "elems" numbers and launches no
\* more cores than there are tiles.
TotalTiles(n, heads, cu_seqlens, elems) ==
  IF heads > 0 /\ Len(cu_seqlens) > 1
  THEN heads * ChunksBefore(cu_seqlens, n, Len(cu_seqlens) - 1)
  ELSE elems \div (n * n)
BlockDim(cube_cores, total_tiles) == Lesser(cube_cores, total_tiles)

\* Where a tile lies and how many of its rows and columns are there.
TileInfo(l, tile) ==
  IF l.heads = 0 THEN [bsnd_offset |-> tile * l.n * l.n, valid_size |-> l.n]
  ELSE IF l.cu_seqlens = <<>>
       THEN [bsnd_offset |-> GetBSNDFixedTileOffset(tile, l.heads, l.n), valid_size |-> l.n]
       ELSE GetBSNDVarlenTileInfoFromCuSeqlens(tile, l.heads, l.n, l.cu_seqlens)

\* A tile shorter than the buffer is padded with zeros; pto-isa, not the
\* kernel, decides which pipe pads.
LoadTile(l, tile, slot) ==
  LET info == TileInfo(l, tile)
      gm == Gm("M", info.bsnd_offset)
      v == info.valid_size
      y == Y_l1(slot)
  IN <<WaitFlag("M", "MTE2", slot)>>
     \o (IF v < l.n
         THEN <<Do("MTE2", <<"corner", v>>, <<y, gm>>, y)>> \o Pass("MTE2", "MTE1", slot)
              \o <<Do(l.pad, <<"pad", v>>, <<y>>, y)>>
         ELSE <<TLOAD(y, gm)>>)
     \o <<SetFlag("MTE2", "MTE1", slot)>>

\* The flag that says the accumulators are stored goes to the slot inverted
\* next: the following one, or the first of the next round.
InvertTile(l, tile, slot) ==
  LET info == TileInfo(l, tile)
      final == C(IF l.n > l.d THEN 1 ELSE 0)
      out == Gm("M_inv", info.bsnd_offset)
  IN <<WaitFlag("FIX", "M", slot), WaitFlag("MTE2", "MTE1", slot)>>
     \o InvertSingleTile(l, slot)
     \o <<SetFlag("M", "MTE2", slot),
          IF info.valid_size < l.n
          THEN Do("FIX", <<"corner", info.valid_size>>, <<out, final>>, out)
          ELSE TSTORE(out, final),
          SetFlag("FIX", "M", (slot + 1) % Slots(l))>>

Round(l, core, k) ==
  LET mine == RoundTiles(l, core, k)
  IN FlattenSeq([i \in DOMAIN mine |-> LoadTile(l, mine[i], i - 1)])
     \o FlattenSeq([i \in DOMAIN mine |-> InvertTile(l, mine[i], i - 1)])

TriInvRecUnrollKernel(l, core) ==
  IF core * Slots(l) >= l.tiles THEN <<>>
  ELSE <<TLOAD(I_neg_l1, Gm("I_neg", 0))>> \o Pass("MTE2", "MTE1", 0)
       \o PrepareAuxiliaryMatrices
       \o FirstFlags(l)
       \o FlattenSeq([k \in 1 .. Rounds(l) |-> Round(l, core, k)])
       \o LastFlags(l, core)
=============================================================================
