------------------------------ MODULE ScanMCSSA ------------------------------
(***************************************************************************)
(* The prefix sum over several AI cores (examples/jit_cpp/scan_mc): every  *)
(* Cube core scans a tile, one vector subblock adds up what the tiles end  *)
(* with, and a subblock of every AI core adds what the tiles before its    *)
(* own come to.  SyncAll (kernel_utils.h) stands between the three.        *)
(*                                                                         *)
(* Block b is Cube core 3b with the subblocks 3b + 1 and 3b + 2.           *)
(***************************************************************************)
EXTENDS CoreCode

IsCube(c) == c % 3 = 0
Block(c) == c \div 3
Vecs(c) == {3 * Block(c) + 1, 3 * Block(c) + 2}
CoresOfBlocks(blocks) == 0 .. 3 * blocks - 1

SYNC_AIC_FLAG == 11
SYNC_AIV_FLAG == 12
SYNC_AIC_AIV_FLAG == 13
SYNC_AIV_ONLY_ALL == 14

\* Mutant of SyncAll: the subblocks do not wait for their Cube core.
SyncAllOneWay(c, blocks, isAIVOnly) ==
  LET kind == {d \in CoresOfBlocks(blocks) : IsCube(d) = IsCube(c)}
      cube == {3 * Block(c)}
  IN <<BarrierAll>>
     \o (IF isAIVOnly
         THEN <<SyncCores("MTE3", c, kind, SYNC_AIV_ONLY_ALL),
                WaitCores(c, kind, SYNC_AIV_ONLY_ALL)>>
         ELSE IF IsCube(c)
         THEN <<WaitCores(c, Vecs(c), SYNC_AIV_FLAG),
                SyncCores("FIX", c, kind, SYNC_AIC_FLAG), WaitCores(c, kind, SYNC_AIC_FLAG)>>
         ELSE <<SyncCores("MTE3", c, cube, SYNC_AIV_FLAG)>>)

\* Mode 0 synchronises a core with all of its kind, mode 2 a Cube core with
\* its subblocks.  "Vector only" leaves out mode 2, not the Cube cores.
SyncAll(c, blocks, isAIVOnly) ==
  LET kind == {d \in CoresOfBlocks(blocks) : IsCube(d) = IsCube(c)}
      cube == {3 * Block(c)}
  IN <<BarrierAll>>
     \o (IF isAIVOnly
         THEN <<SyncCores("MTE3", c, kind, SYNC_AIV_ONLY_ALL),
                WaitCores(c, kind, SYNC_AIV_ONLY_ALL)>>
         ELSE IF IsCube(c)
         THEN <<WaitCores(c, Vecs(c), SYNC_AIV_FLAG),
                SyncCores("FIX", c, kind, SYNC_AIC_FLAG), WaitCores(c, kind, SYNC_AIC_FLAG),
                SyncCores("MTE3", c, Vecs(c), SYNC_AIC_AIV_FLAG)>>
         ELSE <<SyncCores("MTE3", c, cube, SYNC_AIV_FLAG),
                WaitCores(c, cube, SYNC_AIC_AIV_FLAG)>>)

-----------------------------------------------------------------------------
xL1 == <<"xL1", 0>>
oL1 == <<"oL1", 0>>
uL1 == <<"uL1", 0>>
c1L1 == <<"c1L1", 0>>
lL1 == <<"lL1", 0>>

\* As runKernelScanUl1, on tile b.
scanULOne(b) ==
  <<TLOAD(xL1, Gm("x", b)), TLOAD(oL1, Gm("o", 0)), TLOAD(uL1, Gm("u", 0)),
    TLOAD(lL1, Gm("l", 0))>> \o Pass("MTE2", "MTE1", 0)
  \o <<ToL0(A(0), xL1), ToL0(B(0), oL1)>> \o Pass("MTE1", "M", 0)
  \o <<TMATMUL(C(0), A(0), B(0))>> \o Pass("M", "FIX", 0)
  \o <<TSTORE(Gm("s", b), C(0))>> \o Pass("FIX", "MTE1", 0) \o Pass("FIX", "M", 0)
  \o <<ToL0(B(0), uL1)>> \o Pass("MTE1", "M", 0)
  \o <<TMATMUL(C(0), A(0), B(0))>> \o Pass("FIX", "MTE2", 0)
  \o <<TLOAD(c1L1, Gm("s", b))>> \o Pass("MTE2", "MTE1", 1) \o Pass("M", "MTE1", 0)
  \o <<ToL0(A(0), lL1), ToL0(B(0), c1L1)>> \o Pass("MTE1", "M", 1)
  \o <<TMATMUL_ACC(C(0), A(0), B(0))>> \o Pass("M", "FIX", 0)
  \o <<TSTORE(Gm("s", b), C(0))>>

carry == <<"carry", 0>>

\* The scalar unit of one subblock goes through the last sums of the tiles.
singleVecBlockScan(c, blocks) ==
  IF c # 1 THEN <<>>
  ELSE <<Do("S", <<"clear">>, <<>>, carry)>>
       \o FlattenSeq([it \in 1 .. blocks |->
            <<Do("S", Same, <<carry>>, Gm("scan_core_buf", it - 1)),
              Do("S", <<"plus last">>, <<carry, Gm("s", it - 1)>>, carry)>>])

sVecTile == <<"sVecTile", 0>>
coreScanTile == <<"coreScanTile", 0>>

addAllBlockScan(c, blocks) ==
  LET b == Block(c)
  IN IF c % 3 # 1 THEN <<>>
     ELSE <<Do("MTE2", <<"row">>, [it \in 1 .. blocks |-> Gm("scan_core_buf", it - 1)],
               coreScanTile)>> \o Pass("MTE2", "S", 0)
          \o <<Do("S", <<"get", b>>, <<coreScanTile>>, carry)>> \o Pass("S", "V", 0)
          \o <<Do("MTE2", Same, <<Gm("s", b)>>, sVecTile)>> \o Pass("MTE2", "V", 0)
          \o <<Do("V", <<"plus all">>, <<sVecTile, carry>>, sVecTile)>> \o Pass("V", "MTE3", 0)
          \o <<Do("MTE3", Same, <<sVecTile>>, Gm("s", b))>>

\* What core c runs up to each SyncAll and after the last.
Stretch(k, c, blocks) ==
  CASE k = 1 -> (IF IsCube(c) THEN scanULOne(Block(c)) ELSE <<>>) \o SyncAll(c, blocks, FALSE)
    [] k = 2 -> singleVecBlockScan(c, blocks) \o SyncAll(c, blocks, TRUE)
    [] k = 3 -> addAllBlockScan(c, blocks)

\* All cores' code, stretch by stretch.
runKernelScanMCSSA(blocks) ==
  FlattenSeq([i \in 1 .. 9 * blocks |->
    LET k == (i - 1) \div (3 * blocks) + 1
        c == (i - 1) % (3 * blocks)
    IN On(c, Stretch(k, c, blocks))])
=============================================================================
