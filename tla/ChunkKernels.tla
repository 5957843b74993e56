---------------------------- MODULE ChunkKernels ----------------------------
(***************************************************************************)
(* The kernels of gated linear attention, in which the Cube core and the   *)
(* two vector subblocks of an AI core hand tiles to one another through    *)
(* the core's workspace in GM, ordered by counted cross-core flags alone.  *)
(***************************************************************************)
EXTENDS Integers, Sequences

CONSTANTS
  Lengths,  \* the sequences of this AI core, in stripes of half a chunk
  Launched  \* the kernels looked at

VARIABLES kernel, at, flag, mem

Cumsum == INSTANCE ChunkCumsum
Kkt == INSTANCE GdnKkt
WyFast == INSTANCE GdnWyFast
ChunkH == INSTANCE GdnChunkH
ChunkO == INSTANCE GdnChunkO
KKkt == INSTANCE KdaKkt
KWy == INSTANCE KdaWy
KChunkH == INSTANCE KdaChunkH
KChunkO == INSTANCE KdaChunkO

\* The kernels of the two chains, with their programs.
AllPrograms ==
  [cumsum |-> Cumsum!GdnProgram, kkt |-> Kkt!Program, wy_fast |-> WyFast!Program,
   chunk_h |-> ChunkH!Program, chunk_o |-> ChunkO!Program,
   kda_cumsum |-> Cumsum!KdaProgram, kda_kkt |-> KKkt!Program, kda_wy |-> KWy!Program,
   kda_chunk_h |-> KChunkH!Program, kda_chunk_o |-> KChunkO!Program]

ASSUME ChunkAssumption == Lengths \in Seq(Nat) /\ Launched \subseteq DOMAIN AllPrograms

Programs == [k \in Launched |-> AllPrograms[k]]

\* Buffers of a kernel that its flags do not protect: see the findings.
Exempt ==
  [cumsum |-> Cumsum!GdnUnsynchronized, kkt |-> Kkt!Unsynchronized,
   wy_fast |-> WyFast!Unsynchronized, chunk_h |-> ChunkH!Unsynchronized,
   chunk_o |-> ChunkO!Unsynchronized,
   kda_cumsum |-> {}, kda_kkt |-> KKkt!Unsynchronized, kda_wy |-> KWy!Unsynchronized,
   kda_chunk_h |-> KChunkH!Unsynchronized, kda_chunk_o |-> KChunkO!Unsynchronized]

\* The cross-core flags a kernel leaves up when it returns.
FlagsLeft ==
  [cumsum |-> {}, kkt |-> Kkt!FlagsLeft, wy_fast |-> WyFast!FlagsLeft,
   chunk_h |-> ChunkH!FlagsLeft, chunk_o |-> ChunkO!FlagsLeft,
   kda_cumsum |-> {}, kda_kkt |-> KKkt!FlagsLeft, kda_wy |-> KWy!FlagsLeft,
   kda_chunk_h |-> KChunkH!FlagsLeft, kda_chunk_o |-> KChunkO!FlagsLeft]

Core == INSTANCE HappensBefore
Spec == Core!Spec

\* For every <<name, kind>>: what is taken from a buffer called name as being
\* of that kind is it.
Finds(pairs) ==
  \A x \in Core!Running : \A n \in Core!Current(x[1], x[2]).needs :
    <<n[1][2], n[2][1]>> \in pairs => mem[n[1]] = n[2]

\* The programs of kernel k can be seen to be in order without running them,
\* but for the buffers and flags set out above.
Synchronized(k) == Core!Synchronized(k, Core!Walked(k), Exempt[k], FlagsLeft[k], {})

\* For every two steps of the three cores that touch a buffer the kernel
\* protects, one of them writing, its flags, barriers and pipes say which is
\* first, in all runs, and no step waits for what is never raised.
ChunksSynchronized == Core!NotBegun => Synchronized(kernel)

\* What the Cube and the vector subblocks hand one another through GM, and
\* what the pipes of each hand one another, is always of the item and chunk
\* the reader is at: single slots, or two used in turn, and a few counted
\* flags are enough, with no FIFO behind any of them.
WorkspaceIsOwn == Core!ReadsOwnBut(Exempt[kernel])

\* Outside the buffers known to be unprotected no pipe or core touches a
\* buffer another is still using, prefetched inputs among them.
ChunkRaceFree == Core!RaceFreeBut(Exempt[kernel])

\* The three cores never wait for one another forever, and end with every
\* event and cross-core flag down but those the kernel is known to leave.
ChunkReturns ==
  Core!Quiescent => (Core!Returned /\ Core!FlagsDownBut(FlagsLeft[kernel]))

\* "4. Load WS from Cube workspace, compute V_new = U - WS": the U converted
\* to float is this chunk's, not the WS that is loaded over it.
ResidualOfOwnU == Finds({<<"u_ub_half", "U">>})

\* "Load the previous recurrent state S_i from per-core workspace": the state
\* the Cube projects with W_i is that of the chunk before.
ProjectsPreviousState == Finds({<<"WS_S", "S">>})

\* "Vec has finished reading QS before Cube writes QKV here, enforced by
\* flag 1": a subblock that is loading QS finds QS.
ReadsScoresBeforeReuse == Finds({<<"WS_QS_QKV", "QS">>})

\* "Pipeline: MTE2(load) -> Vec(compute) -> MTE3(store), serialized per
\* chunk": what V sums up is the gates of the chunk it is at.
SumsOwnChunk == Finds({<<"g_ub", "g">>})

\* "every block leaves +1 on flags 3 and 4 [...] and that stale count corrupts
\* the next launch's first non-first-iter wait": the kernel takes down every
\* flag it has raised.
DrainsFlags == Core!Quiescent => Core!FlagsDownBut({})
=============================================================================
