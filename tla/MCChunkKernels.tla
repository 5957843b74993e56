--------------------------- MODULE MCChunkKernels ---------------------------
(***************************************************************************)
(* Instances of ChunkKernels: the lengths, in stripes of half a chunk, of  *)
(* the sequences one AI core works through.                                *)
(***************************************************************************)
EXTENDS ChunkKernels

\* Two chunks, the second with a dead stripe; then a single chunk.
Ragged == <<3, 1>>
\* A sequence of length 0 before one of two chunks.
WithEmpty == <<0, 4>>

AllKernels ==
  {"cumsum", "kkt", "wy_fast", "chunk_h", "chunk_o",
   "kda_cumsum", "kda_kkt", "kda_wy", "kda_chunk_h", "kda_chunk_o"}
OnlyCumsum == {"cumsum"}
OnlyWyFast == {"wy_fast"}
OnlyChunkH == {"chunk_h"}
OnlyChunkO == {"chunk_o"}
=============================================================================
