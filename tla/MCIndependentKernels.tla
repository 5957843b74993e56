------------------------ MODULE MCIndependentKernels -------------------------
(***************************************************************************)
(* The launches IndependentKernels is checked on.                          *)
(***************************************************************************)
EXTENDS KernelReference

\* The triangular inverses by recursion: matrices one after another, and
\* then in BSND layout.
RecLaunchOf(n, d, cube_cores, heads, cu_seqlens, elems, lower, pad) ==
  LET tiles == RecUnroll!TotalTiles(n, heads, cu_seqlens, elems)
  IN [kernel |-> "tri_inv_rec_unroll", n |-> n, d |-> d, tiles |-> tiles,
      cores |-> RecUnroll!BlockDim(cube_cores, tiles), heads |-> heads,
      cu_seqlens |-> cu_seqlens, lower |-> lower, pad |-> pad]
RecLaunch(n, d, cube_cores, tiles, lower) ==
  RecLaunchOf(n, d, cube_cores, 0, <<>>, tiles * n * n, lower, "MTE1")
BsndLaunch(cube_cores, rows, heads, cu_seqlens, pad) ==
  RecLaunchOf(4, 2, cube_cores, heads, cu_seqlens, rows * heads * 4, TRUE, pad)
NSLaunch(cores, tiles, num_iters) ==
  [kernel |-> "tri_inv_ns", n |-> 3, cores |-> cores, tiles |-> tiles, lower |-> FALSE,
   num_iters |-> num_iters, scale |-> 3]
TrickLaunch(n, max_block_size) ==
  [kernel |-> "tri_inv_trick", n |-> n, cores |-> 2, tiles |-> 2, lower |-> TRUE,
   max_block_size |-> max_block_size]
PlainLaunch(name, cores, tiles) == [kernel |-> name, n |-> 4, cores |-> cores, tiles |-> tiles]
\* One side of a core of flash attention, over the row-blocks it is dealt.
FaLaunch(side, blocks, full_tiles, subs, preload, causal) ==
  [kernel |-> side, n |-> 2, cores |-> 1, blocks |-> blocks, full_tiles |-> full_tiles,
   subs |-> subs, preload |-> preload, causal |-> causal]

MCLaunches ==
  ("rec, six tiles" :> RecLaunch(4, 2, 1, 6, TRUE))
  @@ ("rec, upper, two slots" :> RecLaunch(4, 2, 2, 3, FALSE))
  @@ ("rec, doubling only" :> RecLaunch(8, 8, 2, 2, TRUE))
  @@ ("rec, both phases" :> RecLaunch(16, 8, 1, 1, TRUE))
  @@ ("rec, BSND" :> BsndLaunch(2, 8, 2, <<>>, "MTE1"))
  @@ ("rec, BSND varlen" :> BsndLaunch(1, 11, 2, <<0, 6, 6, 7, 11>>, "MTE1"))
  @@ ("rec, BSND varlen, padded by MTE2" :> BsndLaunch(2, 5, 1, <<0, 0, 5>>, "MTE2"))
  @@ ("ns, five tiles" :> NSLaunch(1, 5, 2))
  @@ ("ns, idle cores" :> NSLaunch(5, 6, 1))
  @@ ("trick, inverse" :> TrickLaunch(8, 4))
  @@ ("trick, truncated" :> TrickLaunch(8, 2))
  @@ ("col sweep" :> PlainLaunch("tri_inv_col_sweep", 2, 3))
  @@ ("scan" :> PlainLaunch("scan_ul1", 1, 1))
  @@ ("scan, two AI cores" :> PlainLaunch("scan_mcssa", 2, 2))
  @@ ("matmul" :> PlainLaunch("simple_matmul", 1, 1))
  @@ ("square" :> PlainLaunch("batch_matrix_square", 2, 2))
  @@ ("attention, Cube, causal" :> FaLaunch("fa_cube", <<5, 2, 0>>, 4, 2, 2, TRUE))
  @@ ("attention, Cube" :> FaLaunch("fa_cube", <<1, 0>>, 3, 1, 1, FALSE))
  @@ ("attention, Vector, causal" :> FaLaunch("fa_vec", <<5, 2, 0>>, 4, 2, 2, TRUE))
  @@ ("attention, Vector" :> FaLaunch("fa_vec", <<1, 0>>, 3, 1, 1, FALSE))
=============================================================================
