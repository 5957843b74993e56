--------------------------- MODULE KernelReference ---------------------------
(***************************************************************************)
(* What the triangular inverses, the prefix sum, the plain products and    *)
(* the Cube core of flash attention are for, apart from how they do it:    *)
(* which matrices a launch has to produce and what has to be in them, on   *)
(* inputs fixed here; and that the code of IndependentKernels does it.     *)
(*                                                                         *)
(* What a core's code computes is what it does when it runs statement by   *)
(* statement.  A tile is a square matrix over the residues modulo a prime, *)
(* which keep the identities the kernels rest on and need no rounding.     *)
(*                                                                         *)
(* A launch is a record: the kernel, its matrices' size n, the cores, the  *)
(* tiles, and what else the kernel takes.                                  *)
(***************************************************************************)
EXTENDS IndependentKernels

CONSTANT Prime

ASSUME PrimeAssumption == Prime \in Nat \ {0, 1}

Indices(n) == (0 .. n - 1) \X (0 .. n - 1)

Zero(n) == [x \in Indices(n) |-> 0]
Identity(n) == [x \in Indices(n) |-> IF x[1] = x[2] THEN 1 ELSE 0]
Scaled(k, m) == [x \in DOMAIN m |-> (k * m[x]) % Prime]
Plus(a, b) == [x \in DOMAIN a |-> (a[x] + b[x]) % Prime]
Times(n, a, b) ==
  [x \in Indices(n) |->
     LET sum[k \in 0 .. n] ==
           IF k = 0 THEN 0 ELSE sum[k - 1] + a[<<x[1], k - 1>>] * b[<<k - 1, x[2]>>]
     IN sum[n] % Prime]

InCorner(x, v) == x[1] < v /\ x[2] < v
InBlocks(x, size, start) ==
  x[1] \div size = x[2] \div size /\ (x[1] \div size) % 2 = start

\* A row of numbers is the first row of a tile, a number its first entry.
Scalar == <<0, 0>>
MinusRow(b, m, row, factor) ==
  [x \in DOMAIN b |-> IF x[1] = 0 THEN (b[x] - factor * m[<<row, x[2]>>]) % Prime ELSE b[x]]

\* What an operation makes of its operands, tiles of n rows.
Result(n, op, args) ==
  CASE op[1] = "same" -> args[1]
    [] op[1] = "times" -> Times(n, args[1], args[2])
    [] op[1] = "plus times" -> Plus(args[1], Times(n, args[2], args[3]))
    [] op[1] = "blocks" ->
         [x \in Indices(n) |-> IF InBlocks(x, op[2], op[3]) THEN args[2][x] ELSE args[1][x]]
    [] op[1] = "corner" ->
         [x \in Indices(n) |-> IF InCorner(x, op[2]) THEN args[2][x] ELSE args[1][x]]
    [] op[1] = "pad" -> [x \in Indices(n) |-> IF InCorner(x, op[2]) THEN args[1][x] ELSE 0]
    [] op[1] = "clear" -> Zero(n)
    [] op[1] = "minus row" -> MinusRow(args[1], args[2], op[2], 1)
    [] op[1] = "minus row times" -> MinusRow(args[1], args[2], op[2], args[3][Scalar])
    [] op[1] = "one" -> Identity(n)
    [] op[1] = "set one" -> [args[1] EXCEPT ![<<op[2], op[3]>>] = 1]
    [] op[1] = "set" -> [args[1] EXCEPT ![<<op[2], op[3]>>] = args[2][Scalar]]
    [] op[1] = "get" -> [x \in Indices(n) |-> args[1][<<0, op[2]>>]]
    [] op[1] = "row" ->
         [x \in Indices(n) |-> IF x[2] < Len(args) THEN args[x[2] + 1][Scalar] ELSE 0]
    [] op[1] = "plus all" ->
         [x \in Indices(n) |-> (args[1][x] + args[2][Scalar]) % Prime]
    [] op[1] = "plus last" ->
         [x \in Indices(n) |-> (args[1][Scalar] + args[2][<<n - 1, n - 1>>]) % Prime]

\* The buffers after statement s, when they were "held" before it.
Ran(n, held, s) ==
  IF s.kind # "do" THEN held
  ELSE LET args == [k \in DOMAIN s.from |-> held[s.from[k]]]
       IN (s.into :> Evaluated(Result(n, s.op, args))) @@ held

RECURSIVE RunFrom(_, _, _, _, _)
RunFrom(n, held, code, i, j) ==
  IF i > j THEN held
  ELSE IF i = j THEN Ran(n, held, code[i])
  ELSE LET half == (i + j) \div 2
           then == RunFrom(n, held, code, i, half)
       IN IF DOMAIN then = {} THEN then ELSE RunFrom(n, then, code, half + 1, j)

\* All buffers once the code has run, on GM tensors "given" by name and index;
\* the buffers of the core hold anything at first.
Computed(n, code, given) ==
  LET garbage == [x \in Indices(n) |-> (x[1] + 41) % Prime]
      start == [b \in BuffersOf(code) |-> IF b \in DOMAIN given THEN given[b] ELSE garbage]
  IN RunFrom(n, start, code, 1, Len(code))

-----------------------------------------------------------------------------
Entry(seed, x) ==
  ((seed + 3) * (x[1] + 2) * (7 * x[2] + 3) + x[1] * x[1] + 5 * x[2]) % Prime
Below(n) == {x \in Indices(n) : x[1] > x[2]}
Above(n) == {x \in Indices(n) : x[1] < x[2]}

Filled(n, part, seed) == [x \in Indices(n) |-> IF x \in part THEN Entry(seed, x) ELSE 0]
Ones(n, part) == [x \in Indices(n) |-> IF x \in part THEN 1 ELSE 0]
IPlus(n, m) == Plus(Identity(n), m)
Negative(m) == Scaled(Prime - 1, m)

\* A launch's tensors in GM as the host sets them up, by name and tile.
Tensor(l, name, tile) ==
  CASE name = "I_neg" -> Negative(Identity(l.n))
    [] name = "I_scaled" -> Scaled(l.scale, Identity(l.n))
    [] name = "M" -> Filled(l.n, IF l.lower THEN Below(l.n) ELSE Above(l.n), tile)
    [] name = "A" -> IPlus(l.n, Filled(l.n, Below(l.n), tile))
    [] name \in {"M_inv", "A_inv", "s"} -> Zero(l.n)
    [] name = "o" -> Ones(l.n, Indices(l.n))
    [] name = "u" -> IPlus(l.n, Ones(l.n, Above(l.n)))
    [] name = "l" -> Ones(l.n, Below(l.n))
    [] OTHER -> Filled(l.n, Indices(l.n), tile)

-----------------------------------------------------------------------------
\* The rows of a BSND launch's sequences, end to end.
Bounds(l) ==
  IF l.cu_seqlens = <<>> THEN <<0, (l.tiles \div l.heads) * l.n>> ELSE l.cu_seqlens
FirstRows(l, s) ==
  {row \in Bounds(l)[s] .. Bounds(l)[s + 1] - 1 : (row - Bounds(l)[s]) % l.n = 0}

\* The matrices a launch has to produce, each with the rows and columns it
\* has.  In BSND layout the last of a sequence may be short.
BsndMatrices(l) ==
  UNION {{<<Gm("M_inv", (row * l.heads + head) * l.n), Min({l.n, Bounds(l)[s + 1] - row})>> :
            row \in FirstRows(l, s), head \in 0 .. l.heads - 1} :
           s \in 1 .. Len(Bounds(l)) - 1}

\* Flash attention's Cube core: the scores of every key column a row-block
\* attends to and, for every tile of columns, its part of the output.
Attended(l, w) ==
  {c \in 0 .. l.full_tiles * l.subs - 1 : l.causal => c <= l.blocks[w]}
InTile(l, w, tile) == {c \in Attended(l, w) : c \div l.subs = tile}
CubeMatrices(l) ==
  UNION {{<<Gm("qk_fifo", 64 * w + c), l.n>> : c \in Attended(l, w)}
         \cup {<<Gm("pv_fifo", 64 * w + c \div l.subs), l.n>> : c \in Attended(l, w)} :
           w \in DOMAIN l.blocks}

Output ==
  [tri_inv_ns |-> "M_inv", tri_inv_trick |-> "M_inv", tri_inv_col_sweep |-> "A_inv",
   scan_ul1 |-> "s", simple_matmul |-> "c", batch_matrix_square |-> "z"]
Matrices(l) ==
  CASE l.kernel = "fa_cube" -> CubeMatrices(l)
    [] l.kernel = "scan_mcssa" ->
         {<<Gm(name, t), l.n>> : name \in {"s", "scan_core_buf"}, t \in 0 .. l.cores - 1}
    [] l.kernel = "tri_inv_rec_unroll" ->
         IF l.heads > 0 THEN BsndMatrices(l)
         ELSE {<<Gm("M_inv", t * l.n * l.n), l.n>> : t \in 0 .. l.tiles - 1}
    [] OTHER -> {<<Gm(Output[l.kernel], t), l.n>> : t \in 0 .. l.tiles - 1}

-----------------------------------------------------------------------------
Power(n, m, k) ==
  LET p[i \in 0 .. k] == IF i = 0 THEN Identity(n) ELSE Evaluated(Times(n, p[i - 1], m))
  IN p[k]

\* The rows and columns of m that are there are the inverse of I + M, and
\* the others are as they were.
IsInverse(l, place, v, out) ==
  /\ Times(v, out, IPlus(l.n, Tensor(l, "M", place))) = Identity(v)
  /\ \A x \in Indices(l.n) \ Indices(v) : out[x] = 0

\* The sum of the first powers of -M, the inverse when M^k = 0.
IsNeumannSum(l, place, k, out) ==
  LET m == Tensor(l, "M", place)
  IN Times(l.n, out, IPlus(l.n, m)) =
       Plus(Identity(l.n), Negative(Power(l.n, Negative(m), k)))

\* Every iteration squares what is missing from the inverse, I - A X.
Residual(l, place, x) ==
  Plus(Identity(l.n), Negative(Times(l.n, IPlus(l.n, Tensor(l, "M", place)), x)))
IsNewtonSchulz(l, place, out) ==
  Residual(l, place, out) =
    Power(l.n, Residual(l, place, Tensor(l, "I_scaled", 0)), 2^l.num_iters)

\* The entries of the tiles before t, and of tile t up to x, row after row.
SumBefore(l, t) ==
  MapThenSumSet(LAMBDA y : Tensor(l, "x", y[1])[y[2]], (0 .. t - 1) \X Indices(l.n)) % Prime
SumUpTo(l, t, x) ==
  MapThenSumSet(LAMBDA y : Tensor(l, "x", t)[y],
    {y \in Indices(l.n) : y[1] * l.n + y[2] <= x[1] * l.n + x[2]})
IsPrefixSum(l, b, out) ==
  IF b[2] = "scan_core_buf" THEN out[Scalar] = SumBefore(l, b[3])
  ELSE \A x \in Indices(l.n) : out[x] = (SumBefore(l, b[3]) + SumUpTo(l, b[3], x)) % Prime

\* Q K^T, or the sum of P V over the columns of the tile.
IsPartOfAttention(l, b, out) ==
  LET w == b[3] \div 64
      i == b[3] % 64
      PV(c) == Times(l.n, Tensor(l, "p_fifo", 64 * w + c), Tensor(l, "v", c))
  IN IF b[2] = "qk_fifo" THEN out = Times(l.n, Tensor(l, "q", w), Tensor(l, "k", i))
     ELSE \A x \in Indices(l.n) :
            out[x] = MapThenSumSet(LAMBDA c : PV(c)[x], InTile(l, w, i)) % Prime

\* What the launch has to leave in output b, of v rows.
IsRight(l, b, v, out) ==
  LET place == b[3]
  IN CASE l.kernel = "tri_inv_rec_unroll" -> IsInverse(l, place, v, out)
       [] l.kernel = "tri_inv_ns" -> IsNewtonSchulz(l, place, out)
       [] l.kernel = "tri_inv_trick" -> IsNeumannSum(l, place, 2 * l.max_block_size, out)
       [] l.kernel = "tri_inv_col_sweep" ->
            Times(l.n, out, Tensor(l, "A", place)) = Identity(l.n)
       [] l.kernel \in {"scan_ul1", "scan_mcssa"} -> IsPrefixSum(l, b, out)
       [] l.kernel = "simple_matmul" ->
            out = Times(l.n, Tensor(l, "a", place), Tensor(l, "b", place))
       [] l.kernel = "batch_matrix_square" ->
            out = Times(l.n, Tensor(l, "x", place), Tensor(l, "x", place))
       [] l.kernel = "fa_cube" -> IsPartOfAttention(l, b, out)

-----------------------------------------------------------------------------
\* All buffers of a core once its code has run.
Final(run) ==
  LET l == Launches[run[1]]
  IN Computed(l.n, Codes[run], [b \in Touched(run) |-> Tensor(l, b[2], b[3])])

\* The cores of a launch produce between them the matrices they should and
\* nothing else, each of them right.  The softmax is not computed.
Right ==
  [name \in {m \in DOMAIN Launches : Launches[m].kernel # "fa_vec"} |->
     LET l == Launches[name]
         runs == RunsOf(name)
     IN /\ UNION {Written(run) : run \in runs} = {m[1] : m \in Matrices(l)}
        /\ \A run \in runs :
             LET final == Final(run)
             IN \A m \in Matrices(l) : m[1] \in Written(run) => IsRight(l, m[1], m[2], final[m[1]])]

\* Every output is there when a kernel has returned, and is what the kernel
\* is for: |x|, the gathered product, SwiGLU, the inverse of the matrix whose
\* place in the tensor the code worked out, the prefix sum, the product.
KernelsCompute ==
  Core!Quiescent =>
    /\ OutputsThere
    /\ kernel[1] \in DOMAIN Right => Right[kernel[1]]
=============================================================================
