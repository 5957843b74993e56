------------------------- MODULE SwiGluTiling_proof --------------------------
(***************************************************************************)
(* Proofs about the SwiGLU tiling, for every slot size, list of candidate  *)
(* widths, alignment, shape and number of cores.                           *)
(***************************************************************************)
EXTENDS SwiGluTiling, TLAPS

-----------------------------------------------------------------------------
(* Arithmetic.                                                             *)

\* Products of numbers grow with their factors.
LEMMA TimesMonotone ==
  ASSUME NEW a \in Nat, NEW b \in Nat, NEW d \in Nat, a <= b
  PROVE  a * d <= b * d /\ d * a <= d * b /\ a * d \in Nat /\ d * a = a * d
  OBVIOUS

\* Whole parts and remainders, of a number counted in parts of d.
LEMMA Parts ==
  ASSUME NEW a \in Nat, NEW d \in Nat \ {0}
  PROVE  /\ a \div d \in Nat /\ a % d \in Nat /\ a % d < d
         /\ a = (a \div d) * d + (a % d)
  OBVIOUS

\* A number of parts and a rest smaller than a part are those of their sum.
LEMMA PartsUnique ==
  ASSUME NEW q \in Nat, NEW d \in Nat \ {0}, NEW r \in Nat, r < d
  PROVE  (q * d + r) \div d = q /\ (q * d + r) % d = r
<1> DEFINE a == q * d + r
           p == a \div d
           s == a % d
<1>1. q * d \in Nat
  OBVIOUS
<1>2. a \in Nat /\ p \in Nat /\ s \in Nat /\ s < d /\ a = p * d + s
  BY <1>1, Parts
<1> HIDE DEF a, p, s
<1>3. a = q * d + r
  BY DEF a
<1>4. ASSUME NEW x \in Nat, NEW y \in Nat, NEW i \in Nat, NEW j \in Nat, i < d, j < d,
             x * d + i = y * d + j, x < y
      PROVE  FALSE
  <2>1. (x + 1) * d <= y * d /\ (x + 1) * d = x * d + d /\ x * d \in Nat /\ y * d \in Nat
    BY <1>4, TimesMonotone
  <2> QED
    BY <1>4, <2>1
<1>5. ~(p < q) /\ ~(q < p)
  BY <1>2, <1>3, <1>4
<1>6. p = q
  BY <1>2, <1>5
<1> QED
  BY <1>1, <1>2, <1>3, <1>6 DEF a, p, s

\* DIV_ROUNDUP counts the parts of size b that cover a, and no more.
LEMMA RoundUp ==
  ASSUME NEW a \in Nat \ {0}, NEW b \in Nat \ {0}
  PROVE  /\ DIV_ROUNDUP(a, b) \in Nat \ {0}
         /\ a <= DIV_ROUNDUP(a, b) * b
         /\ DIV_ROUNDUP(a, b) * b < a + b
<1> DEFINE n == a + b - 1
           q == n \div b
           r == n % b
<1>1. n \in Nat /\ q \in Nat /\ r \in Nat /\ r < b /\ n = q * b + r
  BY Parts
<1>2. DIV_ROUNDUP(a, b) = q
  BY DEF DIV_ROUNDUP
<1> HIDE DEF q, r
<1>3. q * b \in Nat
  BY <1>1
<1>4. a <= q * b /\ q * b < a + b
  BY <1>1, <1>3
<1>5. q # 0
  BY <1>4
<1> QED
  BY <1>1, <1>2, <1>4, <1>5

\* No fewer parts cover it.
LEMMA RoundUpLeast ==
  ASSUME NEW a \in Nat \ {0}, NEW b \in Nat \ {0}, NEW m \in Nat, a <= m * b
  PROVE  DIV_ROUNDUP(a, b) <= m
<1> DEFINE q == DIV_ROUNDUP(a, b)
<1>1. q \in Nat /\ q * b < a + b
  BY RoundUp
<1> HIDE DEF q
<1>2. SUFFICES ASSUME m + 1 <= q PROVE FALSE
  BY <1>1 DEF q
<1>3. (m + 1) * b <= q * b /\ (m + 1) * b = m * b + b /\ m * b \in Nat /\ q * b \in Nat
  BY <1>1, <1>2, TimesMonotone
<1> QED
  BY <1>1, <1>3

\* m parts of at most b each cannot cover a unless there are that many.
LEMMA RoundUpMost ==
  ASSUME NEW a \in Nat \ {0}, NEW b \in Nat \ {0}, NEW m \in Nat, m * b <= a
  PROVE  m <= DIV_ROUNDUP(a, b)
<1> DEFINE q == DIV_ROUNDUP(a, b)
<1>1. q \in Nat /\ a <= q * b
  BY RoundUp
<1> HIDE DEF q
<1>2. SUFFICES ASSUME q + 1 <= m PROVE FALSE
  BY <1>1 DEF q
<1>3. (q + 1) * b <= m * b /\ (q + 1) * b = q * b + b /\ q * b \in Nat /\ m * b \in Nat
  BY <1>1, <1>2, TimesMonotone
<1> QED
  BY <1>1, <1>3

-----------------------------------------------------------------------------
(* The configurations.                                                     *)

Candidates == 1 .. Len(COL_TILE_CANDIDATES)

Shape ==
  /\ batch \in Nat \ {0} /\ output_n \in Nat \ {0} /\ num_cores \in Nat \ {0}
  /\ c \in 2 .. Len(COL_TILE_CANDIDATES) + 1

\* The configuration kept is that of a candidate width, and no width tried
\* so far would have been better.
TilingInv ==
  /\ Shape
  /\ \E i \in Candidates : best = makeTileConfig(COL_TILE_CANDIDATES[i])
  /\ KeepsLargestTile

\* A width is a number of aligned elements that fit the slot.
LEMMA Widths ==
  /\ Len(COL_TILE_CANDIDATES) \in Nat \ {0} /\ 1 \in Candidates
  /\ \A i \in Candidates :
       /\ COL_TILE_CANDIDATES[i] \in Nat \ {0} /\ COL_TILE_CANDIDATES[i] <= ELEMENTS_PER_TILE
       /\ COL_TILE_CANDIDATES[i] % TILE_ALIGNMENT = 0
  BY TilingAssumption DEF Candidates

LEMMA TargetType == ASSUME Shape PROVE TargetTiles \in Nat \ {0}
<1>1. num_cores \div TARGET_ACTIVE_TILES_DIVISOR \in Nat
  BY Parts DEF Shape, TARGET_ACTIVE_TILES_DIVISOR
<1> QED
  BY <1>1 DEF TargetTiles, Greater

\* A tile has at least one row, no more than the batch, and fits the slot.
LEMMA RowsFit ==
  ASSUME Shape, NEW w \in Nat \ {0}, w <= ELEMENTS_PER_TILE
  PROVE  /\ RowTileLen(w) \in Nat \ {0} /\ RowTileLen(w) <= batch
         /\ RowTileLen(w) * w <= ELEMENTS_PER_TILE
<1> DEFINE e == ELEMENTS_PER_TILE \div w
           m == MinRowTiles(DIV_ROUNDUP(output_n, w))
           b == batch \div m
<1>1. /\ e \in Nat /\ ELEMENTS_PER_TILE \in Nat \ {0}
      /\ e * w <= ELEMENTS_PER_TILE /\ e # 0
  <2>1. /\ e \in Nat /\ ELEMENTS_PER_TILE % w \in Nat /\ ELEMENTS_PER_TILE % w < w
        /\ ELEMENTS_PER_TILE = e * w + (ELEMENTS_PER_TILE % w)
    BY Parts, TilingAssumption
  <2> DEFINE r == ELEMENTS_PER_TILE % w
  <2> HIDE DEF e, r
  <2>2. e * w \in Nat
    BY <2>1
  <2>3. e # 0
    BY <2>1 DEF r
  <2> QED
    BY <2>1, <2>2, <2>3, TilingAssumption DEF r
<1>2. m \in Nat \ {0}
  <2>1. DIV_ROUNDUP(output_n, w) \in Nat \ {0}
    BY RoundUp DEF Shape
  <2>2. DIV_ROUNDUP(TargetTiles, DIV_ROUNDUP(output_n, w)) \in Nat \ {0}
    BY <2>1, TargetType, RoundUp
  <2> QED
    BY <2>2 DEF MinRowTiles, Greater
<1>3. b \in Nat
  BY <1>2, Parts DEF Shape
<1>4. RowTileLen(w) =
        Greater(1, IF m > 1 THEN Lesser(Lesser(batch, e), Greater(1, b)) ELSE Lesser(batch, e))
  BY DEF RowTileLen
<1> HIDE DEF e, m, b
<1>5. RowTileLen(w) \in Nat \ {0} /\ RowTileLen(w) <= batch /\ RowTileLen(w) <= e
  BY <1>1, <1>2, <1>3, <1>4 DEF Shape, Greater, Lesser
<1>6. RowTileLen(w) * w <= e * w /\ RowTileLen(w) * w \in Nat /\ e * w \in Nat
  BY <1>1, <1>5, TimesMonotone
<1> QED
  BY <1>1, <1>5, <1>6

LEMMA ConfigParts ==
  ASSUME Shape, NEW w \in Nat \ {0}, w <= ELEMENTS_PER_TILE, NEW k, k = makeTileConfig(w)
  PROVE  /\ k.col_tile_len = w /\ k.row_tile_len = RowTileLen(w)
         /\ k.total_tiles = DIV_ROUNDUP(batch, k.row_tile_len) * DIV_ROUNDUP(output_n, w)
         /\ k.area = k.row_tile_len * w /\ k.area \in Nat
         /\ k.meets_target = (k.total_tiles >= TargetTiles) /\ k.meets_target \in BOOLEAN
<1>1. RowTileLen(w) * w \in Nat
  BY RowsFit
<1> QED
  BY <1>1 DEF makeTileConfig

\* The loop keeps the invariant.
LEMMA TilingInit == Init => TilingInv
<1> SUFFICES ASSUME Init PROVE TilingInv
  OBVIOUS
<1>1. Shape
  BY Widths, TilingAssumption DEF Init, Shape
<1>2. best = makeTileConfig(COL_TILE_CANDIDATES[1]) /\ c = 2 /\ best.area \in Nat
  BY <1>1, Widths, ConfigParts DEF Init
<1>3. KeepsLargestTile
  BY <1>2 DEF KeepsLargestTile
<1> QED
  BY <1>1, <1>2, <1>3, Widths DEF TilingInv

LEMMA TilingStep == TilingInv /\ [Next]_vars => TilingInv'
<1> SUFFICES ASSUME TilingInv, [Next]_vars PROVE TilingInv'
  OBVIOUS
<1>1. CASE UNCHANGED vars
  <2> DEFINE cfg(i) == makeTileConfig(COL_TILE_CANDIDATES[i])
  <2>1. /\ batch' = batch /\ output_n' = output_n /\ num_cores' = num_cores
        /\ c' = c /\ best' = best
    BY <1>1 DEF vars
  <2>2. \A i : cfg(i)' = cfg(i)
    BY <2>1 DEF makeTileConfig, RowTileLen, MinRowTiles, TargetTiles
  <2>3. Shape'
    BY <2>1 DEF TilingInv, Shape
  <2> HIDE DEF cfg
  <2>4. (\E i \in Candidates : best = cfg(i)) /\ KeepsLargestTile
    BY DEF TilingInv, cfg
  <2>5. \E i \in Candidates : best' = cfg(i)'
    BY <2>1, <2>2, <2>4
  <2>6. KeepsLargestTile'
    BY <2>1, <2>2, <2>4 DEF KeepsLargestTile, cfg
  <2> QED
    BY <2>3, <2>5, <2>6 DEF TilingInv, cfg
<1>2. CASE Try
  <2> DEFINE cand == makeTileConfig(COL_TILE_CANDIDATES[c])
             cfg(i) == makeTileConfig(COL_TILE_CANDIDATES[i])
  <2>1. /\ Shape /\ c \in Candidates /\ c' = c + 1
        /\ best' = IF preferTileConfig(cand, best) THEN cand ELSE best
        /\ UNCHANGED <<batch, output_n, num_cores>>
    BY <1>2, Widths DEF Try, TilingInv, Shape, Candidates
  <2>2. Shape'
    BY <2>1, Widths DEF Shape, Candidates
  <2>3. \A i : cfg(i)' = cfg(i)
    BY <2>1 DEF makeTileConfig, RowTileLen, MinRowTiles, TargetTiles
  <2>4. \E i \in Candidates : best' = cfg(i)
    BY <2>1 DEF TilingInv
  <2>5. \A i \in Candidates : cfg(i).area \in Nat /\ cfg(i).meets_target \in BOOLEAN
    BY <2>1, Widths, ConfigParts
  <2>6. /\ cand.area \in Nat /\ cand.meets_target \in BOOLEAN
        /\ best.area \in Nat /\ best.meets_target \in BOOLEAN
    BY <2>1, <2>5 DEF TilingInv
  <2>7. \A i \in 1 .. c - 1 :
          cfg(i).meets_target => best.meets_target /\ cfg(i).area <= best.area
    BY DEF TilingInv, KeepsLargestTile
  \* What preferring says of the two that compete.
  <2>8. /\ preferTileConfig(cand, best) /\ best.meets_target =>
             cand.meets_target /\ best.area <= cand.area
        /\ ~preferTileConfig(cand, best) /\ cand.meets_target =>
             best.meets_target /\ cand.area <= best.area
    <3> HIDE DEF cand
    <3> QED
      BY <2>6 DEF preferTileConfig
  <2>9. ASSUME NEW i \in 1 .. c, cfg(i).meets_target
        PROVE  best'.meets_target /\ cfg(i).area <= best'.area
    <3>1. i \in Candidates /\ (i = c \/ i \in 1 .. c - 1)
      BY <2>1, Widths DEF Candidates
    <3>2. cfg(i).area \in Nat
      BY <2>5, <3>1
    <3>3. CASE i = c
      <4>1. cfg(i) = cand
        BY <3>3
      <4> HIDE DEF cfg, cand
      <4> QED
        BY <2>1, <2>6, <2>8, <2>9, <4>1
    <3>4. CASE i \in 1 .. c - 1
      <4>1. best.meets_target /\ cfg(i).area <= best.area
        BY <2>7, <2>9, <3>4
      <4> HIDE DEF cfg, cand
      <4> QED
        BY <2>1, <2>6, <2>8, <3>2, <4>1
    <3> QED
      BY <3>1, <3>3, <3>4
  <2>10. KeepsLargestTile'
    <3>1. c' - 1 = c
      BY <2>1 DEF Shape
    <3>2. ASSUME NEW i \in 1 .. c
          PROVE  cfg(i)'.meets_target => (best'.meets_target /\ cfg(i)'.area <= best'.area)
      BY <2>3, <2>9
    <3> QED
      BY <3>1, <3>2 DEF KeepsLargestTile
  <2> QED
    BY <2>2, <2>3, <2>4, <2>10 DEF TilingInv
<1> QED
  BY <1>1, <1>2 DEF Next

-----------------------------------------------------------------------------
(* The tiles of a configuration.                                           *)

RowTiles == DIV_ROUNDUP(batch, best.row_tile_len)
ColTiles == DIV_ROUNDUP(output_n, best.col_tile_len)

LEMMA BestParts ==
  ASSUME TilingInv
  PROVE  /\ batch \in Nat \ {0} /\ output_n \in Nat \ {0}
         /\ best.row_tile_len \in Nat \ {0} /\ best.col_tile_len \in Nat \ {0}
         /\ best.row_tile_len * best.col_tile_len <= ELEMENTS_PER_TILE
         /\ best.col_tile_len % TILE_ALIGNMENT = 0
         /\ RowTiles \in Nat \ {0} /\ ColTiles \in Nat \ {0}
         /\ best.total_tiles = RowTiles * ColTiles /\ best.total_tiles \in Nat
<1>1. PICK i \in Candidates : best = makeTileConfig(COL_TILE_CANDIDATES[i])
  BY DEF TilingInv
<1> DEFINE w == COL_TILE_CANDIDATES[i]
<1>2. Shape /\ w \in Nat \ {0} /\ w <= ELEMENTS_PER_TILE /\ w % TILE_ALIGNMENT = 0
  BY Widths DEF TilingInv
<1> HIDE DEF w
<1>3. /\ best.col_tile_len = w /\ best.row_tile_len = RowTileLen(w)
      /\ best.total_tiles = RowTiles * ColTiles
  BY <1>1, <1>2, ConfigParts DEF RowTiles, ColTiles, w
<1>4. RowTiles \in Nat \ {0} /\ ColTiles \in Nat \ {0}
  BY <1>2, <1>3, RowsFit, RoundUp DEF RowTiles, ColTiles, Shape
<1>5. RowTiles * ColTiles \in Nat
  BY <1>4
<1> QED
  BY <1>2, <1>3, <1>4, <1>5, RowsFit DEF Shape

\* Tile t is tile t % n of row t \div n of an m by n grid of tiles.
LEMMA TileOfGrid ==
  ASSUME NEW m \in Nat, NEW n \in Nat \ {0}
  PROVE  /\ \A t \in 0 .. m * n - 1 :
              t \div n \in 0 .. m - 1 /\ t % n \in 0 .. n - 1 /\ t = (t \div n) * n + (t % n)
         /\ \A i \in 0 .. m - 1, j \in 0 .. n - 1 :
              /\ i * n + j \in 0 .. m * n - 1
              /\ (i * n + j) \div n = i /\ (i * n + j) % n = j
<1>0. m * n \in Nat
  OBVIOUS
<1>1. ASSUME NEW t \in 0 .. m * n - 1
      PROVE  t \div n \in 0 .. m - 1 /\ t % n \in 0 .. n - 1 /\ t = (t \div n) * n + (t % n)
  <2> DEFINE i == t \div n
             j == t % n
  <2>1. t \in Nat /\ i \in Nat /\ j \in Nat /\ j < n /\ t = i * n + j /\ t < m * n
    BY <1>0, Parts
  <2> HIDE DEF i, j
  <2>2. i < m
    <3>1. SUFFICES ASSUME m <= i PROVE FALSE
      BY <2>1
    <3>2. m * n <= i * n /\ i * n \in Nat
      BY <2>1, <3>1, TimesMonotone
    <3> QED
      BY <1>0, <2>1, <3>2
  <2>3. i \in 0 .. m - 1 /\ j \in 0 .. n - 1
    BY <2>1, <2>2
  <2> QED
    BY <2>1, <2>3 DEF i, j
<1>2. ASSUME NEW i \in 0 .. m - 1, NEW j \in 0 .. n - 1
      PROVE  /\ i * n + j \in 0 .. m * n - 1
             /\ (i * n + j) \div n = i /\ (i * n + j) % n = j
  <2>1. (i + 1) * n <= m * n /\ (i + 1) * n = i * n + n /\ i * n \in Nat
    BY TimesMonotone
  <2>2. i * n + j \in 0 .. m * n - 1
    BY <1>0, <2>1
  <2> QED
    BY <2>2, PartsUnique
<1> QED
  BY <1>1, <1>2

\* The part of size d that starts at i * d, cut at n, holds x only if x is
\* in the i-th part.
LEMMA PartHolds ==
  ASSUME NEW n \in Nat \ {0}, NEW d \in Nat \ {0}
  PROVE  /\ \A x \in 0 .. n - 1 :
              /\ x \div d \in 0 .. DIV_ROUNDUP(n, d) - 1
              /\ (x \div d) * d <= x
              /\ x < (x \div d) * d + Lesser(d, n - (x \div d) * d)
         /\ \A i \in 0 .. DIV_ROUNDUP(n, d) - 1 :
              /\ i * d \in Nat /\ i * d < n
              /\ \A x \in 0 .. n - 1 :
                   (i * d <= x /\ x < i * d + Lesser(d, n - i * d)) => x \div d = i
<1> DEFINE q == DIV_ROUNDUP(n, d)
<1>0. q \in Nat \ {0} /\ n <= q * d /\ q * d < n + d /\ q * d \in Nat
  BY RoundUp
<1> HIDE DEF q
<1>1. ASSUME NEW x \in 0 .. n - 1
      PROVE  /\ x \div d \in 0 .. q - 1
             /\ (x \div d) * d <= x
             /\ x < (x \div d) * d + Lesser(d, n - (x \div d) * d)
  <2> DEFINE i == x \div d
             r == x % d
  <2>1. i \in Nat /\ r \in Nat /\ r < d /\ x = i * d + r /\ i * d \in Nat
    BY Parts
  <2> HIDE DEF i, r
  <2>2. i < q
    <3>1. SUFFICES ASSUME q <= i PROVE FALSE
      BY <1>0, <2>1
    <3>2. q * d <= i * d
      BY <1>0, <2>1, <3>1, TimesMonotone
    <3> QED
      BY <1>0, <2>1, <3>2
  <2>3. x < i * d + Lesser(d, n - i * d)
    BY <2>1 DEF Lesser
  <2>4. i \in 0 .. q - 1 /\ i * d <= x
    BY <1>0, <2>1, <2>2
  <2> QED
    BY <2>3, <2>4 DEF i
<1>2. ASSUME NEW i \in 0 .. q - 1
      PROVE  i * d \in Nat /\ i * d < n
  <2>1. (i + 1) * d <= q * d /\ (i + 1) * d = i * d + d /\ i * d \in Nat
    BY <1>0, TimesMonotone
  <2> QED
    BY <1>0, <2>1
<1>3. ASSUME NEW i \in 0 .. q - 1, NEW x \in 0 .. n - 1,
             i * d <= x, x < i * d + Lesser(d, n - i * d)
      PROVE  x \div d = i
  <2> DEFINE r == x - i * d
  <2>1. i * d \in Nat /\ i \in Nat
    BY <1>0, <1>2
  <2>2. r \in Nat /\ r < d /\ x = i * d + r
    BY <1>3, <2>1 DEF Lesser
  <2> HIDE DEF r
  <2> QED
    BY <2>1, <2>2, PartsUnique
<1> QED
  BY <1>1, <1>2, <1>3 DEF q

-----------------------------------------------------------------------------
(* The properties.                                                         *)

LEMMA InvPartition == TilingInv => TilesPartition
<1> SUFFICES ASSUME TilingInv,
                    NEW row \in 0 .. batch - 1, NEW col \in 0 .. output_n - 1,
                    NEW works, works = [t \in 0 .. best.total_tiles - 1 |-> makeTileWork(t)]
             PROVE  \E t \in DOMAIN works :
                      /\ Covers(works[t], row, col)
                      /\ \A u \in DOMAIN works \ {t} : ~Covers(works[u], row, col)
  BY DEF TilesPartition
<1> DEFINE h == best.row_tile_len
           w == best.col_tile_len
           m == RowTiles
           n == ColTiles
           i == row \div h
           j == col \div w
<1>1. /\ batch \in Nat \ {0} /\ output_n \in Nat \ {0}
      /\ h \in Nat \ {0} /\ w \in Nat \ {0} /\ m \in Nat \ {0} /\ n \in Nat \ {0}
      /\ best.total_tiles = m * n
  BY BestParts
<1>2. DOMAIN works = 0 .. m * n - 1
  BY <1>1
<1>3. ASSUME NEW t \in 0 .. m * n - 1
      PROVE  Covers(works[t], row, col)
               <=> /\ (t \div n) * h <= row
                   /\ row < (t \div n) * h + Lesser(h, batch - (t \div n) * h)
                   /\ (t % n) * w <= col
                   /\ col < (t % n) * w + Lesser(w, output_n - (t % n) * w)
  <2> DEFINE rows == (t \div n) * h
             cols == (t % n) * w
             k == makeTileWork(t)
  <2>1. works[t] = k
    BY <1>1
  <2>2. /\ k.row_offset = rows /\ k.row_count = Lesser(h, batch - rows)
        /\ k.col_offset = cols /\ k.col_count_store = Lesser(w, output_n - cols)
    BY DEF makeTileWork, ColTiles
  <2> HIDE DEF rows, cols, k
  <2>3. Covers(works[t], row, col)
          <=> /\ rows <= row /\ row < rows + Lesser(h, batch - rows)
              /\ cols <= col /\ col < cols + Lesser(w, output_n - cols)
    BY <2>1, <2>2 DEF Covers
  <2> QED
    BY <2>3 DEF rows, cols
<1>4. /\ i \in 0 .. m - 1 /\ j \in 0 .. n - 1
      /\ i * h <= row /\ row < i * h + Lesser(h, batch - i * h)
      /\ j * w <= col /\ col < j * w + Lesser(w, output_n - j * w)
  BY <1>1, PartHolds DEF RowTiles, ColTiles
<1>5. ASSUME NEW a \in 0 .. m - 1, a * h <= row, row < a * h + Lesser(h, batch - a * h)
      PROVE  a = i
  <2>1. m = DIV_ROUNDUP(batch, h)
    BY DEF RowTiles
  <2> HIDE DEF h, m
  <2> QED
    BY <1>1, <1>5, <2>1, PartHolds
<1>6. ASSUME NEW a \in 0 .. n - 1, a * w <= col, col < a * w + Lesser(w, output_n - a * w)
      PROVE  a = j
  <2>1. n = DIV_ROUNDUP(output_n, w)
    BY DEF ColTiles
  <2> HIDE DEF w, n
  <2> QED
    BY <1>1, <1>6, <2>1, PartHolds
<1> HIDE DEF h, w, m, n, i, j
<1>7. /\ i * n + j \in 0 .. m * n - 1
      /\ (i * n + j) \div n = i /\ (i * n + j) % n = j
  <2>1. /\ m \in Nat /\ n \in Nat \ {0} /\ i \in 0 .. m - 1 /\ j \in 0 .. n - 1
    BY <1>1, <1>4
  <2> QED
    BY <2>1, TileOfGrid
<1>8. Covers(works[i * n + j], row, col)
  BY <1>3, <1>4, <1>7
<1>9. ASSUME NEW u \in 0 .. m * n - 1, Covers(works[u], row, col)
      PROVE  u = i * n + j
  <2>1. u \div n \in 0 .. m - 1 /\ u % n \in 0 .. n - 1 /\ u = (u \div n) * n + (u % n)
    BY <1>1, TileOfGrid
  <2>2. u \div n = i
    BY <1>3, <1>5, <1>9, <2>1
  <2>3. u % n = j
    BY <1>3, <1>6, <1>9, <2>1
  <2> QED
    BY <2>1, <2>2, <2>3
<1> QED
  BY <1>2, <1>7, <1>8, <1>9

LEMMA InvFits == TilingInv => TilesFitSlot
<1> SUFFICES ASSUME TilingInv, NEW t \in 0 .. best.total_tiles - 1, NEW k, k = makeTileWork(t)
             PROVE  k.row_count > 0 /\ k.row_count * k.col_count <= ELEMENTS_PER_TILE
  BY DEF TilesFitSlot
<1> DEFINE h == best.row_tile_len
           w == best.col_tile_len
           m == RowTiles
           n == ColTiles
           i == t \div n
           j == t % n
           al == TILE_ALIGNMENT
<1>1. /\ batch \in Nat \ {0} /\ output_n \in Nat \ {0}
      /\ h \in Nat \ {0} /\ w \in Nat \ {0} /\ m \in Nat \ {0} /\ n \in Nat \ {0}
      /\ best.total_tiles = m * n /\ h * w <= ELEMENTS_PER_TILE
      /\ w % al = 0 /\ al \in Nat \ {0} /\ ELEMENTS_PER_TILE \in Nat
  BY BestParts, TilingAssumption
<1>2. i \in 0 .. m - 1 /\ j \in 0 .. n - 1
  BY <1>1, TileOfGrid
<1>3. i * h \in Nat /\ i * h < batch /\ j * w \in Nat /\ j * w < output_n
  <2>1. m = DIV_ROUNDUP(batch, h) /\ n = DIV_ROUNDUP(output_n, w)
    BY DEF RowTiles, ColTiles
  <2> HIDE DEF h, w, m, n, i, j
  <2>2. i * h \in Nat /\ i * h < batch
    BY <1>1, <1>2, <2>1, PartHolds
  <2>3. j * w \in Nat /\ j * w < output_n
    BY <1>1, <1>2, <2>1, PartHolds
  <2> QED
    BY <2>2, <2>3
<1>4. /\ k.row_count = Lesser(h, batch - i * h)
      /\ k.col_count = ALIGN_UP(Lesser(w, output_n - j * w), al)
  BY DEF makeTileWork, ColTiles
<1> HIDE DEF h, w, m, n, i, j
<1>5. k.row_count \in Nat \ {0} /\ k.row_count <= h
  BY <1>1, <1>3, <1>4 DEF Lesser
<1>6. k.col_count \in Nat /\ k.col_count <= w
  <2> DEFINE x == Lesser(w, output_n - j * w)
             q == w \div al
             d == DIV_ROUNDUP(x, al)
  <2>1. x \in Nat \ {0} /\ x <= w
    BY <1>1, <1>3 DEF Lesser
  <2>2. q \in Nat /\ w = q * al
    BY <1>1, Parts
  <2> HIDE DEF x, q
  <2>3. d \in Nat /\ d <= q
    BY <1>1, <2>1, <2>2, RoundUp, RoundUpLeast
  <2> HIDE DEF d
  <2>4. d * al <= q * al /\ d * al \in Nat
    BY <1>1, <2>2, <2>3, TimesMonotone
  <2> QED
    BY <1>4, <2>2, <2>4 DEF ALIGN_UP, x, d
<1>7. k.row_count * k.col_count <= h * w
  <2> DEFINE a == k.row_count
             b == k.col_count
  <2>1. a \in Nat /\ b \in Nat /\ a <= h /\ b <= w
    BY <1>5, <1>6
  <2> HIDE DEF a, b
  <2>2. a * b <= h * b /\ h * b <= h * w
    BY <1>1, <2>1, TimesMonotone
  <2>3. a * b \in Nat /\ h * b \in Nat /\ h * w \in Nat
    BY <1>1, <2>1
  <2> QED
    BY <2>2, <2>3 DEF a, b
<1>8. k.row_count * k.col_count \in Nat /\ h * w \in Nat
  BY <1>1, <1>5, <1>6
<1> QED
  BY <1>1, <1>5, <1>7, <1>8

\* The narrowest width reaches the target whenever one-row tiles would: the
\* cap on the rows leaves MinRowTiles rows of tiles, or cuts single rows.
LEMMA NarrowestMeetsTarget ==
  ASSUME Shape, batch * DIV_ROUNDUP(output_n, COL_TILE_CANDIDATES[1]) >= TargetTiles
  PROVE  makeTileConfig(COL_TILE_CANDIDATES[1]).meets_target
<1> DEFINE w == COL_TILE_CANDIDATES[1]
           n == DIV_ROUNDUP(output_n, w)
           d == DIV_ROUNDUP(TargetTiles, n)
           m == MinRowTiles(n)
           b == batch \div m
           r == RowTileLen(w)
           q == DIV_ROUNDUP(batch, r)
           target == TargetTiles
           e == ELEMENTS_PER_TILE \div w
<1>1. w \in Nat \ {0} /\ w <= ELEMENTS_PER_TILE /\ batch \in Nat \ {0} /\ target \in Nat \ {0}
  BY Widths, TargetType DEF Shape
<1>2. n \in Nat \ {0}
  BY <1>1, RoundUp DEF Shape
<1>3. d \in Nat \ {0} /\ target <= d * n /\ m = Greater(1, d)
  BY <1>1, <1>2, RoundUp DEF MinRowTiles
<1>4. r \in Nat \ {0} /\ r <= batch
  BY <1>1, RowsFit
<1>5. q \in Nat \ {0}
  BY <1>1, <1>4, RoundUp
<1>6. batch * n >= target
  OBVIOUS
<1>7. SUFFICES target <= q * n
  <2>1. makeTileConfig(w).meets_target = (q * n >= target)
    BY DEF makeTileConfig
  <2>2. q * n \in Nat
    BY <1>2, <1>5
  <2> QED
    BY <1>1, <2>1, <2>2
<1>8. e \in Nat
  BY <1>1, Parts, TilingAssumption
<1>9. r = Greater(1, IF m > 1 THEN Lesser(Lesser(batch, e), Greater(1, b)) ELSE Lesser(batch, e))
  BY DEF RowTileLen
<1>10. m \in Nat \ {0} /\ d <= m
  <2> HIDE DEF m, d
  <2> QED
    BY <1>3 DEF Greater
<1>11. b \in Nat /\ m * b <= batch
  <2>1. b \in Nat /\ batch % m \in Nat /\ batch = b * m + (batch % m)
    BY <1>1, <1>10, Parts
  <2> DEFINE s == batch % m
  <2> HIDE DEF m, b, s
  <2>2. b * m \in Nat /\ m * b = b * m
    BY <1>10, <2>1
  <2> QED
    BY <1>1, <2>1, <2>2 DEF s
<1>12. \A x \in Nat : x * r <= batch => x <= q
  BY <1>1, <1>4, RoundUpMost
<1> HIDE DEF w, n, d, m, b, r, q, target, e
\* Enough rows of tiles are enough tiles.
<1>13. ASSUME m <= q PROVE target <= q * n
  <2>1. d <= q
    BY <1>3, <1>5, <1>10, <1>13
  <2>2. d * n <= q * n /\ d * n \in Nat /\ q * n \in Nat
    BY <1>2, <1>3, <1>5, <2>1, TimesMonotone
  <2> QED
    BY <1>1, <1>3, <2>2
<1>14. CASE m = 1
  BY <1>5, <1>13, <1>14
<1>15. CASE m > 1 /\ b # 0
  <2>1. r <= b
    BY <1>1, <1>8, <1>9, <1>11, <1>15 DEF Greater, Lesser
  <2>2. m * r <= m * b /\ m * r \in Nat /\ m * b \in Nat
    BY <1>4, <1>10, <1>11, <2>1, TimesMonotone
  <2>3. m * r <= batch
    BY <1>1, <1>11, <2>2
  <2> QED
    BY <1>10, <1>12, <1>13, <2>3
<1>16. CASE m > 1 /\ b = 0
  <2>1. r = 1
    BY <1>1, <1>8, <1>9, <1>16 DEF Greater, Lesser
  <2>2. batch <= q
    BY <1>1, <1>12, <2>1
  <2>3. batch * n <= q * n /\ batch * n \in Nat /\ q * n \in Nat
    BY <1>1, <1>2, <1>5, <2>2, TimesMonotone
  <2> QED
    BY <1>1, <1>6, <2>3
<1> QED
  BY <1>10, <1>14, <1>15, <1>16

LEMMA InvTarget == TilingInv => TargetMetWhenPossible
<1> SUFFICES ASSUME TilingInv, Chosen,
                    batch * DIV_ROUNDUP(output_n, COL_TILE_CANDIDATES[1]) >= TargetTiles
             PROVE  best.meets_target
  BY DEF TargetMetWhenPossible
<1>1. 1 \in 1 .. c - 1
  BY Widths DEF Chosen, TilingInv, Shape
<1>2. makeTileConfig(COL_TILE_CANDIDATES[1]).meets_target
  BY NarrowestMeetsTarget DEF TilingInv
<1> QED
  BY <1>1, <1>2 DEF TilingInv, KeepsLargestTile

-----------------------------------------------------------------------------
LEMMA TilingAlways == Spec => []TilingInv
  BY TilingInit, TilingStep, PTL DEF Spec

\* makeTileWork cuts the output into tiles that store every element exactly
\* once, whatever configuration chooseTileConfig settled on.
THEOREM TilesPartitioned == Spec => []TilesPartition
  BY TilingAlways, InvPartition, PTL

\* No tile makeTileWork hands out is empty or, padded to the alignment,
\* larger than the UB slot it is loaded into.
THEOREM TilesFit == Spec => []TilesFitSlot
  BY TilingAlways, InvFits, PTL

\* chooseTileConfig gives half the cores a tile whenever one-row tiles of the
\* narrowest width would.
THEOREM TargetMet == Spec => []TargetMetWhenPossible
  BY TilingAlways, InvTarget, PTL

\* preferTileConfig never gives up a configuration that reaches the target
\* for one that does not, nor, among those that reach it, a larger tile for a
\* smaller one.
THEOREM LargestKept == Spec => []KeepsLargestTile
<1>1. TilingInv => KeepsLargestTile
  BY DEF TilingInv
<1> QED
  BY <1>1, TilingAlways, PTL
=============================================================================
