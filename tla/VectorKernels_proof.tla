------------------------- MODULE VectorKernels_proof -------------------------
(***************************************************************************)
(* abs, for every number of tiles and of vector cores: it returns, leaves  *)
(* all of its output in GM and its flags down, and no pipe overtakes       *)
(* another on the way.  Nothing is assumed of its programs; what they are  *)
(* is worked out, and that they are synchronized shown.                    *)
(*                                                                         *)
(* A core does three steps per tile, so that what kind of step stands at a *)
(* position of its program is the position's remainder.  Its flags are     *)
(* raised one or two positions before they are waited for.  How far the    *)
(* pipes have got when a step goes on can then be written down, and all    *)
(* else be read off it.                                                    *)
(***************************************************************************)
EXTENDS IndependentKernels_proof

AbsRun == <<"abs", -1>>

\* It is run by VAbs's program and has VAbs's outputs.
LEMMA AbsHere ==
  /\ AbsRun \in DOMAIN Programs /\ AbsRun \notin CodeRuns
  /\ Programs[AbsRun] = Abs!Program /\ Outputs[AbsRun] = Abs!Outputs
<1>1. AbsRun \notin CodeRuns /\ AbsRun \in CodeRuns \cup VectorRuns
  BY VectorAssumption DEF CodeRuns, RunsOf, AbsRun, VectorRuns
<1>2. VectorPrograms[AbsRun[1]] = Abs!Program /\ VectorOutputs[AbsRun[1]] = Abs!Outputs
  BY DEF AbsRun, VectorPrograms, VectorOutputs
<1> QED
  BY <1>1, <1>2 DEF Programs, Outputs, Evaluated

-----------------------------------------------------------------------------
(* Rows of a sequence.                                                     *)

\* The first n rows, one after another; the k-th begins behind off[k - 1].
Laid(rows, off, s, n) ==
  /\ Len(s) = off[n]
  /\ \A k \in 1 .. n : \A t \in 1 .. Len(rows[k]) : s[off[k - 1] + t] = rows[k][t]

\* flat[i] is the first i rows, for all i up to n.
Flattens(rows, flat, n) ==
  flat = [i \in 1 .. n |-> IF i = 1 THEN rows[i] ELSE flat[i - 1] \o rows[i]]

\* There is such a function, for any rows.
LEMMA FlattensSome ==
  ASSUME NEW m \in Nat \ {0}, NEW rows
  PROVE  \E flat : Flattens(rows, flat, m)
<1> DEFINE Bad == {n \in Nat \ {0} : ~\E g : Flattens(rows, g, n)}
<1> SUFFICES ASSUME Bad # {}
             PROVE  FALSE
  OBVIOUS
<1>1. PICK n \in Bad : \A i \in Bad : n <= i
  <2>1. Bad \in SUBSET Nat
    OBVIOUS
  <2> QED
    BY <2>1, Machine!LeastNumber
<1>2. n \in Nat \ {0} /\ ~\E g : Flattens(rows, g, n)
  BY <1>1
<1>3. CASE n = 1
  <2>1. Flattens(rows, [i \in 1 .. 1 |-> rows[i]], 1)
    BY DEF Flattens
  <2> QED
    BY <1>2, <1>3, <2>1
<1>4. CASE n # 1
  <2>1. n - 1 \in Nat \ {0}
    BY <1>2, <1>4
  <2>2. \E g : Flattens(rows, g, n - 1)
    BY <1>1, <2>1
  <2>3. PICK g : Flattens(rows, g, n - 1)
    BY <2>2
  <2> DEFINE h == [i \in 1 .. n |-> IF i = n THEN g[n - 1] \o rows[n] ELSE g[i]]
  <2>4. ASSUME NEW i \in 1 .. n
        PROVE  h[i] = IF i = 1 THEN rows[i] ELSE h[i - 1] \o rows[i]
    <3>1. CASE i = n
      <4>1. h[i] = g[n - 1] \o rows[n] /\ h[n - 1] = g[n - 1]
        <5>1. n \in 1 .. n /\ n - 1 \in 1 .. n /\ n - 1 # n
          BY <1>2, <2>1
        <5> QED
          BY <3>1, <5>1
      <4> QED
        BY <1>4, <3>1, <4>1
    <3>2. CASE i # n
      <4>1. i \in 1 .. n - 1 /\ h[i] = g[i] /\ (i # 1 => h[i - 1] = g[i - 1])
        BY <1>2, <3>2
      <4>2. g[i] = IF i = 1 THEN rows[i] ELSE g[i - 1] \o rows[i]
        BY <2>3, <4>1 DEF Flattens
      <4> QED
        BY <4>1, <4>2
    <3> QED
      BY <3>1, <3>2
  <2>5. Flattens(rows, h, n)
    BY <2>4 DEF Flattens
  <2> QED
    BY <1>2, <2>5
<1> QED
  BY <1>3, <1>4

\* What is laid out further on lies further on.
LEMMA OffsetsGrow ==
  ASSUME NEW m \in Nat, NEW off \in [0 .. m -> Nat], \A k \in 1 .. m : off[k - 1] <= off[k],
         NEW i \in 0 .. m, NEW j \in i .. m
  PROVE  off[i] <= off[j]
<1> DEFINE Bad == {n \in i .. m : ~(off[i] <= off[n])}
<1> SUFFICES ASSUME Bad # {}
             PROVE  FALSE
  OBVIOUS
<1>1. PICK n \in Bad : \A k \in Bad : n <= k
  <2>1. Bad \in SUBSET Nat
    OBVIOUS
  <2> QED
    BY <2>1, Machine!LeastNumber
<1>2. n \in i .. m /\ ~(off[i] <= off[n])
  BY <1>1
<1>3. n # i /\ n - 1 \in i .. m /\ n \in 1 .. m
  BY <1>2
<1>4. off[i] <= off[n - 1]
  BY <1>1, <1>3
<1>5. off[n - 1] <= off[n] /\ off[i] \in Nat /\ off[n - 1] \in Nat /\ off[n] \in Nat
  BY <1>3
<1> QED
  BY <1>2, <1>4, <1>5

LEMMA ConcatParts ==
  ASSUME NEW X, NEW s \in Seq(X), NEW r \in Seq(X)
  PROVE  /\ s \o r \in Seq(X) /\ Len(s \o r) = Len(s) + Len(r)
         /\ \A j \in 1 .. Len(s) : (s \o r)[j] = s[j]
         /\ \A j \in 1 .. Len(r) : (s \o r)[Len(s) + j] = r[j]
  OBVIOUS

\* FlattenSeq lays out its rows so.
LEMMA FlattenRows ==
  ASSUME NEW X, NEW m \in Nat, NEW rows \in [1 .. m -> Seq(X)], NEW off \in [0 .. m -> Nat],
         off[0] = 0, \A k \in 1 .. m : off[k] = off[k - 1] + Len(rows[k])
  PROVE  FlattenSeq(rows) \in Seq(X) /\ Laid(rows, off, FlattenSeq(rows), m)
<1>0. Len(rows) = m
  OBVIOUS
<1>1. CASE m = 0
  <2>1. FlattenSeq(rows) = rows
    BY <1>0, <1>1, Zenon DEF FlattenSeq
  <2> QED
    BY <1>0, <1>1, <2>1 DEF Laid
<1>2. CASE m # 0
  <2> DEFINE F(f) == [i \in 1 .. m |-> IF i = 1 THEN rows[i] ELSE f[i - 1] \o rows[i]]
             fl == CHOOSE f : f = F(f)
  <2>2. fl = F(fl)
    <3>1. PICK g : Flattens(rows, g, m)
      BY <1>2, FlattensSome
    <3> QED
      BY <3>1, Zenon DEF Flattens
  <2>3. FlattenSeq(rows) = fl[m]
    BY <1>0, <1>2, Zenon DEF FlattenSeq
  <2> HIDE DEF fl
  <2>4. \A i \in 1 .. m : fl[i] = IF i = 1 THEN rows[i] ELSE fl[i - 1] \o rows[i]
    BY <2>2
  <2>0. \A k \in 1 .. m : /\ rows[k] \in Seq(X) /\ Len(rows[k]) \in Nat
                          /\ k - 1 \in 0 .. m /\ off[k - 1] \in Nat /\ off[k] \in Nat
                          /\ off[k] = off[k - 1] + Len(rows[k]) /\ off[k - 1] <= off[k]
    OBVIOUS
  <2> DEFINE Right(i) == fl[i] \in Seq(X) /\ Laid(rows, off, fl[i], i)
  <2>5. ASSUME NEW n \in 1 .. m, \A j \in 1 .. m : j < n => Right(j)
        PROVE  Right(n)
    <3>1. CASE n = 1
      <4>1. fl[1] = rows[1] /\ rows[1] \in Seq(X) /\ off[1] = Len(rows[1])
        BY <1>2, <2>4
      <4> QED
        BY <3>1, <4>1 DEF Laid
    <3>2. CASE n # 1
      <4> DEFINE s == fl[n - 1]
                 r == rows[n]
      <4>1. n - 1 \in 1 .. m /\ n - 1 < n
        BY <3>2
      <4>2. s \in Seq(X) /\ Laid(rows, off, s, n - 1)
        BY <2>5, <4>1
      <4>3. r \in Seq(X) /\ fl[n] = s \o r
        BY <2>0, <2>4, <3>2
      <4>4. Len(s) = off[n - 1] /\ Len(s) \in Nat /\ Len(r) \in Nat
            /\ off[n] = off[n - 1] + Len(r)
        BY <2>0, <4>2 DEF Laid
      <4> HIDE DEF s, r
      <4>5. s \o r \in Seq(X) /\ Len(s \o r) = Len(s) + Len(r)
        BY <4>2, <4>3
      <4>6. ASSUME NEW k \in 1 .. n, NEW t \in 1 .. Len(rows[k])
            PROVE  fl[n][off[k - 1] + t] = rows[k][t]
        <5>1. CASE k = n
          <6>0. t \in 1 .. Len(r)
            BY <5>1 DEF r
          <6>1. (s \o r)[Len(s) + t] = r[t]
            BY <4>2, <4>3, <6>0, ConcatParts
          <6> QED
            BY <4>3, <4>4, <5>1, <6>1 DEF r
        <5>2. CASE k # n
          <6>1. k \in 1 .. n - 1 /\ k \in 1 .. m /\ k \in 0 .. m /\ n - 1 \in k .. m
            BY <5>2
          <6>2. s[off[k - 1] + t] = rows[k][t]
            BY <4>2, <6>1 DEF Laid
          <6>3. \A i \in 1 .. m : off[i - 1] <= off[i]
            BY <2>0
          <6>4. off[k] <= off[n - 1]
            BY <6>1, <6>3, OffsetsGrow
          <6>5. /\ off[k - 1] \in Nat /\ off[k] \in Nat /\ Len(rows[k]) \in Nat
                /\ off[k] = off[k - 1] + Len(rows[k])
            BY <2>0, <6>1
          <6>6. off[k - 1] + t \in 1 .. Len(s)
            <7>1. \A a, b, c, d \in Nat : \A i \in 1 .. c :
                    b = a + c /\ b <= d => a + i \in 1 .. d
              OBVIOUS
            <7> QED
              BY <4>4, <6>4, <6>5, <7>1, Zenon
          <6> QED
            BY <4>2, <4>3, <6>2, <6>6, ConcatParts
        <5> QED
          BY <5>1, <5>2
      <4> QED
        BY <4>3, <4>4, <4>5, <4>6 DEF Laid
    <3> QED
      BY <3>1, <3>2
  <2> HIDE DEF Right
  <2>6. \A n \in 1 .. m : Right(n)
    <3> DEFINE Bad == {n \in 1 .. m : ~Right(n)}
    <3>1. ASSUME Bad # {}
          PROVE  FALSE
      <4>1. Bad \in SUBSET Nat
        OBVIOUS
      <4>2. PICK n \in Bad : \A i \in Bad : n <= i
        BY <3>1, <4>1, Machine!LeastNumber
      <4> QED
        BY <2>5, <4>2
    <3> QED
      BY <3>1
  <2> QED
    BY <1>2, <2>3, <2>6 DEF Right
<1> QED
  BY <1>1, <1>2
-----------------------------------------------------------------------------
(* The tiles of a core.                                                    *)

\* Core c's tiles are those from c * Share(n, tiles) on.
Share(n, tiles) == Abs!CeilDiv(tiles, n)
AbsM(c) == Len(Abs!TilesOf(c, AivCores, AbsTiles))

LEMMA Shares ==
  ASSUME NEW n \in Nat \ {0}, NEW tiles \in Nat
  PROVE  Share(n, tiles) \in Nat /\ n * Share(n, tiles) >= tiles
  BY DEF Share, Abs!CeilDiv

\* Core c's tiles are consecutive, from its share on, as far as there are tiles.
LEMMA AbsTilesOf ==
  ASSUME NEW c \in Abs!Aivs
  PROVE  LET per == Share(AivCores, AbsTiles)
         IN /\ c \in Nat /\ c < AivCores /\ c * per \in Nat
            /\ AbsM(c) \in Nat /\ AbsM(c) <= per
            /\ Abs!TilesOf(c, AivCores, AbsTiles) = [k \in 1 .. AbsM(c) |-> c * per + k - 1]
            /\ \A k \in 1 .. per : k <= AbsM(c) <=> c * per + k - 1 < AbsTiles
<1> DEFINE per == Share(AivCores, AbsTiles)
           end == Abs!Smaller((c + 1) * per, AbsTiles)
           m == Abs!Smaller(per, IF end > c * per THEN end - c * per ELSE 0)
<1>1. c \in Nat /\ c < AivCores /\ AivCores \in Nat \ {0} /\ AbsTiles \in Nat
  BY VectorAssumption DEF Abs!Aivs
<1>2. per \in Nat
  BY <1>1, Shares
<1> HIDE DEF per
<1>3. c * per \in Nat /\ (c + 1) * per = c * per + per
  BY <1>1, <1>2
<1>4. m \in Nat /\ m <= per /\ \A k \in 1 .. per : k <= m <=> c * per + k - 1 < AbsTiles
  BY <1>1, <1>2, <1>3 DEF Abs!Smaller
<1>5. Abs!TilesOf(c, AivCores, AbsTiles) = [k \in 1 .. m |-> c * per + k - 1]
  BY Zenon DEF Abs!TilesOf, per, Share
<1> HIDE DEF m
<1>6. AbsM(c) = m
  BY <1>4, <1>5 DEF AbsM
<1> QED
  BY <1>1, <1>3, <1>4, <1>5, <1>6 DEF per

-----------------------------------------------------------------------------
(* What each of a core's steps is, for abs.                                *)

\* The flags of core c: x may be loaded, x is there, z may be computed, z is
\* there.
XFree(c) == Abs!Event(c, "V", "MTE2", 0)
XThere(c) == Abs!Event(c, "MTE2", "V", 0)
ZFree(c) == Abs!Event(c, "MTE3", "V", 0)
ZThere(c) == Abs!Event(c, "V", "MTE3", 0)

AbsPer == Share(AivCores, AbsTiles)
AbsTile(c, j) == c * AbsPer + (j \div 3) - 1

\* Core c's j-th instruction: the load, the computation and the store of its
\* k-th tile are at 3k, 3k + 1 and 3k + 2.
AbsStep(c, j) ==
  LET m == AbsM(c)
      t == AbsTile(c, j)
  IN IF j = 1 THEN Abs!Signal("V", {XFree(c)})
     ELSE IF j = 2 THEN Abs!Signal("MTE3", {ZFree(c)})
     ELSE IF j = 3 * m + 3 THEN Abs!Await("MTE2", {XFree(c)})
     ELSE IF j = 3 * m + 4 THEN Abs!Await("V", {ZFree(c)})
     ELSE IF j % 3 = 0 THEN Abs!Load(c, t)
     ELSE IF j % 3 = 1 THEN Abs!Compute(c, t)
     ELSE Abs!Store(c, t)

\* t is u, s and v in turn.
InTurn(Y, u, s, v, t) ==
  /\ t \in Seq(Y) /\ Len(t) = Len(u) + Len(s) + Len(v)
  /\ \A j \in 1 .. Len(u) : t[j] = u[j]
  /\ \A j \in 1 .. Len(s) : t[Len(u) + j] = s[j]
  /\ \A j \in 1 .. Len(v) : t[Len(u) + Len(s) + j] = v[j]

LEMMA Framed ==
  ASSUME NEW Y, NEW u \in Seq(Y), NEW s \in Seq(Y), NEW v \in Seq(Y)
  PROVE  InTurn(Y, u, s, v, u \o s \o v)
<1> DEFINE r == u \o s
<1>1. /\ r \in Seq(Y) /\ Len(r) = Len(u) + Len(s) /\ Len(u) \in Nat /\ Len(s) \in Nat
      /\ \A j \in 1 .. Len(u) : r[j] = u[j]
      /\ \A j \in 1 .. Len(s) : r[Len(u) + j] = s[j]
  BY ConcatParts
<1> HIDE DEF r
<1>2. /\ r \o v \in Seq(Y) /\ Len(r \o v) = Len(r) + Len(v)
      /\ \A j \in 1 .. Len(r) : (r \o v)[j] = r[j]
      /\ \A j \in 1 .. Len(v) : (r \o v)[Len(r) + j] = v[j]
  <2>1. \A a, b \in Seq(Y) : /\ a \o b \in Seq(Y) /\ Len(a \o b) = Len(a) + Len(b)
                             /\ \A j \in 1 .. Len(a) : (a \o b)[j] = a[j]
                             /\ \A j \in 1 .. Len(b) : (a \o b)[Len(a) + j] = b[j]
    BY ConcatParts
  <2>2. r \in Seq(Y) /\ v \in Seq(Y)
    BY <1>1
  <2> QED
    BY <2>1, <2>2, Zenon
<1>3. \A j \in 1 .. Len(u) : j \in 1 .. Len(r)
  BY <1>1
<1>4. \A j \in 1 .. Len(s) : Len(u) + j \in 1 .. Len(r)
  BY <1>1
<1>5. /\ \A j \in 1 .. Len(u) : (r \o v)[j] = u[j]
      /\ \A j \in 1 .. Len(s) : (r \o v)[Len(u) + j] = s[j]
  BY <1>1, <1>2, <1>3, <1>4, Zenon
<1> QED
  BY <1>1, <1>2, <1>5, Zenon DEF r, InTurn

LEMMA SameFlatten == \A rows : Abs!FlattenSeq(rows) = FlattenSeq(rows)
  BY Zenon DEF Abs!FlattenSeq, FlattenSeq

\* Core c's program is AbsStep(c, 1), AbsStep(c, 2) and so on.
LEMMA AbsShape ==
  ASSUME NEW c \in Abs!Aivs
  PROVE  /\ DOMAIN Abs!Program = Abs!Aivs
         /\ Len(Abs!Program[c]) = 3 * AbsM(c) + 4
         /\ DOMAIN Abs!Program[c] = 1 .. 3 * AbsM(c) + 4
         /\ \A j \in 1 .. 3 * AbsM(c) + 4 : Abs!Program[c][j] = AbsStep(c, j)
<1> DEFINE m == AbsM(c)
           mine == Abs!TilesOf(c, AivCores, AbsTiles)
           row(k) == <<Abs!Load(c, mine[k]), Abs!Compute(c, mine[k]), Abs!Store(c, mine[k])>>
           rows == [k \in 1 .. m |-> row(k)]
           off == [k \in 0 .. m |-> 3 * k]
           X == UNION {{row(k)[1], row(k)[2], row(k)[3]} : k \in 1 .. m}
           flat == FlattenSeq(rows)
           prog == Abs!Unlock(c) \o flat \o Abs!Cleanup(c)
<1>1. m \in Nat /\ DOMAIN mine = 1 .. m /\ \A k \in 1 .. m : mine[k] = c * AbsPer + k - 1
  BY AbsTilesOf DEF AbsPer
<1> HIDE DEF m
<1>2. DOMAIN Abs!Program = Abs!Aivs /\ Abs!Program[c] = prog
  BY <1>1, SameFlatten, Zenon DEF Abs!Program
<1>3. /\ \A k \in 1 .. m : /\ rows[k] \in Seq(X) /\ Len(rows[k]) = 3
                           /\ rows[k][1] = Abs!Load(c, mine[k])
                           /\ rows[k][2] = Abs!Compute(c, mine[k])
                           /\ rows[k][3] = Abs!Store(c, mine[k])
      /\ rows \in [1 .. m -> Seq(X)]
  <2> HIDE DEF mine
  <2> QED
    OBVIOUS
<1>4. flat \in Seq(X) /\ Laid(rows, off, flat, m)
  <2>1. /\ off \in [0 .. m -> Nat] /\ off[0] = 0
        /\ \A k \in 1 .. m : off[k] = off[k - 1] + Len(rows[k])
    BY <1>1, <1>3
  <2> HIDE DEF rows, off, X
  <2> QED
    BY <1>1, <1>3, <2>1, FlattenRows
<1> HIDE DEF flat
<1>5. Len(flat) = 3 * m /\ \A k \in 1 .. m, i \in 1 .. 3 : flat[3 * (k - 1) + i] = rows[k][i]
  <2>1. Len(flat) = off[m]
    BY <1>4 DEF Laid
  <2>2. \A k \in 1 .. m : \A i \in 1 .. 3 : flat[off[k - 1] + i] = rows[k][i]
    BY <1>3, <1>4, Zenon DEF Laid
  <2>3. off[m] = 3 * m /\ \A k \in 1 .. m : off[k - 1] = 3 * (k - 1)
    BY <1>1
  <2> QED
    BY <2>1, <2>2, <2>3
<1> DEFINE Y == X \cup {Abs!Unlock(c)[1], Abs!Unlock(c)[2], Abs!Cleanup(c)[1], Abs!Cleanup(c)[2]}
<1>6. /\ Abs!Unlock(c) \in Seq(Y) /\ Len(Abs!Unlock(c)) = 2
      /\ Abs!Cleanup(c) \in Seq(Y) /\ Len(Abs!Cleanup(c)) = 2
      /\ flat \in Seq(Y)
  <2>1. flat \in Seq(Y)
    <3> HIDE DEF X
    <3> QED
      BY <1>4
  <2> HIDE DEF X
  <2> QED
    BY <2>1 DEF Abs!Unlock, Abs!Cleanup
<1>7. /\ Len(prog) = 3 * m + 4 /\ prog \in Seq(Y)
      /\ \A j \in 1 .. 2 : prog[j] = Abs!Unlock(c)[j]
      /\ \A j \in 1 .. 3 * m : prog[2 + j] = flat[j]
      /\ \A j \in 1 .. 2 : prog[3 * m + 2 + j] = Abs!Cleanup(c)[j]
  <2> DEFINE u == Abs!Unlock(c)
             w == Abs!Cleanup(c)
  <2>1. u \in Seq(Y) /\ w \in Seq(Y) /\ flat \in Seq(Y) /\ Len(u) = 2 /\ Len(w) = 2
        /\ Len(flat) = 3 * m
    BY <1>5, <1>6
  <2>2. prog = u \o flat \o w
    OBVIOUS
  <2> HIDE DEF Y, u, w, prog
  <2>3. /\ prog \in Seq(Y) /\ Len(prog) = Len(u) + Len(flat) + Len(w)
        /\ \A j \in 1 .. Len(u) : prog[j] = u[j]
        /\ \A j \in 1 .. Len(flat) : prog[Len(u) + j] = flat[j]
        /\ \A j \in 1 .. Len(w) : prog[Len(u) + Len(flat) + j] = w[j]
    <3>1. InTurn(Y, u, flat, w, u \o flat \o w)
      BY <2>1, Framed
    <3> QED
      BY <2>2, <3>1 DEF InTurn
  <2>4. 2 + 3 * m + 2 = 3 * m + 4 /\ 2 + 3 * m = 3 * m + 2
    BY <1>1
  <2> QED
    BY <2>1, <2>3, <2>4, Zenon DEF u, w
<1> HIDE DEF prog, Y
<1>8. ASSUME NEW j \in 1 .. 3 * m + 4
      PROVE  prog[j] = AbsStep(c, j)
  <2>1. CASE j \in {1, 2}
    BY <1>1, <1>7, <2>1 DEF AbsStep, Abs!Unlock, XFree, ZFree
  <2>2. CASE j \in {3 * m + 3, 3 * m + 4}
    BY <1>1, <1>7, <2>2 DEF AbsStep, Abs!Cleanup, XFree, ZFree, m
  <2>3. CASE j \in 3 .. 3 * m + 2
    <3> DEFINE k == j \div 3
               i == (j % 3) + 1
    <3>1. /\ k \in 1 .. m /\ i \in 1 .. 3 /\ j - 2 \in 1 .. 3 * m
          /\ 3 * (k - 1) + i = j - 2
      BY <1>1, <2>3
    <3>2. prog[j] = rows[k][i]
      <4>1. prog[2 + (j - 2)] = flat[j - 2]
        BY <1>7, <3>1
      <4> HIDE DEF k, i, rows
      <4> QED
        BY <1>5, <2>3, <3>1, <4>1
    <3>3. mine[k] = AbsTile(c, j)
      BY <1>1, <3>1 DEF AbsTile
    <3>4. /\ i = 1 => prog[j] = Abs!Load(c, AbsTile(c, j))
          /\ i = 2 => prog[j] = Abs!Compute(c, AbsTile(c, j))
          /\ i = 3 => prog[j] = Abs!Store(c, AbsTile(c, j))
      <4> HIDE DEF k, i, rows
      <4> QED
        BY <1>3, <3>1, <3>2, <3>3, Zenon
    <3>5. j # 1 /\ j # 2 /\ j # 3 * m + 3 /\ j # 3 * m + 4
          /\ (j % 3 = 0 <=> i = 1) /\ (j % 3 = 1 <=> i = 2) /\ i \in {1, 2, 3}
      BY <1>1, <2>3
    <3> HIDE DEF i
    <3> QED
      BY <3>4, <3>5 DEF AbsStep, m
  <2> QED
    BY <1>1, <2>1, <2>2, <2>3
<1> QED
  BY <1>1, <1>2, <1>7, <1>8 DEF m

\* Core c is at a tile's load, computation or store.
AbsWorks(c, j) == j \in 3 .. 3 * AbsM(c) + 2

LEMMA AbsFlagsDiffer ==
  ASSUME NEW c, NEW d
  PROVE  /\ XFree(c) = XFree(d) <=> c = d
         /\ XThere(c) = XThere(d) <=> c = d
         /\ ZFree(c) = ZFree(d) <=> c = d
         /\ ZThere(c) = ZThere(d) <=> c = d
         /\ XFree(c) # XThere(d) /\ XFree(c) # ZFree(d) /\ XFree(c) # ZThere(d)
         /\ XThere(c) # ZFree(d) /\ XThere(c) # ZThere(d) /\ ZFree(c) # ZThere(d)
         /\ XFree(c)[1] = c /\ XThere(c)[1] = c /\ ZFree(c)[1] = c /\ ZThere(c)[1] = c
  BY DEF XFree, XThere, ZFree, ZThere, Abs!Event

\* What the fields of an instruction are, by its position alone.
LEMMA AbsFields ==
  ASSUME NEW c \in Abs!Aivs, NEW j \in 1 .. 3 * AbsM(c) + 4
  PROVE  LET i == AbsStep(c, j)
             x == Abs!Ub(c, "x", 0)
             z == Abs!Ub(c, "z", 0)
             t == AbsTile(c, j)
         IN /\ i.pipe = IF j % 3 = 0 THEN "MTE2" ELSE IF j % 3 = 1 THEN "V" ELSE "MTE3"
            /\ ~AbsWorks(c, j) => i.writes = {} /\ i.reads = {} /\ i.needs = {}
            /\ AbsWorks(c, j) /\ j % 3 = 0 =>
                 /\ i.writes = {x} /\ i.reads = {} /\ i.needs = {} /\ i.gives = <<"x", t, 0>>
            /\ AbsWorks(c, j) /\ j % 3 = 1 =>
                 /\ i.writes = {z} /\ i.reads = {x} /\ i.needs = {<<x, <<"x", t, 0>>>>}
                 /\ i.gives = <<"z", t, 0>>
            /\ AbsWorks(c, j) /\ j % 3 = 2 =>
                 /\ i.writes = {Abs!Out(t)} /\ i.reads = {z} /\ i.needs = {<<z, <<"z", t, 0>>>>}
                 /\ i.gives = <<"z", t, 0>>
            /\ \A f : f \in i.set <=>
                 \/ f = XFree(c) /\ j % 3 = 1 /\ j # 3 * AbsM(c) + 4
                 \/ f = XThere(c) /\ j % 3 = 0 /\ AbsWorks(c, j)
                 \/ f = ZFree(c) /\ j % 3 = 2
                 \/ f = ZThere(c) /\ j % 3 = 1 /\ AbsWorks(c, j)
            /\ \A f : f \in i.wait <=>
                 \/ f = XFree(c) /\ j % 3 = 0
                 \/ f = XThere(c) /\ j % 3 = 1 /\ AbsWorks(c, j)
                 \/ f = ZFree(c) /\ j % 3 = 1 /\ j # 1
                 \/ f = ZThere(c) /\ j % 3 = 2 /\ AbsWorks(c, j)
<1> DEFINE m == AbsM(c)
           t == AbsTile(c, j)
<1>0. m \in Nat
  BY AbsTilesOf
<1> HIDE DEF m, t
<1>1. CASE j = 1
  <2>1. AbsStep(c, j) = Abs!Signal("V", {XFree(c)}) /\ j % 3 = 1 /\ ~AbsWorks(c, j)
        /\ j # 3 * m + 4 
    BY <1>0, <1>1 DEF AbsStep, AbsWorks, m
  <2> QED
    BY <2>1, <1>1 DEF Abs!Signal, Abs!Instruction, m
<1>2. CASE j = 2
  <2>1. AbsStep(c, j) = Abs!Signal("MTE3", {ZFree(c)}) /\ j % 3 = 2 /\ ~AbsWorks(c, j)
    BY <1>0, <1>2 DEF AbsStep, AbsWorks, m
  <2> QED
    BY <2>1, <1>2 DEF Abs!Signal, Abs!Instruction, m
<1>3. CASE j = 3 * m + 3
  <2>1. AbsStep(c, j) = Abs!Await("MTE2", {XFree(c)}) /\ j % 3 = 0 /\ ~AbsWorks(c, j)
    BY <1>0, <1>3 DEF AbsStep, AbsWorks, m
  <2> QED
    BY <2>1, <1>3 DEF Abs!Await, Abs!Instruction, m
<1>4. CASE j = 3 * m + 4
  <2>1. AbsStep(c, j) = Abs!Await("V", {ZFree(c)}) /\ j % 3 = 1 /\ ~AbsWorks(c, j) /\ j # 1
    BY <1>0, <1>4 DEF AbsStep, AbsWorks, m
  <2> QED
    BY <2>1, <1>4 DEF Abs!Await, Abs!Instruction, m
<1>5. CASE AbsWorks(c, j)
  <2>1. j # 1 /\ j # 2 /\ j # 3 * m + 3 /\ j # 3 * m + 4 /\ j % 3 \in {0, 1, 2}
    BY <1>0, <1>5 DEF AbsWorks, m
  <2>2. AbsStep(c, j) = IF j % 3 = 0 THEN Abs!Load(c, t) ELSE IF j % 3 = 1 THEN Abs!Compute(c, t)
                        ELSE Abs!Store(c, t)
    BY <2>1 DEF AbsStep, m, t
  <2>3. CASE j % 3 = 0
    BY <1>5, <2>1, <2>2, <2>3 DEF Abs!Load, Abs!Instruction, m, t, XFree, XThere
  <2>4. CASE j % 3 = 1
    BY <1>5, <2>1, <2>2, <2>4 DEF Abs!Compute, Abs!Instruction, m, t, XFree, XThere, ZFree, ZThere
  <2>5. CASE j % 3 = 2
    BY <1>5, <2>1, <2>2, <2>5 DEF Abs!Store, Abs!Instruction, m, t, ZFree, ZThere
  <2> QED
    BY <2>1, <2>3, <2>4, <2>5
<1> QED
  BY <1>0, <1>1, <1>2, <1>3, <1>4, <1>5 DEF AbsWorks, m

LEMMA AbsSteps ==
  /\ AbsRun \in Machine!Kernels /\ DOMAIN Programs[AbsRun] = Abs!Aivs
  /\ \A x : x \in Machine!Steps[AbsRun] <=>
         \E c \in Abs!Aivs : \E j \in 1 .. 3 * AbsM(c) + 4 : x = <<c, j>>
  /\ \A x \in Machine!Steps[AbsRun] :
       /\ x[1] \in Abs!Aivs /\ AbsM(x[1]) \in Nat /\ x[2] \in 1 .. 3 * AbsM(x[1]) + 4
       /\ x = <<x[1], x[2]>> /\ Machine!Step(AbsRun, x) = AbsStep(x[1], x[2])
<1>1. AbsRun \in Machine!Kernels /\ DOMAIN Programs[AbsRun] = Abs!Aivs
  BY AbsHere DEF Abs!Program, Machine!Kernels
<1>2. \A c \in Abs!Aivs : DOMAIN Programs[AbsRun][c] = 1 .. 3 * AbsM(c) + 4
  BY AbsHere, AbsShape
<1>3. \A x : x \in Machine!Steps[AbsRun] <=>
         \E c \in Abs!Aivs : \E j \in 1 .. 3 * AbsM(c) + 4 : x = <<c, j>>
  <2>1. \A x : x \in Machine!Steps[AbsRun] <=>
           \E c \in DOMAIN Programs[AbsRun] : \E j \in DOMAIN Programs[AbsRun][c] : x = <<c, j>>
    BY <1>1, Machine!StepsAre
  <2> QED
    BY <1>1, <1>2, <2>1, Zenon
<1>4. ASSUME NEW x \in Machine!Steps[AbsRun]
      PROVE  /\ x[1] \in Abs!Aivs /\ AbsM(x[1]) \in Nat /\ x[2] \in 1 .. 3 * AbsM(x[1]) + 4
             /\ x = <<x[1], x[2]>> /\ Machine!Step(AbsRun, x) = AbsStep(x[1], x[2])
  <2>0. PICK c \in Abs!Aivs : \E j \in 1 .. 3 * AbsM(c) + 4 : x = <<c, j>>
    BY <1>3
  <2>1. PICK j \in 1 .. 3 * AbsM(c) + 4 : x = <<c, j>>
    BY <2>0
  <2>2. Machine!Step(AbsRun, x) = AbsStep(c, j)
    BY <2>1, AbsHere, AbsShape DEF Machine!Step
  <2> QED
    BY <2>1, <2>2, AbsTilesOf
<1> QED
  BY <1>1, <1>3, <1>4

\* The programs are lists of instructions of the pipes, without barriers.
LEMMA AbsWellFormed == Machine!WellFormed(AbsRun)
<1> SUFFICES ASSUME NEW c \in Abs!Aivs
             PROVE  LET prog == Programs[AbsRun][c]
                    IN /\ Len(prog) \in Nat /\ DOMAIN prog = 1 .. Len(prog)
                       /\ \A j \in DOMAIN prog :
                            /\ prog[j].pipe \in Machine!Pipes /\ prog[j].pipe # "ALL"
                            /\ \A n \in prog[j].needs : n[1] \in prog[j].reads
  BY AbsSteps DEF Machine!WellFormed
<1> DEFINE prog == Programs[AbsRun][c]
<1>1. /\ AbsM(c) \in Nat /\ Len(prog) = 3 * AbsM(c) + 4 /\ DOMAIN prog = 1 .. 3 * AbsM(c) + 4
      /\ \A j \in 1 .. 3 * AbsM(c) + 4 : prog[j] = AbsStep(c, j)
  BY AbsHere, AbsShape, AbsTilesOf
<1>2. ASSUME NEW j \in 1 .. 3 * AbsM(c) + 4
      PROVE  LET i == AbsStep(c, j)
             IN i.pipe \in Machine!Pipes /\ i.pipe # "ALL" /\ \A n \in i.needs : n[1] \in i.reads
  <2>1. j % 3 \in {0, 1, 2}
    BY <1>1
  <2> QED
    BY <2>1, AbsFields DEF Machine!Pipes
<1> QED
  BY <1>1, <1>2

\* Which steps are around a flag.
LEMMA AbsAroundFlags ==
  ASSUME NEW f \in Machine!Flags[AbsRun]
  PROVE  \E c \in Abs!Aivs : f \in {XFree(c), XThere(c), ZFree(c), ZThere(c)}
<1>1. PICK i \in Machine!Instructions(AbsRun) : f \in i.wait \cup i.set
  BY AbsSteps DEF Machine!Flags
<1>0. PICK c \in Abs!Aivs : \E j \in DOMAIN Programs[AbsRun][c] : i = Programs[AbsRun][c][j]
  BY <1>1, AbsSteps DEF Machine!Instructions
<1>2. PICK j \in DOMAIN Programs[AbsRun][c] : i = Programs[AbsRun][c][j]
  BY <1>0
<1>3. j \in 1 .. 3 * AbsM(c) + 4 /\ i = AbsStep(c, j)
  BY <1>2, AbsHere, AbsShape
<1> QED
  BY <1>1, <1>3, AbsFields

\* Which steps raise a flag, and which wait for it.
LEMMA AbsSetters ==
  ASSUME NEW f \in Machine!Flags[AbsRun]
  PROVE  \A x : x \in Machine!Setters[AbsRun][f] <=>
           /\ x \in Machine!Steps[AbsRun]
           /\ \/ f = XFree(x[1]) /\ x[2] % 3 = 1 /\ x[2] # 3 * AbsM(x[1]) + 4
              \/ f = XThere(x[1]) /\ x[2] % 3 = 0 /\ AbsWorks(x[1], x[2])
              \/ f = ZFree(x[1]) /\ x[2] % 3 = 2
              \/ f = ZThere(x[1]) /\ x[2] % 3 = 1 /\ AbsWorks(x[1], x[2])
<1>1. \A x : x \in Machine!Setters[AbsRun][f] <=>
        x \in Machine!Steps[AbsRun] /\ f \in Machine!Step(AbsRun, x).set
  BY AbsSteps DEF Machine!Setters
<1> QED
  BY <1>1, AbsSteps, AbsFields

LEMMA AbsWaiters ==
  ASSUME NEW f \in Machine!Flags[AbsRun]
  PROVE  \A x : x \in Machine!Waiters[AbsRun][f] <=>
           /\ x \in Machine!Steps[AbsRun]
           /\ \/ f = XFree(x[1]) /\ x[2] % 3 = 0
              \/ f = XThere(x[1]) /\ x[2] % 3 = 1 /\ AbsWorks(x[1], x[2])
              \/ f = ZFree(x[1]) /\ x[2] % 3 = 1 /\ x[2] # 1
              \/ f = ZThere(x[1]) /\ x[2] % 3 = 2 /\ AbsWorks(x[1], x[2])
<1>1. \A x : x \in Machine!Waiters[AbsRun][f] <=>
        x \in Machine!Steps[AbsRun] /\ f \in Machine!Step(AbsRun, x).wait
  BY AbsSteps DEF Machine!Waiters
<1> QED
  BY <1>1, AbsSteps, AbsFields

-----------------------------------------------------------------------------
(* A core could do its steps one after another.                            *)

LEMMA AbsPipes ==
  ASSUME NEW x \in Machine!Steps[AbsRun]
  PROVE  /\ x[2] \in Nat /\ x[2] % 3 \in {0, 1, 2}
         /\ Machine!Step(AbsRun, x).pipe =
              IF x[2] % 3 = 0 THEN "MTE2" ELSE IF x[2] % 3 = 1 THEN "V" ELSE "MTE3"
<1>1. x[2] \in Nat /\ x[2] % 3 \in {0, 1, 2}
  BY AbsSteps
<1> QED
  BY <1>1, AbsSteps, AbsFields

\* Each flag is one core's, raised on one pipe and waited for on one.
LEMMA AbsFlagsHavePipes == Machine!FlagsHavePipes(AbsRun)
<1> SUFFICES ASSUME NEW f \in Machine!Flags[AbsRun]
             PROVE  /\ Machine!OnOnePipe(AbsRun, Machine!Setters[AbsRun][f])
                    /\ Machine!OnOnePipe(AbsRun, Machine!Waiters[AbsRun][f])
  BY DEF Machine!FlagsHavePipes
<1>1. PICK c \in Abs!Aivs : f \in {XFree(c), XThere(c), ZFree(c), ZThere(c)}
  BY AbsAroundFlags
<1>2. c \in DOMAIN Programs[AbsRun]
  BY AbsSteps
<1>3. {"MTE2", "V", "MTE3"} \subseteq Machine!Pipes
  BY DEF Machine!Pipes
<1>4. \E p \in Machine!Pipes : \A x \in Machine!Setters[AbsRun][f] :
        x[1] = c /\ Machine!Step(AbsRun, x).pipe = p
  <2>1. \A x \in Machine!Setters[AbsRun][f] :
          /\ x[1] = c
          /\ x[2] % 3 = IF f = XThere(c) THEN 0 ELSE IF f = ZFree(c) THEN 2 ELSE 1
    BY <1>1, AbsSetters, AbsFlagsDiffer
  <2> QED
    BY <1>3, <2>1, AbsSetters, AbsPipes
<1>5. \E p \in Machine!Pipes : \A x \in Machine!Waiters[AbsRun][f] :
        x[1] = c /\ Machine!Step(AbsRun, x).pipe = p
  <2>1. \A x \in Machine!Waiters[AbsRun][f] :
          /\ x[1] = c
          /\ x[2] % 3 = IF f = XFree(c) THEN 0 ELSE IF f = ZThere(c) THEN 2 ELSE 1
    BY <1>1, AbsWaiters, AbsFlagsDiffer
  <2> QED
    BY <1>3, <2>1, AbsWaiters, AbsPipes
<1> QED
  BY <1>2, <1>4, <1>5 DEF Machine!OnOnePipe

\* What is waited for at f was raised so many instructions before.
AbsLag(f) == IF \E c \in Abs!Aivs : f \in {XFree(c), ZFree(c)} THEN 2 ELSE 1
AbsMatch ==
  [f \in Machine!Flags[AbsRun] |->
     [y \in Machine!Waiters[AbsRun][f] |-> <<y[1], y[2] - AbsLag(f)>>]]

\* Every wait has its raise, as much earlier as AbsLag says, and every raise
\* its wait.
LEMMA AbsMatched == Machine!Matched(AbsRun, AbsMatch)
<1> SUFFICES ASSUME NEW f \in Machine!Flags[AbsRun]
             PROVE  LET S == Machine!Setters[AbsRun][f]
                        W == Machine!Waiters[AbsRun][f]
                        g == AbsMatch[f]
                    IN /\ g \in [W -> S]
                       /\ \A x \in S : \E y \in W : g[y] = x
                       /\ \A y \in W : g[y][1] = y[1] /\ g[y][2] < y[2]
                       /\ \A y, z \in W : z[2] <= y[2] <=> g[z][2] <= g[y][2]
  BY DEF Machine!Matched
<1> DEFINE S == Machine!Setters[AbsRun][f]
           W == Machine!Waiters[AbsRun][f]
           g == AbsMatch[f]
           lag == AbsLag(f)
<1>1. PICK c \in Abs!Aivs : f \in {XFree(c), XThere(c), ZFree(c), ZThere(c)}
  BY AbsAroundFlags
<1>2. lag = IF f \in {XFree(c), ZFree(c)} THEN 2 ELSE 1
  BY <1>1, AbsFlagsDiffer DEF AbsLag
<1> HIDE DEF lag
<1>3. g = [y \in W |-> <<y[1], y[2] - lag>>]
  BY DEF AbsMatch, lag
<1> HIDE DEF g
<1> DEFINE m == AbsM(c)
<1>4. m \in Nat
  BY AbsTilesOf
<1> HIDE DEF m
<1>5. \A j : <<c, j>> \in Machine!Steps[AbsRun] <=> j \in 1 .. 3 * m + 4
  BY AbsSteps DEF m
<1>6. ASSUME NEW x
      PROVE  /\ x \in S <=>
                  \E j \in 1 .. 3 * m + 4 :
                    /\ x = <<c, j>>
                    /\ \/ f = XFree(c) /\ j % 3 = 1 /\ j # 3 * m + 4
                       \/ f = XThere(c) /\ j % 3 = 0 /\ j \in 3 .. 3 * m + 2
                       \/ f = ZFree(c) /\ j % 3 = 2
                       \/ f = ZThere(c) /\ j % 3 = 1 /\ j \in 3 .. 3 * m + 2
             /\ x \in W <=>
                  \E j \in 1 .. 3 * m + 4 :
                    /\ x = <<c, j>>
                    /\ \/ f = XFree(c) /\ j % 3 = 0
                       \/ f = XThere(c) /\ j % 3 = 1 /\ j \in 3 .. 3 * m + 2
                       \/ f = ZFree(c) /\ j % 3 = 1 /\ j # 1
                       \/ f = ZThere(c) /\ j % 3 = 2 /\ j \in 3 .. 3 * m + 2
  <2>1. x \in S \/ x \in W => x[1] = c
    BY <1>1, AbsSetters, AbsWaiters, AbsFlagsDiffer
  <2>2. x \in S \/ x \in W =>
          x \in Machine!Steps[AbsRun] /\ x = <<c, x[2]>> /\ x[2] \in 1 .. 3 * m + 4
    BY <2>1, AbsSetters, AbsWaiters, AbsSteps DEF m
  <2>3. ASSUME NEW j \in 1 .. 3 * m + 4, x = <<c, j>>
        PROVE  /\ x[1] = c /\ x[2] = j /\ x \in Machine!Steps[AbsRun]
               /\ AbsWorks(c, j) <=> j \in 3 .. 3 * m + 2
    BY <1>5, <2>3 DEF AbsWorks, m
  <2>4. x \in S <=> /\ x \in Machine!Steps[AbsRun] /\ x[1] = c
                    /\ \/ f = XFree(c) /\ x[2] % 3 = 1 /\ x[2] # 3 * m + 4
                       \/ f = XThere(c) /\ x[2] % 3 = 0 /\ AbsWorks(c, x[2])
                       \/ f = ZFree(c) /\ x[2] % 3 = 2
                       \/ f = ZThere(c) /\ x[2] % 3 = 1 /\ AbsWorks(c, x[2])
    BY <2>1, AbsSetters DEF m
  <2>5. x \in W <=> /\ x \in Machine!Steps[AbsRun] /\ x[1] = c
                    /\ \/ f = XFree(c) /\ x[2] % 3 = 0
                       \/ f = XThere(c) /\ x[2] % 3 = 1 /\ AbsWorks(c, x[2])
                       \/ f = ZFree(c) /\ x[2] % 3 = 1 /\ x[2] # 1
                       \/ f = ZThere(c) /\ x[2] % 3 = 2 /\ AbsWorks(c, x[2])
    BY <2>1, AbsWaiters DEF m
  <2> HIDE DEF S, W
  <2> QED
    BY <2>2, <2>3, <2>4, <2>5, Zenon
<1> HIDE DEF S, W
<1>7. lag \in {1, 2} /\ \A y \in W : y[2] \in Nat /\ y[1] = c /\ g[y] = <<c, y[2] - lag>>
  BY <1>2, <1>3, <1>6
<1>8. ASSUME NEW y \in W
      PROVE  g[y] \in S
  BY <1>1, <1>2, <1>4, <1>6, <1>7, AbsFlagsDiffer
<1>9. ASSUME NEW x \in S
      PROVE  \E y \in W : g[y] = x
  <2>1. PICK j \in 1 .. 3 * m + 4 :
          /\ x = <<c, j>>
          /\ \/ f = XFree(c) /\ j % 3 = 1 /\ j # 3 * m + 4
             \/ f = XThere(c) /\ j % 3 = 0 /\ j \in 3 .. 3 * m + 2
             \/ f = ZFree(c) /\ j % 3 = 2
             \/ f = ZThere(c) /\ j % 3 = 1 /\ j \in 3 .. 3 * m + 2
    BY <1>6
  <2>2. /\ j + lag \in 1 .. 3 * m + 4
        /\ \/ f = XFree(c) /\ (j + lag) % 3 = 0
           \/ f = XThere(c) /\ (j + lag) % 3 = 1 /\ j + lag \in 3 .. 3 * m + 2
           \/ f = ZFree(c) /\ (j + lag) % 3 = 1 /\ j + lag # 1
           \/ f = ZThere(c) /\ (j + lag) % 3 = 2 /\ j + lag \in 3 .. 3 * m + 2
    BY <1>2, <1>4, <2>1, AbsFlagsDiffer
  <2>3. <<c, j + lag>> \in W
    BY <1>6, <2>2
  <2>4. g[<<c, j + lag>>] = x
    BY <1>7, <2>1, <2>3
  <2> QED
    BY <2>3, <2>4
<1>10. /\ g \in [W -> S]
       /\ \A x \in S : \E y \in W : g[y] = x
       /\ \A y \in W : g[y][1] = y[1] /\ g[y][2] < y[2]
       /\ \A y, z \in W : z[2] <= y[2] <=> g[z][2] <= g[y][2]
  BY <1>3, <1>7, <1>8, <1>9
<1> QED
  BY <1>10, Zenon DEF g, S, W

-----------------------------------------------------------------------------
(* How far the pipes of a core have got when a step goes on.               *)

AbsClock ==
  [c \in Abs!Aivs |-> [j \in 1 .. 3 * AbsM(c) + 4 |-> [p \in Machine!Pipes |->
     CASE AbsWorks(c, j) /\ j % 3 = 0 /\ p = "V" -> j - 1
       [] AbsWorks(c, j) /\ j % 3 = 0 /\ p = "MTE2" -> (IF j = 3 THEN 0 ELSE j - 2)
       [] AbsWorks(c, j) /\ j % 3 = 1 /\ p = "MTE2" -> j
       [] AbsWorks(c, j) /\ j % 3 = 1 /\ p = "MTE3" -> j - 1
       [] AbsWorks(c, j) /\ j % 3 = 1 /\ p = "V" -> j - 2
       [] AbsWorks(c, j) /\ j % 3 = 2 /\ p = "V" -> j
       [] OTHER -> 0]]]

LEMMA AbsClockIs ==
  ASSUME NEW y \in Machine!Steps[AbsRun], NEW p \in Machine!Pipes
  PROVE  LET j == y[2]
             own == AbsClock[y[1]][y[2]][p]
         IN /\ AbsWorks(y[1], j) /\ j % 3 = 0 =>
                 own = IF p = "V" THEN j - 1 ELSE IF p = "MTE2" /\ j # 3 THEN j - 2 ELSE 0
            /\ AbsWorks(y[1], j) /\ j % 3 = 1 =>
                 own = IF p = "MTE2" THEN j ELSE IF p = "MTE3" THEN j - 1
                       ELSE IF p = "V" THEN j - 2 ELSE 0
            /\ AbsWorks(y[1], j) /\ j % 3 = 2 => own = IF p = "V" THEN j ELSE 0
            /\ ~AbsWorks(y[1], j) => own = 0
<1> DEFINE c == y[1]
           j == y[2]
<1>1. c \in Abs!Aivs /\ j \in 1 .. 3 * AbsM(c) + 4 /\ j % 3 \in {0, 1, 2} /\ "MTE2" # "V"
      /\ "MTE2" # "MTE3" /\ "V" # "MTE3"
  BY AbsSteps, AbsPipes
<1> HIDE DEF c, j
<1>2. AbsClock[c][j][p] =
        CASE AbsWorks(c, j) /\ j % 3 = 0 /\ p = "V" -> j - 1
          [] AbsWorks(c, j) /\ j % 3 = 0 /\ p = "MTE2" -> (IF j = 3 THEN 0 ELSE j - 2)
          [] AbsWorks(c, j) /\ j % 3 = 1 /\ p = "MTE2" -> j
          [] AbsWorks(c, j) /\ j % 3 = 1 /\ p = "MTE3" -> j - 1
          [] AbsWorks(c, j) /\ j % 3 = 1 /\ p = "V" -> j - 2
          [] AbsWorks(c, j) /\ j % 3 = 2 /\ p = "V" -> j
          [] OTHER -> 0
  BY <1>1 DEF AbsClock
<1> DEFINE own == AbsClock[c][j][p]
           works == AbsWorks(c, j)
<1> HIDE DEF own, works
<1>3. /\ works /\ j % 3 = 0 =>
           own = IF p = "V" THEN j - 1 ELSE IF p = "MTE2" /\ j # 3 THEN j - 2 ELSE 0
      /\ works /\ j % 3 = 1 =>
           own = IF p = "MTE2" THEN j ELSE IF p = "MTE3" THEN j - 1
                 ELSE IF p = "V" THEN j - 2 ELSE 0
      /\ works /\ j % 3 = 2 => own = IF p = "V" THEN j ELSE 0
      /\ ~works => own = 0
  BY <1>1, <1>2 DEF own, works
<1> QED
  BY <1>3 DEF own, works, c, j

LEMMA AbsLags ==
  ASSUME NEW c \in Abs!Aivs
  PROVE  /\ AbsLag(XFree(c)) = 2 /\ AbsLag(XThere(c)) = 1
         /\ AbsLag(ZFree(c)) = 2 /\ AbsLag(ZThere(c)) = 1
  BY AbsFlagsDiffer DEF AbsLag

\* What AbsClock says of a step, one that enables it tells: the one matched
\* with a flag it waits for, or the one three positions before, on its pipe.
LEMMA AbsOwnClock == Machine!IsOwnClock(AbsRun, AbsClock)
<1> SUFFICES ASSUME NEW y \in Machine!Steps[AbsRun], NEW p \in Machine!Pipes
             PROVE  LET own == AbsClock[y[1]][y[2]][p]
                    IN /\ own \in Nat
                       /\ \/ own = 0
                          \/ \E x \in Machine!Steps[AbsRun] :
                               /\ Machine!Enables(AbsRun, x, y) /\ x[1] = y[1]
                               /\ own <= Machine!Told(AbsRun, AbsClock, x, p)
  BY DEF Machine!IsOwnClock
<1> DEFINE c == y[1]
           j == y[2]
           m == AbsM(c)
           own == AbsClock[y[1]][y[2]][p]
<1>1. c \in Abs!Aivs /\ m \in Nat /\ j \in 1 .. 3 * m + 4 /\ y = <<c, j>> /\ j % 3 \in {0, 1, 2}
  BY AbsSteps, AbsPipes
<1>2. \A i \in 1 .. 3 * m + 4 : <<c, i>> \in Machine!Steps[AbsRun]
  BY <1>1, AbsSteps
<1>3. ASSUME ~AbsWorks(c, j)
      PROVE  own = 0
  BY <1>3, AbsClockIs
<1> DEFINE Pipe(i) == IF i % 3 = 0 THEN "MTE2" ELSE IF i % 3 = 1 THEN "V" ELSE "MTE3"
\* What came before on the step's own pipe is over.
<1>4. ASSUME NEW i \in 1 .. 3 * m + 4, i < j, i % 3 = j % 3
      PROVE  LET x == <<c, i>>
             IN /\ x \in Machine!Steps[AbsRun] /\ Machine!Enables(AbsRun, x, y) /\ x[1] = c
                /\ p = Pipe(i) => Machine!Told(AbsRun, AbsClock, x, p) = i + 1
  <2>1. <<c, i>> \in Machine!Steps[AbsRun]
    BY <1>2
  <2>2. Machine!Step(AbsRun, <<c, i>>).pipe = Pipe(i) /\ Machine!Step(AbsRun, y).pipe = Pipe(i)
    BY <1>1, <1>4, <2>1, AbsPipes
  <2> HIDE DEF Pipe
  <2>3. Machine!Precedes(AbsRun, <<c, i>>, y)
    BY <1>1, <1>4, <2>2 DEF Machine!Precedes
  <2> QED
    BY <2>1, <2>2, <2>3 DEF Machine!Enables, Machine!Told
\* What was matched with a wait is over.
<1>5. ASSUME NEW f \in Machine!Step(AbsRun, y).wait
      PROVE  LET x == <<c, j - AbsLag(f)>>
             IN /\ x \in Machine!Steps[AbsRun] /\ Machine!Enables(AbsRun, x, y) /\ x[1] = c
                /\ p = Pipe(j - AbsLag(f)) =>
                     Machine!Told(AbsRun, AbsClock, x, p) = j - AbsLag(f) + 1
  <2>1. f \in Machine!Flags[AbsRun] /\ y \in Machine!Waiters[AbsRun][f]
    <3>1. f \in Machine!Flags[AbsRun]
      BY <1>5, AbsSteps, Machine!StepFlags
    <3> QED
      BY <1>5, <3>1, AbsSteps DEF Machine!Waiters
  <2>2. AbsMatch[f][y] = <<c, j - AbsLag(f)>>
    BY <1>1, <2>1 DEF AbsMatch
  <2>3. /\ AbsMatch[f][y] \in Machine!Steps[AbsRun]
        /\ Machine!Enables(AbsRun, AbsMatch[f][y], y)
    BY <2>1, AbsSteps, AbsWellFormed, AbsFlagsHavePipes, AbsMatched, Machine!MatchedPairs
  <2>4. Machine!Step(AbsRun, AbsMatch[f][y]).pipe = Pipe(j - AbsLag(f))
    BY <2>2, <2>3, AbsPipes
  <2> HIDE DEF Pipe
  <2> QED
    BY <2>2, <2>3, <2>4 DEF Machine!Told
<1> DEFINE Past(n) == \E x \in Machine!Steps[AbsRun] :
                        /\ Machine!Enables(AbsRun, x, y) /\ x[1] = y[1]
                        /\ Machine!Told(AbsRun, AbsClock, x, p) = n
           waits == Machine!Step(AbsRun, y).wait
<1>6. /\ \A i \in 1 .. 3 * m + 4 : i < j /\ i % 3 = j % 3 /\ p = Pipe(i) => Past(i + 1)
      /\ \A f \in waits : p = Pipe(j - AbsLag(f)) => Past(j - AbsLag(f) + 1)
  <2> HIDE DEF Pipe
  <2> QED
    BY <1>4, <1>5
<1>7. /\ AbsWorks(c, j) => j \in 3 .. 3 * m + 2
      /\ AbsWorks(c, j) /\ j % 3 = 0 => XFree(c) \in waits
      /\ AbsWorks(c, j) /\ j % 3 = 1 => XThere(c) \in waits /\ ZFree(c) \in waits
      /\ AbsWorks(c, j) /\ j % 3 = 2 => ZThere(c) \in waits
  <2>1. AbsWorks(c, j) => j \in 3 .. 3 * m + 2
    BY DEF AbsWorks
  <2>2. waits = AbsStep(c, j).wait
    BY AbsSteps
  <2> HIDE DEF waits, j, c
  <2> QED
    BY <1>1, <2>1, <2>2, AbsFields
<1>8. own = 0 \/ (own \in Nat /\ Past(own))
  <2>1. /\ AbsWorks(c, j) /\ j % 3 = 0 =>
             own = IF p = "V" THEN j - 1 ELSE IF p = "MTE2" /\ j # 3 THEN j - 2 ELSE 0
        /\ AbsWorks(c, j) /\ j % 3 = 1 =>
             own = IF p = "MTE2" THEN j ELSE IF p = "MTE3" THEN j - 1
                   ELSE IF p = "V" THEN j - 2 ELSE 0
        /\ AbsWorks(c, j) /\ j % 3 = 2 => own = IF p = "V" THEN j ELSE 0
        /\ ~AbsWorks(c, j) => own = 0
    BY AbsClockIs
  <2>2. ASSUME NEW f \in waits, AbsLag(f) \in {1, 2}, p = Pipe(j - AbsLag(f))
        PROVE  Past(j - AbsLag(f) + 1)
    BY <1>6, <2>2
  <2>3. ASSUME AbsWorks(c, j), j # 3, p = Pipe(j - 3)
        PROVE  Past(j - 2)
    <3>1. /\ j - 3 \in 1 .. 3 * m + 4 /\ j - 3 < j /\ (j - 3) % 3 = j % 3 /\ j - 3 + 1 = j - 2
      BY <1>1, <1>7, <2>3
    <3> HIDE DEF Past, j, Pipe
    <3> QED
      BY <1>6, <2>3, <3>1
  <2> HIDE DEF own, waits, Past, m, c
  <2>4. CASE AbsWorks(c, j) /\ j % 3 = 0
    <3>1. Pipe(j - 2) = "V" /\ Pipe(j - 3) = "MTE2" /\ j \in Nat /\ j >= 3 /\ j - 2 + 1 = j - 1
      BY <1>7, <2>4
    <3> HIDE DEF Pipe
    <3>2. p = "V" => Past(j - 1)
      BY <1>1, <1>7, <2>2, <2>4, <3>1, AbsLags
    <3>3. p = "MTE2" /\ j # 3 => Past(j - 2)
      BY <2>3, <2>4, <3>1
    <3> QED
      BY <2>1, <2>4, <3>1, <3>2, <3>3
  <2>5. CASE AbsWorks(c, j) /\ j % 3 = 1
    <3>1. /\ Pipe(j - 2) = "MTE3" /\ Pipe(j - 1) = "MTE2" /\ Pipe(j - 3) = "V"
          /\ j \in Nat /\ j > 3 /\ j - 2 + 1 = j - 1 /\ j - 1 + 1 = j
      <4>1. /\ (j - 2) % 3 = 2 /\ (j - 1) % 3 = 0 /\ (j - 3) % 3 = 1
            /\ j \in Nat /\ j > 3 /\ j - 2 + 1 = j - 1 /\ j - 1 + 1 = j
        BY <1>7, <2>5
      <4> QED
        BY <4>1
    <3> HIDE DEF Pipe
    <3>2. p = "MTE2" => Past(j)
      BY <1>1, <1>7, <2>2, <2>5, <3>1, AbsLags
    <3>3. p = "MTE3" => Past(j - 1)
      BY <1>1, <1>7, <2>2, <2>5, <3>1, AbsLags
    <3>4. p = "V" => Past(j - 2)
      BY <2>3, <2>5, <3>1
    <3>5. own = IF p = "MTE2" THEN j ELSE IF p = "MTE3" THEN j - 1 ELSE IF p = "V" THEN j - 2 ELSE 0
      BY <2>1, <2>5
    <3>6. j \in Nat /\ j - 1 \in Nat /\ j - 2 \in Nat
      BY <3>1
    <3> HIDE DEF j
    <3> QED
      BY <3>2, <3>3, <3>4, <3>5, <3>6
  <2>6. CASE AbsWorks(c, j) /\ j % 3 = 2
    <3>1. Pipe(j - 1) = "V" /\ j \in Nat /\ j - 1 + 1 = j
      BY <1>7, <2>6
    <3> HIDE DEF Pipe
    <3>2. p = "V" => Past(j)
      BY <1>1, <1>7, <2>2, <2>6, <3>1, AbsLags
    <3> QED
      BY <2>1, <2>6, <3>1, <3>2
  <2> QED
    BY <1>1, <2>1, <2>4, <2>5, <2>6
<1>9. \A n \in Nat : n <= n
  OBVIOUS
<1> QED
  BY <1>8, <1>9

-----------------------------------------------------------------------------
(* What the steps do to the buffers.                                       *)

\* Core c's buffers for a tile of the input and of the output.
X(c) == Abs!Ub(c, "x", 0)
Z(c) == Abs!Ub(c, "z", 0)

\* No tile is worked on twice.
LEMMA AbsTilesApart ==
  ASSUME NEW c \in Abs!Aivs, NEW d \in Abs!Aivs,
         NEW k \in 1 .. AbsPer, NEW n \in 1 .. AbsPer,
         c * AbsPer + k - 1 = d * AbsPer + n - 1
  PROVE  c = d /\ k = n
<1>1. c \in Nat /\ d \in Nat /\ AivCores \in Nat \ {0} /\ AbsTiles \in Nat
  BY AbsTilesOf, VectorAssumption
<1>2. AbsPer \in Nat
  BY <1>1, Shares DEF AbsPer
<1>3. ASSUME NEW a \in Nat, NEW b \in Nat, NEW per \in Nat, NEW i \in 1 .. per, NEW j \in 1 .. per,
             a * per + i - 1 = b * per + j - 1
      PROVE  a = b /\ i = j
  <2>1. ASSUME NEW u \in Nat, NEW v \in Nat, u < v
        PROVE  u * per + per <= v * per
    <3>1. PICK w \in Nat : v = u + 1 + w
      <4>1. v - u - 1 \in Nat /\ v = u + 1 + (v - u - 1)
        BY <2>1
      <4> QED
        BY <4>1
    <3>2. v * per = u * per + per + w * per /\ w * per \in Nat /\ u * per \in Nat
      BY <3>1
    <3> QED
      BY <3>2
  <2>2. a * per \in Nat /\ b * per \in Nat
    OBVIOUS
  <2>3. ~(a < b) /\ ~(b < a)
    BY <1>3, <2>1, <2>2
  <2>4. a = b
    BY <2>3
  <2> QED
    BY <1>3, <2>2, <2>4
<1> QED
  BY <1>1, <1>2, <1>3

\* What a step reads, writes, needs and gives.
LEMMA AbsTouches ==
  ASSUME NEW x \in Machine!Steps[AbsRun]
  PROVE  LET c == x[1]
             i == Machine!Step(AbsRun, x)
             t == AbsTile(c, x[2])
         IN /\ \A b : b \in i.writes <=>
                 /\ AbsWorks(c, x[2])
                 /\ \/ x[2] % 3 = 0 /\ b = X(c)
                    \/ x[2] % 3 = 1 /\ b = Z(c)
                    \/ x[2] % 3 = 2 /\ b = Abs!Out(t)
            /\ \A b : b \in i.reads <=>
                 /\ AbsWorks(c, x[2])
                 /\ \/ x[2] % 3 = 1 /\ b = X(c)
                    \/ x[2] % 3 = 2 /\ b = Z(c)
            /\ \A n : n \in i.needs <=>
                 /\ AbsWorks(c, x[2])
                 /\ \/ x[2] % 3 = 1 /\ n = <<X(c), <<"x", t, 0>>>>
                    \/ x[2] % 3 = 2 /\ n = <<Z(c), <<"z", t, 0>>>>
            /\ AbsWorks(c, x[2]) => i.gives = IF x[2] % 3 = 0 THEN <<"x", t, 0>> ELSE <<"z", t, 0>>
<1> DEFINE c == x[1]
           j == x[2]
           t == AbsTile(c, j)
           i == AbsStep(c, j)
<1>1. c \in Abs!Aivs /\ j \in 1 .. 3 * AbsM(c) + 4 /\ Machine!Step(AbsRun, x) = i
      /\ j % 3 \in {0, 1, 2}
  BY AbsSteps, AbsPipes
<1> HIDE DEF c, j, i, t
<1>2. /\ ~AbsWorks(c, j) => i.writes = {} /\ i.reads = {} /\ i.needs = {}
      /\ AbsWorks(c, j) /\ j % 3 = 0 =>
           i.writes = {X(c)} /\ i.reads = {} /\ i.needs = {} /\ i.gives = <<"x", t, 0>>
      /\ AbsWorks(c, j) /\ j % 3 = 1 =>
           /\ i.writes = {Z(c)} /\ i.reads = {X(c)} /\ i.needs = {<<X(c), <<"x", t, 0>>>>}
           /\ i.gives = <<"z", t, 0>>
      /\ AbsWorks(c, j) /\ j % 3 = 2 =>
           /\ i.writes = {Abs!Out(t)} /\ i.reads = {Z(c)} /\ i.needs = {<<Z(c), <<"z", t, 0>>>>}
           /\ i.gives = <<"z", t, 0>>
  BY <1>1, AbsFields DEF i, t, X, Z
<1>3. /\ \A b : b \in i.writes <=>
           /\ AbsWorks(c, j)
           /\ \/ j % 3 = 0 /\ b = X(c)
              \/ j % 3 = 1 /\ b = Z(c)
              \/ j % 3 = 2 /\ b = Abs!Out(t)
      /\ \A b : b \in i.reads <=>
           /\ AbsWorks(c, j)
           /\ \/ j % 3 = 1 /\ b = X(c)
              \/ j % 3 = 2 /\ b = Z(c)
      /\ \A n : n \in i.needs <=>
           /\ AbsWorks(c, j)
           /\ \/ j % 3 = 1 /\ n = <<X(c), <<"x", t, 0>>>>
              \/ j % 3 = 2 /\ n = <<Z(c), <<"z", t, 0>>>>
      /\ AbsWorks(c, j) => i.gives = IF j % 3 = 0 THEN <<"x", t, 0>> ELSE <<"z", t, 0>>
  BY <1>1, <1>2
<1> QED
  BY <1>1, <1>3 DEF c, j, t

LEMMA AbsBuffersDiffer ==
  ASSUME NEW c \in Abs!Aivs, NEW d \in Abs!Aivs, NEW t, NEW u
  PROVE  /\ X(c) # Z(d) /\ X(c) # Abs!Out(t) /\ Z(c) # Abs!Out(t)
         /\ X(c) = X(d) <=> c = d
         /\ Z(c) = Z(d) <=> c = d
         /\ Abs!Out(t) = Abs!Out(u) <=> t = u
<1>1. c # -1 /\ d # -1
  BY AbsTilesOf
<1> QED
  BY <1>1 DEF X, Z, Abs!Ub, Abs!Out

\* Two steps that touch a buffer, one of them writing, are of one core, and
\* not stores; or they are the same.
LEMMA AbsSharers ==
  ASSUME NEW x \in Machine!Steps[AbsRun], NEW y \in Machine!Steps[AbsRun], NEW b,
         b \in Machine!Step(AbsRun, x).writes,
         b \in Machine!Step(AbsRun, y).reads \cup Machine!Step(AbsRun, y).writes
  PROVE  /\ x[1] = y[1] /\ AbsWorks(x[1], x[2]) /\ AbsWorks(y[1], y[2])
         /\ \/ b = X(x[1]) /\ x[2] % 3 = 0 /\ y[2] % 3 \in {0, 1}
            \/ b = Z(x[1]) /\ x[2] % 3 = 1 /\ y[2] % 3 \in {1, 2}
            \/ x = y
<1>1. x[1] \in Abs!Aivs /\ y[1] \in Abs!Aivs /\ x = <<x[1], x[2]>> /\ y = <<y[1], y[2]>>
  BY AbsSteps
<1>2. AbsWorks(x[1], x[2]) /\ AbsWorks(y[1], y[2])
  BY AbsTouches
<1>5. x[2] % 3 \in {0, 1, 2} /\ y[2] % 3 \in {0, 1, 2}
  BY AbsPipes
<1>6. \/ x[2] % 3 = 0 /\ b = X(x[1])
      \/ x[2] % 3 = 1 /\ b = Z(x[1])
      \/ x[2] % 3 = 2 /\ b = Abs!Out(AbsTile(x[1], x[2]))
  BY AbsTouches
<1>7. \/ y[2] % 3 \in {0, 1} /\ b = X(y[1])
      \/ y[2] % 3 \in {1, 2} /\ b = Z(y[1])
      \/ y[2] % 3 = 2 /\ b = Abs!Out(AbsTile(y[1], y[2]))
  BY AbsTouches
<1>8. \A t, u : /\ X(x[1]) # Z(y[1]) /\ X(x[1]) # Abs!Out(t) /\ Z(x[1]) # Abs!Out(t)
                /\ X(y[1]) # Z(x[1]) /\ X(y[1]) # Abs!Out(t) /\ Z(y[1]) # Abs!Out(t)
                /\ (X(x[1]) = X(y[1]) => x[1] = y[1])
                /\ (Z(x[1]) = Z(y[1]) => x[1] = y[1])
                /\ (Abs!Out(t) = Abs!Out(u) => t = u)
  BY <1>1, AbsBuffersDiffer
<1>3. CASE x[2] % 3 # 2
  BY <1>2, <1>3, <1>5, <1>6, <1>7, <1>8
<1>4. CASE x[2] % 3 = 2
  <2>1. y[2] % 3 = 2 /\ AbsTile(x[1], x[2]) = AbsTile(y[1], y[2])
    BY <1>4, <1>6, <1>7, <1>8
  <2> DEFINE k == x[2] \div 3
             n == y[2] \div 3
  <2>2. k \in 1 .. AbsPer /\ n \in 1 .. AbsPer /\ x[2] = 3 * k + 2 /\ y[2] = 3 * n + 2
    <3>1. /\ AbsM(x[1]) \in Nat /\ AbsM(x[1]) <= AbsPer
          /\ AbsM(y[1]) \in Nat /\ AbsM(y[1]) <= AbsPer /\ AbsPer \in Nat
      <4>1. AivCores \in Nat \ {0} /\ AbsTiles \in Nat
        BY VectorAssumption
      <4> QED
        BY <1>1, <4>1, AbsTilesOf, Shares DEF AbsPer
    <3> QED
      BY <1>2, <1>4, <2>1, <3>1 DEF AbsWorks
  <2> HIDE DEF k, n
  <2>3. x[1] * AbsPer + k - 1 = y[1] * AbsPer + n - 1
    BY <2>1 DEF AbsTile, k, n
  <2>4. x[1] = y[1] /\ k = n
    BY <1>1, <2>2, <2>3, AbsTilesApart
  <2> QED
    BY <1>1, <1>2, <2>2, <2>4
<1> QED
  BY <1>3, <1>4

LEMMA AbsBefore ==
  ASSUME NEW x \in Machine!Steps[AbsRun], NEW y \in Machine!Steps[AbsRun], x[1] = y[1]
  PROVE  Machine!Before(AbsRun, Machine!Straight(AbsRun, AbsClock), x, y) <=>
           x[2] < AbsClock[y[1]][y[2]][Machine!Step(AbsRun, x).pipe]
<1>1. Machine!Step(AbsRun, x).pipe # "ALL"
  BY AbsPipes
<1> QED
  BY <1>1, AbsSteps, AbsWellFormed, Machine!StraightBefore

\* Of two steps on a buffer of a core, one of them writing, the one whose
\* position is before the other's is over before the other goes on.
LEMMA AbsOrdered ==
  ASSUME NEW x \in Machine!Steps[AbsRun], NEW y \in Machine!Steps[AbsRun], x[1] = y[1],
         AbsWorks(x[1], x[2]), AbsWorks(y[1], y[2]), x[2] < y[2],
         \/ x[2] % 3 \in {0, 1} /\ y[2] % 3 = 0
         \/ x[2] % 3 \in {0, 1, 2} /\ y[2] % 3 = 1
         \/ x[2] % 3 = 1 /\ y[2] % 3 = 2
  PROVE  Machine!Before(AbsRun, Machine!Straight(AbsRun, AbsClock), x, y)
<1> DEFINE p == Machine!Step(AbsRun, x).pipe
           own == AbsClock[y[1]][y[2]][p]
           i == x[2]
           j == y[2]
<1>1. /\ i \in Nat /\ j \in Nat /\ i >= 3 /\ i < j
      /\ p = IF i % 3 = 0 THEN "MTE2" ELSE IF i % 3 = 1 THEN "V" ELSE "MTE3"
  BY AbsPipes DEF AbsWorks
<1>2. p \in Machine!Pipes
  BY <1>1 DEF Machine!Pipes
<1>3. /\ j % 3 = 0 => own = IF p = "V" THEN j - 1 ELSE IF p = "MTE2" /\ j # 3 THEN j - 2 ELSE 0
      /\ j % 3 = 1 => own = IF p = "MTE2" THEN j ELSE IF p = "MTE3" THEN j - 1
                            ELSE IF p = "V" THEN j - 2 ELSE 0
      /\ j % 3 = 2 => own = IF p = "V" THEN j ELSE 0
  BY <1>2, AbsClockIs
<1>4. \/ i % 3 \in {0, 1} /\ j % 3 = 0
      \/ i % 3 \in {0, 1, 2} /\ j % 3 = 1
      \/ i % 3 = 1 /\ j % 3 = 2
  OBVIOUS
<1> HIDE DEF p, own, i, j
<1>5. i < own
  <2>1. CASE j % 3 = 0
    BY <1>1, <1>3, <1>4, <2>1
  <2>2. CASE j % 3 = 1
    BY <1>1, <1>3, <1>4, <2>2
  <2>3. CASE j % 3 = 2
    BY <1>1, <1>3, <1>4, <2>3
  <2> QED
    BY <1>4, <2>1, <2>2, <2>3
<1> QED
  BY <1>5, AbsBefore DEF i, own, p

\* x is loaded and computed from in turn, z computed and stored; each tile of
\* the output is stored once.
LEMMA AbsUnraced == Machine!Unraced(AbsRun, Machine!Straight(AbsRun, AbsClock), {})
<1> SUFFICES ASSUME NEW b \in Machine!Buffers[AbsRun], NEW x \in Machine!Writers[AbsRun][b],
                    NEW y \in Machine!Steps[AbsRun], y # x,
                    b \in Machine!Step(AbsRun, y).reads \cup Machine!Step(AbsRun, y).writes
             PROVE  \/ Machine!Before(AbsRun, Machine!Straight(AbsRun, AbsClock), x, y)
                    \/ Machine!Before(AbsRun, Machine!Straight(AbsRun, AbsClock), y, x)
  BY DEF Machine!Unraced
<1>1. x \in Machine!Steps[AbsRun] /\ b \in Machine!Step(AbsRun, x).writes
  BY AbsSteps, AbsWellFormed, Machine!WritersAre
<1>2. /\ x[1] = y[1] /\ AbsWorks(x[1], x[2]) /\ AbsWorks(y[1], y[2])
      /\ \/ x[2] % 3 = 0 /\ y[2] % 3 \in {0, 1}
         \/ x[2] % 3 = 1 /\ y[2] % 3 \in {1, 2}
  BY <1>1, AbsSharers
<1>3. x[2] < y[2] \/ y[2] < x[2]
  <2>1. x = <<x[1], x[2]>> /\ y = <<y[1], y[2]>> /\ x[2] \in Nat /\ y[2] \in Nat
    BY <1>1, AbsSteps
  <2> QED
    BY <1>2, <2>1
<1>4. CASE x[2] < y[2]
  BY <1>1, <1>2, <1>4, AbsOrdered
<1>5. CASE y[2] < x[2]
  BY <1>1, <1>2, <1>5, AbsOrdered
<1> QED
  BY <1>3, <1>4, <1>5

\* What is computed from is the tile loaded one position before, what is
\* stored the one computed one position before.
LEMMA AbsFindsOwn == Machine!FindsOwn(AbsRun, Machine!Straight(AbsRun, AbsClock), {})
<1> DEFINE Earlier(x, y) == Machine!Before(AbsRun, Machine!Straight(AbsRun, AbsClock), x, y)
<1> SUFFICES ASSUME NEW y \in Machine!Steps[AbsRun], NEW n \in Machine!Step(AbsRun, y).needs
             PROVE  LET W == Machine!Writers[AbsRun][n[1]]
                        later == {w \in W : w = y \/ Earlier(y, w)}
                    IN /\ \A w \in W \ later : Earlier(w, y)
                       /\ \E x \in W \ later :
                            /\ Machine!Step(AbsRun, x).gives = n[2]
                            /\ \A w \in W \ (later \cup {x}) : Earlier(w, x)
  BY Zenon DEF Machine!FindsOwn, Machine!LastGives
<1> DEFINE c == y[1]
           j == y[2]
           W == Machine!Writers[AbsRun][n[1]]
           x == <<c, j - 1>>
           mod == j % 3
<1>1. c \in Abs!Aivs /\ AbsM(c) \in Nat /\ y = <<c, j>> /\ j \in 1 .. 3 * AbsM(c) + 4
  BY AbsSteps
<1>2. /\ AbsWorks(c, j) /\ mod \in {1, 2}
      /\ n[2] = <<IF mod = 1 THEN "x" ELSE "z", AbsTile(c, j), 0>>
      /\ n[1] = IF mod = 1 THEN X(c) ELSE Z(c)
  <2>1. /\ AbsWorks(c, j)
        /\ \/ mod = 1 /\ n = <<X(c), <<"x", AbsTile(c, j), 0>>>>
           \/ mod = 2 /\ n = <<Z(c), <<"z", AbsTile(c, j), 0>>>>
    BY AbsTouches
  <2> HIDE DEF c, j, mod
  <2> QED
    BY <2>1
<1>3. /\ x \in Machine!Steps[AbsRun] /\ AbsWorks(c, j - 1) /\ (j - 1) % 3 = mod - 1
      /\ AbsTile(c, j - 1) = AbsTile(c, j)
  <2>1. /\ j - 1 \in 1 .. 3 * AbsM(c) + 4 /\ AbsWorks(c, j - 1) /\ (j - 1) % 3 = mod - 1
        /\ (j - 1) \div 3 = j \div 3
    <3> HIDE DEF c, j
    <3> QED
      BY <1>1, <1>2 DEF AbsWorks
  <2> QED
    BY <1>1, <2>1, AbsSteps DEF AbsTile
<1>4. x[1] = c /\ x[2] = j - 1 /\ n[1] \in Machine!Step(AbsRun, x).writes
      /\ Machine!Step(AbsRun, x).gives = n[2]
  <2>1. x[1] = c /\ x[2] = j - 1
    OBVIOUS
  <2> HIDE DEF x
  <2>2. /\ \A b : b \in Machine!Step(AbsRun, x).writes <=>
             /\ AbsWorks(c, j - 1)
             /\ \/ mod - 1 = 0 /\ b = X(c)
                \/ mod - 1 = 1 /\ b = Z(c)
                \/ mod - 1 = 2 /\ b = Abs!Out(AbsTile(c, j))
        /\ Machine!Step(AbsRun, x).gives = <<IF mod - 1 = 0 THEN "x" ELSE "z", AbsTile(c, j), 0>>
    <3>1. /\ \A b : b \in Machine!Step(AbsRun, x).writes <=>
               /\ AbsWorks(x[1], x[2])
               /\ \/ x[2] % 3 = 0 /\ b = X(x[1])
                  \/ x[2] % 3 = 1 /\ b = Z(x[1])
                  \/ x[2] % 3 = 2 /\ b = Abs!Out(AbsTile(x[1], x[2]))
          /\ AbsWorks(x[1], x[2]) =>
               Machine!Step(AbsRun, x).gives =
                 IF x[2] % 3 = 0 THEN <<"x", AbsTile(x[1], x[2]), 0>>
                 ELSE <<"z", AbsTile(x[1], x[2]), 0>>
      BY <1>3, AbsTouches
    <3> HIDE DEF c, j, mod
    <3> QED
      BY <1>3, <2>1, <3>1
  <2> HIDE DEF c, j, mod
  <2> QED
    BY <1>2, <1>3, <2>1, <2>2
<1>5. n[1] \in Machine!Buffers[AbsRun]
  BY <1>3, <1>4, AbsSteps, Machine!StepBuffers
<1>6. \A w : w \in W <=> w \in Machine!Steps[AbsRun] /\ n[1] \in Machine!Step(AbsRun, w).writes
  BY <1>5, AbsSteps, AbsWellFormed, Machine!WritersAre
<1> HIDE DEF W, x, c, j, mod
<1>7. ASSUME NEW w \in W
      PROVE  /\ w \in Machine!Steps[AbsRun] /\ w[1] = c /\ AbsWorks(c, w[2]) /\ w[2] \in Nat
             /\ w[2] % 3 = mod - 1 /\ w[2] # j /\ w # y /\ w = <<c, w[2]>>
  <2>1. w \in Machine!Steps[AbsRun] /\ n[1] \in Machine!Step(AbsRun, w).writes
    BY <1>6
  <2>2. w[1] \in Abs!Aivs /\ w = <<w[1], w[2]>> /\ w[2] \in Nat
    BY <2>1, AbsSteps
  <2>3. /\ AbsWorks(w[1], w[2])
        /\ \/ w[2] % 3 = 0 /\ n[1] = X(w[1])
           \/ w[2] % 3 = 1 /\ n[1] = Z(w[1])
           \/ w[2] % 3 = 2 /\ n[1] = Abs!Out(AbsTile(w[1], w[2]))
    BY <2>1, AbsTouches
  <2>4. \A t : /\ X(c) # Z(w[1]) /\ X(c) # Abs!Out(t) /\ Z(c) # Abs!Out(t) /\ X(w[1]) # Z(c)
               /\ (X(c) = X(w[1]) => c = w[1]) /\ (Z(c) = Z(w[1]) => c = w[1])
    <3> DEFINE d == w[1]
    <3>1. d \in Abs!Aivs
      BY <2>2
    <3> HIDE DEF d
    <3>2. \A t : /\ X(c) # Z(d) /\ X(c) # Abs!Out(t) /\ Z(c) # Abs!Out(t)
                 /\ (X(c) = X(d) <=> c = d) /\ (Z(c) = Z(d) <=> c = d)
      BY <1>1, <3>1, AbsBuffersDiffer
    <3>3. X(d) # Z(c)
      BY <1>1, <3>1, AbsBuffersDiffer
    <3> QED
      BY <3>2, <3>3 DEF d
  <2>5. w[1] = c /\ w[2] % 3 = mod - 1
    BY <1>2, <2>3, <2>4
  <2>6. w[2] # j
    BY <1>2, <2>5 DEF mod
  <2> QED
    BY <2>1, <2>2, <2>3, <2>5, <2>6, <1>1 DEF c, j
<1>8. ASSUME NEW w \in W, w[2] < j
      PROVE  Earlier(w, y)
  BY <1>1, <1>2, <1>7, <1>8, AbsOrdered DEF mod, c, j
<1>9. ASSUME NEW w \in W, w[2] > j
      PROVE  Earlier(y, w)
  BY <1>1, <1>2, <1>7, <1>9, AbsOrdered DEF mod, c, j
<1>10. ASSUME NEW w \in W, w[2] < j - 1
       PROVE  Earlier(w, x)
  BY <1>1, <1>2, <1>3, <1>4, <1>7, <1>10, AbsOrdered
<1>11. x \in W /\ x # y /\ ~Earlier(y, x)
  <2>1. x \in W /\ x # y
    BY <1>3, <1>4, <1>6, <1>7
  <2> DEFINE p == Machine!Step(AbsRun, y).pipe
  <2>2. p = (IF mod = 1 THEN "V" ELSE "MTE3") /\ p \in Machine!Pipes
    BY <1>2, AbsPipes DEF mod, j, Machine!Pipes
  <2> HIDE DEF p
  <2>3. AbsClock[x[1]][x[2]][p] = j - 2
    BY <1>1, <1>2, <1>3, <1>4, <2>2, AbsClockIs
  <2>4. Earlier(y, x) <=> j < j - 2
    <3>1. x[1] = y[1]
      BY <1>4 DEF c
    <3> QED
      BY <1>3, <2>3, <3>1, AbsBefore DEF p, j
  <2> QED
    BY <1>1, <2>1, <2>4
<1> HIDE DEF Earlier
<1> DEFINE later == {w \in W : w = y \/ Earlier(y, w)}
<1>12. \A w \in W \ later : w[2] < j /\ Earlier(w, y)
  BY <1>1, <1>7, <1>8, <1>9
<1>13. x \in W \ later
  BY <1>11
<1>14. \A w \in W \ (later \cup {x}) : Earlier(w, x)
  <2> SUFFICES ASSUME NEW w \in W \ (later \cup {x})
               PROVE  Earlier(w, x)
    OBVIOUS
  <2>1. w[2] < j /\ w[2] \in Nat /\ w = <<c, w[2]>>
    BY <1>7, <1>12
  <2>2. w[2] # j - 1
    BY <2>1 DEF x
  <2> QED
    BY <1>1, <1>10, <2>1, <2>2
<1> QED
  BY <1>4, <1>12, <1>13, <1>14 DEF W

\* Every tile of the output is stored by some core.
LEMMA AbsLeaves ==
  Machine!Leaves(AbsRun, Machine!Straight(AbsRun, AbsClock), Outputs[AbsRun])
<1> SUFFICES ASSUME NEW t \in 0 .. AbsTiles - 1
             PROVE  LET b == Abs!Out(t)
                        W == Machine!Writers[AbsRun][b]
                    IN /\ b \in Machine!Buffers[AbsRun]
                       /\ \E x \in W :
                            /\ Machine!Step(AbsRun, x).gives = <<"z", t, 0>>
                            /\ \A w \in W : w = x
  BY AbsHere DEF Machine!Leaves, Machine!LastGives, Abs!Outputs
<1>1. AivCores \in Nat \ {0} /\ AbsTiles \in Nat \ {0} /\ t \in Nat /\ t < AbsTiles
  BY VectorAssumption
<1>2. AbsPer \in Nat /\ AivCores * AbsPer >= AbsTiles
  BY <1>1, Shares DEF AbsPer
<1>3. AbsPer # 0
  BY <1>1, <1>2
<1> DEFINE c == t \div AbsPer
           k == (t % AbsPer) + 1
           x == <<c, 3 * k + 2>>
<1>4. c \in Nat /\ k \in 1 .. AbsPer /\ t = c * AbsPer + k - 1
  BY <1>1, <1>2, <1>3
<1> HIDE DEF c, k
<1>5. c < AivCores
  <2>1. ASSUME c >= AivCores
        PROVE  FALSE
    <3>1. c * AbsPer >= AivCores * AbsPer
      <4>1. \A a, u, per \in Nat : a >= u => a * per >= u * per
        OBVIOUS
      <4> QED
        BY <1>1, <1>2, <1>4, <2>1, <4>1
    <3> DEFINE u == c * AbsPer
               v == AivCores * AbsPer
    <3>2. u \in Nat /\ v \in Nat
      BY <1>1, <1>2, <1>4
    <3> HIDE DEF u, v
    <3>3. t = u + k - 1 /\ u >= v /\ v >= AbsTiles
      BY <1>2, <1>4, <3>1 DEF u, v
    <3> QED
      BY <1>1, <1>2, <1>4, <3>2, <3>3
  <2> QED
    BY <1>1, <1>4, <2>1
<1>6. c \in Abs!Aivs
  BY <1>1, <1>4, <1>5 DEF Abs!Aivs
<1>7. AbsM(c) \in Nat /\ k \in 1 .. AbsM(c)
  BY <1>1, <1>4, <1>6, AbsTilesOf DEF AbsPer
<1>8. /\ x \in Machine!Steps[AbsRun] /\ x[1] = c /\ x[2] = 3 * k + 2 /\ x[2] % 3 = 2
      /\ AbsWorks(c, x[2]) /\ AbsTile(c, x[2]) = t
  <2>1. 3 * k + 2 \in 1 .. 3 * AbsM(c) + 4 /\ (3 * k + 2) % 3 = 2 /\ (3 * k + 2) \div 3 = k
        /\ 3 * k + 2 \in 3 .. 3 * AbsM(c) + 2
    BY <1>7
  <2> QED
    BY <1>4, <1>6, <2>1, AbsSteps DEF AbsTile, AbsWorks
<1> HIDE DEF x
<1>9. Abs!Out(t) \in Machine!Step(AbsRun, x).writes
      /\ Machine!Step(AbsRun, x).gives = <<"z", t, 0>>
  <2>1. /\ \A b : b \in Machine!Step(AbsRun, x).writes <=>
             /\ AbsWorks(x[1], x[2])
             /\ \/ x[2] % 3 = 0 /\ b = X(x[1])
                \/ x[2] % 3 = 1 /\ b = Z(x[1])
                \/ x[2] % 3 = 2 /\ b = Abs!Out(AbsTile(x[1], x[2]))
        /\ AbsWorks(x[1], x[2]) =>
             Machine!Step(AbsRun, x).gives =
               IF x[2] % 3 = 0 THEN <<"x", AbsTile(x[1], x[2]), 0>>
               ELSE <<"z", AbsTile(x[1], x[2]), 0>>
    BY <1>8, AbsTouches
  <2>2. x[2] % 3 = 2 /\ x[1] = c /\ AbsWorks(x[1], x[2]) /\ AbsTile(x[1], x[2]) = t
    BY <1>8
  <2>3. x[2] % 3 # 0
    BY <2>2
  <2> QED
    BY <2>1, <2>2, <2>3, Zenon
<1>10. Abs!Out(t) \in Machine!Buffers[AbsRun]
  BY <1>8, <1>9, AbsSteps, Machine!StepBuffers
<1>11. \A w : w \in Machine!Writers[AbsRun][Abs!Out(t)] <=>
         w \in Machine!Steps[AbsRun] /\ Abs!Out(t) \in Machine!Step(AbsRun, w).writes
  BY <1>10, AbsSteps, AbsWellFormed, Machine!WritersAre
<1>12. ASSUME NEW w \in Machine!Writers[AbsRun][Abs!Out(t)]
       PROVE  w = x
  BY <1>8, <1>9, <1>11, AbsSharers
<1> QED
  BY <1>8, <1>9, <1>10, <1>11, <1>12

-----------------------------------------------------------------------------
AbsWalk == [run \in {AbsRun} |-> Machine!Straight(AbsRun, AbsClock)]

LEMMA AbsSynchronized ==
  Machine!Synchronized(AbsRun, Machine!Straight(AbsRun, AbsClock), {}, {}, Outputs[AbsRun])
<1>1. AbsRun \in Machine!Kernels
  BY AbsSteps
<1>2. Machine!ReturnsInTurn(AbsRun, Machine!Straight(AbsRun, AbsClock), {})
  BY <1>1, AbsWellFormed, AbsFlagsHavePipes, AbsMatched, Machine!StraightReturns
<1>3. Machine!IsClock(AbsRun, Machine!Straight(AbsRun, AbsClock))
  BY <1>1, AbsWellFormed, AbsOwnClock, Machine!StraightClock
<1> QED
  BY <1>2, <1>3, AbsWellFormed, AbsFlagsHavePipes, AbsUnraced, AbsFindsOwn, AbsLeaves
  DEF Machine!Synchronized

\* Launched for any number of tiles on any number of vector cores, abs
\* returns with its flags down and every tile of its output in GM, no pipe
\* touches a buffer another is still using, and every computation and store
\* finds in its buffer the tile it is about.
THEOREM AbsRuns ==
  Spec /\ kernel = AbsRun => [](KernelsRaceFree /\ KernelsInOrder /\ KernelsReturn)
<1>1. {AbsRun} \subseteq DOMAIN Programs
  BY AbsHere
<1>2. Machine!AllSynchronized({AbsRun}, AbsWalk, None, None, Outputs)
  <2>1. AbsWalk[AbsRun] = Machine!Straight(AbsRun, AbsClock) /\ None[AbsRun] = {}
    BY <1>1 DEF AbsWalk, None
  <2>2. Machine!Synchronized(AbsRun, AbsWalk[AbsRun], None[AbsRun], None[AbsRun], Outputs[AbsRun])
    BY <2>1, AbsSynchronized
  <2> QED
    BY <2>2, Zenon DEF Machine!AllSynchronized
<1>3. Spec /\ kernel \in {AbsRun} => []RunsWell
  BY <1>1, <1>2, KernelRuns
<1>4. Spec => [][Core!Next]_(Core!machine)
  BY PTL DEF Spec, Core!Spec
<1>5. kernel = AbsRun /\ [Core!Next]_(Core!machine) => (kernel = AbsRun)'
  BY DEF Core!Next, Core!Execute, Core!Barrier, Core!machine
<1>6. RunsWell /\ kernel = AbsRun => KernelsRaceFree /\ KernelsInOrder /\ KernelsReturn
  <2> SUFFICES ASSUME RunsWell, kernel = AbsRun
               PROVE  KernelsRaceFree /\ KernelsInOrder /\ KernelsReturn
    OBVIOUS
  <2>1. /\ Core!RaceFreeBut({}) /\ Core!ReadsOwnBut({})
        /\ Core!Quiescent => /\ Core!Returned /\ Core!FlagsDownBut({})
                             /\ \A o \in Outputs[kernel] : mem[o[1]] = o[2]
    BY SamePromises DEF RunsWell
  <2>2. kernel \notin CodeRuns
    BY AbsHere
  <2> QED
    BY <2>1, <2>2 DEF KernelsRaceFree, KernelsInOrder, KernelsReturn, OutputsThere
<1>7. kernel \in {AbsRun} <=> kernel = AbsRun
  OBVIOUS
<1> QED
  BY <1>3, <1>4, <1>5, <1>6, <1>7, PTL
=============================================================================
