----------------------------- MODULE SpatialProofs -----------------------------
(***************************************************************************)
(* What holds of every position table, box, limit and order of searches:   *)
(* the grid has each position in the row of its cell, at either level of   *)
(* detail the tiles of a box cover the cells of all positions inside it,   *)
(* and so a search returns what it should.                                 *)
(*                                                                         *)
(* The loops are recursive functions; each is unfolded once                *)
(* (FiniteNatInductiveDef) and followed by a least counterexample.         *)
(***************************************************************************)
EXTENDS Spatial, SequenceTheorems, FiniteSetTheorems, WellFoundedInduction, TLAPS

(* A set of natural numbers has a least element. *)
LEMMA LeastNat ==
    ASSUME NEW S \in SUBSET Nat, S # {}
    PROVE  \E m \in S : \A k \in S : m <= k
<1> DEFINE R == OpToRel(<, Nat)
<1>1. IsWellFoundedOn(R, Nat) BY NatLessThanWellFounded
<1>2. \A x, y \in Nat : x < y => <<x, y>> \in R BY DEF OpToRel
<1> HIDE DEF R
<1>3. PICK x \in S : \A y \in S : ~ (<<y, x>> \in R) BY <1>1, WFMin
<1>4. ASSUME NEW y \in S, y < x PROVE FALSE
  <2>1. x \in Nat /\ y \in Nat OBVIOUS
  <2>2. <<y, x>> \in R BY <2>1, <1>2, <1>4
  <2>. QED BY <2>2, <1>3
<1>5. \A y \in S : y \in Nat OBVIOUS
<1>. QED BY <1>4, <1>5

(* Induction up to n, over a set. *)
LEMMA ClimbTo ==
    ASSUME NEW n \in Nat, NEW P, 0 \in P, \A k \in 1 .. n : k - 1 \in P => k \in P
    PROVE  \A k \in 0 .. n : k \in P
<1> DEFINE Bad == {k \in 0 .. n : k \notin P}
<1> SUFFICES ASSUME Bad # {} PROVE FALSE OBVIOUS
<1>1. Bad \in SUBSET Nat OBVIOUS
<1>2. PICK k \in Bad : \A j \in Bad : k <= j BY <1>1, LeastNat
<1>3. k \in 1 .. n /\ k - 1 \in 0 .. n /\ k - 1 \notin Bad BY <1>2
<1>. QED BY <1>2, <1>3

-----------------------------------------------------------------------------
(* Division *)

(* The quotient is the only number that leaves a remainder below d. *)
LEMMA Quotient ==
    ASSUME NEW a \in Int, NEW d \in Nat \ {0}
    PROVE  /\ a \div d \in Int
           /\ (a \div d) * d <= a /\ a < (a \div d) * d + d
<1>1. a = d * (a \div d) + (a % d) /\ a % d \in 0 .. d - 1 /\ a \div d \in Int
  OBVIOUS
<1> DEFINE q == a \div d
           r == a % d
<1> HIDE DEF q, r
<1>2. a = d * q + r /\ r \in 0 .. d - 1 /\ q \in Int BY <1>1 DEF q, r
<1>3. q \in Int /\ q * d <= a /\ a < q * d + d BY <1>2
<1>. QED BY <1>3 DEF q

LEMMA Times ==
    ASSUME NEW p \in Int, NEW q \in Int, NEW d \in Nat, p <= q
    PROVE  p * d <= q * d
<1>1. (q - p) \in Nat OBVIOUS
<1>2. (q - p) * d >= 0 BY <1>1
<1>3. (q - p) * d = q * d - p * d OBVIOUS
<1>. QED BY <1>2, <1>3

(* It grows with what is divided. *)
LEMMA QuotientGrows ==
    ASSUME NEW a \in Int, NEW b \in Int, a <= b, NEW d \in Nat \ {0}
    PROVE  a \div d <= b \div d
<1> DEFINE p == a \div d
           q == b \div d
<1>1. p \in Int /\ p * d <= a /\ q \in Int /\ b < q * d + d BY Quotient
<1> HIDE DEF p, q
<1>2. p * d < q * d + d BY <1>1
<1>3. ASSUME p >= q + 1 PROVE FALSE
  <2>1. (q + 1) * d <= p * d BY <1>1, <1>3, Times
  <2>2. (q + 1) * d = q * d + d BY <1>1
  <2>3. q * d \in Int /\ p * d \in Int BY <1>1
  <2>. QED BY <1>2, <2>1, <2>2, <2>3
<1>4. p <= q BY <1>1, <1>3
<1>. QED BY <1>4 DEF p, q

(* Twice as much, divided, has a quotient of twice as much or one more. *)
LEMMA QuotientTwice ==
    ASSUME NEW a \in Int, NEW d \in Nat \ {0}
    PROVE  (2 * a) \div d \in {2 * (a \div d), 2 * (a \div d) + 1}
<1> DEFINE p == a \div d
           q == (2 * a) \div d
<1>1. /\ p \in Int /\ p * d <= a /\ a < p * d + d
      /\ q \in Int /\ q * d <= 2 * a /\ 2 * a < q * d + d
  BY Quotient
<1> HIDE DEF p, q
<1> DEFINE pd == p * d
           qd == q * d
<1>2. (2 * p - 1) * d = 2 * pd - d /\ (2 * p + 2) * d = 2 * pd + 2 * d BY <1>1
<1>3. pd \in Int /\ qd \in Int BY <1>1
<1>4. ASSUME q <= 2 * p - 1 PROVE FALSE
  <2>1. qd <= (2 * p - 1) * d BY <1>1, <1>4, Times
  <2> HIDE DEF pd, qd
  <2>2. qd <= 2 * pd - d BY <2>1, <1>2
  <2>3. 2 * pd < qd + d BY <1>1, <1>3 DEF pd, qd
  <2>. QED BY <1>3, <2>2, <2>3
<1>5. ASSUME q >= 2 * p + 2 PROVE FALSE
  <2>1. (2 * p + 2) * d <= qd BY <1>1, <1>5, Times
  <2> HIDE DEF pd, qd
  <2>2. 2 * pd + 2 * d <= qd BY <2>1, <1>2
  <2>3. qd < 2 * pd + 2 * d BY <1>1, <1>3 DEF pd, qd
  <2>. QED BY <1>3, <2>2, <2>3
<1>6. q \in {2 * p, 2 * p + 1} BY <1>1, <1>4, <1>5
<1>. QED BY <1>6 DEF p, q

-----------------------------------------------------------------------------
(* Tiles *)

(* A level has twice the tiles of the one before. *)
LEMMA TileCounts ==
    /\ TileCount[0] = 1
    /\ \A n \in Nat : TileCount[n] \in Nat \ {0} /\ TileCount[n + 1] = 2 * TileCount[n]
<1> DEFINE Def(v, k) == 2 * v
           T == CHOOSE g : g = [k \in Nat |-> IF k = 0 THEN 1 ELSE Def(g[k - 1], k)]
<1>1. TileCount = T BY DEF TileCount
<1>2. NatInductiveDefHypothesis(T, 1, Def) BY DEF NatInductiveDefHypothesis
<1> HIDE DEF T
<1>3. NatInductiveDefConclusion(T, 1, Def) BY <1>2, NatInductiveDef
<1>4. T = [k \in Nat |-> IF k = 0 THEN 1 ELSE 2 * T[k - 1]]
  BY <1>3 DEF NatInductiveDefConclusion
<1>5. T[0] = 1 BY <1>4
<1>6. \A n \in Nat : T[n + 1] = 2 * T[n]
  <2> SUFFICES ASSUME NEW n \in Nat PROVE T[n + 1] = 2 * T[n] OBVIOUS
  <2>1. n + 1 \in Nat /\ n + 1 # 0 /\ (n + 1) - 1 = n OBVIOUS
  <2>. QED BY <1>4, <2>1
<1>7. ASSUME NEW n \in Nat PROVE T[n] \in Nat \ {0}
  <2> DEFINE P == {k \in Nat : T[k] \in Nat \ {0}}
  <2>1. 0 \in P BY <1>5
  <2>2. \A k \in 1 .. n : k - 1 \in P => k \in P
    <3> SUFFICES ASSUME NEW k \in 1 .. n, T[k - 1] \in Nat \ {0} PROVE T[k] \in Nat \ {0}
      OBVIOUS
    <3>1. k - 1 \in Nat /\ (k - 1) + 1 = k OBVIOUS
    <3>2. T[k] = 2 * T[k - 1] BY <1>6, <3>1
    <3>. QED BY <3>2
  <2> HIDE DEF P
  <2>3. \A k \in 0 .. n : k \in P BY <2>1, <2>2, ClimbTo
  <2>4. n \in 0 .. n OBVIOUS
  <2>. QED BY <2>3, <2>4 DEF P
<1>. QED BY <1>1, <1>5, <1>6, <1>7

LEMMA TileInRange ==
    ASSUME NEW v \in Int, NEW n \in Nat \ {0}
    PROVE  WorldToTile(v, n) \in 0 .. n - 1
<1>1. ((v + Scale) * n) \div (2 * Scale) \in Int
  <2>1. (v + Scale) * n \in Int /\ 2 * Scale \in Nat \ {0} BY GridOK
  <2>. QED BY <2>1, Quotient
<1>. QED BY <1>1 DEF WorldToTile, Clamp

LEMMA TileGrows ==
    ASSUME NEW v \in Int, NEW w \in Int, v <= w, NEW n \in Nat \ {0}
    PROVE  WorldToTile(v, n) <= WorldToTile(w, n)
<1> DEFINE a == (v + Scale) * n
           b == (w + Scale) * n
           d == 2 * Scale
<1>1. a \in Int /\ b \in Int /\ a <= b /\ d \in Nat \ {0}
  <2>1. v + Scale \in Int /\ w + Scale \in Int /\ v + Scale <= w + Scale BY GridOK
  <2>. QED BY <2>1, Times, GridOK
<1>2. WorldToTile(v, n) = Clamp(a \div d, n - 1) /\ WorldToTile(w, n) = Clamp(b \div d, n - 1)
  BY DEF WorldToTile
<1> HIDE DEF a, b, d
<1>3. a \div d <= b \div d /\ a \div d \in Int /\ b \div d \in Int
  BY <1>1, QuotientGrows, Quotient
<1>. QED BY <1>2, <1>3 DEF Clamp

(* Each tile of a level is two of the next, at the edges of the world too. *)
LEMMA TileHalves ==
    ASSUME NEW v \in Int, NEW n \in Nat \ {0}
    PROVE  WorldToTile(v, 2 * n) \in {2 * WorldToTile(v, n), 2 * WorldToTile(v, n) + 1}
<1> DEFINE a == (v + Scale) * n
           d == 2 * Scale
<1>1. /\ a \in Int /\ d \in Nat \ {0}
      /\ (v + Scale) * (2 * n) = 2 * a
  BY GridOK
<1>2. WorldToTile(v, n) = Clamp(a \div d, n - 1)
      /\ WorldToTile(v, 2 * n) = Clamp((2 * a) \div d, 2 * n - 1)
  BY <1>1 DEF WorldToTile
<1> HIDE DEF a, d
<1>3. a \div d \in Int /\ (2 * a) \div d \in {2 * (a \div d), 2 * (a \div d) + 1}
  BY <1>1, Quotient, QuotientTwice
<1>. QED BY <1>2, <1>3 DEF Clamp

LEMMA GridShape ==
    /\ GridSize \in Nat \ {0}
    /\ CellRatio(Bits) = 1
    /\ TileCount[Bits] = GridSize
    /\ CellRatio(Bits - 1) = 2
    /\ TileCount[Bits - 1] \in Nat \ {0} /\ GridSize = 2 * TileCount[Bits - 1]
<1>1. Bits \in Nat /\ Bits - 1 \in Nat /\ (Bits - 1) + 1 = Bits /\ 0 + 1 = 1 /\ Bits - (Bits - 1) = 1
  BY GridOK
<1>2. TileCount[1] = 2 BY <1>1, TileCounts
<1>3. GridSize = TileCount[Bits] BY DEF GridSize
<1>4. TileCount[Bits] \in Nat \ {0} /\ TileCount[Bits - 1] \in Nat \ {0}
      /\ TileCount[Bits] = 2 * TileCount[Bits - 1]
  BY <1>1, TileCounts
<1>5. CellRatio(Bits) = 1 BY <1>1 DEF CellRatio
<1>6. CellRatio(Bits - 1) = TileCount[1]
  <2>1. Bits - 1 < Bits BY <1>1
  <2>. QED BY <1>1, <2>1 DEF CellRatio
<1>. QED BY <1>2, <1>3, <1>4, <1>5, <1>6

(* The tiles of a range, native or a level coarser, cover the cell of every *)
(* coordinate in it.                                                        *)
LEMMA SpanCovers ==
    ASSUME NEW range \in Int \X Int, NEW v \in Int, range[1] <= v, v <= range[2],
           NEW lod \in {Bits - 1, Bits}
    PROVE  WorldToTile(v, GridSize) \in Span(range, lod)
<1> DEFINE c == WorldToTile(v, GridSize)
           t == WorldToTile(v, TileCount[lod])
           r == CellRatio(lod)
<1>0. range[1] \in Int /\ range[2] \in Int OBVIOUS
<1>1. TileCount[lod] \in Nat \ {0} BY GridShape
<1>2. t \in Nat /\ t \in TileRange(range, lod)
  <2>1. t \in 0 .. TileCount[lod] - 1 BY <1>1, TileInRange
  <2>2. WorldToTile(range[1], TileCount[lod]) <= t /\ t <= WorldToTile(range[2], TileCount[lod])
    BY <1>0, <1>1, TileGrows
  <2>3. WorldToTile(range[1], TileCount[lod]) \in Int /\ WorldToTile(range[2], TileCount[lod]) \in Int
    <3>1. \A w \in Int : WorldToTile(w, TileCount[lod]) \in 0 .. TileCount[lod] - 1
      BY <1>1, TileInRange
    <3>2. 0 .. TileCount[lod] - 1 \subseteq Int BY <1>1
    <3>. QED BY <1>0, <3>1, <3>2
  <2> HIDE DEF t
  <2>. QED BY <1>1, <2>1, <2>2, <2>3 DEF TileRange
<1>3. c \in 0 .. GridSize - 1 BY GridShape, TileInRange
<1>4. t * r <= c /\ c < (t + 1) * r
  <2>1. CASE lod = Bits
    <3>1. r = 1 /\ t = c BY <2>1, GridShape
    <3> HIDE DEF t, r, c
    <3>. QED BY <1>2, <3>1
  <2>2. CASE lod = Bits - 1
    <3>1. r = 2 BY <2>2, GridShape
    <3>2. c \in {2 * t, 2 * t + 1}
      <4> DEFINE n == TileCount[Bits - 1]
      <4>1. n \in Nat \ {0} /\ GridSize = 2 * n BY GridShape
      <4>2. c = WorldToTile(v, 2 * n) /\ t = WorldToTile(v, n) BY <2>2, <4>1
      <4> HIDE DEF n, c, t
      <4>. QED BY <4>1, <4>2, TileHalves
    <3> HIDE DEF t, r, c
    <3>. QED BY <1>2, <3>1, <3>2
  <2>. QED BY <2>1, <2>2
<1> HIDE DEF c, t, r
<1>5. c \in Span(range, lod) BY <1>2, <1>3, <1>4 DEF Span, r
<1>. QED BY <1>5 DEF c

LEMMA LodIs ==
    ASSUME NEW box, NEW limit
    PROVE  EffectiveLod(box, limit) \in {Bits - 1, Bits}
BY DEF EffectiveLod

LEMMA CellInGrid ==
    ASSUME NEW row \in 0 .. GridSize - 1, NEW column \in 0 .. GridSize - 1
    PROVE  Cell(row, column) \in 0 .. TotalCells - 1
<1>1. GridSize \in Nat \ {0} /\ row \in Int /\ column \in Int BY GridShape
<1>2. row * GridSize <= (GridSize - 1) * GridSize BY <1>1, Times
<1>3. (GridSize - 1) * GridSize = GridSize * GridSize - GridSize BY <1>1
<1>4. row * GridSize \in Nat /\ GridSize * GridSize \in Nat BY <1>1
<1>. QED BY <1>1, <1>2, <1>3, <1>4 DEF Cell, TotalCells

LEMMA CellOfInGrid ==
    ASSUME NEW x \in Int, NEW y \in Int
    PROVE  CellOf(x, y) \in 0 .. TotalCells - 1
<1>1. WorldToTile(y, GridSize) \in 0 .. GridSize - 1 /\ WorldToTile(x, GridSize) \in 0 .. GridSize - 1
  BY GridShape, TileInRange
<1>. QED BY <1>1, CellInGrid DEF CellOf

-----------------------------------------------------------------------------
(* Counting *)

\* How many of the first k have a cell before c, and in c.
Low(cells, k, c) == Cardinality({i \in 1 .. k : cells[i] < c})
Count(cells, k, c) == Cardinality({i \in 1 .. k : cells[i] = c})

LEMMA UpToFinite ==
    ASSUME NEW n \in Nat, NEW S \in SUBSET (1 .. n)
    PROVE  IsFiniteSet(S) /\ Cardinality(S) \in 0 .. n
<1>1. IsFiniteSet(1 .. n) /\ Cardinality(1 .. n) = n BY FS_Interval
<1>2. IsFiniteSet(S) /\ Cardinality(S) <= n BY <1>1, FS_Subset
<1>3. Cardinality(S) \in Nat BY <1>2, FS_CardinalityType
<1>. QED BY <1>2, <1>3

(* The cells before the next one are those before this one and this one, *)
LEMMA LowNext ==
    ASSUME NEW n \in Nat, NEW m \in Nat, NEW cells \in [1 .. n -> 0 .. m - 1], NEW c \in Nat
    PROVE  /\ Low(cells, n, c) \in 0 .. n /\ Count(cells, n, c) \in 0 .. n
           /\ Low(cells, n, c + 1) = Low(cells, n, c) + Count(cells, n, c)
<1> DEFINE S == {i \in 1 .. n : cells[i] < c}
           T == {i \in 1 .. n : cells[i] = c}
           U == {i \in 1 .. n : cells[i] < c + 1}
<1>1. U = S \cup T /\ S \cap T = {} /\ S \in SUBSET (1 .. n) /\ T \in SUBSET (1 .. n)
  <2>1. \A i \in 1 .. n : cells[i] \in Int OBVIOUS
  <2>. QED BY <2>1
<1>2. /\ Low(cells, n, c) = Cardinality(S) /\ Low(cells, n, c + 1) = Cardinality(U)
      /\ Count(cells, n, c) = Cardinality(T)
  BY DEF Low, Count
<1> HIDE DEF S, T, U
<1>3. /\ IsFiniteSet(S) /\ IsFiniteSet(T)
      /\ Cardinality(S) \in 0 .. n /\ Cardinality(T) \in 0 .. n
  BY <1>1, UpToFinite
<1>4. Cardinality(U) = Cardinality(S) + Cardinality(T)
  <2>1. Cardinality(S \cap T) = 0 BY <1>1, FS_EmptySet
  <2>2. Cardinality(S \cup T) = Cardinality(S) + Cardinality(T) - Cardinality(S \cap T)
    BY <1>3, FS_Union
  <2>. QED BY <1>1, <1>3, <2>1, <2>2
<1>. QED BY <1>2, <1>3, <1>4

(* and no more than those before any later one. *)
LEMMA LowGrows ==
    ASSUME NEW n \in Nat, NEW m \in Nat, NEW cells \in [1 .. n -> 0 .. m - 1],
           NEW c \in Nat, NEW d \in Nat, c <= d
    PROVE  Low(cells, n, c) <= Low(cells, n, d)
<1> DEFINE S == {i \in 1 .. n : cells[i] < c}
           T == {i \in 1 .. n : cells[i] < d}
<1>1. S \in SUBSET T /\ T \in SUBSET (1 .. n)
  <2>1. \A i \in 1 .. n : cells[i] \in Int OBVIOUS
  <2>. QED BY <2>1
<1>2. Low(cells, n, c) = Cardinality(S) /\ Low(cells, n, d) = Cardinality(T) BY DEF Low
<1> HIDE DEF S, T
<1>3. IsFiniteSet(T) BY <1>1, UpToFinite
<1>. QED BY <1>1, <1>2, <1>3, FS_Subset

LEMMA LowAll ==
    ASSUME NEW n \in Nat, NEW m \in Nat, NEW cells \in [1 .. n -> 0 .. m - 1]
    PROVE  Low(cells, n, m) = n
<1>1. {i \in 1 .. n : cells[i] < m} = 1 .. n
  <2>1. \A i \in 1 .. n : cells[i] \in 0 .. m - 1 OBVIOUS
  <2>. QED BY <2>1
<1>2. Cardinality(1 .. n) = n BY FS_Interval
<1>. QED BY <1>1, <1>2 DEF Low

CountStep(cells, n, k, c) ==
    /\ Count(cells, k - 1, c) \in Nat /\ Count(cells, k, c) \in Nat
    /\ cells[k] = c => Count(cells, k, c) = Count(cells, k - 1, c) + 1
    /\ cells[k] # c => Count(cells, k, c) = Count(cells, k - 1, c)
    /\ Count(cells, k, c) <= Count(cells, n, c)

(* One more position is one more in its cell. *)
LEMMA CountNext ==
    ASSUME NEW n \in Nat, NEW m \in Nat, NEW cells \in [1 .. n -> 0 .. m - 1],
           NEW k \in 1 .. n, NEW c \in Nat
    PROVE  CountStep(cells, n, k, c)
<1> DEFINE S == {i \in 1 .. k - 1 : cells[i] = c}
           T == {i \in 1 .. k : cells[i] = c}
           U == {i \in 1 .. n : cells[i] = c}
<1>1. /\ Count(cells, k - 1, c) = Cardinality(S) /\ Count(cells, k, c) = Cardinality(T)
      /\ Count(cells, n, c) = Cardinality(U)
  BY DEF Count
<1>2. /\ S \in SUBSET (1 .. n) /\ U \in SUBSET (1 .. n) /\ T \in SUBSET U /\ k \notin S
      /\ T \in SUBSET (1 .. n)
  OBVIOUS
<1>3. T = IF cells[k] = c THEN S \cup {k} ELSE S
  <2>1. \A i \in 1 .. k : i = k \/ i \in 1 .. k - 1 OBVIOUS
  <2>2. k \in 1 .. k /\ \A i \in 1 .. k - 1 : i \in 1 .. k OBVIOUS
  <2>. QED BY <2>1, <2>2
<1> HIDE DEF S, T, U
<1>4. /\ IsFiniteSet(S) /\ IsFiniteSet(U) /\ Cardinality(S) \in Nat /\ Cardinality(T) \in Nat
  BY <1>2, UpToFinite
<1>5. Cardinality(S \cup {k}) = Cardinality(S) + 1 BY <1>2, <1>4, FS_AddElement
<1>6. Cardinality(T) <= Cardinality(U) BY <1>2, <1>4, FS_Subset
<1>. QED BY <1>1, <1>3, <1>4, <1>5, <1>6 DEF CountStep

LEMMA CountNone ==
    ASSUME NEW cells, NEW c
    PROVE  Count(cells, 0, c) = 0
<1>1. {i \in 1 .. 0 : cells[i] = c} = {} OBVIOUS
<1>. QED BY <1>1, FS_EmptySet DEF Count

-----------------------------------------------------------------------------
(* The grid *)

\* The array and the cursors after each position.
Filling(at, pairs, offsets, cells, n) ==
    /\ Fill(pairs, offsets, cells) = at[n].data
    /\ at[0] = [data |-> [s \in 0 .. n - 1 |-> <<>>], write |-> offsets]
    /\ \A k \in 1 .. n :
          at[k] = [data |-> [at[k - 1].data EXCEPT ![at[k - 1].write[cells[k]]] = pairs[k]],
                   write |-> [at[k - 1].write EXCEPT ![cells[k]] = @ + 1]]

LEMMA FillSteps ==
    ASSUME NEW pairs, NEW n \in Nat, n = Len(pairs), NEW offsets, NEW cells
    PROVE  \E at : Filling(at, pairs, offsets, cells, n)
<1> DEFINE first == [data |-> [s \in 0 .. n - 1 |-> <<>>], write |-> offsets]
           Def(v, k) == [data |-> [v.data EXCEPT ![v.write[cells[k]]] = pairs[k]],
                         write |-> [v.write EXCEPT ![cells[k]] = @ + 1]]
           at == CHOOSE g : g = [k \in 0 .. n |-> IF k = 0 THEN first ELSE Def(g[k - 1], k)]
<1>2. Fill(pairs, offsets, cells) = at[n].data BY DEF Fill
<1>3. FiniteNatInductiveDefHypothesis(at, first, Def, 0, n)
  BY DEF FiniteNatInductiveDefHypothesis
<1> HIDE DEF at
<1>4. FiniteNatInductiveDefConclusion(at, first, Def, 0, n)
  BY <1>3, FiniteNatInductiveDef
<1>5. at = [k \in 0 .. n |-> IF k = 0 THEN first ELSE Def(at[k - 1], k)]
  BY <1>4 DEF FiniteNatInductiveDefConclusion
<1> HIDE DEF Def, first
<1>6. at[0] = first BY <1>5
<1>7. \A k \in 1 .. n : at[k] = Def(at[k - 1], k)
  <2>1. \A k \in 1 .. n : k \in 0 .. n /\ k # 0 OBVIOUS
  <2>. QED BY <1>5, <2>1
<1>. QED BY <1>2, <1>6, <1>7 DEF Def, first, Filling

\* The row of a cell has its positions and nothing else, up to the k-th.
Has(data, low, high, pairs, cells, k, c) ==
    /\ \A i \in 1 .. k : cells[i] = c => \E s \in low .. high - 1 : data[s] = pairs[i]
    /\ \A s \in low .. high - 1 : \E i \in 1 .. k : data[s] = pairs[i] /\ cells[i] = c

(* A position written behind the row of its cell is of the row then, *)
LEMMA HasMore ==
    ASSUME NEW pairs, NEW cells, NEW k \in Nat \ {0}, NEW n \in Nat,
           NEW low \in Nat, NEW high \in 0 .. n - 1, low <= high,
           NEW data, DOMAIN data = 0 .. n - 1,
           Has(data, low, high, pairs, cells, k - 1, cells[k])
    PROVE  Has([data EXCEPT ![high] = pairs[k]], low, high + 1, pairs, cells, k, cells[k])
<1> DEFINE new == [data EXCEPT ![high] = pairs[k]]
           c == cells[k]
<1>1. new[high] = pairs[k] /\ \A s \in low .. high - 1 : new[s] = data[s] OBVIOUS
<1>2. /\ \A i \in 1 .. k - 1 : cells[i] = c => \E s \in low .. high - 1 : data[s] = pairs[i]
      /\ \A s \in low .. high - 1 : \E i \in 1 .. k - 1 : data[s] = pairs[i] /\ cells[i] = c
  BY DEF Has
<1> HIDE DEF new
<1>3. ASSUME NEW i \in 1 .. k, cells[i] = c
      PROVE  \E s \in low .. (high + 1) - 1 : new[s] = pairs[i]
  <2>1. high \in low .. (high + 1) - 1 /\ \A s \in low .. high - 1 : s \in low .. (high + 1) - 1
    OBVIOUS
  <2>2. i = k \/ i \in 1 .. k - 1 OBVIOUS
  <2>. QED BY <1>1, <1>2, <1>3, <2>1, <2>2
<1>4. ASSUME NEW s \in low .. (high + 1) - 1
      PROVE  \E i \in 1 .. k : new[s] = pairs[i] /\ cells[i] = c
  <2>1. s = high \/ s \in low .. high - 1 OBVIOUS
  <2>2. k \in 1 .. k /\ \A i \in 1 .. k - 1 : i \in 1 .. k OBVIOUS
  <2>. QED BY <1>1, <1>2, <2>1, <2>2
<1>. QED BY <1>3, <1>4 DEF Has, new

(* and no other row has changed. *)
LEMMA HasSame ==
    ASSUME NEW pairs, NEW cells, NEW k \in Nat \ {0}, NEW c, cells[k] # c,
           NEW low \in Nat, NEW high \in Nat, NEW p, p \notin low .. high - 1, NEW data, NEW x,
           low .. high - 1 \subseteq DOMAIN data,
           Has(data, low, high, pairs, cells, k - 1, c)
    PROVE  Has([data EXCEPT ![p] = x], low, high, pairs, cells, k, c)
<1> DEFINE new == [data EXCEPT ![p] = x]
<1>1. \A s \in low .. high - 1 : new[s] = data[s] OBVIOUS
<1>2. /\ \A i \in 1 .. k - 1 : cells[i] = c => \E s \in low .. high - 1 : data[s] = pairs[i]
      /\ \A s \in low .. high - 1 : \E i \in 1 .. k - 1 : data[s] = pairs[i] /\ cells[i] = c
  BY DEF Has
<1> HIDE DEF new
<1>3. \A i \in 1 .. k : cells[i] = c => i \in 1 .. k - 1 OBVIOUS
<1>4. \A i \in 1 .. k - 1 : i \in 1 .. k OBVIOUS
<1>5. Has(new, low, high, pairs, cells, k, c) BY <1>1, <1>2, <1>3, <1>4 DEF Has
<1>. QED BY <1>5 DEF new

\* Offsets part the array into rows, and each row has the positions of its cell.
Rows(offsets, data, pairs, cells, n, m) ==
    /\ offsets \in [0 .. m -> 0 .. n] /\ offsets[m] = n
    /\ \A c \in 0 .. m - 1 : /\ offsets[c] <= offsets[c + 1]
                             /\ Has(data, offsets[c], offsets[c + 1], pairs, cells, n, c)

(* The second pass puts every position into the row the first has reserved. *)
LEMMA FillRows ==
    ASSUME NEW pairs, NEW n \in Nat, n = Len(pairs), NEW m \in Nat,
           NEW cells \in [1 .. n -> 0 .. m - 1],
           NEW offsets, offsets = [c \in 0 .. m |-> Low(cells, n, c)]
    PROVE  Rows(offsets, Fill(pairs, offsets, cells), pairs, cells, n, m)
<1>0. PICK at : Filling(at, pairs, offsets, cells, n) BY FillSteps
<1>1. /\ Fill(pairs, offsets, cells) = at[n].data
      /\ at[0] = [data |-> [s \in 0 .. n - 1 |-> <<>>], write |-> offsets]
      /\ \A k \in 1 .. n :
            at[k] = [data |-> [at[k - 1].data EXCEPT ![at[k - 1].write[cells[k]]] = pairs[k]],
                     write |-> [at[k - 1].write EXCEPT ![cells[k]] = @ + 1]]
  BY <1>0 DEF Filling
<1> DEFINE low(c) == Low(cells, n, c)
           high(k, c) == low(c) + Count(cells, k, c)
           Good(k) == /\ DOMAIN at[k].data = 0 .. n - 1
                      /\ DOMAIN at[k].write = 0 .. m
                      /\ \A c \in 0 .. m - 1 :
                            /\ at[k].write[c] = high(k, c)
                            /\ Has(at[k].data, low(c), high(k, c), pairs, cells, k, c)
<1>2. \A c \in 0 .. m - 1 : /\ low(c) \in 0 .. n /\ Count(cells, n, c) \in 0 .. n
                            /\ low(c + 1) = high(n, c) /\ low(c + 1) \in 0 .. n
  <2> SUFFICES ASSUME NEW c \in 0 .. m - 1
               PROVE  /\ low(c) \in 0 .. n /\ Count(cells, n, c) \in 0 .. n
                      /\ low(c + 1) = high(n, c) /\ low(c + 1) \in 0 .. n
    OBVIOUS
  <2>1. c \in Nat /\ c + 1 \in Nat OBVIOUS
  <2>. QED BY <2>1, LowNext
<1>3. \A c, d \in 0 .. m - 1 : c < d => low(c + 1) <= low(d)
  <2> SUFFICES ASSUME NEW c \in 0 .. m - 1, NEW d \in 0 .. m - 1, c < d
               PROVE  low(c + 1) <= low(d)
    OBVIOUS
  <2>1. c + 1 \in Nat /\ d \in Nat /\ c + 1 <= d OBVIOUS
  <2>. QED BY <2>1, LowGrows
<1>4. \A k \in 1 .. n, c \in 0 .. m - 1 : CountStep(cells, n, k, c)
  <2> SUFFICES ASSUME NEW k \in 1 .. n, NEW c \in 0 .. m - 1
               PROVE  CountStep(cells, n, k, c)
    OBVIOUS
  <2>1. c \in Nat OBVIOUS
  <2>. QED BY <2>1, CountNext
<1>5. Good(0)
  <2>1. at[0].data = [s \in 0 .. n - 1 |-> <<>>] /\ at[0].write = offsets BY <1>1
  <2>2. ASSUME NEW c \in 0 .. m - 1
        PROVE  /\ at[0].write[c] = high(0, c)
               /\ Has(at[0].data, low(c), high(0, c), pairs, cells, 0, c)
    <3>1. Count(cells, 0, c) = 0 BY CountNone
    <3>2. offsets[c] = low(c) /\ high(0, c) = low(c) BY <1>2, <3>1
    <3> HIDE DEF low, high
    <3>3. low(c) .. low(c) - 1 = {} /\ 1 .. 0 = {} BY <1>2
    <3>. QED BY <2>1, <3>2, <3>3 DEF Has
  <2> HIDE DEF low, high
  <2>3. DOMAIN at[0].data = 0 .. n - 1 /\ DOMAIN at[0].write = 0 .. m BY <2>1
  <2>. QED BY <2>2, <2>3
<1>6. ASSUME NEW k \in 1 .. n, Good(k - 1) PROVE Good(k)
  <2> DEFINE old == at[k - 1]
             here == cells[k]
             p == old.write[here]
  <2>1. /\ at[k].data = [old.data EXCEPT ![p] = pairs[k]]
        /\ at[k].write = [old.write EXCEPT ![here] = @ + 1]
    <3>1. at[k] = [data |-> [old.data EXCEPT ![p] = pairs[k]],
                   write |-> [old.write EXCEPT ![here] = @ + 1]]
      BY <1>1
    <3>. QED BY <3>1
  <2>2. here \in 0 .. m - 1 OBVIOUS
  <2>3. /\ DOMAIN old.data = 0 .. n - 1 /\ DOMAIN old.write = 0 .. m
        /\ \A c \in 0 .. m - 1 :
              /\ old.write[c] = high(k - 1, c)
              /\ Has(old.data, low(c), high(k - 1, c), pairs, cells, k - 1, c)
    BY <1>6
  <2>4. p = high(k - 1, here) /\ high(k, here) = p + 1
        /\ low(here) <= p /\ p < low(here + 1) /\ p \in 0 .. n - 1
    <3>1. /\ Count(cells, k - 1, here) \in Nat /\ Count(cells, k, here) = Count(cells, k - 1, here) + 1
          /\ Count(cells, k, here) <= Count(cells, n, here)
      BY <1>4, <2>2 DEF CountStep
    <3>2. /\ low(here) \in 0 .. n /\ low(here + 1) = high(n, here) /\ low(here + 1) \in 0 .. n
          /\ Count(cells, n, here) \in 0 .. n
      BY <1>2, <2>2
    <3>3. p = high(k - 1, here) BY <2>2, <2>3
    <3> DEFINE l == low(here)
               a == Count(cells, k - 1, here)
               b == Count(cells, k, here)
               d == Count(cells, n, here)
               l1 == low(here + 1)
    <3>4. /\ p = l + a /\ l1 = l + d /\ b = a + 1 /\ b <= d /\ a \in Nat /\ d \in Nat
          /\ l \in Nat /\ l1 <= n /\ high(k, here) = l + b
      <4> HIDE DEF low, here
      <4>. QED BY <3>1, <3>2, <3>3
    <3> SUFFICES p = high(k - 1, here) /\ high(k, here) = p + 1 /\ l <= p /\ p < l1 /\ p \in 0 .. n - 1
      OBVIOUS
    <3> HIDE DEF low, high, l, a, b, d, l1, p, here
    <3>. QED BY <3>3, <3>4
  <2>5. ASSUME NEW c \in 0 .. m - 1
        PROVE  /\ at[k].write[c] = high(k, c)
               /\ Has(at[k].data, low(c), high(k, c), pairs, cells, k, c)
    <3>0. k \in Nat \ {0} OBVIOUS
    <3>1. CASE c = here
      <4>1. at[k].write[c] = p + 1 BY <2>1, <2>3, <3>1
      <4>2. Has(old.data, low(here), p, pairs, cells, k - 1, here) BY <2>2, <2>3, <2>4
      <4>3. low(here) \in Nat BY <1>2, <2>2
      <4> HIDE DEF low, high, old, p
      <4>4. Has([old.data EXCEPT ![p] = pairs[k]], low(here), p + 1, pairs, cells, k, here)
        BY <2>3, <2>4, <3>0, <4>2, <4>3, HasMore
      <4>. QED BY <2>1, <2>4, <3>1, <4>1, <4>4
    <3>2. CASE c # here
      <4>1. /\ Count(cells, k, c) = Count(cells, k - 1, c) /\ Count(cells, k, c) \in Nat
            /\ Count(cells, k, c) <= Count(cells, n, c)
        BY <1>4, <3>2 DEF CountStep
      <4>2. /\ low(c) \in 0 .. n /\ low(c + 1) = high(n, c) /\ low(c + 1) \in 0 .. n
            /\ Count(cells, n, c) \in 0 .. n
        BY <1>2
      <4>3. high(k, c) = high(k - 1, c) BY <4>1
      <4>4. low(c) \in Nat /\ high(k, c) \in Nat /\ high(k, c) <= low(c + 1)
        <5> HIDE DEF low
        <5>. QED BY <4>1, <4>2
      <4>5. at[k].write[c] = high(k, c) BY <2>1, <2>3, <3>2, <4>3
      <4>6. p \notin low(c) .. high(k, c) - 1
        <5>1. c < here \/ here < c BY <2>2, <3>2
        <5>2. c < here => low(c + 1) <= low(here) BY <1>3, <2>2
        <5>3. here < c => low(here + 1) <= low(c) BY <1>3, <2>2
        <5>4. low(here) \in Int /\ low(here + 1) \in Int /\ p \in Int BY <1>2, <2>2, <2>4
        <5> HIDE DEF low, high, here, p
        <5>5. CASE c < here
          <6>1. high(k, c) <= p BY <2>4, <4>2, <4>4, <5>2, <5>4, <5>5
          <6>. QED BY <4>4, <5>4, <6>1
        <5>6. CASE here < c
          <6>1. p < low(c) BY <2>4, <4>2, <4>4, <5>3, <5>4, <5>6
          <6>. QED BY <4>4, <5>4, <6>1
        <5>. QED BY <5>1, <5>5, <5>6
      <4>7. low(c) .. high(k, c) - 1 \subseteq 0 .. n - 1
        <5> HIDE DEF low, high
        <5>. QED BY <4>2, <4>4
      <4>8. Has(old.data, low(c), high(k, c), pairs, cells, k - 1, c) BY <2>3, <4>3
      <4> HIDE DEF low, high, old, p
      <4>9. Has([old.data EXCEPT ![p] = pairs[k]], low(c), high(k, c), pairs, cells, k, c)
        BY <2>3, <3>0, <3>2, <4>4, <4>6, <4>7, <4>8, HasSame
      <4>. QED BY <2>1, <4>5, <4>9
    <3>. QED BY <3>1, <3>2
  <2>6. DOMAIN at[k].data = 0 .. n - 1 /\ DOMAIN at[k].write = 0 .. m
    <3> HIDE DEF old, p
    <3>. QED BY <2>1, <2>3
  <2> HIDE DEF low, high
  <2>. QED BY <2>5, <2>6
<1>7. Good(n)
  <2> DEFINE P == {k \in 0 .. n : Good(k)}
  <2> HIDE DEF Good
  <2>1. 0 \in P BY <1>5
  <2>2. \A k \in 1 .. n : k - 1 \in P => k \in P
    <3> SUFFICES ASSUME NEW k \in 1 .. n, Good(k - 1) PROVE k \in P OBVIOUS
    <3>1. k \in 0 .. n OBVIOUS
    <3>. QED BY <1>6, <3>1
  <2> HIDE DEF P
  <2>3. \A k \in 0 .. n : k \in P BY <2>1, <2>2, ClimbTo
  <2>4. n \in 0 .. n OBVIOUS
  <2>. QED BY <2>3, <2>4 DEF P
<1>8. \A c \in 0 .. m - 1 : Has(at[n].data, low(c), low(c + 1), pairs, cells, n, c)
  BY <1>2, <1>7
<1>9. low(m) = n /\ \A c \in 0 .. m : low(c) \in 0 .. n
  <2>1. low(m) = n BY LowAll
  <2>2. \A c \in 0 .. m : c \in 0 .. m - 1 \/ c = m OBVIOUS
  <2>3. n \in 0 .. n OBVIOUS
  <2>. QED BY <1>2, <2>1, <2>2, <2>3
<1>10. \A c \in 0 .. m : offsets[c] = low(c) OBVIOUS
<1>11. \A c \in 0 .. m - 1 : low(c) <= low(c + 1)
  <2> HIDE DEF low
  <2>. QED BY <1>2
<1>12. \A c \in 0 .. m - 1 : c \in 0 .. m /\ c + 1 \in 0 .. m OBVIOUS
<1>13. offsets \in [0 .. m -> 0 .. n] BY <1>9
<1>14. m \in 0 .. m OBVIOUS
<1> HIDE DEF low, high, Good
<1>. QED BY <1>1, <1>8, <1>9, <1>10, <1>11, <1>12, <1>13, <1>14 DEF Rows

CellsOf(pairs) == [k \in DOMAIN pairs |-> CellOf(pairs[k][2], pairs[k][3])]

LEMMA BuildRows ==
    ASSUME NEW pairs \in Seq(Entities \X Int \X Int)
    PROVE  /\ CellsOf(pairs) \in [1 .. Len(pairs) -> 0 .. TotalCells - 1]
           /\ Rows(Build(pairs).offsets, Build(pairs).data, pairs, CellsOf(pairs), Len(pairs),
                   TotalCells)
<1> DEFINE n == Len(pairs)
           cells == CellsOf(pairs)
           offsets == [c \in 0 .. TotalCells |-> Low(cells, n, c)]
<1>0. n \in Nat /\ DOMAIN pairs = 1 .. n /\ TotalCells \in Nat
  <2>1. GridSize * GridSize \in Nat BY GridShape
  <2>. QED BY <2>1 DEF TotalCells
<1>1. cells \in [1 .. n -> 0 .. TotalCells - 1]
  <2>1. \A k \in 1 .. n : CellOf(pairs[k][2], pairs[k][3]) \in 0 .. TotalCells - 1
    <3> SUFFICES ASSUME NEW k \in 1 .. n
                 PROVE  CellOf(pairs[k][2], pairs[k][3]) \in 0 .. TotalCells - 1
      OBVIOUS
    <3>1. pairs[k] \in Entities \X Int \X Int BY <1>0
    <3>2. pairs[k][2] \in Int /\ pairs[k][3] \in Int BY <3>1
    <3>. QED BY <3>2, CellOfInGrid
  <2>. QED BY <1>0, <2>1 DEF CellsOf
<1>2. \A c \in 0 .. TotalCells : Below(pairs, c) = Low(cells, n, c)
  BY <1>0 DEF Below, Low, CellsOf
<1>3. Build(pairs) = [offsets |-> offsets, data |-> Fill(pairs, offsets, cells)]
  <2>1. [c \in 0 .. TotalCells |-> Below(pairs, c)] = offsets BY <1>2
  <2> HIDE DEF offsets
  <2>. QED BY <2>1 DEF Build, CellsOf
<1>4. Rows(offsets, Fill(pairs, offsets, cells), pairs, cells, n, TotalCells)
  <2>1. offsets = [c \in 0 .. TotalCells |-> Low(cells, n, c)] OBVIOUS
  <2> HIDE DEF offsets, cells
  <2>. QED BY <1>0, <1>1, <2>1, FillRows
<1> HIDE DEF offsets
<1>5. Build(pairs).offsets = offsets /\ Build(pairs).data = Fill(pairs, offsets, cells)
  BY <1>3
<1>. QED BY <1>1, <1>4, <1>5

\* The grid is that of the position table.
Built == positions \in Placements /\ index = Build(positions)

LEMMA BuiltShape ==
    ASSUME Built
    PROVE  /\ positions \in Seq(Entities \X Int \X Int)
           /\ Len(positions) \in Nat /\ DOMAIN positions = 1 .. Len(positions)
           /\ CellsOf(positions) \in [1 .. Len(positions) -> 0 .. TotalCells - 1]
           /\ Rows(index.offsets, index.data, positions, CellsOf(positions), Len(positions),
                   TotalCells)
<1>1. positions \in Seq(Entities \X Int \X Int) BY PlacementsOK DEF Built
<1>2. Len(positions) \in Nat /\ DOMAIN positions = 1 .. Len(positions) BY <1>1
<1>3. index = Build(positions) BY DEF Built
<1>. QED BY <1>1, <1>2, <1>3, BuildRows

LEMMA BuiltFaithful ==
    ASSUME Built
    PROVE  GridFaithful
<1> DEFINE n == Len(positions)
           cells == CellsOf(positions)
<1>1. /\ n \in Nat /\ DOMAIN positions = 1 .. n
      /\ cells \in [1 .. n -> 0 .. TotalCells - 1]
      /\ Rows(index.offsets, index.data, positions, cells, n, TotalCells)
  BY BuiltShape
<1>2. \A i \in 1 .. n : cells[i] = CellOf(positions[i][2], positions[i][3])
  BY <1>1 DEF CellsOf
<1>3. \A c \in 0 .. TotalCells - 1 :
        Has(index.data, index.offsets[c], index.offsets[c + 1], positions, cells, n, c)
  BY <1>1 DEF Rows
<1>4. index.offsets[TotalCells] = n BY <1>1 DEF Rows
<1> HIDE DEF n, cells
<1>5. ASSUME NEW i \in 1 .. n
      PROVE  \E s \in Slots(CellOf(positions[i][2], positions[i][3])) : index.data[s] = positions[i]
  <2>1. cells[i] \in 0 .. TotalCells - 1 BY <1>1
  <2>2. \E s \in index.offsets[cells[i]] .. index.offsets[cells[i] + 1] - 1 : index.data[s] = positions[i]
    BY <1>3, <2>1 DEF Has
  <2>. QED BY <1>2, <2>2 DEF Slots
<1>6. ASSUME NEW c \in 0 .. TotalCells - 1, NEW s \in Slots(c)
      PROVE  \E i \in 1 .. n :
                index.data[s] = positions[i] /\ CellOf(positions[i][2], positions[i][3]) = c
  <2>1. \E i \in 1 .. n : index.data[s] = positions[i] /\ cells[i] = c
    BY <1>3 DEF Has, Slots
  <2>. QED BY <1>2, <2>1
<1>. QED BY <1>1, <1>4, <1>5, <1>6 DEF GridFaithful, n

-----------------------------------------------------------------------------
(* What a search visits *)

(* The entries of a visit are those of a cell of the spans. *)
LEMMA VisitsAre ==
    ASSUME Built, NEW box, NEW lod \in {Bits - 1, Bits}, NEW v
    PROVE  v \in Visits(box, lod) <=>
             \E cy \in Span(box.y, lod), cx \in Span(box.x, lod) :
                \E s \in Slots(Cell(cy, cx)) : v = [row |-> cy, column |-> cx, slot |-> s]
<1> DEFINE row(cy, cx) == {[row |-> cy, column |-> cx, slot |-> s] : s \in Slots(Cell(cy, cx))}
<1>1. Visits(box, lod) =
        UNION {row(cy, cx) : cy \in Span(box.y, lod), cx \in Span(box.x, lod)}
  BY DEF Visits
<1>2. \A cy, cx : v \in row(cy, cx) <=>
                    \E s \in Slots(Cell(cy, cx)) : v = [row |-> cy, column |-> cx, slot |-> s]
  OBVIOUS
<1> HIDE DEF row
<1>3. v \in Visits(box, lod) <=>
        \E cy \in Span(box.y, lod), cx \in Span(box.x, lod) : v \in row(cy, cx)
  BY <1>1
<1>. QED BY <1>2, <1>3

LEMMA VisitShape ==
    ASSUME Built, NEW box, NEW lod \in {Bits - 1, Bits}, NEW v \in Visits(box, lod)
    PROVE  /\ v = [row |-> v.row, column |-> v.column, slot |-> v.slot]
           /\ v.row \in 0 .. GridSize - 1 /\ v.column \in 0 .. GridSize - 1
           /\ v.slot \in 0 .. Len(positions) - 1
           /\ v.slot \in Slots(Cell(v.row, v.column))
<1> DEFINE n == Len(positions)
<1>1. PICK cy \in Span(box.y, lod), cx \in Span(box.x, lod) :
        \E s \in Slots(Cell(cy, cx)) : v = [row |-> cy, column |-> cx, slot |-> s]
  BY VisitsAre
<1>2. PICK s \in Slots(Cell(cy, cx)) : v = [row |-> cy, column |-> cx, slot |-> s] BY <1>1
<1>3. v.row = cy /\ v.column = cx /\ v.slot = s BY <1>2
<1>4. cy \in 0 .. GridSize - 1 /\ cx \in 0 .. GridSize - 1 BY DEF Span
<1>5. s \in 0 .. n - 1
  <2> DEFINE c == Cell(cy, cx)
  <2>1. c \in 0 .. TotalCells - 1 BY <1>4, CellInGrid
  <2>2. n \in Nat /\ index.offsets \in [0 .. TotalCells -> 0 .. n] BY BuiltShape DEF Rows
  <2>3. TotalCells \in Nat
    <3>1. GridSize * GridSize \in Nat BY GridShape
    <3>. QED BY <3>1 DEF TotalCells
  <2> HIDE DEF c, n
  <2>4. c \in 0 .. TotalCells /\ c + 1 \in 0 .. TotalCells BY <2>1, <2>3
  <2>5. index.offsets[c] \in 0 .. n /\ index.offsets[c + 1] \in 0 .. n BY <2>2, <2>4
  <2>6. s \in index.offsets[c] .. index.offsets[c + 1] - 1 BY <1>2 DEF Slots, c
  <2>. QED BY <2>2, <2>5, <2>6
<1>. QED BY <1>2, <1>3, <1>4, <1>5

LEMMA VisitsFinite ==
    ASSUME Built, NEW box, NEW lod \in {Bits - 1, Bits}
    PROVE  IsFiniteSet(Visits(box, lod))
<1> DEFINE V == Visits(box, lod)
           g == 0 .. GridSize - 1
           n == 0 .. Len(positions) - 1
           f == [v \in V |-> <<<<v.row, v.column>>, v.slot>>]
<1>1. IsFiniteSet(g) /\ IsFiniteSet(n)
  <2>1. GridSize \in Int /\ Len(positions) \in Int BY GridShape, BuiltShape
  <2>. QED BY <2>1, FS_Interval
<1>2. IsFiniteSet((g \X g) \X n) BY <1>1, FS_Product
<1>3. \A v \in V : /\ v = [row |-> v.row, column |-> v.column, slot |-> v.slot]
                   /\ v.row \in g /\ v.column \in g /\ v.slot \in n
  BY VisitShape
<1> HIDE DEF V, g, n
<1>4. f \in [V -> (g \X g) \X n] BY <1>3
<1>5. \A v, w \in V : f[v] = f[w] => v = w
  <2> SUFFICES ASSUME NEW v \in V, NEW w \in V, f[v] = f[w] PROVE v = w OBVIOUS
  <2>1. v.row = w.row /\ v.column = w.column /\ v.slot = w.slot OBVIOUS
  <2>. QED BY <1>3, <2>1
<1>6. f \in Injection(V, (g \X g) \X n) BY <1>4, <1>5 DEF Injection, IsInjective
<1>. QED BY <1>2, <1>6, FS_Injection DEF V

(* There is always one that comes first. *)
LEMMA EarliestIs ==
    ASSUME Built, NEW box, NEW lod \in {Bits - 1, Bits}, NEW left \in SUBSET Visits(box, lod),
           left # {}
    PROVE  Earliest(left, lod) \in left
<1> DEFINE turn(v) == Turn(v, lod)
<1>1. ASSUME NEW v \in left PROVE turn(v) \in Nat
  <2>1. v.row \in Nat /\ v.column \in Nat /\ v.slot \in Nat BY VisitShape
  <2>2. Len(positions) \in Nat /\ GridSize \in Nat BY BuiltShape, GridShape
  <2>3. CellRatio(lod) \in Nat \ {0} BY GridShape
  <2> DEFINE r == v.row \div CellRatio(lod)
             c == v.column \div CellRatio(lod)
  <2>4. r \in Nat /\ c \in Nat BY <2>1, <2>3
  <2> HIDE DEF r, c
  <2>5. r * GridSize \in Nat /\ v.row * GridSize \in Nat /\ GridSize * GridSize \in Nat
    BY <2>1, <2>2, <2>4
  <2>6. Cell(r, c) \in Nat /\ Cell(v.row, v.column) \in Nat /\ TotalCells \in Nat
    BY <2>1, <2>4, <2>5 DEF Cell, TotalCells
  <2>7. Cell(r, c) * TotalCells + Cell(v.row, v.column) \in Nat BY <2>6
  <2>8. (Cell(r, c) * TotalCells + Cell(v.row, v.column)) * Len(positions) \in Nat BY <2>2, <2>7
  <2>9. turn(v) = (Cell(r, c) * TotalCells + Cell(v.row, v.column)) * Len(positions) + v.slot
    BY DEF Turn, r, c
  <2> HIDE DEF turn
  <2>. QED BY <2>1, <2>8, <2>9
<1> HIDE DEF turn
<1>2. {turn(v) : v \in left} \in SUBSET Nat /\ {turn(v) : v \in left} # {} BY <1>1
<1>3. PICK t \in {turn(v) : v \in left} : \A u \in {turn(v) : v \in left} : t <= u
  BY <1>2, LeastNat
<1>4. PICK v \in left : t = turn(v) OBVIOUS
<1>5. \A w \in left : turn(v) <= turn(w) BY <1>3, <1>4
<1>6. \E x \in left : \A w \in left : Turn(x, lod) <= Turn(w, lod) BY <1>5 DEF turn
<1>. QED BY <1>6 DEF Earliest

(* Every position inside the box is visited. *)
LEMMA VisitsCover ==
    ASSUME Built, NEW box \in [x : Int \X Int, y : Int \X Int], NEW lod \in {Bits - 1, Bits},
           NEW i \in DOMAIN positions, Inside(positions[i], box)
    PROVE  \E v \in Visits(box, lod) : index.data[v.slot] = positions[i]
<1> DEFINE p == positions[i]
           cy == WorldToTile(p[3], GridSize)
           cx == WorldToTile(p[2], GridSize)
<1>1. p[2] \in Int /\ p[3] \in Int
  <2>1. p \in Entities \X Int \X Int BY BuiltShape
  <2>. QED BY <2>1
<1>2. /\ box.x \in Int \X Int /\ box.y \in Int \X Int
      /\ box.x[1] <= p[2] /\ p[2] <= box.x[2] /\ box.y[1] <= p[3] /\ p[3] <= box.y[2]
  BY DEF Inside
<1>3. cx \in Span(box.x, lod) /\ cy \in Span(box.y, lod)
  <2> HIDE DEF p
  <2>. QED BY <1>1, <1>2, SpanCovers
<1>4. CellOf(p[2], p[3]) = Cell(cy, cx) BY DEF CellOf
<1>5. PICK s \in Slots(Cell(cy, cx)) : index.data[s] = p
  <2>1. \E s \in Slots(CellOf(p[2], p[3])) : index.data[s] = p
    BY BuiltFaithful DEF GridFaithful
  <2>. QED BY <1>4, <2>1
<1> HIDE DEF cx, cy, p
<1> DEFINE v == [row |-> cy, column |-> cx, slot |-> s]
<1>6. v \in Visits(box, lod) BY <1>3, VisitsAre
<1>7. v.slot = s OBVIOUS
<1> HIDE DEF v
<1>. QED BY <1>5, <1>6, <1>7 DEF p

-----------------------------------------------------------------------------
(* The search *)

Table == {positions[i] : i \in DOMAIN positions}

(* A position has an entity, and an entity one position. *)
LEMMA TableShape ==
    ASSUME Built
    PROVE  /\ \A p \in Table : p \in Entities \X Int \X Int /\ p[1] \in Entities
           /\ \A p, q \in Table : p[1] = q[1] => p = q
<1>1. /\ positions \in Seq(Entities \X Int \X Int)
      /\ \A i, j \in DOMAIN positions : positions[i][1] = positions[j][1] => i = j
  BY PlacementsOK DEF Built
<1>2. \A i \in DOMAIN positions : positions[i] \in Entities \X Int \X Int BY <1>1
<1>3. \A p \in Table : p \in Entities \X Int \X Int BY <1>2 DEF Table
<1>4. \A p, q \in Table : p[1] = q[1] => p = q BY <1>1 DEF Table
<1>. QED BY <1>3, <1>4

LEMMA EntryInTable ==
    ASSUME Built, NEW box, NEW lod \in {Bits - 1, Bits}, NEW v \in Visits(box, lod)
    PROVE  index.data[v.slot] \in Table
<1>1. Cell(v.row, v.column) \in 0 .. TotalCells - 1 /\ v.slot \in Slots(Cell(v.row, v.column))
  <2>1. v.row \in 0 .. GridSize - 1 /\ v.column \in 0 .. GridSize - 1 BY VisitShape
  <2>. QED BY <2>1, VisitShape, CellInGrid
<1>2. \E i \in DOMAIN positions : index.data[v.slot] = positions[i]
  BY <1>1, BuiltFaithful DEF GridFaithful
<1>. QED BY <1>2 DEF Table

Most(limit) == IF limit = 0 THEN 1 ELSE limit

\* The marks and output after the positions in P.  Once the output is full the
\* rest is not looked at.
Sought(acc, P, box, limit, gen) ==
    /\ acc.seen \in [Entities -> 0 .. gen]
    /\ acc.out \in Seq(Entities)
    /\ \A i, j \in 1 .. Len(acc.out) : acc.out[i] = acc.out[j] => i = j
    /\ \A i \in 1 .. Len(acc.out) :
          /\ acc.seen[acc.out[i]] = gen
          /\ \E p \in Table : p[1] = acc.out[i] /\ Reported(p, box)
    /\ acc.full \in BOOLEAN
    /\ acc.full => Len(acc.out) = Most(limit)
    /\ ~ acc.full => /\ Len(acc.out) < Most(limit)
                     /\ \A p \in Table : acc.seen[p[1]] = gen <=> p \in P
                     /\ \A p \in P : Reported(p, box) => \E i \in 1 .. Len(acc.out) :
                                                            acc.out[i] = p[1]

(* An output grows by an entity it does not have. *)
LEMMA Grown ==
    ASSUME NEW o \in Seq(Entities), NEW e \in Entities, \A i \in 1 .. Len(o) : o[i] # e,
           \A i, j \in 1 .. Len(o) : o[i] = o[j] => i = j
    PROVE  /\ Append(o, e) \in Seq(Entities) /\ Len(Append(o, e)) = Len(o) + 1
           /\ Append(o, e)[Len(o) + 1] = e
           /\ \A i \in 1 .. Len(o) : Append(o, e)[i] = o[i]
           /\ \A i \in 1 .. Len(o) + 1 : i = Len(o) + 1 \/ i \in 1 .. Len(o)
           /\ \A i, j \in 1 .. Len(o) + 1 : Append(o, e)[i] = Append(o, e)[j] => i = j
<1> DEFINE n == Len(o)
           a == Append(o, e)
<1>1. n \in Nat /\ a \in Seq(Entities) /\ Len(a) = n + 1 /\ a[n + 1] = e
      /\ \A i \in 1 .. n : a[i] = o[i]
  OBVIOUS
<1> HIDE DEF a, n
<1>2. \A i \in 1 .. n + 1 : i = n + 1 \/ i \in 1 .. n BY <1>1
<1>3. \A i, j \in 1 .. n + 1 : a[i] = a[j] => i = j BY <1>1, <1>2 DEF n
<1>. QED BY <1>1, <1>2, <1>3 DEF a, n

LEMMA VisitSought ==
    ASSUME Built, NEW box, NEW limit \in Nat, NEW gen \in Nat,
           NEW P \in SUBSET Table, NEW p \in Table, NEW acc, Sought(acc, P, box, limit, gen)
    PROVE  Sought(Visit(acc, p, box, limit, gen), P \cup {p}, box, limit, gen)
<1> DEFINE new == Visit(acc, p, box, limit, gen)
           e == p[1]
<1>1. e \in Entities /\ \A q \in Table : q[1] = e => q = p BY TableShape
<1>2. CASE acc.full
  <2>1. new = acc BY <1>2 DEF Visit
  <2> HIDE DEF new
  <2>2. Sought(new, P \cup {p}, box, limit, gen) BY <1>2, <2>1 DEF Sought
  <2>. QED BY <2>2 DEF new
<1>3. CASE ~ acc.full /\ acc.seen[e] = gen
  <2>1. new = acc BY <1>3 DEF Visit
  <2>2. p \in P BY <1>3 DEF Sought
  <2>3. P \cup {p} = P BY <2>2
  <2>. QED BY <2>1, <2>3
<1>4. CASE ~ acc.full /\ acc.seen[e] # gen
  <2> DEFINE o == acc.out
             hit == Reported(p, box)
             most == Most(limit)
  <2>1. /\ new.seen = [acc.seen EXCEPT ![e] = gen]
        /\ new.out = IF hit THEN Append(o, e) ELSE o
        /\ new.full = (hit /\ Len(o) + 1 >= limit)
    <3>1. new = [seen |-> [acc.seen EXCEPT ![e] = gen],
                 out |-> IF hit THEN Append(o, e) ELSE o,
                 full |-> hit /\ Len(o) + 1 >= limit]
      BY <1>4 DEF Visit
    <3> HIDE DEF new
    <3>. QED BY <3>1
  <2>2. /\ acc.seen \in [Entities -> 0 .. gen] /\ o \in Seq(Entities)
        /\ \A i, j \in 1 .. Len(o) : o[i] = o[j] => i = j
        /\ \A i \in 1 .. Len(o) : /\ acc.seen[o[i]] = gen
                                  /\ \E q \in Table : q[1] = o[i] /\ Reported(q, box)
        /\ Len(o) < most
        /\ \A q \in Table : acc.seen[q[1]] = gen <=> q \in P
        /\ \A q \in P : Reported(q, box) => \E i \in 1 .. Len(o) : o[i] = q[1]
    BY <1>4 DEF Sought
  <2>3. most \in Nat /\ ((limit = 0 /\ most = 1) \/ limit = most) BY DEF Most
  <2>4. hit \in BOOLEAN BY DEF Reported, Inside
  <2>5. new.seen \in [Entities -> 0 .. gen]
    <3> HIDE DEF new, e
    <3>. QED BY <1>1, <2>1, <2>2
  <2>6. \A q \in Table : new.seen[q[1]] = gen <=> q \in P \cup {p}
    <3> SUFFICES ASSUME NEW q \in Table PROVE new.seen[q[1]] = gen <=> q \in P \cup {p} OBVIOUS
    <3>1. q[1] \in Entities BY TableShape
    <3>2. CASE q = p
      <4>1. new.seen[e] = gen BY <1>1, <2>1, <2>2
      <4>. QED BY <3>2, <4>1
    <3>3. CASE q # p
      <4>1. q[1] # e BY <1>1, <3>3
      <4>2. new.seen[q[1]] = acc.seen[q[1]] BY <2>1, <2>2, <3>1, <4>1
      <4>. QED BY <2>2, <3>3, <4>2
    <3>. QED BY <3>2, <3>3
  <2>7. \A i \in 1 .. Len(o) : o[i] # e BY <1>4, <2>2
  <2>8. \A i \in 1 .. Len(o) : o[i] \in Entities /\ new.seen[o[i]] = gen
    <3>1. \A i \in 1 .. Len(o) : o[i] \in Entities BY <2>2
    <3>. QED BY <2>1, <2>2, <2>7, <3>1
  <2>9. new.seen[e] = gen BY <1>1, <2>1, <2>2
  <2>10. Len(o) \in Nat BY <2>2
  <2>11. CASE hit
    <3> DEFINE a == Append(o, e)
    <3>1. new.out = a /\ new.full = (Len(o) + 1 >= limit) BY <2>1, <2>11
    <3>2. /\ a \in Seq(Entities) /\ Len(a) = Len(o) + 1
          /\ a[Len(o) + 1] = e /\ \A i \in 1 .. Len(o) : a[i] = o[i]
          /\ \A i \in 1 .. Len(o) + 1 : i = Len(o) + 1 \/ i \in 1 .. Len(o)
          /\ \A i, j \in 1 .. Len(o) + 1 : a[i] = a[j] => i = j
      BY <1>1, <2>2, <2>7, Grown
    <3> HIDE DEF a, o, new, most, hit
    <3>3. \A i \in 1 .. Len(o) + 1 : /\ new.seen[a[i]] = gen
                                     /\ \E q \in Table : q[1] = a[i] /\ Reported(q, box)
      <4> SUFFICES ASSUME NEW i \in 1 .. Len(o) + 1
                   PROVE  /\ new.seen[a[i]] = gen
                          /\ \E q \in Table : q[1] = a[i] /\ Reported(q, box)
        OBVIOUS
      <4>1. CASE i = Len(o) + 1
        <5>1. a[i] = p[1] BY <3>2, <4>1
        <5>. QED BY <2>9, <2>11, <5>1 DEF hit
      <4>2. CASE i \in 1 .. Len(o)
        <5>1. a[i] = o[i] BY <3>2, <4>2
        <5>. QED BY <2>2, <2>8, <4>2, <5>1
      <4>. QED BY <3>2, <4>1, <4>2
    <3>4. \A q \in P \cup {p} : Reported(q, box) => \E i \in 1 .. Len(o) + 1 : a[i] = q[1]
      <4> SUFFICES ASSUME NEW q \in P \cup {p}, Reported(q, box)
                   PROVE  \E i \in 1 .. Len(o) + 1 : a[i] = q[1]
        OBVIOUS
      <4>1. CASE q = p
        <5>1. Len(o) + 1 \in 1 .. Len(o) + 1 BY <2>10
        <5>. QED BY <3>2, <4>1, <5>1
      <4>2. CASE q \in P
        <5>1. PICK i \in 1 .. Len(o) : o[i] = q[1] BY <2>2, <4>2
        <5>2. i \in 1 .. Len(o) + 1 BY <2>10
        <5>. QED BY <3>2, <5>1, <5>2
      <4>. QED BY <4>1, <4>2
    <3>5. new.full \in BOOLEAN /\ (new.full => Len(o) + 1 = most) /\ (~ new.full => Len(o) + 1 < most)
      <4>1. /\ new.full \in BOOLEAN /\ (new.full => Len(o) + 1 >= limit)
            /\ (~ new.full => ~ (Len(o) + 1 >= limit))
        <5>1. (Len(o) + 1 >= limit) \in BOOLEAN OBVIOUS
        <5>. QED BY <3>1, <5>1
      <4>2. Len(o) + 1 >= limit => Len(o) + 1 = most BY <2>2, <2>3, <2>10
      <4>3. ~ (Len(o) + 1 >= limit) => Len(o) + 1 < most BY <2>3, <2>10
      <4>. QED BY <4>1, <4>2, <4>3
    <3>6. Sought(new, P \cup {p}, box, limit, gen)
      BY <2>5, <2>6, <3>1, <3>2, <3>3, <3>4, <3>5 DEF Sought, most
    <3>. QED BY <3>6 DEF new
  <2>12. CASE ~ hit
    <3>1. new.out = o /\ new.full = FALSE BY <2>1, <2>12
    <3>2. \A q \in P \cup {p} : Reported(q, box) => \E i \in 1 .. Len(o) : o[i] = q[1]
      BY <2>2, <2>12
    <3> HIDE DEF o, new, most, hit
    <3>3. Sought(new, P \cup {p}, box, limit, gen)
      BY <2>2, <2>5, <2>6, <2>8, <3>1, <3>2 DEF Sought, most
    <3>. QED BY <3>3 DEF new
  <2>. QED BY <2>11, <2>12
<1>. QED BY <1>2, <1>3, <1>4

Accs(m) == [seen : [Entities -> 0 .. m], out : Seq(Entities), full : BOOLEAN]

LEMMA VisitTyped ==
    ASSUME Built, NEW box, NEW limit \in Nat, NEW m \in Nat, NEW gen \in 0 .. m,
           NEW p \in Table, NEW acc \in Accs(m)
    PROVE  Visit(acc, p, box, limit, gen) \in Accs(m)
<1>1. p[1] \in Entities BY TableShape
<1>2. /\ acc.seen \in [Entities -> 0 .. m] /\ acc.out \in Seq(Entities)
      /\ acc.full \in BOOLEAN
  BY DEF Accs
<1>3. [acc.seen EXCEPT ![p[1]] = gen] \in [Entities -> 0 .. m] BY <1>2
<1>4. Append(acc.out, p[1]) \in Seq(Entities) BY <1>1, <1>2
<1>5. Reported(p, box) \in BOOLEAN BY DEF Reported, Inside
<1>6. CASE acc.full \/ acc.seen[p[1]] = gen BY <1>6 DEF Visit
<1>7. CASE ~ (acc.full \/ acc.seen[p[1]] = gen)
  <2> DEFINE s == [acc.seen EXCEPT ![p[1]] = gen]
             o == IF Reported(p, box) THEN Append(acc.out, p[1]) ELSE acc.out
             f == Reported(p, box) /\ Len(acc.out) + 1 >= limit
  <2>1. Visit(acc, p, box, limit, gen) = [seen |-> s, out |-> o, full |-> f]
    BY <1>7 DEF Visit
  <2>2. s \in [Entities -> 0 .. m] BY <1>3
  <2>3. o \in Seq(Entities) BY <1>2, <1>4
  <2>4. f \in BOOLEAN OBVIOUS
  <2> HIDE DEF s, o, f
  <2>. QED BY <2>1, <2>2, <2>3, <2>4 DEF Accs
<1>. QED BY <1>6, <1>7

\* What is left, and the marks and output, after each entry.
Seeking(at, visits, lod, box, limit, gen) ==
    LET n == Cardinality(visits) IN
    /\ Seek(visits, lod, box, limit, gen) = at[n].acc
    /\ at[0] = [left |-> visits, acc |-> [seen |-> seen_set, out |-> <<>>, full |-> FALSE]]
    /\ \A k \in 1 .. n :
          LET next == Earliest(at[k - 1].left, lod)
          IN  at[k] = [left |-> at[k - 1].left \ {next},
                       acc |-> Visit(at[k - 1].acc, index.data[next.slot], box, limit, gen)]

LEMMA SeekSteps ==
    ASSUME NEW visits, Cardinality(visits) \in Nat, NEW lod, NEW box, NEW limit, NEW gen
    PROVE  \E at : Seeking(at, visits, lod, box, limit, gen)
<1> DEFINE n == Cardinality(visits)
           first == [left |-> visits, acc |-> [seen |-> seen_set, out |-> <<>>, full |-> FALSE]]
           Def(v, k) == LET next == Earliest(v.left, lod)
                        IN  [left |-> v.left \ {next},
                             acc |-> Visit(v.acc, index.data[next.slot], box, limit, gen)]
           at == CHOOSE g : g = [k \in 0 .. n |-> IF k = 0 THEN first ELSE Def(g[k - 1], k)]
<1>2. Seek(visits, lod, box, limit, gen) = at[n].acc BY DEF Seek
<1>3. FiniteNatInductiveDefHypothesis(at, first, Def, 0, n)
  BY DEF FiniteNatInductiveDefHypothesis
<1> HIDE DEF at, n
<1>4. FiniteNatInductiveDefConclusion(at, first, Def, 0, n)
  BY <1>3, FiniteNatInductiveDef DEF n
<1>5. at = [k \in 0 .. n |-> IF k = 0 THEN first ELSE Def(at[k - 1], k)]
  BY <1>4 DEF FiniteNatInductiveDefConclusion
<1> HIDE DEF Def, first
<1>6. at[0] = first BY <1>5 DEF n
<1>7. \A k \in 1 .. n : at[k] = Def(at[k - 1], k)
  <2>1. \A k \in 1 .. n : k \in 0 .. n /\ k # 0 BY DEF n
  <2>. QED BY <1>5, <2>1
<1>8. Seeking(at, visits, lod, box, limit, gen) BY <1>2, <1>6, <1>7 DEF Def, first, n, Seeking
<1>. QED BY <1>8

(* What holds at the start and is kept by every visit holds at the end, of  *)
(* all entries: R has the marks and outputs with the positions visited.     *)
LEMMA SeekKeeps ==
    ASSUME Built, NEW box, NEW lod \in {Bits - 1, Bits}, NEW limit, NEW gen, NEW R,
           <<[seen |-> seen_set, out |-> <<>>, full |-> FALSE], {}>> \in R,
           \A acc, P : \A p \in Table : <<acc, P>> \in R =>
              <<Visit(acc, p, box, limit, gen), P \cup {p}>> \in R
    PROVE  <<Seek(Visits(box, lod), lod, box, limit, gen),
             {index.data[v.slot] : v \in Visits(box, lod)}>> \in R
<1> DEFINE V == Visits(box, lod)
           n == Cardinality(V)
           Seen(left) == {index.data[v.slot] : v \in V \ left}
<1>1. IsFiniteSet(V) BY VisitsFinite
<1>2. n \in Nat BY <1>1, FS_CardinalityType
<1>3. PICK at : Seeking(at, V, lod, box, limit, gen) BY <1>2, SeekSteps
<1> DEFINE Good(k) == /\ at[k].left \in SUBSET V /\ Cardinality(at[k].left) = n - k
                      /\ <<at[k].acc, Seen(at[k].left)>> \in R
<1>4. Good(0)
  <2>1. at[0] = [left |-> V, acc |-> [seen |-> seen_set, out |-> <<>>, full |-> FALSE]]
    BY <1>3 DEF Seeking
  <2>2. at[0].left = V /\ at[0].acc = [seen |-> seen_set, out |-> <<>>, full |-> FALSE]
    BY <2>1
  <2>3. Seen(V) = {} OBVIOUS
  <2> HIDE DEF V, Seen
  <2>4. n - 0 = n BY <1>2
  <2>. QED BY <2>2, <2>3, <2>4
<1>5. ASSUME NEW k \in 1 .. n, Good(k - 1) PROVE Good(k)
  <2> DEFINE left == at[k - 1].left
             next == Earliest(left, lod)
             p == index.data[next.slot]
  <2>1. at[k] = [left |-> left \ {next}, acc |-> Visit(at[k - 1].acc, p, box, limit, gen)]
    BY <1>3 DEF Seeking
  <2>2. at[k].left = left \ {next} /\ at[k].acc = Visit(at[k - 1].acc, p, box, limit, gen)
    <3> HIDE DEF left, next, p
    <3>. QED BY <2>1
  <2>3. left \in SUBSET V /\ Cardinality(left) = n - (k - 1) /\ <<at[k - 1].acc, Seen(left)>> \in R
    BY <1>5
  <2>4. left # {}
    <3> HIDE DEF left, n
    <3>1. Cardinality(left) # 0 BY <1>2, <2>3
    <3>. QED BY <3>1, FS_EmptySet
  <2>5. next \in left BY <2>3, <2>4, EarliestIs
  <2>6. p \in Table
    <3>1. next \in V BY <2>3, <2>5
    <3> HIDE DEF next
    <3>. QED BY <3>1, EntryInTable
  <2> HIDE DEF left, next, V, n
  <2>7. Cardinality(left \ {next}) = n - k /\ left \ {next} \in SUBSET V
    <3>1. IsFiniteSet(left) BY <1>1, <2>3, FS_Subset
    <3>2. Cardinality(left \ {next}) = Cardinality(left) - 1 BY <2>5, <3>1, FS_RemoveElement
    <3>3. k \in Int BY <1>2
    <3>. QED BY <1>2, <2>3, <3>2, <3>3
  <2>8. Seen(left \ {next}) = Seen(left) \cup {p}
    <3>1. V \ (left \ {next}) = (V \ left) \cup {next} BY <2>3, <2>5
    <3>. QED BY <3>1
  <2> HIDE DEF p, Seen
  <2>9. <<at[k].acc, Seen(left) \cup {p}>> \in R BY <2>2, <2>3, <2>6
  <2>. QED BY <2>2, <2>7, <2>8, <2>9
<1>6. Good(n)
  <2> DEFINE Q == {k \in 0 .. n : Good(k)}
  <2> HIDE DEF Good, n
  <2>1. 0 \in Q BY <1>2, <1>4
  <2>2. \A k \in 1 .. n : k - 1 \in Q => k \in Q
    <3> SUFFICES ASSUME NEW k \in 1 .. n, Good(k - 1) PROVE k \in Q OBVIOUS
    <3>1. k \in 0 .. n BY <1>2
    <3>. QED BY <1>5, <3>1
  <2> HIDE DEF Q
  <2>3. \A k \in 0 .. n : k \in Q BY <1>2, <2>1, <2>2, ClimbTo
  <2>4. n \in 0 .. n BY <1>2
  <2>. QED BY <2>3, <2>4 DEF Q
<1>7. at[n].left = {}
  <2>1. Cardinality(at[n].left) = 0 /\ at[n].left \in SUBSET V BY <1>2, <1>6
  <2> HIDE DEF n, V
  <2>2. IsFiniteSet(at[n].left) BY <1>1, <2>1, FS_Subset
  <2>. QED BY <2>1, <2>2, FS_EmptySet
<1>8. Seen({}) = {index.data[v.slot] : v \in V} OBVIOUS
<1>9. Seek(V, lod, box, limit, gen) = at[n].acc BY <1>3 DEF Seeking
<1> HIDE DEF V, Seen, n
<1>10. <<at[n].acc, Seen(at[n].left)>> \in R BY <1>6
<1>11. <<Seek(V, lod, box, limit, gen), {index.data[v.slot] : v \in V}>> \in R
  BY <1>7, <1>8, <1>9, <1>10
<1>. QED BY <1>11 DEF V

\* What a search is to return: the hot entities with a position in the box.
Wanted(box) == {p[1] : p \in {p \in Table : Reported(p, box)}}

\* It returns so many, each once.
Exact(o, box, limit) ==
    LET returned == {o[i] : i \in DOMAIN o}
        all == Wanted(box)
    IN  /\ Cardinality(returned) = Len(o) /\ returned \subseteq all
        /\ Len(o) = IF Cardinality(all) < Most(limit) THEN Cardinality(all) ELSE Most(limit)

LEMMA WantedFinite ==
    ASSUME Built, NEW box
    PROVE  IsFiniteSet(Wanted(box))
<1> DEFINE n == Len(positions)
           I == {i \in 1 .. n : Reported(positions[i], box)}
           W == Wanted(box)
           f == [i \in I |-> positions[i][1]]
<1>1. n \in Nat /\ DOMAIN positions = 1 .. n BY BuiltShape
<1>2. IsFiniteSet(I)
  <2>1. I \in SUBSET (1 .. n) OBVIOUS
  <2> HIDE DEF I, n
  <2>. QED BY <1>1, <2>1, UpToFinite
<1>3. \A e : e \in W <=> \E i \in I : e = positions[i][1] BY <1>1 DEF Wanted, Table
<1> HIDE DEF W, I, n
<1>4. f \in Surjection(I, W)
  <2>1. f \in [I -> W] BY <1>3
  <2>2. \A e \in W : \E i \in I : f[i] = e BY <1>3
  <2>. QED BY <2>1, <2>2 DEF Surjection
<1>5. IsFiniteSet(W) BY <1>2, <1>4, FS_Surjection
<1>. QED BY <1>5 DEF W

(* When all positions in the box were sought the output is what it should be. *)
LEMMA SoughtExact ==
    ASSUME Built, NEW box, NEW limit \in Nat, NEW gen, NEW P \in SUBSET Table, NEW acc,
           Sought(acc, P, box, limit, gen), \A p \in Table : Reported(p, box) => p \in P
    PROVE  Exact(acc.out, box, limit)
<1> DEFINE o == acc.out
           n == Len(o)
           returned == {o[i] : i \in DOMAIN o}
           all == Wanted(box)
<1>1. /\ o \in Seq(Entities) /\ n \in Nat /\ DOMAIN o = 1 .. n
      /\ \A i, j \in 1 .. n : o[i] = o[j] => i = j
      /\ \A i \in 1 .. n : \E p \in Table : p[1] = o[i] /\ Reported(p, box)
      /\ acc.full \in BOOLEAN
  BY DEF Sought
<1>2. acc.full => n = Most(limit) BY DEF Sought
<1>3. ~ acc.full => n < Most(limit) /\ \A p \in P : Reported(p, box) => \E i \in 1 .. n : o[i] = p[1]
  BY DEF Sought
<1>4. Most(limit) \in Nat BY DEF Most
<1>5. returned \subseteq all BY <1>1 DEF Wanted
<1>6. ~ acc.full => all \subseteq returned BY <1>1, <1>3 DEF Wanted
<1>7. \A x : x \in returned <=> \E i \in 1 .. n : x = o[i] BY <1>1
<1>8. IsFiniteSet(all) BY WantedFinite
<1> HIDE DEF o, n, returned, all
<1>9. Cardinality(returned) = n
  <2>1. o \in [1 .. n -> returned] BY <1>1, <1>7
  <2>2. o \in Surjection(1 .. n, returned) BY <1>7, <2>1 DEF Surjection
  <2>3. o \in Injection(1 .. n, returned) BY <1>1, <2>1 DEF Injection, IsInjective
  <2>4. IsFiniteSet(1 .. n) /\ Cardinality(1 .. n) = n BY <1>1, FS_Interval
  <2>. QED BY <2>2, <2>3, <2>4, FS_Surjection
<1>10. n <= Cardinality(all) /\ Cardinality(all) \in Nat
  <2>1. Cardinality(returned) <= Cardinality(all) BY <1>5, <1>8, FS_Subset
  <2>. QED BY <1>8, <1>9, <2>1, FS_CardinalityType
<1>11. n = IF Cardinality(all) < Most(limit) THEN Cardinality(all) ELSE Most(limit)
  <2>1. CASE acc.full BY <1>1, <1>2, <1>4, <1>10, <2>1
  <2>2. CASE ~ acc.full
    <3>1. returned = all BY <1>5, <1>6, <2>2
    <3>. QED BY <1>3, <1>9, <2>2, <3>1
  <2>. QED BY <2>1, <2>2
<1>. QED BY <1>5, <1>9, <1>11 DEF Exact, o, n, returned, all

LEMMA SeekTyped ==
    ASSUME Built, NEW box, NEW lod \in {Bits - 1, Bits}, NEW limit \in Nat, NEW m \in Nat,
           NEW gen \in 0 .. m, seen_set \in [Entities -> 0 .. m]
    PROVE  Seek(Visits(box, lod), lod, box, limit, gen) \in Accs(m)
<1> DEFINE R == Accs(m) \X SUBSET Table
           first == [seen |-> seen_set, out |-> <<>>, full |-> FALSE]
           all == {index.data[v.slot] : v \in Visits(box, lod)}
<1>1. first \in Accs(m)
  <2>1. <<>> \in Seq(Entities) OBVIOUS
  <2>. QED BY <2>1 DEF Accs
<1>2. <<first, {}>> \in R BY <1>1
<1>3. \A acc, P : \A p \in Table : <<acc, P>> \in R =>
        <<Visit(acc, p, box, limit, gen), P \cup {p}>> \in R
  <2> SUFFICES ASSUME NEW acc, NEW P, NEW p \in Table, <<acc, P>> \in R
               PROVE  <<Visit(acc, p, box, limit, gen), P \cup {p}>> \in R
    OBVIOUS
  <2>1. acc \in Accs(m) /\ P \in SUBSET Table OBVIOUS
  <2>2. Visit(acc, p, box, limit, gen) \in Accs(m) BY <2>1, VisitTyped
  <2>3. P \cup {p} \in SUBSET Table BY <2>1
  <2>. QED BY <2>2, <2>3
<1> HIDE DEF R
<1>4. <<Seek(Visits(box, lod), lod, box, limit, gen), all>> \in R BY <1>2, <1>3, SeekKeeps
<1> HIDE DEF all
<1>. QED BY <1>4 DEF R

LEMMA SeekSought ==
    ASSUME Built, NEW box \in [x : Int \X Int, y : Int \X Int], NEW lod \in {Bits - 1, Bits},
           NEW limit \in Nat, NEW gen \in Nat, seen_set \in [Entities -> 0 .. gen],
           \A e \in Entities : seen_set[e] < gen
    PROVE  Exact(Seek(Visits(box, lod), lod, box, limit, gen).out, box, limit)
<1> DEFINE R == {r \in Accs(gen) \X SUBSET Table : Sought(r[1], r[2], box, limit, gen)}
           first == [seen |-> seen_set, out |-> <<>>, full |-> FALSE]
           all == {index.data[v.slot] : v \in Visits(box, lod)}
           done == Seek(Visits(box, lod), lod, box, limit, gen)
<1>1. \A acc, P : <<acc, P>> \in R <=>
        acc \in Accs(gen) /\ P \in SUBSET Table /\ Sought(acc, P, box, limit, gen)
  OBVIOUS
<1>2. first \in Accs(gen) /\ Sought(first, {}, box, limit, gen)
  <2>1. <<>> \in Seq(Entities) /\ Len(<<>>) = 0 OBVIOUS
  <2>2. /\ first.seen = seen_set /\ first.out = <<>> /\ first.full = FALSE OBVIOUS
  <2>3. \A p \in Table : p[1] \in Entities BY TableShape
  <2>4. \A p \in Table : seen_set[p[1]] # gen
    <3>1. \A e \in Entities : seen_set[e] # gen OBVIOUS
    <3>. QED BY <2>3, <3>1
  <2>5. 0 < Most(limit) BY DEF Most
  <2>6. first \in Accs(gen) BY <2>1 DEF Accs
  <2> HIDE DEF first
  <2>7. 1 .. 0 = {} OBVIOUS
  <2>8. Sought(first, {}, box, limit, gen) BY <2>1, <2>2, <2>4, <2>5, <2>7 DEF Sought
  <2>. QED BY <2>6, <2>8
<1> HIDE DEF R, first
<1>3. <<first, {}>> \in R BY <1>1, <1>2
<1>4. \A acc, P : \A p \in Table : <<acc, P>> \in R =>
        <<Visit(acc, p, box, limit, gen), P \cup {p}>> \in R
  <2> SUFFICES ASSUME NEW acc, NEW P, NEW p \in Table, <<acc, P>> \in R
               PROVE  <<Visit(acc, p, box, limit, gen), P \cup {p}>> \in R
    OBVIOUS
  <2>1. acc \in Accs(gen) /\ P \in SUBSET Table /\ Sought(acc, P, box, limit, gen) BY <1>1
  <2>2. gen \in 0 .. gen OBVIOUS
  <2>3. Visit(acc, p, box, limit, gen) \in Accs(gen) BY <2>1, <2>2, VisitTyped
  <2>4. Sought(Visit(acc, p, box, limit, gen), P \cup {p}, box, limit, gen)
    BY <2>1, VisitSought
  <2>. QED BY <1>1, <2>1, <2>3, <2>4
<1>5. <<done, all>> \in R BY <1>3, <1>4, SeekKeeps DEF first
<1>6. Sought(done, all, box, limit, gen) /\ all \in SUBSET Table
  <2> HIDE DEF done, all
  <2>. QED BY <1>1, <1>5
<1>7. \A p \in Table : Reported(p, box) => p \in all
  <2> SUFFICES ASSUME NEW p \in Table, Reported(p, box) PROVE p \in all OBVIOUS
  <2>1. PICK i \in DOMAIN positions : p = positions[i] BY DEF Table
  <2>2. Inside(positions[i], box) BY <2>1 DEF Reported
  <2>3. \E v \in Visits(box, lod) : index.data[v.slot] = positions[i] BY <2>2, VisitsCover
  <2>. QED BY <2>1, <2>3
<1> HIDE DEF done, all
<1>8. Exact(done.out, box, limit) BY <1>6, <1>7, SoughtExact
<1>. QED BY <1>8 DEF done

-----------------------------------------------------------------------------
(* The theorems *)

TypeInv == Built /\ TypeOK

LEMMA TypeInvInit == Init => TypeInv
<1> SUFFICES ASSUME Init PROVE TypeInv OBVIOUS
<1>1. Built BY DEF Init, Built
<1>2. seen_set \in [Entities -> 0 .. GenMod - 1] /\ seen_gen \in 0 .. GenMod - 1
  <2>1. 0 \in 0 .. GenMod - 1 BY WidthsOK
  <2>. QED BY <2>1 DEF Init
<1>3. out \in Seq(Entities) /\ searches \in 0 .. MaxSearches /\ hot \subseteq Entities
  BY WidthsOK DEF Init
<1>. QED BY <1>1, <1>2, <1>3 DEF TypeInv, TypeOK

(* What a search leaves, in one step. *)
LEMMA SearchLeaves ==
    ASSUME NEW box \in Boxes, NEW limit \in Limits, Search(box, limit), TypeInv
    PROVE  /\ box \in [x : Int \X Int, y : Int \X Int] /\ limit \in Nat
           /\ NextGen \in 0 .. GenMod - 1
           /\ \E lod \in {Bits - 1, Bits} :
                 /\ seen_set' = Seek(Visits(box, lod), lod, box, limit, NextGen).seen
                 /\ out' = Seek(Visits(box, lod), lod, box, limit, NextGen).out
<1>1. box \in [x : Int \X Int, y : Int \X Int] /\ limit \in Nat BY ArgumentsOK
<1>2. NextGen \in 0 .. GenMod - 1
  <2>1. seen_gen + 1 \in Int /\ GenMod \in Nat \ {0} BY WidthsOK DEF TypeInv, TypeOK
  <2>. QED BY <2>1 DEF NextGen
<1> DEFINE lod == EffectiveLod(box, limit)
<1>3. lod \in {Bits - 1, Bits} BY LodIs
<1>4. /\ seen_set' = Seek(Visits(box, lod), lod, box, limit, NextGen).seen
      /\ out' = Seek(Visits(box, lod), lod, box, limit, NextGen).out
  BY DEF Search
<1> HIDE DEF lod
<1>. QED BY <1>1, <1>2, <1>3, <1>4

LEMMA TypeInvStep == TypeInv /\ [Next]_vars => TypeInv'
<1> SUFFICES ASSUME TypeInv, [Next]_vars PROVE TypeInv' OBVIOUS
<1> USE DEF TypeInv, TypeOK
<1>0. positions' = positions /\ index' = index
  BY DEF Next, Search, Evict, Reload, vars
<1>1. Built' BY <1>0 DEF Built
<1>2. ASSUME NEW box \in Boxes, NEW limit \in Limits, Search(box, limit) PROVE TypeInv'
  <2>1. PICK lod \in {Bits - 1, Bits} :
          /\ seen_set' = Seek(Visits(box, lod), lod, box, limit, NextGen).seen
          /\ out' = Seek(Visits(box, lod), lod, box, limit, NextGen).out
    BY <1>2, SearchLeaves
  <2>2. NextGen \in 0 .. GenMod - 1 /\ limit \in Nat /\ GenMod - 1 \in Nat
    BY <1>2, SearchLeaves, WidthsOK
  <2> DEFINE done == Seek(Visits(box, lod), lod, box, limit, NextGen)
  <2>3. done \in Accs(GenMod - 1) BY <2>2, SeekTyped
  <2> HIDE DEF done
  <2>4. done.seen \in [Entities -> 0 .. GenMod - 1] /\ done.out \in Seq(Entities)
    BY <2>3 DEF Accs
  <2>5. seen_set' = done.seen /\ out' = done.out BY <2>1 DEF done
  <2>6. seen_gen' = NextGen /\ hot' = hot /\ searches' \in 0 .. MaxSearches
    <3>1. searches < MaxSearches /\ searches' = searches + 1 /\ seen_gen' = NextGen /\ hot' = hot
      BY <1>2 DEF Search
    <3>. QED BY <3>1, WidthsOK
  <2>. QED BY <1>1, <2>2, <2>4, <2>5, <2>6
<1>3. ASSUME NEW batch \in SUBSET hot, Evict(batch) PROVE TypeInv'
  BY <1>1, <1>3 DEF Evict
<1>4. ASSUME NEW e \in Entities, Reload(e) PROVE TypeInv'
  BY <1>1, <1>4 DEF Reload
<1>5. CASE UNCHANGED vars BY <1>1, <1>5 DEF vars
<1>. QED BY <1>2, <1>3, <1>4, <1>5 DEF Next

(* Whatever is searched, evicted and loaded back, marks stay generations    *)
(* and results rowids.                                                      *)
THEOREM SpatialTypes == Spec => []TypeOK
<1>1. TypeInv => TypeOK BY DEF TypeInv
<1>. QED BY <1>1, TypeInvInit, TypeInvStep, PTL DEF Spec

(* SpatialIndex::build puts each position into the row of its cell, and     *)
(* nothing else into the row, for every table of positions.                 *)
THEOREM GridIsFaithful == Spec => []GridFaithful
<1>1. TypeInv => GridFaithful BY BuiltFaithful DEF TypeInv
<1>. QED BY <1>1, TypeInvInit, TypeInvStep, PTL DEF Spec

\* No mark is of a generation to come, while generations do not wrap.
Fresh ==
    /\ seen_gen = searches
    /\ \A e \in Entities : seen_set[e] <= seen_gen

ExactInv == TypeInv /\ Fresh /\ SearchExact

LEMMA WantedIs ==
    ASSUME NEW box
    PROVE  Wanted(box) = {positions[i][1] : i \in {i \in DOMAIN positions :
                             positions[i][1] \in hot /\ Inside(positions[i], box)}}
BY DEF Wanted, Table, Reported

LEMMA ExactInvInit == Init => ExactInv
<1> SUFFICES ASSUME Init PROVE ExactInv OBVIOUS
<1>1. TypeInv BY TypeInvInit
<1>2. Fresh BY DEF Init, Fresh
<1>3. SearchExact BY DEF Init, SearchExact
<1>. QED BY <1>1, <1>2, <1>3 DEF ExactInv

(* A search has a generation of its own, so it starts with no marks. *)
LEMMA ExactInvStep ==
    ASSUME MaxSearches < GenMod
    PROVE  ExactInv /\ [Next]_vars => ExactInv'
<1> SUFFICES ASSUME ExactInv, [Next]_vars PROVE ExactInv' OBVIOUS
<1>0. TypeInv /\ Fresh /\ SearchExact /\ TypeInv' BY TypeInvStep DEF ExactInv
<1>1. Built /\ TypeOK BY <1>0 DEF TypeInv
<1>2. positions' = positions BY DEF Next, Search, Evict, Reload, vars
<1>3. ASSUME NEW box \in Boxes, NEW limit \in Limits, Search(box, limit) PROVE ExactInv'
  <2>1. PICK lod \in {Bits - 1, Bits} :
          /\ seen_set' = Seek(Visits(box, lod), lod, box, limit, NextGen).seen
          /\ out' = Seek(Visits(box, lod), lod, box, limit, NextGen).out
    BY <1>0, <1>3, SearchLeaves
  <2>2. box \in [x : Int \X Int, y : Int \X Int] /\ limit \in Nat BY <1>0, <1>3, SearchLeaves
  <2>3. /\ searches < MaxSearches /\ searches' = searches + 1 /\ seen_gen' = NextGen
        /\ search' = [phase |-> "done", box |-> box, limit |-> limit, hot |-> hot]
    BY <1>3 DEF Search
  <2>4. NextGen = seen_gen + 1 /\ NextGen \in Nat /\ seen_gen \in Nat /\ seen_gen = searches
    <3>1. seen_gen = searches /\ searches \in Nat BY <1>0, <1>1, WidthsOK DEF Fresh, TypeOK
    <3>2. seen_gen + 1 \in 0 .. GenMod - 1 BY <2>3, <3>1, WidthsOK
    <3>3. (seen_gen + 1) % GenMod = seen_gen + 1 BY <3>2, WidthsOK
    <3>. QED BY <3>1, <3>3 DEF NextGen
  <2>5. /\ seen_set \in [Entities -> 0 .. NextGen]
        /\ \A e \in Entities : seen_set[e] < NextGen
    <3>1. seen_set \in [Entities -> 0 .. GenMod - 1] BY <1>1 DEF TypeOK
    <3>2. \A e \in Entities : seen_set[e] \in Nat /\ seen_set[e] <= seen_gen
      BY <1>0, <3>1 DEF Fresh
    <3>3. \A e \in Entities : seen_set[e] \in 0 .. NextGen /\ seen_set[e] < NextGen
      BY <2>4, <3>2
    <3>. QED BY <3>1, <3>3
  <2> DEFINE done == Seek(Visits(box, lod), lod, box, limit, NextGen)
  <2>6. Exact(done.out, box, limit) BY <1>1, <2>2, <2>4, <2>5, SeekSought
  <2>7. done \in Accs(NextGen)
    <3>1. NextGen \in 0 .. NextGen BY <2>4
    <3>. QED BY <1>1, <2>2, <2>4, <2>5, <3>1, SeekTyped
  <2> HIDE DEF done
  <2>8. seen_set' = done.seen /\ out' = done.out BY <2>1 DEF done
  <2>9. Fresh'
    <3>1. done.seen \in [Entities -> 0 .. NextGen] BY <2>7 DEF Accs
    <3>2. \A e \in Entities : seen_set'[e] <= seen_gen' BY <2>3, <2>4, <2>8, <3>1
    <3>. QED BY <2>3, <2>4, <3>2 DEF Fresh
  <2>10. SearchExact'
    <3>1. Exact(out', box, limit) BY <2>6, <2>8
    <3>2. /\ search'.phase = "done" /\ search'.box = box /\ search'.limit = limit
          /\ search'.hot = hot
      BY <2>3
    <3>3. Wanted(box) = {positions[i][1] : i \in {i \in DOMAIN positions :
                            positions[i][1] \in hot /\ Inside(positions[i], box)}}
      BY WantedIs
    <3> DEFINE Ref(ps, h, b) == {ps[i][1] : i \in {i \in DOMAIN ps :
                                    ps[i][1] \in h /\ Inside(ps[i], b)}}
               Is(o, ps, h, b, l) ==
                  LET all == Ref(ps, h, b)
                      most == IF l = 0 THEN 1 ELSE l
                      returned == {o[i] : i \in DOMAIN o}
                  IN  /\ Cardinality(returned) = Len(o) /\ returned \subseteq all
                      /\ Len(o) = IF Cardinality(all) < most THEN Cardinality(all) ELSE most
    <3>4. SearchExact' <=> (search'.phase = "done" =>
              Is(out', positions', search'.hot, search'.box, search'.limit))
      BY DEF SearchExact, Returned
    <3>5. Wanted(box) = Ref(positions, hot, box) BY <3>3
    <3> HIDE DEF Ref
    <3>6. Is(out', positions, hot, box, limit) BY <3>1, <3>5 DEF Exact, Most
    <3> HIDE DEF Is
    <3>. QED BY <1>2, <3>2, <3>4, <3>6
  <2>. QED BY <1>0, <2>9, <2>10 DEF ExactInv
<1>4. CASE UNCHANGED <<positions, seen_set, seen_gen, search, out, searches>>
  <2>1. Fresh' BY <1>0, <1>4 DEF Fresh
  <2>2. SearchExact' BY <1>0, <1>4 DEF SearchExact, Returned
  <2>. QED BY <1>0, <2>1, <2>2 DEF ExactInv
<1>5. \/ \E box \in Boxes, limit \in Limits : Search(box, limit)
      \/ UNCHANGED <<positions, seen_set, seen_gen, search, out, searches>>
  BY DEF Next, Evict, Reload, vars
<1>. QED BY <1>3, <1>4, <1>5

(* A search returns the hot entities inside its box, each once and up to    *)
(* the limit, whichever level of detail it runs at and whatever marks the   *)
(* thread's earlier searches left, as long as generations do not wrap.      *)
THEOREM SearchesAreExact ==
    ASSUME MaxSearches < GenMod
    PROVE  Spec => []SearchExact
<1>1. ExactInv => SearchExact BY DEF ExactInv
<1>2. ExactInv /\ [Next]_vars => ExactInv' BY ExactInvStep
<1>. QED BY <1>1, <1>2, ExactInvInit, PTL DEF Spec

=============================================================================
