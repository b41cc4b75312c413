---------------------------- MODULE TraversalProofs ----------------------------
(***************************************************************************)
(* What holds of every graph, query and order of queries: the compressed   *)
(* rows hold the edges, get_edges keeps to its limit, and the breadth-     *)
(* first traversals return what is nearest.                                *)
(*                                                                         *)
(* The loops of the code are recursive functions here; each is unfolded    *)
(* once (FiniteNatInductiveDef) and followed by a least counterexample.    *)
(***************************************************************************)
EXTENDS Traversal, SequenceTheorems, FiniteSetTheorems, WellFoundedInduction, TLAPS

(* A set of natural numbers has a least element. *)
LEMMA LeastNat ==
    ASSUME NEW S \in SUBSET Nat, S # {}
    PROVE  \E m \in S : \A k \in S : m <= k
<1> DEFINE R == OpToRel(<, Nat)
<1>1. IsWellFoundedOn(R, Nat) BY NatLessThanWellFounded
<1>2. \A x, y \in Nat : x < y => <<x, y>> \in R BY DEF OpToRel
<1> HIDE DEF R
<1>3. PICK x \in S : \A y \in S : ~ (<<y, x>> \in R) BY <1>1, WFMin
<1>4. ASSUME NEW y \in S, y < x PROVE FALSE
  <2>1. x \in Nat /\ y \in Nat OBVIOUS
  <2>2. <<y, x>> \in R BY <2>1, <1>2, <1>4
  <2>. QED BY <2>2, <1>3
<1>5. \A y \in S : y \in Nat OBVIOUS
<1>. QED BY <1>4, <1>5

LEMMA UpTo ==
    ASSUME NEW n \in Nat
    PROVE  IsFiniteSet(1 .. n) /\ Cardinality(1 .. n) = n
BY FS_Interval

-----------------------------------------------------------------------------
(* Sets in order *)

(* R is a strict total order of S. *)
Orders(R, S) ==
    /\ \A x \in S : <<x, x>> \notin R
    /\ \A x, y \in S : x # y => <<x, y>> \in R \/ <<y, x>> \in R
    /\ \A x, y, z \in S : <<x, y>> \in R /\ <<y, z>> \in R => <<x, z>> \in R

(* A finite set can be enumerated in any order: each element goes where the *)
(* number of those before it says.                                          *)
LEMMA OrderExists ==
    ASSUME NEW S, IsFiniteSet(S), NEW R, Orders(R, S)
    PROVE  \E s \in [1 .. Cardinality(S) -> S] :
             \A i, j \in 1 .. Cardinality(S) : i < j => <<s[i], s[j]>> \in R
<1> DEFINE n == Cardinality(S)
           Under(x) == {y \in S : <<y, x>> \in R}
           rank == [x \in S |-> Cardinality(Under(x)) + 1]
<1>1. n \in Nat BY FS_CardinalityType
<1>2. \A x \in S : IsFiniteSet(Under(x)) /\ Cardinality(Under(x)) \in Nat
  <2> SUFFICES ASSUME NEW x \in S
               PROVE  IsFiniteSet(Under(x)) /\ Cardinality(Under(x)) \in Nat
    OBVIOUS
  <2>1. Under(x) \in SUBSET S OBVIOUS
  <2> HIDE DEF Under
  <2>2. IsFiniteSet(Under(x)) BY <2>1, FS_Subset
  <2>. QED BY <2>2, FS_CardinalityType
<1>3. \A x, y \in S : <<x, y>> \in R => Cardinality(Under(x)) < Cardinality(Under(y))
  <2> SUFFICES ASSUME NEW x \in S, NEW y \in S, <<x, y>> \in R
               PROVE  Cardinality(Under(x)) < Cardinality(Under(y))
    OBVIOUS
  <2>1. Under(x) \in SUBSET Under(y) BY DEF Orders
  <2>2. x \in Under(y) /\ x \notin Under(x) BY DEF Orders
  <2> HIDE DEF Under
  <2>3. /\ Cardinality(Under(x)) <= Cardinality(Under(y))
        /\ Cardinality(Under(x)) # Cardinality(Under(y))
    BY <1>2, <2>1, <2>2, FS_Subset
  <2>. QED BY <1>2, <2>3
<1>4. \A x \in S : Cardinality(Under(x)) + 1 \in 1 .. n
  <2> SUFFICES ASSUME NEW x \in S PROVE Cardinality(Under(x)) + 1 \in 1 .. n OBVIOUS
  <2>1. Under(x) \in SUBSET S /\ x \in S /\ x \notin Under(x) BY DEF Orders
  <2> HIDE DEF Under
  <2>2. Cardinality(Under(x)) <= n /\ Cardinality(Under(x)) # n BY <2>1, FS_Subset
  <2>. QED BY <1>1, <1>2, <2>2
<1>5. rank \in [S -> 1 .. n] BY <1>4
<1>6. \A x, y \in S : <<x, y>> \in R => rank[x] < rank[y]
  <2> HIDE DEF Under
  <2>. QED BY <1>2, <1>3
<1> HIDE DEF rank
<1>7. \A x, y \in S : rank[x] = rank[y] => x = y
  <2> SUFFICES ASSUME NEW x \in S, NEW y \in S, rank[x] = rank[y], x # y PROVE FALSE
    OBVIOUS
  <2>1. rank[x] \in 1 .. n /\ rank[y] \in 1 .. n BY <1>5
  <2>2. <<x, y>> \in R \/ <<y, x>> \in R BY DEF Orders
  <2>3. rank[x] < rank[y] \/ rank[y] < rank[x] BY <1>6, <2>2
  <2>. QED BY <1>1, <2>1, <2>3
<1>8. rank \in Injection(S, 1 .. n)
  BY <1>5, <1>7 DEF Injection, IsInjective
<1>9. \A i \in 1 .. n : \E x \in S : rank[x] = i
  <2>1. IsFiniteSet(1 .. n) /\ Cardinality(1 .. n) = n
    BY <1>1, FS_Interval
  <2>2. rank \in Surjection(S, 1 .. n)
    BY <1>8, <2>1, FS_Injection
  <2>. QED BY <2>2 DEF Surjection
<1> DEFINE s == [i \in 1 .. n |-> CHOOSE x \in S : rank[x] = i]
<1>10. \A i \in 1 .. n : s[i] \in S /\ rank[s[i]] = i BY <1>9
<1> HIDE DEF s
<1>11. \A i, j \in 1 .. n : i < j => <<s[i], s[j]>> \in R
  <2> SUFFICES ASSUME NEW i \in 1 .. n, NEW j \in 1 .. n, i < j PROVE <<s[i], s[j]>> \in R
    OBVIOUS
  <2>1. s[i] \in S /\ s[j] \in S /\ rank[s[i]] = i /\ rank[s[j]] = j BY <1>10
  <2>2. ~ (<<s[j], s[i]>> \in R) /\ s[i] # s[j]
    <3>1. i # j /\ ~ (j < i) BY <1>1
    <3>. QED BY <1>6, <2>1, <3>1
  <2>. QED BY <2>1, <2>2 DEF Orders
<1>12. s \in [1 .. n -> S]
  <2>1. \A i \in 1 .. n : s[i] \in S BY <1>10
  <2>. QED BY <2>1 DEF s
<1>. QED BY <1>11, <1>12

\* s enumerates S in the order R.
Sorts(s, S, R) ==
    /\ s \in [1 .. Cardinality(S) -> S]
    /\ \A i, j \in 1 .. Cardinality(S) : i < j => <<s[i], s[j]>> \in R

\* s has every element of S, once.
Lists(s, S) ==
    /\ s \in Seq(S) /\ Len(s) = Cardinality(S) /\ Cardinality(S) \in Nat
    /\ \A i, j \in 1 .. Len(s) : s[i] = s[j] => i = j
    /\ \A x \in S : \E i \in 1 .. Len(s) : s[i] = x

(* A sequence in order has every element of the set, once. *)
LEMMA OrderBijects ==
    ASSUME NEW S, IsFiniteSet(S), NEW R, Orders(R, S), NEW s, Sorts(s, S, R)
    PROVE  Lists(s, S)
<1> DEFINE n == Cardinality(S)
<1>0. s \in [1 .. n -> S] /\ \A i, j \in 1 .. n : i < j => <<s[i], s[j]>> \in R
  BY DEF Sorts
<1>1. n \in Nat BY FS_CardinalityType
<1>2. s \in Seq(S) /\ Len(s) = n BY <1>0, <1>1
<1>3. \A i, j \in 1 .. n : s[i] = s[j] => i = j
  <2> SUFFICES ASSUME NEW i \in 1 .. n, NEW j \in 1 .. n, s[i] = s[j], i # j PROVE FALSE
    OBVIOUS
  <2>1. i < j \/ j < i BY <1>1
  <2>2. s[i] \in S BY <1>0
  <2>. QED BY <1>0, <2>1, <2>2 DEF Orders
<1>4. s \in Injection(1 .. n, S) BY <1>0, <1>3 DEF Injection, IsInjective
<1>5. IsFiniteSet(1 .. n) /\ Cardinality(1 .. n) = n BY <1>1, FS_Interval
<1>6. s \in Surjection(1 .. n, S) BY <1>4, <1>5, FS_Injection
<1>7. \A x \in S : \E i \in 1 .. n : s[i] = x BY <1>6 DEF Surjection
<1>. QED BY <1>1, <1>2, <1>3, <1>7 DEF Lists

-----------------------------------------------------------------------------
(* Compressed sparse rows *)

(* A loop over a sequence is a function of how far it has come. *)
LEMMA CsrLoopSteps ==
    ASSUME NEW n \in Nat, NEW E, NEW es \in Seq(E)
    PROVE  \E at :
             /\ CsrLoop(es, n) = at[Len(es)]
             /\ at[0] = [row |-> 0, offsets |-> [i \in 0 .. n |-> 0]]
             /\ \A k \in 1 .. Len(es) :
                  at[k] = [row |-> es[k].row,
                           offsets |-> Close(at[k - 1].offsets, at[k - 1].row + 1,
                                             es[k].row, k - 1)]
<1> DEFINE m == Len(es)
           first == [row |-> 0, offsets |-> [i \in 0 .. n |-> 0]]
           Def(v, k) == [row |-> es[k].row,
                         offsets |-> Close(v.offsets, v.row + 1, es[k].row, k - 1)]
           at == CHOOSE g : g = [k \in 0 .. m |-> IF k = 0 THEN first ELSE Def(g[k - 1], k)]
<1>1. m \in Nat OBVIOUS
<1>2. CsrLoop(es, n) = at[m] BY DEF CsrLoop
<1>3. FiniteNatInductiveDefHypothesis(at, first, Def, 0, m)
  BY DEF FiniteNatInductiveDefHypothesis
<1> HIDE DEF at
<1>4. FiniteNatInductiveDefConclusion(at, first, Def, 0, m)
  BY <1>1, <1>3, FiniteNatInductiveDef
<1>5. at = [k \in 0 .. m |-> IF k = 0 THEN first ELSE Def(at[k - 1], k)]
  BY <1>4 DEF FiniteNatInductiveDefConclusion
<1> HIDE DEF Def, first
<1>6. at[0] = first BY <1>1, <1>5
<1>7. \A k \in 1 .. m : at[k] = Def(at[k - 1], k)
  <2>1. \A k \in 1 .. m : k \in 0 .. m /\ k # 0 BY <1>1
  <2>. QED BY <1>5, <2>1
<1>. QED BY <1>2, <1>6, <1>7 DEF Def, first

(* Offsets part the edges by rows: those before the offset of a row are of  *)
(* the rows before it.                                                      *)
LEMMA BuildCsrParts ==
    ASSUME NEW n \in Nat, NEW E, NEW es \in Seq(E), \A e \in E : e.row \in 0 .. n - 1,
           \A i, j \in 1 .. Len(es) : i < j => es[i].row <= es[j].row
    PROVE  LET c == BuildCsr(es, n) IN
           /\ c.edges = es
           /\ c.offsets \in [0 .. n -> 0 .. Len(es)]
           /\ \A i \in 0 .. n, j \in 1 .. Len(es) : es[j].row < i <=> j <= c.offsets[i]
<1> DEFINE m == Len(es)
<1>0. m \in Nat /\ \A k \in 1 .. m : es[k].row \in 0 .. n - 1 OBVIOUS
<1>1. PICK at :
        /\ CsrLoop(es, n) = at[m]
        /\ at[0] = [row |-> 0, offsets |-> [i \in 0 .. n |-> 0]]
        /\ \A k \in 1 .. m :
             at[k] = [row |-> es[k].row,
                      offsets |-> Close(at[k - 1].offsets, at[k - 1].row + 1,
                                        es[k].row, k - 1)]
  BY CsrLoopSteps
<1> DEFINE Parts(offsets, k, last) ==
               /\ offsets \in [0 .. n -> 0 .. m]
               /\ \A i \in 0 .. last :
                    /\ offsets[i] \in 0 .. k
                    /\ \A j \in 1 .. k : es[j].row < i <=> j <= offsets[i]
           Good(k) == /\ at[k].row \in 0 .. n
                      /\ \A j \in 1 .. m : j > k => at[k].row <= es[j].row
                      /\ \A j \in 1 .. k : es[j].row <= at[k].row
                      /\ Parts(at[k].offsets, k, at[k].row)
<1>2. ASSUME NEW k \in 0 .. m, NEW offsets, NEW row \in 0 .. n, NEW to \in 0 .. n,
             row <= to, Parts(offsets, k, row), \A j \in 1 .. k : es[j].row <= row
      PROVE  Parts(Close(offsets, row + 1, to, k), k, to)
  <2> DEFINE closed == Close(offsets, row + 1, to, k)
  <2>1. closed = [i \in 0 .. n |-> IF i \in row + 1 .. to THEN k ELSE offsets[i]]
    BY <1>2 DEF Close
  <2>2. closed \in [0 .. n -> 0 .. m] BY <1>2, <2>1
  <2>3. ASSUME NEW i \in 0 .. to
        PROVE  /\ closed[i] \in 0 .. k
               /\ \A j \in 1 .. k : es[j].row < i <=> j <= closed[i]
    <3>1. i \in 0 .. n BY <1>2
    <3>2. CASE i <= row
      <4>1. closed[i] = offsets[i] BY <1>2, <2>1, <3>1, <3>2
      <4>2. i \in 0 .. row BY <3>2
      <4>. QED BY <1>2, <4>1, <4>2
    <3>3. CASE ~ (i <= row)
      <4>1. closed[i] = k BY <1>2, <2>1, <3>1, <3>3
      <4>2. \A j \in 1 .. k : es[j].row < i
        <5> SUFFICES ASSUME NEW j \in 1 .. k PROVE es[j].row < i OBVIOUS
        <5>1. es[j].row <= row /\ j \in 1 .. m BY <1>0, <1>2
        <5>2. es[j].row \in Int BY <1>0, <5>1
        <5>. QED BY <1>2, <3>3, <5>1, <5>2
      <4>. QED BY <1>0, <4>1, <4>2
    <3>. QED BY <3>2, <3>3
  <2>. QED BY <2>2, <2>3
<1>3. Good(0)
  <2>1. at[0].row = 0 /\ at[0].offsets = [i \in 0 .. n |-> 0] BY <1>1
  <2>2. \A j \in 1 .. m : 0 <= es[j].row BY <1>0
  <2>3. 1 .. 0 = {} /\ \A i \in 0 .. 0 : i = 0 OBVIOUS
  <2>. QED BY <1>0, <2>1, <2>2, <2>3
<1>4. ASSUME NEW k \in 1 .. m, Good(k - 1) PROVE Good(k)
  <2> DEFINE old == at[k - 1]
  <2> HIDE DEF Parts
  <2>1. /\ at[k].row = es[k].row
        /\ at[k].offsets = Close(old.offsets, old.row + 1, es[k].row, k - 1)
    <3>1. at[k] = [row |-> es[k].row,
                   offsets |-> Close(old.offsets, old.row + 1, es[k].row, k - 1)]
      BY <1>1
    <3>. QED BY <3>1
  <2>2. /\ old.row \in 0 .. n /\ old.row <= es[k].row /\ Parts(old.offsets, k - 1, old.row)
        /\ \A j \in 1 .. k - 1 : es[j].row <= old.row
    BY <1>0, <1>4
  <2>3. es[k].row \in 0 .. n /\ es[k].row \in 0 .. n - 1 BY <1>0
  <2>4. k - 1 \in 0 .. m BY <1>0
  <2> HIDE DEF old
  <2>5. Parts(at[k].offsets, k - 1, es[k].row) BY <1>2, <2>1, <2>2, <2>3, <2>4
  <2>6. Parts(at[k].offsets, k, es[k].row)
    <3>1. /\ at[k].offsets \in [0 .. n -> 0 .. m]
          /\ \A i \in 0 .. es[k].row :
               /\ at[k].offsets[i] \in 0 .. k - 1
               /\ \A j \in 1 .. k - 1 : es[j].row < i <=> j <= at[k].offsets[i]
      BY <2>5 DEF Parts
    <3>2. ASSUME NEW i \in 0 .. es[k].row
          PROVE  /\ at[k].offsets[i] \in 0 .. k
                 /\ \A j \in 1 .. k : es[j].row < i <=> j <= at[k].offsets[i]
      <4>1. at[k].offsets[i] \in 0 .. k - 1 BY <3>1
      <4>2. ~ (es[k].row < i) /\ ~ (k <= at[k].offsets[i]) BY <2>3, <4>1
      <4>3. ASSUME NEW j \in 1 .. k PROVE es[j].row < i <=> j <= at[k].offsets[i]
        <5>1. CASE j = k BY <4>2, <5>1
        <5>2. CASE j # k
          <6>1. j \in 1 .. k - 1 BY <5>2
          <6>. QED BY <3>1, <6>1
        <5>. QED BY <5>1, <5>2
      <4>4. at[k].offsets[i] \in 0 .. k BY <4>1
      <4>. QED BY <4>3, <4>4
    <3>. QED BY <3>1, <3>2 DEF Parts
  <2>7. \A j \in 1 .. m : j > k => at[k].row <= es[j].row BY <2>1
  <2>8. \A j \in 1 .. k : es[j].row <= at[k].row
    <3> SUFFICES ASSUME NEW j \in 1 .. k PROVE es[j].row <= es[k].row BY <2>1
    <3>1. j = k \/ (j < k /\ j \in 1 .. m) BY <1>0
    <3>. QED BY <2>3, <3>1
  <2>. QED BY <2>1, <2>3, <2>6, <2>7, <2>8
<1>5. Good(m)
  <2> HIDE DEF Good
  <2> DEFINE Bad == {k \in 0 .. m : ~ Good(k)}
  <2> SUFFICES ASSUME Bad # {} PROVE FALSE BY <1>0
  <2>1. Bad \in SUBSET Nat BY <1>0
  <2>2. PICK k \in Bad : \A j \in Bad : k <= j BY <2>1, LeastNat
  <2>3. k # 0 BY <1>3, <2>2
  <2>4. k \in 1 .. m /\ k - 1 \in 0 .. m BY <1>0, <2>2, <2>3
  <2>5. k - 1 \notin Bad BY <2>2, <2>4
  <2>. QED BY <1>4, <2>2, <2>4, <2>5
<1>6. Parts(BuildCsr(es, n).offsets, m, n) /\ BuildCsr(es, n).edges = es
  <2> DEFINE done == at[m]
  <2>1. /\ BuildCsr(es, n).edges = es
        /\ BuildCsr(es, n).offsets = Close(done.offsets, done.row + 1, n, m)
    BY <1>1 DEF BuildCsr
  <2>2. /\ done.row \in 0 .. n /\ Parts(done.offsets, m, done.row)
        /\ \A j \in 1 .. m : es[j].row <= done.row
    BY <1>5
  <2> HIDE DEF done, Parts
  <2>3. m \in 0 .. m /\ n \in 0 .. n /\ done.row <= n BY <1>0, <2>2
  <2>. QED BY <1>2, <2>1, <2>2, <2>3
<1>. QED BY <1>6

(* So a row has the edges of its number, each as often as the sequence. *)
RowsSorted(es, E, n) ==
    /\ es \in Seq(E) /\ \A e \in E : e.row \in 0 .. n - 1
    /\ \A i, j \in 1 .. Len(es) : i < j => es[i].row <= es[j].row
    /\ \A i, j \in 1 .. Len(es) : es[i] = es[j] => i = j

RowOf(row, es, E, i) ==
    /\ row \in Seq(E)
    /\ \A k \in 1 .. Len(row) : row[k].row = i
    /\ \A k, l \in 1 .. Len(row) : row[k] = row[l] => k = l
    /\ \A j \in 1 .. Len(es) : es[j].row = i => \E k \in 1 .. Len(row) : row[k] = es[j]

LEMMA RowParts ==
    ASSUME NEW n \in Nat, NEW E, NEW es, RowsSorted(es, E, n), NEW i \in 0 .. n - 1
    PROVE  RowOf(Row(BuildCsr(es, n), i), es, E, i)
<1> DEFINE c == BuildCsr(es, n)
           m == Len(es)
           a == c.offsets[i]
           b == c.offsets[i + 1]
           row == Row(c, i)
<1>. es \in Seq(E) BY DEF RowsSorted
<1>0. m \in Nat /\ \A k \in 1 .. m : es[k].row \in Nat /\ es[k] \in E BY DEF RowsSorted
<1>1. /\ c.edges = es /\ c.offsets \in [0 .. n -> 0 .. m]
      /\ \A x \in 0 .. n, j \in 1 .. m : es[j].row < x <=> j <= c.offsets[x]
  BY BuildCsrParts DEF RowsSorted
<1>2. i \in 0 .. n /\ i + 1 \in 0 .. n /\ i \in Nat OBVIOUS
<1>3. a \in 0 .. m /\ b \in 0 .. m BY <1>1, <1>2
<1>4. \A j \in 1 .. m : (es[j].row < i <=> j <= a) /\ (es[j].row < i + 1 <=> j <= b)
  BY <1>1, <1>2
<1>5. row = SubSeq(es, a + 1, b) BY <1>1 DEF Row
<1> HIDE DEF row, a, b, c
<1>6. a <= b
  <2> SUFFICES ASSUME ~ (a <= b) PROVE FALSE OBVIOUS
  <2>1. a \in 1 .. m BY <1>3
  <2>2. es[a].row < i /\ ~ (es[a].row < i + 1) BY <1>3, <1>4, <2>1
  <2>. QED BY <1>0, <1>2, <2>1, <2>2
<1>7. \A x \in a + 1 .. b : es[x] \in E
  <2>1. \A x \in a + 1 .. b : x \in 1 .. m BY <1>0, <1>3
  <2>. QED BY <1>0, <2>1
<1>8. /\ row \in Seq(E) /\ Len(row) = IF a + 1 <= b THEN b - (a + 1) + 1 ELSE 0
      /\ \A x \in 1 .. b - (a + 1) + 1 : row[x] = es[(a + 1) + x - 1]
  <2>1. a + 1 \in Int /\ b \in Int BY <1>3
  <2>. QED BY <1>5, <1>7, <2>1, SubSeqProperties
<1>9. Len(row) = b - a BY <1>3, <1>6, <1>8
<1>10. \A x \in 1 .. b - a : row[x] = es[a + x] /\ a + x \in 1 .. m
  <2> SUFFICES ASSUME NEW x \in 1 .. b - a PROVE row[x] = es[a + x] /\ a + x \in 1 .. m
    OBVIOUS
  <2>1. /\ x \in 1 .. b - (a + 1) + 1 /\ (a + 1) + x - 1 = a + x /\ a + x \in 1 .. m
    BY <1>0, <1>3, <1>6
  <2>. QED BY <1>8, <2>1
<1>11. \A k \in 1 .. b - a : row[k].row = i
  <2> SUFFICES ASSUME NEW k \in 1 .. b - a PROVE row[k].row = i OBVIOUS
  <2>1. row[k] = es[a + k] /\ a + k \in 1 .. m /\ ~ (a + k <= a) /\ a + k <= b
    BY <1>3, <1>6, <1>10
  <2>2. ~ (es[a + k].row < i) /\ es[a + k].row < i + 1 BY <1>4, <2>1
  <2>. QED BY <1>0, <1>2, <2>1, <2>2
<1>12. \A k, l \in 1 .. b - a : row[k] = row[l] => k = l
  <2> SUFFICES ASSUME NEW k \in 1 .. b - a, NEW l \in 1 .. b - a, row[k] = row[l] PROVE k = l
    OBVIOUS
  <2>1. a + k = a + l BY <1>10 DEF RowsSorted
  <2>. QED BY <1>3, <2>1
<1>13. \A j \in 1 .. m : es[j].row = i => \E k \in 1 .. b - a : row[k] = es[j]
  <2> SUFFICES ASSUME NEW j \in 1 .. m, es[j].row = i
               PROVE  \E k \in 1 .. b - a : row[k] = es[j]
    OBVIOUS
  <2>1. ~ (j <= a) /\ j <= b BY <1>2, <1>4
  <2>2. j - a \in 1 .. b - a /\ a + (j - a) = j BY <1>0, <1>3, <2>1
  <2>. QED BY <1>10, <2>2
<1>. QED BY <1>8, <1>9, <1>11, <1>12, <1>13 DEF row, c, RowOf

-----------------------------------------------------------------------------
(* Loading *)

Rowids == EntityRowids(Entities)
Count == Len(Rowids)
IndexOf == EntityIndex(Rowids)
KnownRows(table) == {e \in table : {e.source, e.target} \subseteq Entities}
KnownIn(table) == {[e EXCEPT !.label = @ % LabelMod] : e \in KnownRows(table)}
Directions == {<<"source", "target">>, <<"target", "source">>}

(* Every entity has one number. *)
LEMMA RowidsShape ==
    /\ Rowids \in Seq(Entities) /\ Count \in Nat
    /\ \A i, j \in 1 .. Count : Rowids[i] = Rowids[j] => i = j
    /\ \A r \in Entities : \E i \in 1 .. Count : Rowids[i] = r
    /\ ToSet(Rowids) = Entities
<1> DEFINE n == Cardinality(Entities)
           R == {xy \in Entities \X Entities : xy[1] < xy[2]}
<1>1. IsFiniteSet(Entities) /\ Entities \subseteq Int BY Keys
<1>2. \A x, y \in Entities : <<x, y>> \in R <=> x < y OBVIOUS
<1> HIDE DEF R
<1>3. Orders(R, Entities)
  <2>1. \A x \in Entities : x \in Int BY <1>1
  <2>. QED BY <1>2, <2>1 DEF Orders
<1>4. \E s \in [1 .. n -> Entities] : \A i, j \in 1 .. n : i < j => Lower(s[i], s[j])
  <2>1. PICK s \in [1 .. n -> Entities] : \A i, j \in 1 .. n : i < j => <<s[i], s[j]>> \in R
    BY <1>1, <1>3, OrderExists
  <2>2. \A i \in 1 .. n : s[i] \in Entities OBVIOUS
  <2>. QED BY <1>2, <2>1, <2>2 DEF Lower
<1>5. /\ Rowids \in [1 .. n -> Entities]
      /\ \A i, j \in 1 .. n : i < j => Lower(Rowids[i], Rowids[j])
  BY <1>4 DEF Rowids, EntityRowids, InOrder
<1>6. \A i, j \in 1 .. n : i < j => <<Rowids[i], Rowids[j]>> \in R
  <2>1. \A i \in 1 .. n : Rowids[i] \in Entities BY <1>5
  <2>. QED BY <1>2, <1>5, <2>1 DEF Lower
<1>7. /\ Rowids \in Seq(Entities) /\ Len(Rowids) = n /\ n \in Nat
      /\ \A i, j \in 1 .. Len(Rowids) : Rowids[i] = Rowids[j] => i = j
      /\ \A x \in Entities : \E i \in 1 .. Len(Rowids) : Rowids[i] = x
  <2>1. Sorts(Rowids, Entities, R) BY <1>5, <1>6 DEF Sorts
  <2>. QED BY <1>1, <1>3, <2>1, OrderBijects DEF Lists
<1>8. ToSet(Rowids) = Entities
  <2>1. DOMAIN Rowids = 1 .. Count BY <1>7 DEF Count
  <2>2. \A i \in 1 .. Count : Rowids[i] \in Entities BY <1>7 DEF Count
  <2>. QED BY <1>7, <2>1, <2>2 DEF ToSet, Count
<1>. QED BY <1>7, <1>8 DEF Count

LEMMA IndexShape ==
    /\ IndexOf \in [Entities -> 0 .. Count - 1]
    /\ DOMAIN IndexOf = Entities
    /\ \A r \in Entities : Rowids[IndexOf[r] + 1] = r
    /\ \A i \in 0 .. Count - 1 : Rowids[i + 1] \in Entities /\ IndexOf[Rowids[i + 1]] = i
<1>1. IndexOf = [r \in Entities |-> (CHOOSE i \in 1 .. Count : Rowids[i] = r) - 1]
  BY RowidsShape DEF IndexOf, EntityIndex, Count
<1>2. \A r \in Entities : \E i \in 1 .. Count : Rowids[i] = r /\ IndexOf[r] = i - 1
  <2> SUFFICES ASSUME NEW r \in Entities
               PROVE  \E i \in 1 .. Count : Rowids[i] = r /\ IndexOf[r] = i - 1
    OBVIOUS
  <2> DEFINE c == CHOOSE i \in 1 .. Count : Rowids[i] = r
  <2>1. c \in 1 .. Count /\ Rowids[c] = r BY RowidsShape
  <2>2. IndexOf[r] = c - 1 BY <1>1
  <2>. QED BY <2>1, <2>2
<1>3. \A r \in Entities : IndexOf[r] \in 0 .. Count - 1 /\ Rowids[IndexOf[r] + 1] = r
  <2> SUFFICES ASSUME NEW r \in Entities
               PROVE  IndexOf[r] \in 0 .. Count - 1 /\ Rowids[IndexOf[r] + 1] = r
    OBVIOUS
  <2>1. PICK i \in 1 .. Count : Rowids[i] = r /\ IndexOf[r] = i - 1 BY <1>2
  <2>2. (i - 1) + 1 = i /\ i - 1 \in 0 .. Count - 1 BY RowidsShape
  <2>. QED BY <2>1, <2>2
<1>4. ASSUME NEW i \in 0 .. Count - 1
      PROVE  Rowids[i + 1] \in Entities /\ IndexOf[Rowids[i + 1]] = i
  <2>1. i + 1 \in 1 .. Count BY RowidsShape
  <2>2. Rowids[i + 1] \in Entities BY <2>1, RowidsShape DEF Count
  <2>3. PICK j \in 1 .. Count :
          Rowids[j] = Rowids[i + 1] /\ IndexOf[Rowids[i + 1]] = j - 1
    BY <1>2, <2>2
  <2>4. j = i + 1 BY <2>1, <2>3, RowidsShape
  <2>. QED BY <2>2, <2>3, <2>4
<1>. QED BY <1>1, <1>3, <1>4

(* The edges of one direction, one for each row of the database that has    *)
(* both ends.                                                               *)
Image(e, row, other) ==
    [row |-> IndexOf[e[row]], end |-> IndexOf[e[other]],
     label |-> e.label % LabelMod, id |-> e.id]

LEMMA EdgesShape ==
    ASSUME NEW table \in EdgeTables, NEW row, NEW other, <<row, other>> \in Directions
    PROVE  LET E == Edges(Rowids, table, row, other) IN
           /\ E = {Image(e, row, other) : e \in KnownRows(table)}
           /\ IsFiniteSet(E)
           /\ \A e \in E : /\ e.row \in 0 .. Count - 1 /\ e.end \in 0 .. Count - 1
                           /\ e.id \in Int /\ e.label \in Nat
           /\ \A e, f \in E : e.id = f.id => e = f
<1> DEFINE E == Edges(Rowids, table, row, other)
           K == KnownRows(table)
<1>1. /\ IsFiniteSet(table)
      /\ table \subseteq [id : Int, source : Int, target : Int, label : Nat]
      /\ \A e, f \in table : e.id = f.id => e = f
  BY Keys
<1>2. K \in SUBSET table /\ \A e \in K : e.source \in Entities /\ e.target \in Entities
  BY DEF KnownRows
<1>3. E = {Image(e, row, other) : e \in K}
  BY IndexShape DEF Edges, Image, KnownRows, IndexOf
<1>4. \A e \in K : e[row] \in Entities /\ e[other] \in Entities BY <1>2 DEF Directions
<1>5. \A e \in K : /\ Image(e, row, other).row \in 0 .. Count - 1
                   /\ Image(e, row, other).end \in 0 .. Count - 1
                   /\ Image(e, row, other).id = e.id
                   /\ Image(e, row, other).id \in Int /\ Image(e, row, other).label \in Nat
  <2> SUFFICES ASSUME NEW e \in K
               PROVE  /\ Image(e, row, other).row \in 0 .. Count - 1
                      /\ Image(e, row, other).end \in 0 .. Count - 1
                      /\ Image(e, row, other).id = e.id
                      /\ Image(e, row, other).id \in Int /\ Image(e, row, other).label \in Nat
    OBVIOUS
  <2>1. e.id \in Int /\ e.label \in Nat BY <1>1, <1>2
  <2>2. e.label % LabelMod \in Nat BY <2>1, LabelWidth
  <2>3. IndexOf[e[row]] \in 0 .. Count - 1 /\ IndexOf[e[other]] \in 0 .. Count - 1
    BY <1>4, IndexShape
  <2>. QED BY <2>1, <2>2, <2>3 DEF Image
<1>6. IsFiniteSet(E)
  <2> DEFINE f == [e \in K |-> Image(e, row, other)]
  <2>1. IsFiniteSet(K) BY <1>1, <1>2, FS_Subset
  <2>2. f \in Surjection(K, E) BY <1>3 DEF Surjection
  <2>. QED BY <2>1, <2>2, FS_Surjection
<1>7. \A e, f \in E : e.id = f.id => e = f
  <2> SUFFICES ASSUME NEW e \in E, NEW f \in E, e.id = f.id PROVE e = f OBVIOUS
  <2>1. PICK x \in K : e = Image(x, row, other) BY <1>3
  <2>2. PICK y \in K : f = Image(y, row, other) BY <1>3
  <2>3. x.id = y.id BY <1>5, <2>1, <2>2
  <2>4. x = y BY <1>1, <1>2, <2>3
  <2>. QED BY <2>1, <2>2, <2>4
<1>. QED BY <1>3, <1>5, <1>6, <1>7

(* They are put in order by their rows first. *)
LEMMA EdgesInOrder ==
    ASSUME NEW table \in EdgeTables, NEW row, NEW other, <<row, other>> \in Directions
    PROVE  LET E == Edges(Rowids, table, row, other)
               es == InOrder(E, Before)
           IN  /\ es \in Seq(E)
               /\ \A i, j \in 1 .. Len(es) : i < j => es[i].row <= es[j].row
               /\ \A i, j \in 1 .. Len(es) : es[i] = es[j] => i = j
               /\ \A e \in E : \E i \in 1 .. Len(es) : es[i] = e
<1> DEFINE E == Edges(Rowids, table, row, other)
           es == InOrder(E, Before)
           n == Cardinality(E)
           R == {xy \in E \X E : Before(xy[1], xy[2])}
<1>1. /\ IsFiniteSet(E) /\ \A e, f \in E : e.id = f.id => e = f
      /\ \A e \in E : e.row \in Int /\ e.end \in Int /\ e.id \in Int
  BY EdgesShape
<1> HIDE DEF E
<1>2. \A x, y \in E : <<x, y>> \in R <=> Before(x, y) OBVIOUS
<1> HIDE DEF R
<1>3. Orders(R, E)
  <2>1. \A x \in E : ~ Before(x, x) BY <1>1 DEF Before
  <2>2. \A x, y \in E : x # y => Before(x, y) \/ Before(y, x)
    <3>1. \A x, y \in E : x # y => x.id # y.id BY <1>1
    <3>. QED BY <1>1, <3>1 DEF Before
  <2>3. \A x, y, z \in E : Before(x, y) /\ Before(y, z) => Before(x, z)
    BY <1>1 DEF Before
  <2>. QED BY <1>2, <2>1, <2>2, <2>3 DEF Orders
<1>4. \E s \in [1 .. n -> E] : \A i, j \in 1 .. n : i < j => Before(s[i], s[j])
  <2>1. PICK s \in [1 .. n -> E] : \A i, j \in 1 .. n : i < j => <<s[i], s[j]>> \in R
    BY <1>1, <1>3, OrderExists
  <2>2. \A i \in 1 .. n : s[i] \in E OBVIOUS
  <2>. QED BY <1>2, <2>1, <2>2
<1>5. es \in [1 .. n -> E] /\ \A i, j \in 1 .. n : i < j => Before(es[i], es[j])
  BY <1>4 DEF InOrder
<1> HIDE DEF es
<1>6. \A i \in 1 .. n : es[i] \in E BY <1>5
<1>7. \A i, j \in 1 .. n : i < j => <<es[i], es[j]>> \in R BY <1>2, <1>5, <1>6
<1>8. /\ es \in Seq(E) /\ Len(es) = n
      /\ \A i, j \in 1 .. Len(es) : es[i] = es[j] => i = j
      /\ \A x \in E : \E i \in 1 .. Len(es) : es[i] = x
  <2>1. Sorts(es, E, R) BY <1>5, <1>7 DEF Sorts
  <2>. QED BY <1>1, <1>3, <2>1, OrderBijects DEF Lists
<1>9. \A i, j \in 1 .. n : i < j => es[i].row <= es[j].row
  BY <1>1, <1>5, <1>6 DEF Before
<1>. QED BY <1>8, <1>9 DEF es, E

(* So the row of an entity lists its edges, each once. *)
LEMMA DirectionRows ==
    ASSUME NEW table \in EdgeTables, NEW row, NEW other, <<row, other>> \in Directions,
           NEW r \in Entities
    PROVE  LET line == Row(Csr(Rowids, table, row, other), IndexOf[r])
               same(k, e) == /\ line[k].id = e.id /\ line[k].label = e.label
                             /\ line[k].end = IndexOf[e[other]]
           IN  /\ line \in Seq(Edges(Rowids, table, row, other))
               /\ \A k, l \in 1 .. Len(line) : line[k].id = line[l].id => k = l
               /\ \A k \in 1 .. Len(line) : \E e \in KnownIn(table) : e[row] = r /\ same(k, e)
               /\ \A e \in KnownIn(table) : e[row] = r => \E k \in 1 .. Len(line) : same(k, e)
<1> DEFINE E == Edges(Rowids, table, row, other)
           es == InOrder(E, Before)
           i == IndexOf[r]
           line == Row(Csr(Rowids, table, row, other), i)
           same(k, e) == /\ line[k].id = e.id /\ line[k].label = e.label
                         /\ line[k].end = IndexOf[e[other]]
           Known1(e) == [e EXCEPT !.label = @ % LabelMod]
<1>1. /\ E = {Image(e, row, other) : e \in KnownRows(table)}
      /\ \A e \in E : e.row \in 0 .. Count - 1
      /\ \A e, f \in E : e.id = f.id => e = f
  BY EdgesShape
<1>2. /\ es \in Seq(E)
      /\ \A k, j \in 1 .. Len(es) : k < j => es[k].row <= es[j].row
      /\ \A k, j \in 1 .. Len(es) : es[k] = es[j] => k = j
      /\ \A e \in E : \E k \in 1 .. Len(es) : es[k] = e
  BY EdgesInOrder
<1>3. line = Row(BuildCsr(es, Count), i) BY DEF Csr, Count
<1>4. i \in 0 .. Count - 1 /\ Count \in Nat BY IndexShape, RowidsShape
<1> HIDE DEF E, es, i, line
<1>5. /\ line \in Seq(E)
      /\ \A k \in 1 .. Len(line) : line[k].row = i
      /\ \A k, l \in 1 .. Len(line) : line[k] = line[l] => k = l
      /\ \A j \in 1 .. Len(es) : es[j].row = i => \E k \in 1 .. Len(line) : line[k] = es[j]
  <2>1. RowsSorted(es, E, Count) BY <1>1, <1>2 DEF RowsSorted
  <2>2. RowOf(Row(BuildCsr(es, Count), i), es, E, i) BY <1>4, <2>1, RowParts
  <2>3. RowOf(line, es, E, i) BY <1>3, <2>2
  <2>. QED BY <2>3 DEF RowOf
<1>6. \A k \in 1 .. Len(line) : line[k] \in E BY <1>5
<1>7. \A k, l \in 1 .. Len(line) : line[k].id = line[l].id => k = l BY <1>1, <1>5, <1>6
<1>8. /\ table \subseteq [id : Int, source : Int, target : Int, label : Nat]
      /\ KnownRows(table) \subseteq table
      /\ \A e \in KnownRows(table) : e[row] \in Entities /\ e[other] \in Entities
  BY Keys DEF KnownRows, Directions
<1>9. \A e \in KnownRows(table) :
        /\ Known1(e).id = e.id /\ Known1(e).label = e.label % LabelMod
        /\ Known1(e)[row] = e[row] /\ Known1(e)[other] = e[other]
  <2> SUFFICES ASSUME NEW e \in KnownRows(table)
               PROVE  /\ Known1(e).id = e.id /\ Known1(e).label = e.label % LabelMod
                      /\ Known1(e)[row] = e[row] /\ Known1(e)[other] = e[other]
    OBVIOUS
  <2>1. e \in [id : Int, source : Int, target : Int, label : Nat] BY <1>8
  <2>2. /\ Known1(e).id = e.id /\ Known1(e).label = e.label % LabelMod
        /\ Known1(e).source = e.source /\ Known1(e).target = e.target
    BY <2>1
  <2> HIDE DEF Known1
  <2>. QED BY <2>2 DEF Directions
<1>10. KnownIn(table) = {Known1(e) : e \in KnownRows(table)} BY DEF KnownIn
<1> HIDE DEF Known1
<1>11. \A e \in KnownRows(table) :
         LET m == Image(e, row, other)
         IN  m.row = IndexOf[e[row]] /\ m.end = IndexOf[e[other]]
             /\ m.label = e.label % LabelMod /\ m.id = e.id
  BY DEF Image
<1>12. \A e \in KnownRows(table) : IndexOf[e[row]] = i <=> e[row] = r
  BY <1>8, IndexShape DEF i
<1>13. ASSUME NEW k \in 1 .. Len(line)
       PROVE  \E e \in KnownIn(table) : e[row] = r /\ same(k, e)
  <2>1. PICK x \in KnownRows(table) : line[k] = Image(x, row, other) BY <1>1, <1>6
  <2>2. x[row] = r BY <1>5, <1>11, <1>12, <2>1
  <2>3. /\ Known1(x) \in KnownIn(table) /\ Known1(x)[row] = r
        /\ line[k].id = Known1(x).id /\ line[k].label = Known1(x).label
        /\ line[k].end = IndexOf[Known1(x)[other]]
    BY <1>9, <1>10, <1>11, <2>1, <2>2
  <2>. QED BY <2>3
<1>14. ASSUME NEW e \in KnownIn(table), e[row] = r
       PROVE  \E k \in 1 .. Len(line) : same(k, e)
  <2>1. PICK x \in KnownRows(table) : e = Known1(x) BY <1>10
  <2>2. Image(x, row, other) \in E /\ Image(x, row, other).row = i
    BY <1>1, <1>9, <1>11, <1>12, <1>14, <2>1
  <2>3. PICK j \in 1 .. Len(es) : es[j] = Image(x, row, other) BY <1>2, <2>2
  <2>4. PICK k \in 1 .. Len(line) : line[k] = Image(x, row, other) BY <1>5, <2>2, <2>3
  <2>5. /\ line[k].id = e.id /\ line[k].label = e.label /\ line[k].end = IndexOf[e[other]]
    BY <1>9, <1>11, <2>1, <2>4
  <2>. QED BY <2>5
<1>. QED BY <1>5, <1>7, <1>13, <1>14 DEF line, i, E

\* What a row of a direction tells of an edge.
Same(a, e, other) ==
    a.id = e.id /\ a.label = e.label /\ a.end = IndexOf[e[other]]

EdgeRecords == [row : 0 .. Count - 1, end : 0 .. Count - 1, label : Nat, id : Int]

\* The line has the edges of S, each once.
Mirrors(line, S, other) ==
    /\ line \in Seq(EdgeRecords)
    /\ \A k, l \in 1 .. Len(line) : line[k].id = line[l].id => k = l
    /\ \A k \in 1 .. Len(line) : \E e \in S : Same(line[k], e, other)
    /\ \A e \in S : \E k \in 1 .. Len(line) : Same(line[k], e, other)

(* What DirectionRows says, in these words. *)
LEMMA LineMirrors ==
    ASSUME NEW table \in EdgeTables, NEW row, NEW other, <<row, other>> \in Directions,
           NEW r \in Entities
    PROVE  Mirrors(Row(Csr(Rowids, table, row, other), IndexOf[r]),
                   {e \in KnownIn(table) : e[row] = r}, other)
<1> DEFINE E == Edges(Rowids, table, row, other)
           line == Row(Csr(Rowids, table, row, other), IndexOf[r])
           same(k, e) == /\ line[k].id = e.id /\ line[k].label = e.label
                         /\ line[k].end = IndexOf[e[other]]
<1>1. /\ line \in Seq(E)
      /\ \A k, l \in 1 .. Len(line) : line[k].id = line[l].id => k = l
      /\ \A k \in 1 .. Len(line) : \E e \in KnownIn(table) : e[row] = r /\ same(k, e)
      /\ \A e \in KnownIn(table) : e[row] = r => \E k \in 1 .. Len(line) : same(k, e)
  BY DirectionRows
<1>2. E \subseteq EdgeRecords
  <2>1. /\ E = {Image(e, row, other) : e \in KnownRows(table)}
        /\ \A e \in E : /\ e.row \in 0 .. Count - 1 /\ e.end \in 0 .. Count - 1
                        /\ e.id \in Int /\ e.label \in Nat
    BY EdgesShape
  <2> HIDE DEF E
  <2>2. \A e \in KnownRows(table) : Image(e, row, other) \in EdgeRecords
    <3> SUFFICES ASSUME NEW e \in KnownRows(table)
                 PROVE  Image(e, row, other) \in EdgeRecords
      OBVIOUS
    <3>1. Image(e, row, other) \in E BY <2>1
    <3>. QED BY <2>1, <3>1 DEF Image, EdgeRecords
  <2>. QED BY <2>1, <2>2
<1> HIDE DEF E, line
<1>3. line \in Seq(EdgeRecords) BY <1>1, <1>2
<1>. QED BY <1>1, <1>3 DEF Mirrors, Same, line

(* A line that lists a set lists as many elements and the same ids. *)
LEMMA MirrorsCount ==
    ASSUME NEW line, NEW S, NEW other, Mirrors(line, S, other),
           \A e, f \in S : e.id = f.id => e = f
    PROVE  /\ IsFiniteSet(S) /\ Len(line) = Cardinality(S)
           /\ {e.id : e \in ToSet(line)} = {e.id : e \in S}
<1> DEFINE n == Len(line)
           f == [k \in 1 .. n |-> CHOOSE e \in S : e.id = line[k].id]
<1>1. /\ line \in Seq(EdgeRecords) /\ n \in Nat
      /\ \A k, l \in 1 .. n : line[k].id = line[l].id => k = l
      /\ \A k \in 1 .. n : \E e \in S : line[k].id = e.id
      /\ \A e \in S : \E k \in 1 .. n : line[k].id = e.id
  BY DEF Mirrors, Same
<1>2. \A k \in 1 .. n : f[k] \in S /\ f[k].id = line[k].id
  <2> SUFFICES ASSUME NEW k \in 1 .. n PROVE f[k] \in S /\ f[k].id = line[k].id OBVIOUS
  <2>1. \E e \in S : e.id = line[k].id BY <1>1
  <2>. QED BY <2>1
<1>3. f \in [1 .. n -> S]
  <2>1. \A k \in 1 .. n : f[k] \in S BY <1>2
  <2>. QED BY <2>1
<1> HIDE DEF f
<1>4. \A k, l \in 1 .. n : f[k] = f[l] => k = l BY <1>1, <1>2
<1>5. \A e \in S : \E k \in 1 .. n : f[k] = e
  <2> SUFFICES ASSUME NEW e \in S PROVE \E k \in 1 .. n : f[k] = e OBVIOUS
  <2>1. PICK k \in 1 .. n : line[k].id = e.id BY <1>1
  <2>. QED BY <1>2, <2>1
<1>6. f \in Bijection(1 .. n, S)
  BY <1>3, <1>4, <1>5 DEF Bijection, Injection, Surjection, IsInjective
<1>7. ExistsBijection(1 .. n, S) BY <1>6 DEF ExistsBijection
<1>8. IsFiniteSet(1 .. n) /\ Cardinality(1 .. n) = n BY <1>1, UpTo
<1>9. IsFiniteSet(S) /\ Cardinality(S) = n BY <1>7, <1>8, FS_Bijection
<1>10. {e.id : e \in ToSet(line)} = {e.id : e \in S}
  <2>1. ToSet(line) = {line[k] : k \in 1 .. n} BY <1>1 DEF ToSet
  <2>. QED BY <1>1, <2>1
<1>. QED BY <1>9, <1>10

-----------------------------------------------------------------------------
(* The index of a run *)

Loaded == rows \in EdgeTables /\ graph = Load(Entities, rows)

(* The database and its index stay as they were loaded. *)
LEMMA StaysLoaded == Spec => []Loaded
<1>1. Init => Loaded BY DEF Init, Loaded
<1>2. Loaded /\ [Next]_vars => Loaded'
  BY DEF Loaded, Next, Begin, Expand, Return, vars
<1>. QED BY <1>1, <1>2, PTL DEF Spec

Leaving(r) == {e \in Known : e.source = r}
Entering(r) == {e \in Known : e.target = r}

(* Known has one edge for each id. *)
LEMMA KnownShape ==
    ASSUME Loaded
    PROVE  /\ Known = KnownIn(rows)
           /\ \A e \in Known : e.source \in Entities /\ e.target \in Entities /\ e.label \in Nat
           /\ \A e, f \in Known : e.id = f.id => e = f
<1> DEFINE Low(e) == [e EXCEPT !.label = @ % LabelMod]
<1>1. /\ rows \subseteq [id : Int, source : Int, target : Int, label : Nat]
      /\ \A e, f \in rows : e.id = f.id => e = f
  BY Keys DEF Loaded
<1>2. Known = {Low(e) : e \in KnownRows(rows)} /\ Known = KnownIn(rows)
  BY DEF Known, KnownIn, KnownRows
<1>3. ASSUME NEW e \in KnownRows(rows)
      PROVE  /\ e \in rows /\ Low(e).id = e.id /\ Low(e).label \in Nat
             /\ Low(e).source \in Entities /\ Low(e).target \in Entities
  <2>1. e \in rows /\ e.source \in Entities /\ e.target \in Entities BY DEF KnownRows
  <2>2. e \in [id : Int, source : Int, target : Int, label : Nat] BY <1>1, <2>1
  <2>3. e.label % LabelMod \in Nat BY <2>2, LabelWidth
  <2>4. /\ Low(e).id = e.id /\ Low(e).label = e.label % LabelMod
        /\ Low(e).source = e.source /\ Low(e).target = e.target
    BY <2>2
  <2>. QED BY <2>1, <2>3, <2>4
<1> HIDE DEF Low
<1>4. \A e, f \in Known : e.id = f.id => e = f
  <2> SUFFICES ASSUME NEW e \in Known, NEW f \in Known, e.id = f.id PROVE e = f OBVIOUS
  <2>1. PICK x \in KnownRows(rows) : e = Low(x) BY <1>2
  <2>2. PICK y \in KnownRows(rows) : f = Low(y) BY <1>2
  <2>3. x \in rows /\ y \in rows /\ x.id = y.id BY <1>3, <2>1, <2>2
  <2>. QED BY <1>1, <2>1, <2>2, <2>3
<1>. QED BY <1>2, <1>3, <1>4

(* Both rows of an entity list its edges. *)
LEMMA RowsMirror ==
    ASSUME Loaded, NEW r \in Entities
    PROVE  LET i == EntityIndex(graph.rowids)[r] IN
           /\ Mirrors(Row(graph.out, i), Leaving(r), "target")
           /\ Mirrors(Row(graph.in, i), Entering(r), "source")
<1>1. /\ graph.rowids = Rowids
      /\ graph.out = Csr(Rowids, rows, "source", "target")
      /\ graph.in = Csr(Rowids, rows, "target", "source")
  BY DEF Loaded, Load, Rowids
<1>2. EntityIndex(graph.rowids)[r] = IndexOf[r] BY <1>1 DEF IndexOf
<1>3. Leaving(r) = {e \in KnownIn(rows) : e["source"] = r} BY KnownShape DEF Leaving
<1>4. Entering(r) = {e \in KnownIn(rows) : e["target"] = r} BY KnownShape DEF Entering
<1>5. Mirrors(Row(Csr(Rowids, rows, "source", "target"), IndexOf[r]),
              {e \in KnownIn(rows) : e["source"] = r}, "target")
  BY LineMirrors DEF Loaded, Directions
<1>6. Mirrors(Row(Csr(Rowids, rows, "target", "source"), IndexOf[r]),
              {e \in KnownIn(rows) : e["target"] = r}, "source")
  BY LineMirrors DEF Loaded, Directions
<1>. QED BY <1>1, <1>2, <1>3, <1>4, <1>5, <1>6

LEMMA RowsCount ==
    ASSUME Loaded, NEW r \in Entities
    PROVE  LET i == EntityIndex(graph.rowids)[r]
               holds(row, edges) == /\ IsFiniteSet(edges) /\ Len(row) = Cardinality(edges)
                                    /\ {e.id : e \in ToSet(row)} = {e.id : e \in edges}
           IN  holds(Row(graph.out, i), Leaving(r)) /\ holds(Row(graph.in, i), Entering(r))
<1> DEFINE i == EntityIndex(graph.rowids)[r]
<1>1. /\ Mirrors(Row(graph.out, i), Leaving(r), "target")
      /\ Mirrors(Row(graph.in, i), Entering(r), "source")
  BY RowsMirror
<1>2. \A e, f \in Leaving(r) : e.id = f.id => e = f BY KnownShape DEF Leaving
<1>3. \A e, f \in Entering(r) : e.id = f.id => e = f BY KnownShape DEF Entering
<1> HIDE DEF i
<1>4. /\ IsFiniteSet(Leaving(r)) /\ Len(Row(graph.out, i)) = Cardinality(Leaving(r))
      /\ {e.id : e \in ToSet(Row(graph.out, i))} = {e.id : e \in Leaving(r)}
  BY <1>1, <1>2, MirrorsCount
<1>5. /\ IsFiniteSet(Entering(r)) /\ Len(Row(graph.in, i)) = Cardinality(Entering(r))
      /\ {e.id : e \in ToSet(Row(graph.in, i))} = {e.id : e \in Entering(r)}
  BY <1>1, <1>3, MirrorsCount
<1>. QED BY <1>4, <1>5 DEF i

(* The rows of both directions hold each edge between known entities once, *)
(* and no other (build_csr in graph_index.rs).                             *)
THEOREM RowsAreFaithful == Spec => []CsrFaithful
<1>1. Loaded => CsrFaithful
  <2> SUFFICES ASSUME Loaded, NEW r \in Entities
               PROVE  LET i == EntityIndex(graph.rowids)[r]
                          holds(row, edges) ==
                              /\ Len(row) = Cardinality(edges)
                              /\ {e.id : e \in ToSet(row)} = {e.id : e \in edges}
                      IN  /\ holds(Row(graph.out, i), {e \in Known : e.source = r})
                          /\ holds(Row(graph.in, i), {e \in Known : e.target = r})
    BY DEF CsrFaithful
  <2>. QED BY RowsCount DEF Leaving, Entering
<1>. QED BY <1>1, StaysLoaded, PTL

-----------------------------------------------------------------------------
(* get_edges *)

\* What the filter lets through of the first n edges of a row.
Passed(P, row, E, filter, n) ==
    /\ P \in Seq(E) /\ Len(P) <= n
    /\ \A k \in 1 .. Len(P) : \E j \in 1 .. Len(row) : P[k] = row[j] /\ Passes(row[j], filter)
    /\ filter = {} => Len(P) = n

(* The loop of get_edges over one row looks at n edges of it. *)
LEMMA PassingPassed ==
    ASSUME NEW E, NEW row, row \in Seq(E), NEW filter, NEW n, n \in 0 .. Len(row)
    PROVE  Passed(Passing(row, filter, n), row, E, filter, n)
<1> DEFINE Def(v, k) == IF Passes(row[k], filter) THEN Append(v, row[k]) ELSE v
           at == CHOOSE g : g = [k \in 0 .. n |-> IF k = 0 THEN <<>> ELSE Def(g[k - 1], k)]
           Good(k) == Passed(at[k], row, E, filter, k)
<1>1. n \in Nat /\ Len(row) \in Nat /\ n <= Len(row) OBVIOUS
<1>2. Passing(row, filter, n) = at[n] BY DEF Passing
<1>3. FiniteNatInductiveDefHypothesis(at, <<>>, Def, 0, n)
  BY DEF FiniteNatInductiveDefHypothesis
<1> HIDE DEF at
<1>4. FiniteNatInductiveDefConclusion(at, <<>>, Def, 0, n)
  BY <1>1, <1>3, FiniteNatInductiveDef
<1>5. at = [k \in 0 .. n |-> IF k = 0 THEN <<>> ELSE Def(at[k - 1], k)]
  BY <1>4 DEF FiniteNatInductiveDefConclusion
<1>6. Good(0)
  <2>1. at[0] = <<>> BY <1>1, <1>5
  <2>. QED BY <2>1 DEF Passed
<1>7. ASSUME NEW k \in 1 .. n, Good(k - 1) PROVE Good(k)
  <2> DEFINE v == at[k - 1]
  <2>1. at[k] = Def(v, k)
    <3>1. k \in 0 .. n /\ k # 0 BY <1>1
    <3>. QED BY <1>5, <3>1
  <2>2. /\ v \in Seq(E) /\ Len(v) \in Nat /\ Len(v) <= k - 1
        /\ \A x \in 1 .. Len(v) : \E j \in 1 .. Len(row) : v[x] = row[j] /\ Passes(row[j], filter)
        /\ filter = {} => Len(v) = k - 1
    BY <1>7 DEF Passed
  <2>3. k \in 1 .. Len(row) /\ row[k] \in E BY <1>1
  <2> HIDE DEF v
  <2>4. CASE Passes(row[k], filter)
    <3>1. at[k] = Append(v, row[k]) BY <2>1, <2>4
    <3>2. /\ at[k] \in Seq(E) /\ Len(at[k]) = Len(v) + 1
          /\ \A x \in 1 .. Len(v) : at[k][x] = v[x]
          /\ at[k][Len(v) + 1] = row[k]
      BY <2>2, <2>3, <3>1, AppendProperties
    <3>3. \A x \in 1 .. Len(at[k]) :
            \E j \in 1 .. Len(row) : at[k][x] = row[j] /\ Passes(row[j], filter)
      <4> SUFFICES ASSUME NEW x \in 1 .. Len(at[k])
                   PROVE  \E j \in 1 .. Len(row) : at[k][x] = row[j] /\ Passes(row[j], filter)
        OBVIOUS
      <4>1. x \in 1 .. Len(v) \/ x = Len(v) + 1 BY <2>2, <3>2
      <4>. QED BY <2>2, <2>3, <2>4, <3>2, <4>1
    <3>4. Len(at[k]) <= k /\ (filter = {} => Len(at[k]) = k) BY <2>2, <3>2
    <3>. QED BY <3>2, <3>3, <3>4 DEF Passed
  <2>5. CASE ~ Passes(row[k], filter)
    <3>1. at[k] = v /\ filter # {} BY <2>1, <2>5 DEF Passes
    <3>2. Len(v) <= k BY <2>2
    <3>. QED BY <2>2, <3>1, <3>2 DEF Passed
  <2>. QED BY <2>4, <2>5
<1> HIDE DEF Good
<1> DEFINE Bad == {k \in 0 .. n : ~ Good(k)}
<1>8. Bad = {}
  <2> SUFFICES ASSUME Bad # {} PROVE FALSE OBVIOUS
  <2>1. Bad \in SUBSET Nat BY <1>1
  <2>2. PICK k \in Bad : \A j \in Bad : k <= j BY <2>1, LeastNat
  <2>3. k # 0 BY <1>6, <2>2
  <2>4. k \in 1 .. n /\ k - 1 \in 0 .. n BY <1>1, <2>2, <2>3
  <2>5. k - 1 \notin Bad BY <2>2, <2>4
  <2>. QED BY <1>7, <2>2, <2>4, <2>5
<1>9. n \in 0 .. n BY <1>1
<1>10. Good(n) BY <1>8, <1>9
<1>. QED BY <1>2, <1>10 DEF Good

\* The answer for one direction: at most so many of the edges S.
Taken(answer, S, filter, most) ==
    /\ answer \in Seq(EdgeRecords) /\ Len(answer) <= most
    /\ \A k \in 1 .. Len(answer) : \E e \in S : e.id = answer[k].id /\ Passes(e, filter)
    /\ filter = {} => Len(answer) = Fewer(Cardinality(S), most)

(* One direction of get_edges answers with edges of the set its row lists. *)
LEMMA TakePassed ==
    ASSUME NEW line, NEW S, NEW other, Mirrors(line, S, other), Len(line) = Cardinality(S),
           NEW filter, NEW limit \in Nat, NEW found \in 0 .. limit
    PROVE  Taken(Take(line, filter, limit, found), S, filter, limit - found)
<1> DEFINE n == Fewer(Len(line), limit - found)
           answer == Take(line, filter, limit, found)
<1>1. line \in Seq(EdgeRecords) /\ Len(line) \in Nat BY DEF Mirrors
<1>2. n \in 0 .. Len(line) /\ n <= limit - found BY <1>1 DEF Fewer
<1>3. answer = Passing(line, filter, n) BY DEF Take
<1>4. n = Fewer(Cardinality(S), limit - found) OBVIOUS
<1> HIDE DEF n, answer
<1>5. Passed(answer, line, EdgeRecords, filter, n) BY <1>1, <1>2, <1>3, PassingPassed
<1>6. ASSUME NEW k \in 1 .. Len(answer)
      PROVE  \E e \in S : e.id = answer[k].id /\ Passes(e, filter)
  <2>1. PICK j \in 1 .. Len(line) : answer[k] = line[j] /\ Passes(line[j], filter)
    BY <1>5 DEF Passed
  <2>2. PICK e \in S : line[j].id = e.id /\ line[j].label = e.label BY DEF Mirrors, Same
  <2>. QED BY <2>1, <2>2 DEF Passes
<1>7. /\ answer \in Seq(EdgeRecords) /\ Len(answer) <= n /\ Len(answer) \in Nat
      /\ filter = {} => Len(answer) = n
  BY <1>5 DEF Passed
<1>8. Len(answer) <= limit - found BY <1>2, <1>7
<1>. QED BY <1>4, <1>6, <1>7, <1>8 DEF answer, Taken

(* get_edges answers with edges of the entity that pass the filter, at most  *)
(* limit in both directions together, and with all it may if nothing is      *)
(* filtered (Pipeline::get_edges in pipeline.rs).                            *)
THEOREM EdgesAreLimited == Spec => []EdgesWithinLimit
<1>1. ASSUME Loaded, NEW r \in Starts, NEW f \in Filters, NEW l \in Limits
      PROVE  LET answer == GetEdges(graph, r, "Both", f, l)
                 degree == Cardinality(Leaving(r)) + Cardinality(Entering(r))
             IN  /\ Len(answer) <= l
                 /\ ToSet(answer) \subseteq
                      {e.id : e \in {e \in Leaving(r) \cup Entering(r) : Passes(e, f)}}
                 /\ f = {} => Len(answer) = IF degree < l THEN degree ELSE l
  <2> DEFINE answer == GetEdges(graph, r, "Both", f, l)
             ids(s) == [k \in 1 .. Len(s) |-> s[k].id]
             may == {e.id : e \in {e \in Leaving(r) \cup Entering(r) : Passes(e, f)}}
  <2>1. l \in Nat BY Arguments
  <2>2. ToSet(graph.rowids) = Entities BY <1>1, RowidsShape DEF Loaded, Load, Rowids
  <2>3. CASE r \notin Entities
    <3>1. answer = <<>> BY <2>2, <2>3 DEF GetEdges
    <3>2. Leaving(r) = {} /\ Entering(r) = {} BY <1>1, <2>3, KnownShape DEF Leaving, Entering
    <3>3. Cardinality(Leaving(r)) = 0 /\ Cardinality(Entering(r)) = 0 BY <3>2, FS_EmptySet
    <3>4. ToSet(<<>>) = {} BY DEF ToSet
    <3> HIDE DEF answer
    <3>5. Len(answer) = 0 /\ ToSet(answer) = {} BY <3>1, <3>4
    <3>6. /\ Len(answer) <= l
          /\ Len(answer) = IF Cardinality(Leaving(r)) + Cardinality(Entering(r)) < l
                           THEN Cardinality(Leaving(r)) + Cardinality(Entering(r)) ELSE l
      BY <2>1, <3>3, <3>5
    <3>. QED BY <3>5, <3>6 DEF answer
  <2>4. CASE r \in Entities
    <3> DEFINE i == EntityIndex(graph.rowids)[r]
               a == Take(Row(graph.out, i), f, l, 0)
               b == IF Len(a) < l THEN Take(Row(graph.in, i), f, l, Len(a)) ELSE <<>>
               m == Cardinality(Leaving(r))
               n == Cardinality(Entering(r))
    <3>1. answer = ids(a) \o ids(b) BY <2>2, <2>4 DEF GetEdges
    <3>2. /\ IsFiniteSet(Leaving(r)) /\ Len(Row(graph.out, i)) = m
          /\ IsFiniteSet(Entering(r)) /\ Len(Row(graph.in, i)) = n
      BY <1>1, <2>4, RowsCount
    <3>3. m \in Nat /\ n \in Nat BY <3>2, FS_CardinalityType
    <3>4. /\ Mirrors(Row(graph.out, i), Leaving(r), "target")
          /\ Mirrors(Row(graph.in, i), Entering(r), "source")
      BY <1>1, <2>4, RowsMirror
    <3> HIDE DEF i, m, n, answer
    <3>5. Taken(a, Leaving(r), f, l - 0) BY <2>1, <3>2, <3>4, TakePassed DEF m
    <3> HIDE DEF a
    <3>6. Len(a) \in 0 .. l BY <2>1, <3>5 DEF Taken
    <3>7. Taken(b, Entering(r), f, l - Len(a))
      <4>1. CASE Len(a) < l
        <5>1. b = Take(Row(graph.in, i), f, l, Len(a)) BY <4>1
        <5> HIDE DEF b
        <5>2. Taken(Take(Row(graph.in, i), f, l, Len(a)), Entering(r), f, l - Len(a))
          BY <2>1, <3>2, <3>4, <3>6, TakePassed DEF n
        <5>. QED BY <5>1, <5>2
      <4>2. CASE ~ (Len(a) < l)
        <5>1. b = <<>> /\ Len(a) = l BY <2>1, <3>6, <4>2
        <5>. QED BY <2>1, <3>3, <5>1 DEF Fewer, Taken, n
      <4>. QED BY <4>1, <4>2
    <3> HIDE DEF b
    <3>8. /\ ids(a) \in Seq(may) /\ Len(ids(a)) = Len(a)
          /\ ids(b) \in Seq(may) /\ Len(ids(b)) = Len(b)
      <4>1. Len(a) \in Nat /\ Len(b) \in Nat BY <3>5, <3>7 DEF Taken
      <4>2. \A k \in 1 .. Len(a) : a[k].id \in may BY <3>5 DEF Taken
      <4>3. \A k \in 1 .. Len(b) : b[k].id \in may BY <3>7 DEF Taken
      <4> HIDE DEF may
      <4>. QED BY <4>1, <4>2, <4>3
    <3> HIDE DEF ids
    <3>9. answer \in Seq(may) /\ Len(answer) = Len(a) + Len(b)
      <4> DEFINE x == ids(a)
                 y == ids(b)
      <4> HIDE DEF may, x, y
      <4>1. x \in Seq(may) /\ y \in Seq(may) /\ Len(x) = Len(a) /\ Len(y) = Len(b)
        BY <3>8 DEF x, y
      <4>2. x \o y \in Seq(may) /\ Len(x \o y) = Len(x) + Len(y) BY <4>1, ConcatProperties
      <4>. QED BY <3>1, <4>1, <4>2 DEF x, y
    <3>10. ToSet(answer) \subseteq may
      <4> HIDE DEF may
      <4>. QED BY <3>9 DEF ToSet
    <3>11. Len(b) \in Nat /\ Len(b) <= l - Len(a) BY <3>7 DEF Taken
    <3>12. Len(answer) <= l BY <2>1, <3>6, <3>9, <3>11
    <3>13. f = {} => Len(answer) = IF m + n < l THEN m + n ELSE l
      <4> SUFFICES ASSUME f = {} PROVE Len(answer) = IF m + n < l THEN m + n ELSE l OBVIOUS
      <4>1. Len(a) = Fewer(m, l - 0) /\ Len(b) = Fewer(n, l - Len(a))
        BY <3>5, <3>7 DEF Taken, m, n
      <4>2. Len(answer) = Len(a) + Len(b) BY <3>9
      <4>. QED BY <2>1, <3>3, <4>1, <4>2 DEF Fewer
    <3>. QED BY <3>10, <3>12, <3>13 DEF answer, m, n
  <2>. QED BY <2>3, <2>4
<1>2. Loaded => EdgesWithinLimit
  <2> SUFFICES ASSUME Loaded, NEW r \in Starts, NEW f \in Filters, NEW l \in Limits
               PROVE  LET outgoing == {e \in Known : e.source = r}
                          incoming == {e \in Known : e.target = r}
                          answer == GetEdges(graph, r, "Both", f, l)
                          degree == Cardinality(outgoing) + Cardinality(incoming)
                      IN  /\ Len(answer) <= l
                          /\ ToSet(answer) \subseteq
                               {e.id : e \in {e \in outgoing \cup incoming : Passes(e, f)}}
                          /\ f = {} => Len(answer) = IF degree < l THEN degree ELSE l
    BY DEF EdgesWithinLimit
  <2>. QED BY <1>1 DEF Leaving, Entering
<1>. QED BY <1>2, StaysLoaded, PTL

-----------------------------------------------------------------------------
(* The reference *)

(* Induction up to n, over a set. *)
LEMMA ClimbTo ==
    ASSUME NEW n \in Nat, NEW P, 0 \in P, \A k \in 0 .. n - 1 : k \in P => k + 1 \in P
    PROVE  \A k \in 0 .. n : k \in P
<1> DEFINE Bad == {k \in 0 .. n : k \notin P}
<1> SUFFICES ASSUME Bad # {} PROVE FALSE OBVIOUS
<1>1. Bad \in SUBSET Nat OBVIOUS
<1>2. PICK k \in Bad : \A j \in Bad : k <= j BY <1>1, LeastNat
<1>3. k - 1 \in 0 .. n - 1 /\ k - 1 \notin Bad /\ (k - 1) + 1 = k BY <1>2
<1>. QED BY <1>2, <1>3

Succ(x, filter) == {e.target : e \in {e \in Known : e.source = x /\ Passes(e, filter)}}

\* B has what lies within 0, 1, 2 ... edges of start.
Balls(B, start, filter) ==
    /\ B[0] = {start} \cap Entities
    /\ \A k \in Nat : B[k + 1] = B[k] \cup UNION {Succ(x, filter) : x \in B[k]}
    /\ \A k \in Nat : B[k] \subseteq Entities
    /\ \A j, k \in Nat : j <= k => B[j] \subseteq B[k]

LEMMA WithinBalls ==
    ASSUME Loaded, NEW start, NEW filter
    PROVE  Balls(Within(start, filter), start, filter)
<1> DEFINE first == {start} \cap Entities
           Def(v, k) == v \cup {e.target :
                                  e \in {e \in Known : e.source \in v /\ Passes(e, filter)}}
           B == CHOOSE g : g = [k \in Nat |-> IF k = 0 THEN first ELSE Def(g[k - 1], k)]
<1>1. Within(start, filter) = B BY DEF Within
<1>2. NatInductiveDefHypothesis(B, first, Def) BY DEF NatInductiveDefHypothesis
<1> HIDE DEF B
<1>3. NatInductiveDefConclusion(B, first, Def) BY <1>2, NatInductiveDef
<1>4. B = [k \in Nat |-> IF k = 0 THEN first ELSE Def(B[k - 1], k)]
  BY <1>3 DEF NatInductiveDefConclusion
<1>5. \A v, k : Def(v, k) = v \cup UNION {Succ(x, filter) : x \in v} BY DEF Succ
<1> HIDE DEF Def
<1>6. B[0] = first BY <1>4
<1>7. \A k \in Nat : B[k + 1] = B[k] \cup UNION {Succ(x, filter) : x \in B[k]}
  <2> SUFFICES ASSUME NEW k \in Nat
               PROVE  B[k + 1] = B[k] \cup UNION {Succ(x, filter) : x \in B[k]}
    OBVIOUS
  <2>1. k + 1 \in Nat /\ k + 1 # 0 /\ (k + 1) - 1 = k OBVIOUS
  <2>2. B[k + 1] = Def(B[k], k + 1) BY <1>4, <2>1
  <2>. QED BY <1>5, <2>2
<1>8. \A k \in Nat : B[k] \subseteq Entities
  <2> SUFFICES ASSUME NEW n \in Nat PROVE B[n] \subseteq Entities OBVIOUS
  <2> DEFINE P == {k \in Nat : B[k] \subseteq Entities}
  <2>1. \A x : Succ(x, filter) \subseteq Entities BY KnownShape DEF Succ
  <2>2. 0 \in P BY <1>6
  <2>3. \A k \in 0 .. n - 1 : k \in P => k + 1 \in P
    <3> SUFFICES ASSUME NEW k \in Nat, B[k] \subseteq Entities PROVE B[k + 1] \subseteq Entities
      OBVIOUS
    <3>. QED BY <1>7, <2>1
  <2> HIDE DEF P
  <2>4. \A k \in 0 .. n : k \in P BY <2>2, <2>3, ClimbTo
  <2>. QED BY <2>4 DEF P
<1>9. \A j, k \in Nat : j <= k => B[j] \subseteq B[k]
  <2> SUFFICES ASSUME NEW j \in Nat, NEW n \in Nat, j <= n PROVE B[j] \subseteq B[n] OBVIOUS
  <2> DEFINE P == {k \in Nat : B[j] \subseteq B[j + k]}
  <2>1. 0 \in P OBVIOUS
  <2>2. \A k \in 0 .. (n - j) - 1 : k \in P => k + 1 \in P
    <3> SUFFICES ASSUME NEW k \in Nat, B[j] \subseteq B[j + k] PROVE B[j] \subseteq B[j + (k + 1)]
      OBVIOUS
    <3>1. j + (k + 1) = (j + k) + 1 /\ j + k \in Nat OBVIOUS
    <3>2. B[j + k] \subseteq B[(j + k) + 1] BY <1>7, <3>1
    <3>. QED BY <3>1, <3>2
  <2> HIDE DEF P
  <2>3. n - j \in Nat OBVIOUS
  <2>4. \A k \in 0 .. n - j : k \in P BY <2>1, <2>2, <2>3, ClimbTo
  <2>5. n - j \in P BY <2>3, <2>4
  <2>. QED BY <2>5 DEF P
<1>. QED BY <1>1, <1>6, <1>7, <1>8, <1>9 DEF Balls

-----------------------------------------------------------------------------
(* Breadth first.  The entities found are numbered as they are reported; the *)
(* last ones are those in the queue.                                         *)

Ix == 0 .. Count - 1
Name(i) == Rowids[i + 1]
Has(o, x) == \E a \in 1 .. Len(o) : o[a] = x

\* m entities are done with, the others wait, each with its distance.
Lined(q, o, m) ==
    /\ o \in Seq(Entities) /\ q \in Seq(Ix \X Nat)
    /\ m \in Nat /\ Len(o) = m + Len(q)
    /\ \A a, b \in 1 .. Len(o) : o[a] = o[b] => a = b
    /\ \A k \in 1 .. Len(q) : Name(q[k][1]) = o[m + k]

Distant(q, B) ==
    /\ \A k \in 1 .. Len(q) : /\ Name(q[k][1]) \in B[q[k][2]]
                              /\ \A j \in Nat : j < q[k][2] => Name(q[k][1]) \notin B[j]
    /\ \A k, l \in 1 .. Len(q) : k <= l => q[k][2] <= q[l][2]

\* What is reported lies within D, the nearer before the farther.
Nearer(o, B, D) ==
    /\ \A a \in 1 .. Len(o) : o[a] \in B[D]
    /\ \A a, b \in 1 .. Len(o), j \in Nat : a < b /\ o[b] \in B[j] => o[a] \in B[j]

Marked(visited, o, gen) ==
    /\ visited \in [Ix -> 0 .. gen]
    /\ \A i \in Ix : visited[i] = gen <=> Has(o, Name(i))

\* What leads on from those done with is found.
Closed(o, m, filter, B, D) ==
    \A a \in 1 .. m, j \in Nat :
        j < D /\ o[a] \in B[j] => \A y \in Succ(o[a], filter) : Has(o, y)

\* The queue has depths d and d + 1 only, and nothing farther is found.
Span(q, o, d, B) ==
    /\ \A k \in 1 .. Len(q) : d <= q[k][2] /\ q[k][2] <= d + 1
    /\ \A a \in 1 .. Len(o) : o[a] \in B[d + 1]

(* What is nearer than all that waits is found. *)
LEMMA BallFound ==
    ASSUME NEW B, NEW start, NEW filter, Balls(B, start, filter),
           NEW q, NEW o, NEW m, Lined(q, o, m), NEW D \in Nat, Closed(o, m, filter, B, D),
           \A x \in B[0] : Has(o, x),
           NEW J \in Nat, J <= D,
           \A k \in 1 .. Len(q), j \in Nat : j < J => Name(q[k][1]) \notin B[j]
    PROVE  \A x \in B[J] : Has(o, x)
<1> DEFINE P == {j \in Nat : \A x \in B[j] : Has(o, x)}
<1>1. 0 \in P OBVIOUS
<1>2. ASSUME NEW j \in 0 .. J - 1, j \in P PROVE j + 1 \in P
  <2>1. j \in Nat /\ j < J /\ j < D OBVIOUS
  <2> SUFFICES ASSUME NEW y \in B[j + 1] PROVE Has(o, y) BY <2>1
  <2>2. CASE y \in B[j] BY <1>2, <2>2
  <2>3. CASE y \notin B[j]
    <3>1. PICK x \in B[j] : y \in Succ(x, filter) BY <2>1, <2>3 DEF Balls
    <3>2. PICK a \in 1 .. Len(o) : o[a] = x BY <1>2 DEF Has
    <3>3. a <= m
      <4> SUFFICES ASSUME ~ (a <= m) PROVE FALSE OBVIOUS
      <4>1. m \in Nat /\ Len(q) \in Nat /\ Len(o) = m + Len(q) BY DEF Lined
      <4>2. a - m \in 1 .. Len(q) /\ m + (a - m) = a BY <4>1
      <4>3. Name(q[a - m][1]) = o[a] BY <4>2 DEF Lined
      <4>. QED BY <2>1, <3>2, <4>2, <4>3
    <3>4. a \in 1 .. m BY <3>3 DEF Lined
    <3>. QED BY <2>1, <3>1, <3>2, <3>4 DEF Closed
  <2>. QED BY <2>2, <2>3
<1> HIDE DEF P
<1>3. \A k \in 0 .. J : k \in P BY <1>1, <1>2, ClimbTo
<1>4. J \in P BY <1>3
<1>. QED BY <1>4 DEF P

\* Within the loop over the edges of an entity at depth d.
LoopInv(acc, m, d, B, D, gen) ==
    /\ Lined(acc.queue, acc.out, m) /\ Distant(acc.queue, B) /\ Nearer(acc.out, B, D)
    /\ Marked(acc.visited, acc.out, gen) /\ Span(acc.queue, acc.out, d, B)
    /\ \A y \in B[d] : Has(acc.out, y)

Grows(o, p) == Len(o) <= Len(p) /\ \A a \in 1 .. Len(o) : p[a] = o[a]

(* One name is one number. *)
LEMMA Names ==
    /\ \A i \in Ix : Name(i) \in Entities
    /\ \A i, j \in Ix : Name(i) = Name(j) => i = j
    /\ \A r \in Entities : IndexOf[r] \in Ix /\ Name(IndexOf[r]) = r
<1>1. \A i \in Ix : Name(i) \in Entities /\ IndexOf[Name(i)] = i
  BY IndexShape DEF Ix, Name
<1>2. \A r \in Entities : IndexOf[r] \in Ix /\ Name(IndexOf[r]) = r
  BY IndexShape DEF Ix, Name
<1>. QED BY <1>1, <1>2

(* An element that is reported and queued. *)
LEMMA Reported ==
    ASSUME NEW q, NEW o, NEW m, Lined(q, o, m), NEW i \in Ix, NEW k \in Nat,
           ~ Has(o, Name(i))
    PROVE  LET p == Append(o, Name(i))
               r == Append(q, <<i, k>>)
           IN  /\ Lined(r, p, m) /\ Grows(o, p)
               /\ Len(r) = Len(q) + 1 /\ Len(p) = Len(o) + 1
               /\ \A l \in 1 .. Len(q) : r[l] = q[l]
               /\ r[Len(q) + 1] = <<i, k>> /\ p[Len(o) + 1] = Name(i)
<1> DEFINE p == Append(o, Name(i))
           r == Append(q, <<i, k>>)
<1>1. /\ o \in Seq(Entities) /\ q \in Seq(Ix \X Nat) /\ m \in Nat
      /\ Len(o) = m + Len(q) /\ Len(o) \in Nat /\ Len(q) \in Nat
      /\ \A a, b \in 1 .. Len(o) : o[a] = o[b] => a = b
      /\ \A l \in 1 .. Len(q) : Name(q[l][1]) = o[m + l]
  BY DEF Lined
<1>2. Name(i) \in Entities /\ <<i, k>> \in Ix \X Nat BY Names
<1>3. /\ p \in Seq(Entities) /\ Len(p) = Len(o) + 1 /\ p[Len(o) + 1] = Name(i)
      /\ \A a \in 1 .. Len(o) : p[a] = o[a]
  BY <1>1, <1>2, AppendProperties
<1>4. /\ r \in Seq(Ix \X Nat) /\ Len(r) = Len(q) + 1 /\ r[Len(q) + 1] = <<i, k>>
      /\ \A l \in 1 .. Len(q) : r[l] = q[l]
  BY <1>1, <1>2, AppendProperties
<1> HIDE DEF p, r
<1>5. \A a \in 1 .. Len(o) : o[a] # Name(i) BY DEF Has
<1>6. \A a \in 1 .. Len(p) : a \in 1 .. Len(o) \/ a = Len(o) + 1 BY <1>1, <1>3
<1>7. \A a, b \in 1 .. Len(p) : p[a] = p[b] => a = b
  <2> SUFFICES ASSUME NEW a \in 1 .. Len(p), NEW b \in 1 .. Len(p), p[a] = p[b] PROVE a = b
    OBVIOUS
  <2>1. CASE a \in 1 .. Len(o) /\ b \in 1 .. Len(o) BY <1>1, <1>3, <2>1
  <2>2. CASE a = Len(o) + 1 /\ b \in 1 .. Len(o) BY <1>3, <1>5, <2>2
  <2>3. CASE a \in 1 .. Len(o) /\ b = Len(o) + 1 BY <1>3, <1>5, <2>3
  <2>4. CASE a = Len(o) + 1 /\ b = Len(o) + 1 BY <2>4
  <2>. QED BY <1>6, <2>1, <2>2, <2>3, <2>4
<1>8. \A l \in 1 .. Len(r) : Name(r[l][1]) = p[m + l]
  <2> SUFFICES ASSUME NEW l \in 1 .. Len(r) PROVE Name(r[l][1]) = p[m + l] OBVIOUS
  <2>1. CASE l \in 1 .. Len(q)
    <3>1. m + l \in 1 .. Len(o) BY <1>1, <2>1
    <3>. QED BY <1>1, <1>3, <1>4, <2>1, <3>1
  <2>2. CASE l = Len(q) + 1
    <3>1. m + l = Len(o) + 1 BY <1>1, <2>2
    <3>. QED BY <1>3, <1>4, <2>2, <3>1
  <2>. QED BY <1>1, <1>4, <2>1, <2>2
<1>9. Len(p) = m + Len(r) BY <1>1, <1>3, <1>4
<1>10. Lined(r, p, m) BY <1>1, <1>3, <1>4, <1>7, <1>8, <1>9 DEF Lined
<1>11. Grows(o, p) BY <1>1, <1>3 DEF Grows
<1>. QED BY <1>3, <1>4, <1>10, <1>11 DEF p, r

LEMMA VisitStep ==
    ASSUME NEW B, NEW start, NEW filter, Balls(B, start, filter),
           NEW acc, NEW m, NEW d \in Nat, NEW D \in Nat, d < D,
           LoopInv(acc, m, d, B, D, bfs_gen), bfs_gen \in Nat, Loaded,
           NEW e \in EdgeRecords, Passes(e, filter) => Name(e.end) \in B[d + 1]
    PROVE  LET new == Visit(acc, e, d, filter) IN
           /\ LoopInv(new, m, d, B, D, bfs_gen) /\ Grows(acc.out, new.out)
           /\ Passes(e, filter) => Has(new.out, Name(e.end))
<1> DEFINE new == Visit(acc, e, d, filter)
           o == acc.out
           q == acc.queue
           v == acc.visited
           i == e.end
           y == Name(i)
<1>1. /\ Lined(q, o, m) /\ Distant(q, B) /\ Nearer(o, B, D) /\ Marked(v, o, bfs_gen)
      /\ Span(q, o, d, B) /\ \A x \in B[d] : Has(o, x)
  BY DEF LoopInv
<1>2. i \in Ix BY DEF EdgeRecords, Ix
<1>3. CASE ~ Passes(e, filter) \/ v[i] = bfs_gen
  <2>1. new = acc BY <1>3 DEF Visit
  <2>2. Grows(o, o) BY <1>1 DEF Grows, Lined
  <2>3. Passes(e, filter) => Has(o, y) BY <1>1, <1>2, <1>3 DEF Marked
  <2> HIDE DEF new
  <2>. QED BY <2>1, <2>2, <2>3 DEF new
<1>4. CASE ~ (~ Passes(e, filter) \/ v[i] = bfs_gen)
  <2> DEFINE p == Append(o, y)
             r == Append(q, <<i, d + 1>>)
             w == [v EXCEPT ![i] = bfs_gen]
  <2>1. graph.rowids = Rowids BY DEF Loaded, Load, Rowids
  <2>2. new = [visited |-> w, queue |-> r, out |-> p]
    BY <1>4, <2>1 DEF Visit, Rowid, Name
  <2>3. new.visited = w /\ new.queue = r /\ new.out = p BY <2>2
  <2> HIDE DEF new, w
  <2>4. ~ Has(o, y) BY <1>1, <1>2, <1>4 DEF Marked
  <2>5. /\ Lined(r, p, m) /\ Grows(o, p)
        /\ Len(r) = Len(q) + 1 /\ Len(p) = Len(o) + 1
        /\ \A l \in 1 .. Len(q) : r[l] = q[l]
        /\ r[Len(q) + 1] = <<i, d + 1>> /\ p[Len(o) + 1] = y
    BY <1>1, <1>2, <2>4, Reported
  <2> HIDE DEF p, r
  <2>6. Len(o) \in Nat /\ Len(q) \in Nat /\ \A a \in 1 .. Len(o) : p[a] = o[a]
    <3>1. Len(o) \in Nat /\ Len(q) \in Nat BY <1>1 DEF Lined
    <3>2. \A a \in 1 .. Len(o) : p[a] = o[a] BY <2>5 DEF Grows
    <3>. QED BY <3>1, <3>2
  <2>7. \A x : Has(p, x) <=> Has(o, x) \/ x = y
    <3> SUFFICES ASSUME NEW x PROVE Has(p, x) <=> Has(o, x) \/ x = y OBVIOUS
    <3>1. 1 .. Len(p) = 1 .. Len(o) \cup {Len(o) + 1} BY <2>5, <2>6
    <3>. QED BY <2>5, <2>6, <3>1 DEF Has
  <2>8. y \in B[d + 1] /\ \A j \in Nat : j < d + 1 => y \notin B[j]
    <3>1. y \notin B[d] BY <1>1, <2>4
    <3>2. \A j \in Nat : j < d + 1 => B[j] \subseteq B[d] BY DEF Balls
    <3>. QED BY <1>4, <3>1, <3>2
  <2>9. Distant(r, B)
    <3>1. ASSUME NEW k \in 1 .. Len(r)
          PROVE  /\ Name(r[k][1]) \in B[r[k][2]]
                 /\ \A j \in Nat : j < r[k][2] => Name(r[k][1]) \notin B[j]
                 /\ r[k][2] <= d + 1
      <4>1. CASE k \in 1 .. Len(q) BY <1>1, <2>5, <4>1 DEF Distant, Span
      <4>2. CASE k = Len(q) + 1
        <5>1. r[k][1] = i /\ r[k][2] = d + 1 BY <2>5, <4>2
        <5>. QED BY <2>8, <5>1
      <4>. QED BY <2>5, <2>6, <4>1, <4>2
    <3>2. ASSUME NEW k \in 1 .. Len(r), NEW l \in 1 .. Len(r), k <= l
          PROVE  r[k][2] <= r[l][2]
      <4>1. CASE l \in 1 .. Len(q)
        <5>1. k \in 1 .. Len(q) BY <2>6, <3>2, <4>1
        <5>. QED BY <1>1, <2>5, <3>2, <4>1, <5>1 DEF Distant
      <4>2. CASE l = Len(q) + 1
        <5>1. r[l][2] = d + 1 BY <2>5, <4>2
        <5>. QED BY <3>1, <5>1
      <4>. QED BY <2>5, <2>6, <4>1, <4>2
    <3>. QED BY <3>1, <3>2 DEF Distant
  <2>10. \A a \in 1 .. Len(p) : p[a] \in B[d + 1]
    <3> SUFFICES ASSUME NEW a \in 1 .. Len(p) PROVE p[a] \in B[d + 1] OBVIOUS
    <3>1. a \in 1 .. Len(o) \/ a = Len(o) + 1 BY <2>5, <2>6
    <3>. QED BY <1>1, <2>5, <2>6, <2>8, <3>1 DEF Span
  <2>11. Nearer(p, B, D)
    <3>1. B[d + 1] \subseteq B[D]
      <4>1. d + 1 \in Nat /\ d + 1 <= D OBVIOUS
      <4>. QED BY <4>1 DEF Balls
    <3>2. ASSUME NEW a \in 1 .. Len(p), NEW b \in 1 .. Len(p), NEW j \in Nat,
                 a < b, p[b] \in B[j]
          PROVE  p[a] \in B[j]
      <4>1. a \in 1 .. Len(o) BY <2>5, <2>6, <3>2
      <4>2. CASE b \in 1 .. Len(o) BY <1>1, <2>6, <3>2, <4>1, <4>2 DEF Nearer
      <4>3. CASE b = Len(o) + 1
        <5>1. y \in B[j] BY <2>5, <3>2, <4>3
        <5>2. d + 1 \in Nat /\ d + 1 <= j BY <2>8, <5>1
        <5>3. B[d + 1] \subseteq B[j] BY <5>2 DEF Balls
        <5>. QED BY <2>10, <5>3
      <4>. QED BY <2>5, <2>6, <4>2, <4>3
    <3>. QED BY <2>10, <3>1, <3>2 DEF Nearer
  <2>12. Marked(w, p, bfs_gen)
    <3>1. w \in [Ix -> 0 .. bfs_gen]
      <4>1. v \in [Ix -> 0 .. bfs_gen] BY <1>1 DEF Marked
      <4>2. bfs_gen \in 0 .. bfs_gen OBVIOUS
      <4>. QED BY <4>1, <4>2 DEF w
    <3>2. ASSUME NEW k \in Ix PROVE w[k] = bfs_gen <=> Has(p, Name(k))
      <4>1. CASE k = i BY <1>1, <1>2, <2>7, <4>1 DEF Marked, w
      <4>2. CASE k # i
        <5>1. Name(k) # y BY <1>2, <4>2, Names
        <5>2. w[k] = v[k] BY <1>1, <4>2 DEF Marked, w
        <5>. QED BY <1>1, <2>7, <5>1, <5>2 DEF Marked
      <4>. QED BY <4>1, <4>2
    <3>. QED BY <3>1, <3>2 DEF Marked
  <2>13. Span(r, p, d, B)
    <3>1. ASSUME NEW k \in 1 .. Len(r) PROVE d <= r[k][2] /\ r[k][2] <= d + 1
      <4>1. CASE k \in 1 .. Len(q) BY <1>1, <2>5, <4>1 DEF Span
      <4>2. CASE k = Len(q) + 1
        <5>1. r[k][2] = d + 1 BY <2>5, <4>2
        <5>. QED BY <5>1
      <4>. QED BY <2>5, <2>6, <4>1, <4>2
    <3>. QED BY <2>10, <3>1 DEF Span
  <2>14. \A x \in B[d] : Has(p, x) BY <1>1, <2>7
  <2>15. LoopInv(new, m, d, B, D, bfs_gen)
    BY <2>3, <2>5, <2>9, <2>11, <2>12, <2>13, <2>14 DEF LoopInv
  <2>16. Has(p, y) BY <2>7
  <2>. QED BY <2>3, <2>5, <2>15, <2>16 DEF new
<1>. QED BY <1>3, <1>4

LEMMA GrowsHas ==
    ASSUME NEW o, NEW p, Len(o) \in Nat, Len(p) \in Nat, Grows(o, p)
    PROVE  \A x : Has(o, x) => Has(p, x)
<1> SUFFICES ASSUME NEW x, Has(o, x) PROVE Has(p, x) OBVIOUS
<1>1. PICK a \in 1 .. Len(o) : o[a] = x BY DEF Has
<1>2. a \in 1 .. Len(p) /\ p[a] = x BY <1>1 DEF Grows
<1>. QED BY <1>2 DEF Has

(* The loop over the edges of an entity finds all they lead to. *)
LEMMA VisitAllWalks ==
    ASSUME NEW B, NEW start, NEW filter, Balls(B, start, filter),
           NEW acc, NEW m, NEW d \in Nat, NEW D \in Nat, d < D,
           LoopInv(acc, m, d, B, D, bfs_gen), bfs_gen \in Nat, Loaded,
           NEW row \in Seq(EdgeRecords),
           \A k \in 1 .. Len(row) : Passes(row[k], filter) => Name(row[k].end) \in B[d + 1]
    PROVE  LET new == VisitAll(acc, row, d, filter) IN
           /\ LoopInv(new, m, d, B, D, bfs_gen) /\ Grows(acc.out, new.out)
           /\ \A k \in 1 .. Len(row) : Passes(row[k], filter) => Has(new.out, Name(row[k].end))
<1> DEFINE n == Len(row)
           Def(v, k) == Visit(v, row[k], d, filter)
           at == CHOOSE g : g = [k \in 0 .. n |-> IF k = 0 THEN acc ELSE Def(g[k - 1], k)]
           Good(k) == /\ LoopInv(at[k], m, d, B, D, bfs_gen) /\ Grows(acc.out, at[k].out)
                      /\ \A l \in 1 .. k :
                           Passes(row[l], filter) => Has(at[k].out, Name(row[l].end))
           P == {k \in 0 .. n : Good(k)}
<1>1. n \in Nat OBVIOUS
<1>2. VisitAll(acc, row, d, filter) = at[n] BY DEF VisitAll
<1>3. FiniteNatInductiveDefHypothesis(at, acc, Def, 0, n)
  BY DEF FiniteNatInductiveDefHypothesis
<1> HIDE DEF at
<1>4. FiniteNatInductiveDefConclusion(at, acc, Def, 0, n)
  BY <1>1, <1>3, FiniteNatInductiveDef
<1>5. at = [k \in 0 .. n |-> IF k = 0 THEN acc ELSE Def(at[k - 1], k)]
  BY <1>4 DEF FiniteNatInductiveDefConclusion
<1>6. \A v : LoopInv(v, m, d, B, D, bfs_gen) => Len(v.out) \in Nat
  BY DEF LoopInv, Lined
<1>7. 0 \in P
  <2>1. at[0] = acc BY <1>1, <1>5
  <2>2. Grows(acc.out, acc.out) BY <1>6 DEF Grows
  <2>. QED BY <1>1, <2>1, <2>2
<1>8. ASSUME NEW k \in 0 .. n - 1, Good(k) PROVE Good(k + 1)
  <2> DEFINE old == at[k]
             new == at[k + 1]
             e == row[k + 1]
  <2>1. new = Visit(old, e, d, filter)
    <3>1. k + 1 \in 0 .. n /\ k + 1 # 0 /\ (k + 1) - 1 = k BY <1>1
    <3>. QED BY <1>5, <3>1
  <2>2. k + 1 \in 1 .. n /\ e \in EdgeRecords BY <1>1
  <2>3. /\ LoopInv(old, m, d, B, D, bfs_gen) /\ Grows(acc.out, old.out)
        /\ \A l \in 1 .. k : Passes(row[l], filter) => Has(old.out, Name(row[l].end))
    BY <1>8
  <2>4. Passes(e, filter) => Name(e.end) \in B[d + 1] BY <2>2
  <2> HIDE DEF old, new, e
  <2>5. /\ LoopInv(new, m, d, B, D, bfs_gen) /\ Grows(old.out, new.out)
        /\ Passes(e, filter) => Has(new.out, Name(e.end))
    BY <2>1, <2>2, <2>3, <2>4, VisitStep
  <2>6. Len(acc.out) \in Nat /\ Len(old.out) \in Nat /\ Len(new.out) \in Nat
    BY <1>6, <2>3, <2>5
  <2>7. Grows(acc.out, new.out) BY <2>3, <2>5, <2>6 DEF Grows
  <2>8. \A x : Has(old.out, x) => Has(new.out, x) BY <2>5, <2>6, GrowsHas
  <2>9. \A l \in 1 .. k + 1 : Passes(row[l], filter) => Has(new.out, Name(row[l].end))
    <3> SUFFICES ASSUME NEW l \in 1 .. k + 1, Passes(row[l], filter)
                 PROVE  Has(new.out, Name(row[l].end))
      OBVIOUS
    <3>1. l \in 1 .. k \/ l = k + 1 OBVIOUS
    <3>. QED BY <2>3, <2>5, <2>8, <3>1 DEF e
  <2>. QED BY <2>5, <2>7, <2>9 DEF new
<1>9. \A k \in 0 .. n - 1 : k \in P => k + 1 \in P
  <2>1. \A k \in 0 .. n - 1 : k + 1 \in 0 .. n BY <1>1
  <2> HIDE DEF Good
  <2>. QED BY <1>8, <2>1
<1> HIDE DEF P
<1>10. \A k \in 0 .. n : k \in P BY <1>1, <1>7, <1>9, ClimbTo
<1>11. n \in 0 .. n BY <1>1
<1>12. n \in P BY <1>10, <1>11
<1>13. Good(n) BY <1>12 DEF P
<1>. QED BY <1>2, <1>13

\* A traversal under way.
Walk(visited, q, o, filter, B, D, gen) ==
    LET m == Len(o) - Len(q)
    IN  /\ Lined(q, o, m) /\ Distant(q, B) /\ Nearer(o, B, D)
        /\ Marked(visited, o, gen) /\ Closed(o, m, filter, B, D)
        /\ \A x \in B[0] : Has(o, x)
        /\ \A k \in 1 .. Len(q) : q[k][2] <= D
        /\ q # <<>> => Span(q, o, q[1][2], B)

(* The entity at the head of the queue is taken. *)
LEMMA Taking ==
    ASSUME NEW q, NEW o, NEW m, Lined(q, o, m), q # <<>>
    PROVE  /\ Lined(Tail(q), o, m + 1)
           /\ Head(q) = q[1] /\ 1 \in 1 .. Len(q)
           /\ Head(q)[1] \in Ix /\ Head(q)[2] \in Nat
           /\ m + 1 \in 1 .. Len(o) /\ o[m + 1] = Name(Head(q)[1])
           /\ Len(Tail(q)) = Len(q) - 1
           /\ \A k \in 1 .. Len(Tail(q)) : k + 1 \in 1 .. Len(q) /\ Tail(q)[k] = q[k + 1]
<1> DEFINE t == Tail(q)
<1>1. /\ o \in Seq(Entities) /\ q \in Seq(Ix \X Nat)
      /\ m \in Nat /\ Len(o) = m + Len(q)
      /\ \A a, b \in 1 .. Len(o) : o[a] = o[b] => a = b
      /\ \A k \in 1 .. Len(q) : Name(q[k][1]) = o[m + k]
  BY DEF Lined
<1>2. /\ t \in Seq(Ix \X Nat) /\ Len(t) = Len(q) - 1
      /\ \A k \in 1 .. Len(t) : t[k] = q[k + 1]
  BY <1>1, HeadTailProperties
<1>3. Head(q) = q[1] BY <1>1
<1> HIDE DEF t
<1>4. Len(q) \in Nat /\ Len(q) # 0 BY <1>1
<1>5. 1 \in 1 .. Len(q) BY <1>4
<1>6. q[1] \in Ix \X Nat BY <1>1, <1>5
<1>7. \A k \in 1 .. Len(t) : k + 1 \in 1 .. Len(q) BY <1>2, <1>4
<1>8. \A k \in 1 .. Len(t) : Name(t[k][1]) = o[(m + 1) + k]
  <2> SUFFICES ASSUME NEW k \in 1 .. Len(t) PROVE Name(t[k][1]) = o[(m + 1) + k] OBVIOUS
  <2>1. (m + 1) + k = m + (k + 1) BY <1>1
  <2>2. Name(q[k + 1][1]) = o[m + (k + 1)] BY <1>1, <1>7
  <2>. QED BY <1>2, <2>1, <2>2
<1>9. Len(o) = (m + 1) + Len(t) /\ m + 1 \in Nat BY <1>1, <1>2, <1>4
<1>10. Lined(t, o, m + 1) BY <1>1, <1>2, <1>8, <1>9 DEF Lined
<1>11. m + 1 \in 1 .. Len(o) /\ o[m + 1] = Name(q[1][1]) BY <1>1, <1>4, <1>5
<1>. QED BY <1>2, <1>3, <1>5, <1>6, <1>7, <1>10, <1>11 DEF t

(* What the loop over a head's edges leaves is a traversal under way. *)
LEMMA WalksOn ==
    ASSUME NEW B, NEW start, NEW filter, Balls(B, start, filter),
           NEW visited, NEW q, NEW o, NEW m, NEW d \in Nat, NEW D \in Nat, NEW gen,
           Lined(q, o, m), Distant(q, B), Nearer(o, B, D), Marked(visited, o, gen),
           Span(q, o, d, B), Closed(o, m, filter, B, D), \A x \in B[0] : Has(o, x),
           \A k \in 1 .. Len(q) : q[k][2] <= D
    PROVE  Walk(visited, q, o, filter, B, D, gen)
<1>1. m = Len(o) - Len(q) /\ Len(q) \in Nat /\ q \in Seq(Ix \X Nat) BY DEF Lined
<1>2. ASSUME q # <<>> PROVE Span(q, o, q[1][2], B)
  <2> DEFINE c == q[1][2]
  <2>1. 1 \in 1 .. Len(q) /\ q[1] \in Ix \X Nat BY <1>1, <1>2
  <2>2. c \in Nat /\ d <= c /\ c <= d + 1 BY <2>1 DEF Span
  <2>3. ASSUME NEW k \in 1 .. Len(q) PROVE c <= q[k][2] /\ q[k][2] <= c + 1
    <3>1. q[k] \in Ix \X Nat BY <1>1
    <3>2. q[k][2] \in Nat /\ q[k][2] <= d + 1 BY <3>1 DEF Span
    <3>3. c <= q[k][2] BY <2>1 DEF Distant
    <3> HIDE DEF c
    <3>. QED BY <2>2, <3>2, <3>3
  <2>4. B[d + 1] \subseteq B[c + 1]
    <3>1. d + 1 \in Nat /\ c + 1 \in Nat /\ d + 1 <= c + 1
      <4> HIDE DEF c
      <4>. QED BY <2>2
    <3>. QED BY <3>1 DEF Balls
  <2>. QED BY <2>3, <2>4 DEF Span
<1>. QED BY <1>1, <1>2 DEF Walk

(* One turn of the outer loop takes a traversal on. *)
LEMMA ExpandWalks ==
    ASSUME Loaded, NEW B, NEW start, NEW filter, Balls(B, start, filter), NEW D \in Nat,
           bfs_gen \in Nat, NEW visited, NEW q, NEW o, q # <<>>,
           Walk(visited, q, o, filter, B, D, bfs_gen)
    PROVE  LET i == Head(q)[1]
               d == Head(q)[2]
               acc == [visited |-> visited, queue |-> Tail(q), out |-> o]
               new == IF d >= D THEN acc ELSE VisitAll(acc, Row(graph.out, i), d, filter)
           IN  Walk(new.visited, new.queue, new.out, filter, B, D, bfs_gen)
<1> DEFINE i == Head(q)[1]
           d == Head(q)[2]
           t == Tail(q)
           m == Len(o) - Len(q)
           acc == [visited |-> visited, queue |-> t, out |-> o]
           row == Row(graph.out, i)
           r == Name(i)
<1>1. /\ Lined(q, o, m) /\ Distant(q, B) /\ Nearer(o, B, D)
      /\ Marked(visited, o, bfs_gen) /\ Closed(o, m, filter, B, D)
      /\ \A x \in B[0] : Has(o, x)
      /\ \A k \in 1 .. Len(q) : q[k][2] <= D
      /\ Span(q, o, q[1][2], B)
  BY DEF Walk
<1> HIDE DEF m
<1>2. /\ Lined(t, o, m + 1)
      /\ Head(q) = q[1] /\ 1 \in 1 .. Len(q)
      /\ i \in Ix /\ d \in Nat
      /\ m + 1 \in 1 .. Len(o) /\ o[m + 1] = r
      /\ Len(t) = Len(q) - 1
      /\ \A k \in 1 .. Len(t) : k + 1 \in 1 .. Len(q) /\ t[k] = q[k + 1]
  BY <1>1, Taking
<1>3. m \in Nat /\ Len(o) \in Nat /\ Len(q) \in Nat BY <1>1 DEF Lined
<1>4. d = q[1][2] /\ i = q[1][1] /\ Span(q, o, d, B) BY <1>1, <1>2
<1>5. r \in B[d] /\ \A j \in Nat : j < d => r \notin B[j] BY <1>1, <1>2, <1>4 DEF Distant
<1>6. acc.visited = visited /\ acc.queue = t /\ acc.out = o OBVIOUS
<1> HIDE DEF i, d, t, acc, row
<1>7. Distant(t, B)
  <2>1. \A k, l \in 1 .. Len(t) : k <= l => t[k][2] <= t[l][2]
    <3> SUFFICES ASSUME NEW k \in 1 .. Len(t), NEW l \in 1 .. Len(t), k <= l
                 PROVE  t[k][2] <= t[l][2]
      OBVIOUS
    <3>1. k + 1 <= l + 1 BY <1>2, <1>3
    <3>. QED BY <1>1, <1>2, <3>1 DEF Distant
  <2>2. \A k \in 1 .. Len(t) :
          /\ Name(t[k][1]) \in B[t[k][2]]
          /\ \A j \in Nat : j < t[k][2] => Name(t[k][1]) \notin B[j]
    BY <1>1, <1>2 DEF Distant
  <2>. QED BY <2>1, <2>2 DEF Distant
<1>8. Span(t, o, d, B)
  <2>1. \A k \in 1 .. Len(t) : d <= t[k][2] /\ t[k][2] <= d + 1 BY <1>2, <1>4 DEF Span
  <2>. QED BY <1>4, <2>1 DEF Span
<1>9. \A k \in 1 .. Len(t) : t[k][2] <= D BY <1>1, <1>2
<1>10. ASSUME d >= D
       PROVE  Walk(visited, t, o, filter, B, D, bfs_gen)
  <2>1. Closed(o, m + 1, filter, B, D)
    <3> SUFFICES ASSUME NEW a \in 1 .. m + 1, NEW j \in Nat, j < D, o[a] \in B[j]
                 PROVE  \A y \in Succ(o[a], filter) : Has(o, y)
      BY DEF Closed
    <3>1. CASE a = m + 1
      <4>1. j < d BY <1>2, <1>10
      <4>. QED BY <1>2, <1>5, <3>1, <4>1
    <3>2. CASE a # m + 1
      <4>1. a \in 1 .. m BY <1>3, <3>2
      <4>. QED BY <1>1, <4>1 DEF Closed
    <3>. QED BY <3>1, <3>2
  <2>. QED BY <1>1, <1>2, <1>7, <1>8, <1>9, <2>1, WalksOn
<1>11. ASSUME d < D
       PROVE  LET new == VisitAll(acc, row, d, filter)
              IN  Walk(new.visited, new.queue, new.out, filter, B, D, bfs_gen)
  <2> DEFINE new == VisitAll(acc, row, d, filter)
  <2>1. r \in Entities /\ IndexOf[r] = i
    <3>1. r \in Entities BY <1>2, Names
    <3>2. IndexOf[r] \in Ix /\ Name(IndexOf[r]) = r BY <3>1, Names
    <3>. QED BY <1>2, <3>1, <3>2, Names
  <2>2. Mirrors(row, Leaving(r), "target")
    <3>1. EntityIndex(graph.rowids)[r] = i
      BY <2>1 DEF Loaded, Load, Rowids, IndexOf
    <3>2. Mirrors(Row(graph.out, EntityIndex(graph.rowids)[r]), Leaving(r), "target")
      BY <2>1, RowsMirror
    <3>. QED BY <3>1, <3>2 DEF row
  <2>3. row \in Seq(EdgeRecords) /\ Len(row) \in Nat BY <2>2 DEF Mirrors
  <2>4. \A y : y \in Succ(r, filter) <=>
                 \E e \in Leaving(r) : y = e.target /\ Passes(e, filter)
    BY DEF Succ, Leaving
  <2>5. \A e \in Leaving(r) : e.target \in Entities BY KnownShape DEF Leaving
  <2>6. ASSUME NEW k \in 1 .. Len(row), Passes(row[k], filter)
        PROVE  Name(row[k].end) \in B[d + 1]
    <3>1. PICK e \in Leaving(r) : Same(row[k], e, "target") BY <2>2 DEF Mirrors
    <3>2. Passes(e, filter) /\ row[k].end = IndexOf[e.target] BY <2>6, <3>1 DEF Same, Passes
    <3>3. Name(row[k].end) = e.target BY <2>5, <3>2, Names
    <3>4. e.target \in Succ(r, filter) BY <2>4, <3>2
    <3>5. B[d + 1] = B[d] \cup UNION {Succ(x, filter) : x \in B[d]} BY <1>2 DEF Balls
    <3>. QED BY <1>5, <3>3, <3>4, <3>5
  <2>7. \A x \in B[d] : Has(o, x)
    <3>1. \A k \in 1 .. Len(q), j \in Nat : j < d => Name(q[k][1]) \notin B[j]
      <4> SUFFICES ASSUME NEW k \in 1 .. Len(q), NEW j \in Nat, j < d
                   PROVE  Name(q[k][1]) \notin B[j]
        OBVIOUS
      <4>1. q[k] \in Ix \X Nat BY <1>1 DEF Lined
      <4>2. j < q[k][2] BY <1>2, <1>4, <4>1 DEF Span
      <4>. QED BY <1>1, <4>2 DEF Distant
    <3>2. d <= D BY <1>2, <1>11
    <3>. QED BY <1>1, <1>2, <3>1, <3>2, BallFound
  <2>8. LoopInv(acc, m + 1, d, B, D, bfs_gen)
    BY <1>1, <1>2, <1>6, <1>7, <1>8, <2>7 DEF LoopInv
  <2>9. /\ LoopInv(new, m + 1, d, B, D, bfs_gen) /\ Grows(acc.out, new.out)
        /\ \A k \in 1 .. Len(row) : Passes(row[k], filter) => Has(new.out, Name(row[k].end))
    BY <1>2, <1>11, <2>3, <2>6, <2>8, VisitAllWalks
  <2> HIDE DEF new
  <2>10. /\ Lined(new.queue, new.out, m + 1) /\ Distant(new.queue, B)
         /\ Nearer(new.out, B, D) /\ Marked(new.visited, new.out, bfs_gen)
         /\ Span(new.queue, new.out, d, B)
    BY <2>9 DEF LoopInv
  <2>11. /\ Len(new.out) \in Nat /\ Grows(o, new.out)
         /\ \A x : Has(o, x) => Has(new.out, x)
    <3>1. Len(new.out) \in Nat BY <2>10 DEF Lined
    <3>2. Grows(o, new.out) BY <1>6, <2>9
    <3>3. \A x : Has(o, x) => Has(new.out, x) BY <1>3, <3>1, <3>2, GrowsHas
    <3>. QED BY <3>1, <3>2, <3>3
  <2>12. Closed(new.out, m + 1, filter, B, D)
    <3> SUFFICES ASSUME NEW a \in 1 .. m + 1, NEW j \in Nat, j < D, new.out[a] \in B[j],
                        NEW y \in Succ(new.out[a], filter)
                 PROVE  Has(new.out, y)
      BY DEF Closed
    <3>1. a \in 1 .. Len(o) BY <1>2, <1>3
    <3>2. new.out[a] = o[a] BY <2>11, <3>1 DEF Grows
    <3>3. CASE a = m + 1
      <4>1. PICK e \in Leaving(r) : y = e.target /\ Passes(e, filter)
        BY <1>2, <2>4, <3>2, <3>3
      <4>2. PICK k \in 1 .. Len(row) : Same(row[k], e, "target") BY <2>2 DEF Mirrors
      <4>3. Passes(row[k], filter) /\ row[k].end = IndexOf[e.target]
        BY <4>1, <4>2 DEF Same, Passes
      <4>4. Name(row[k].end) = y BY <2>5, <4>1, <4>3, Names
      <4>. QED BY <2>9, <4>3, <4>4
    <3>4. CASE a # m + 1
      <4>1. a \in 1 .. m BY <1>3, <3>4
      <4>2. Has(o, y) BY <1>1, <3>2, <4>1 DEF Closed
      <4>. QED BY <2>11, <4>2
    <3>. QED BY <3>3, <3>4
  <2>13. \A k \in 1 .. Len(new.queue) : new.queue[k][2] <= D
    <3> SUFFICES ASSUME NEW k \in 1 .. Len(new.queue) PROVE new.queue[k][2] <= D OBVIOUS
    <3>1. new.queue[k] \in Ix \X Nat BY <2>10 DEF Lined
    <3>2. new.queue[k][2] \in Nat /\ new.queue[k][2] <= d + 1 BY <2>10, <3>1 DEF Span
    <3>. QED BY <1>2, <1>11, <3>2
  <2>14. \A x \in B[0] : Has(new.out, x) BY <1>1, <2>11
  <2>. QED BY <1>2, <2>10, <2>12, <2>13, <2>14, WalksOn DEF new
<1>12. CASE d >= D
  <2>1. (IF d >= D THEN acc ELSE VisitAll(acc, row, d, filter)) = acc BY <1>12
  <2>. QED BY <1>6, <1>10, <1>12, <2>1 DEF acc, i, d, t, row
<1>13. CASE ~ (d >= D)
  <2>1. d < D BY <1>2, <1>13
  <2>2. (IF d >= D THEN acc ELSE VisitAll(acc, row, d, filter)) = VisitAll(acc, row, d, filter)
    BY <1>13
  <2>. QED BY <1>11, <2>1, <2>2 DEF acc, i, d, t, row
<1>. QED BY <1>12, <1>13

-----------------------------------------------------------------------------
(* The first and the last step of a traversal *)

(* An unknown start. *)
LEMMA BeginsEmpty ==
    ASSUME NEW B, NEW start, start \notin Entities, NEW filter, Balls(B, start, filter),
           NEW D \in Nat, NEW gen \in Nat \ {0}, NEW visited \in [Ix -> 0 .. gen - 1]
    PROVE  Walk(visited, <<>>, <<>>, filter, B, D, gen)
<1>1. B[0] = {} BY DEF Balls
<1>2. \A x : ~ Has(<<>>, x) BY DEF Has
<1>3. Marked(visited, <<>>, gen)
  <2>1. \A i \in Ix : visited[i] \in 0 .. gen - 1 OBVIOUS
  <2>2. visited \in [Ix -> 0 .. gen]
    <3>1. 0 .. gen - 1 \subseteq 0 .. gen OBVIOUS
    <3>. QED BY <3>1
  <2>. QED BY <1>2, <2>1, <2>2 DEF Marked
<1>4. Lined(<<>>, <<>>, 0) BY DEF Lined
<1>5. Distant(<<>>, B) BY DEF Distant
<1>6. Nearer(<<>>, B, D) BY DEF Nearer
<1>7. Closed(<<>>, 0, filter, B, D) BY DEF Closed
<1>8. Len(<<>>) - Len(<<>>) = 0 /\ 1 .. Len(<<>>) = {} OBVIOUS
<1>. QED BY <1>1, <1>3, <1>4, <1>5, <1>6, <1>7, <1>8 DEF Walk

LEMMA BeginsAt ==
    ASSUME NEW B, NEW start \in Entities, NEW filter, Balls(B, start, filter),
           NEW D \in Nat, NEW gen \in Nat \ {0}, NEW visited \in [Ix -> 0 .. gen - 1]
    PROVE  Walk([visited EXCEPT ![IndexOf[start]] = gen], <<<<IndexOf[start], 0>>>>, <<start>>,
                filter, B, D, gen)
<1> DEFINE i == IndexOf[start]
           w == [visited EXCEPT ![i] = gen]
           q == <<<<i, 0>>>>
           o == <<start>>
<1>1. i \in Ix /\ Name(i) = start BY Names
<1>2. /\ B[0] = {start} /\ start \in B[0] /\ start \in B[D]
      /\ \A j \in Nat : start \in B[j]
  <2>1. B[0] = {start} BY DEF Balls
  <2>2. \A j \in Nat : B[0] \subseteq B[j] BY DEF Balls
  <2>. QED BY <2>1, <2>2
<1>3. \A x : Has(o, x) <=> x = start
  <2>1. Len(o) = 1 /\ o[1] = start /\ 1 .. 1 = {1} OBVIOUS
  <2>. QED BY <2>1 DEF Has
<1>4. Marked(w, o, gen)
  <2>1. \A k \in Ix : visited[k] \in 0 .. gen - 1 OBVIOUS
  <2>2. w \in [Ix -> 0 .. gen]
    <3>1. 0 .. gen - 1 \subseteq 0 .. gen /\ gen \in 0 .. gen OBVIOUS
    <3>2. visited \in [Ix -> 0 .. gen] BY <3>1
    <3>. QED BY <3>1, <3>2
  <2>3. ASSUME NEW k \in Ix PROVE w[k] = gen <=> Has(o, Name(k))
    <3>1. CASE k = i
      <4>1. w[k] = gen BY <1>1, <3>1
      <4>. QED BY <1>1, <1>3, <3>1, <4>1
    <3>2. CASE k # i
      <4>1. w[k] = visited[k] BY <3>2
      <4>2. w[k] # gen BY <2>1, <4>1
      <4>3. Name(k) # start BY <1>1, <3>2, Names
      <4>. QED BY <1>3, <4>2, <4>3
    <3>. QED BY <3>1, <3>2
  <2> HIDE DEF w
  <2>. QED BY <2>2, <2>3 DEF Marked
<1>5. /\ Len(o) = 1 /\ Len(q) = 1 /\ o[1] = start /\ q[1] = <<i, 0>>
      /\ o \in Seq(Entities) /\ q \in Seq(Ix \X Nat) /\ 1 .. 1 = {1}
  <2>1. <<i, 0>> \in Ix \X Nat BY <1>1
  <2> HIDE DEF i
  <2>. QED BY <2>1
<1> HIDE DEF w, q, o, i
<1>6. Lined(q, o, 0) BY <1>1, <1>5 DEF Lined
<1>7. Distant(q, B) BY <1>1, <1>2, <1>5 DEF Distant
<1>8. Nearer(o, B, D) BY <1>2, <1>5 DEF Nearer
<1>9. Closed(o, 0, filter, B, D) BY DEF Closed
<1>10. Span(q, o, 0, B) BY <1>2, <1>5 DEF Span
<1>11. \A k \in 1 .. Len(q) : q[k][2] <= D BY <1>5
<1>12. \A x \in B[0] : Has(o, x) BY <1>2, <1>3
<1>13. 0 \in Nat OBVIOUS
<1>14. Walk(w, q, o, filter, B, D, gen)
  BY <1>4, <1>6, <1>7, <1>8, <1>9, <1>10, <1>11, <1>12, <1>13, WalksOn
<1>. QED BY <1>14 DEF w, q, o, i

(* When nothing waits, all within D is found; what is cut off is not nearer. *)
LEMMA Finishes ==
    ASSUME Loaded, NEW B, NEW start, NEW filter, Balls(B, start, filter), NEW D \in Nat,
           NEW visited, NEW o, NEW gen, Walk(visited, <<>>, o, filter, B, D, gen),
           NEW limit \in Nat
    PROVE  LET p == Shorter(o, limit) IN
           /\ p \in Seq(Entities)
           /\ Cardinality(ToSet(p)) = Len(p)
           /\ Len(p) = IF Cardinality(B[D]) < limit THEN Cardinality(B[D]) ELSE limit
           /\ ToSet(p) \subseteq B[D]
           /\ \A k \in 0 .. D : ToSet(p) \subseteq B[k] \/ B[k] \subseteq ToSet(p)
<1> DEFINE p == Shorter(o, limit)
           n == Len(p)
<1>1. /\ Lined(<<>>, o, Len(o) - Len(<<>>)) /\ Nearer(o, B, D)
      /\ Closed(o, Len(o) - Len(<<>>), filter, B, D)
      /\ \A x \in B[0] : Has(o, x)
  BY DEF Walk
<1>2. /\ o \in Seq(Entities) /\ Len(o) \in Nat
      /\ \A a, b \in 1 .. Len(o) : o[a] = o[b] => a = b
  BY <1>1 DEF Lined
<1>3. \A x \in B[D] : Has(o, x)
  <2>1. 1 .. Len(<<>>) = {} /\ D <= D OBVIOUS
  <2>. QED BY <1>1, <2>1, BallFound
<1>4. /\ p \in Seq(Entities) /\ n \in Nat /\ n <= Len(o)
      /\ n = (IF Len(o) <= limit THEN Len(o) ELSE limit)
      /\ \A a \in 1 .. n : p[a] = o[a]
  <2>1. CASE Len(o) <= limit
    <3>1. p = o BY <2>1 DEF Shorter
    <3> HIDE DEF p
    <3>. QED BY <1>2, <2>1, <3>1
  <2>2. CASE ~ (Len(o) <= limit)
    <3>1. p = SubSeq(o, 1, limit) BY <2>2 DEF Shorter
    <3> HIDE DEF p
    <3>2. 1 \in Int /\ limit \in Int /\ \A a \in 1 .. limit : o[a] \in Entities
      BY <1>2, <2>2
    <3>3. /\ p \in Seq(Entities) /\ Len(p) = IF 1 <= limit THEN limit - 1 + 1 ELSE 0
          /\ \A a \in 1 .. limit - 1 + 1 : p[a] = o[1 + a - 1]
      BY <3>1, <3>2, SubSeqProperties
    <3>4. Len(p) = limit BY <3>3
    <3>5. \A a \in 1 .. limit : p[a] = o[a]
      <4>1. \A a \in 1 .. limit : a \in 1 .. limit - 1 + 1 /\ 1 + a - 1 = a OBVIOUS
      <4>. QED BY <3>3, <4>1
    <3>. QED BY <1>2, <2>2, <3>3, <3>4, <3>5
  <2>. QED BY <2>1, <2>2
<1> HIDE DEF p, n
<1>5. ToSet(p) = {o[a] : a \in 1 .. n}
  <2>1. DOMAIN p = 1 .. n BY <1>4 DEF n
  <2>. QED BY <1>4, <2>1 DEF ToSet
<1>6. ASSUME NEW k \in Nat, k <= Len(o)
      PROVE  Cardinality({o[a] : a \in 1 .. k}) = k
  <2> DEFINE S == {o[a] : a \in 1 .. k}
             f == [a \in 1 .. k |-> o[a]]
  <2>1. f \in Bijection(1 .. k, S)
    BY <1>2, <1>6 DEF Bijection, Injection, Surjection, IsInjective
  <2>2. ExistsBijection(1 .. k, S) BY <2>1 DEF ExistsBijection
  <2> HIDE DEF S
  <2>3. Cardinality(S) = k BY <2>2, FS_CountingElements
  <2>. QED BY <2>3 DEF S
<1>7. Cardinality(ToSet(p)) = n BY <1>4, <1>5, <1>6
<1>8. Cardinality(B[D]) = Len(o)
  <2>1. B[D] = {o[a] : a \in 1 .. Len(o)} BY <1>1, <1>3 DEF Nearer, Has
  <2>. QED BY <1>2, <1>6, <2>1
<1>9. n = IF Cardinality(B[D]) < limit THEN Cardinality(B[D]) ELSE limit
  BY <1>2, <1>4, <1>8
<1>10. ToSet(p) \subseteq B[D] BY <1>1, <1>2, <1>4, <1>5 DEF Nearer
<1>11. ASSUME NEW k \in 0 .. D PROVE ToSet(p) \subseteq B[k] \/ B[k] \subseteq ToSet(p)
  <2> SUFFICES ASSUME NEW x \in B[k], x \notin ToSet(p) PROVE ToSet(p) \subseteq B[k]
    OBVIOUS
  <2>1. B[k] \subseteq B[D] BY DEF Balls
  <2>2. PICK b \in 1 .. Len(o) : o[b] = x BY <1>3, <2>1 DEF Has
  <2>3. b > n BY <1>4, <1>5, <2>2
  <2>4. \A a \in 1 .. n : a \in 1 .. Len(o) /\ a < b BY <1>2, <1>4, <2>3
  <2>. QED BY <1>1, <1>5, <2>2, <2>4 DEF Nearer
<1>. QED BY <1>4, <1>7, <1>9, <1>10, <1>11 DEF n, p

-----------------------------------------------------------------------------
(* Types *)

\* The state of the loop over edges, at depths below top.
AccType(acc, T) ==
    /\ acc.visited \in [Ix -> 0 .. GenMod - 1]
    /\ acc.queue \in Seq(Ix \X T) /\ acc.out \in Seq(Entities)

LEMMA VisitAllTypes ==
    ASSUME Loaded, bfs_gen \in 0 .. GenMod - 1, NEW acc, NEW T, AccType(acc, T),
           NEW d, d + 1 \in T, NEW filter, NEW row \in Seq(EdgeRecords)
    PROVE  AccType(VisitAll(acc, row, d, filter), T)
<1> DEFINE n == Len(row)
           Def(v, k) == Visit(v, row[k], d, filter)
           at == CHOOSE g : g = [k \in 0 .. n |-> IF k = 0 THEN acc ELSE Def(g[k - 1], k)]
           P == {k \in 0 .. n : AccType(at[k], T)}
<1>1. n \in Nat OBVIOUS
<1>2. VisitAll(acc, row, d, filter) = at[n] BY DEF VisitAll
<1>3. FiniteNatInductiveDefHypothesis(at, acc, Def, 0, n)
  BY DEF FiniteNatInductiveDefHypothesis
<1> HIDE DEF at
<1>4. FiniteNatInductiveDefConclusion(at, acc, Def, 0, n)
  BY <1>1, <1>3, FiniteNatInductiveDef
<1>5. at = [k \in 0 .. n |-> IF k = 0 THEN acc ELSE Def(at[k - 1], k)]
  BY <1>4 DEF FiniteNatInductiveDefConclusion
<1>6. 0 \in P BY <1>1, <1>5
<1>7. ASSUME NEW v, AccType(v, T), NEW e \in EdgeRecords
      PROVE  AccType(Visit(v, e, d, filter), T)
  <2> DEFINE new == Visit(v, e, d, filter)
  <2>1. CASE ~ Passes(e, filter) \/ v.visited[e.end] = bfs_gen
    <3>1. new = v BY <2>1 DEF Visit
    <3>. QED BY <1>7, <3>1
  <2>2. CASE ~ (~ Passes(e, filter) \/ v.visited[e.end] = bfs_gen)
    <3>1. e.end \in Ix BY DEF EdgeRecords, Ix
    <3>2. Rowid(graph, e.end) = Name(e.end) BY DEF Rowid, Name, Loaded, Load, Rowids
    <3>3. /\ new.visited = [v.visited EXCEPT ![e.end] = bfs_gen]
          /\ new.queue = Append(v.queue, <<e.end, d + 1>>)
          /\ new.out = Append(v.out, Name(e.end))
      BY <2>2, <3>2 DEF Visit
    <3> HIDE DEF new
    <3>4. Name(e.end) \in Entities BY <3>1, Names
    <3>5. <<e.end, d + 1>> \in Ix \X T BY <3>1
    <3>6. new.visited \in [Ix -> 0 .. GenMod - 1] BY <1>7, <3>3 DEF AccType
    <3>7. new.queue \in Seq(Ix \X T) BY <1>7, <3>3, <3>5, AppendProperties DEF AccType
    <3>8. new.out \in Seq(Entities) BY <1>7, <3>3, <3>4, AppendProperties DEF AccType
    <3>. QED BY <3>6, <3>7, <3>8 DEF AccType, new
  <2>. QED BY <2>1, <2>2
<1>8. \A k \in 0 .. n - 1 : k \in P => k + 1 \in P
  <2> SUFFICES ASSUME NEW k \in 0 .. n - 1, AccType(at[k], T) PROVE AccType(at[k + 1], T)
    BY <1>1
  <2>1. k + 1 \in 0 .. n /\ k + 1 # 0 /\ (k + 1) - 1 = k BY <1>1
  <2>2. at[k + 1] = Visit(at[k], row[k + 1], d, filter) BY <1>5, <2>1
  <2>3. row[k + 1] \in EdgeRecords BY <1>1
  <2>. QED BY <1>7, <2>2, <2>3
<1> HIDE DEF P
<1>9. \A k \in 0 .. n : k \in P BY <1>1, <1>6, <1>8, ClimbTo
<1>10. n \in 0 .. n BY <1>1
<1>11. n \in P BY <1>9, <1>10
<1>. QED BY <1>2, <1>11 DEF P

(* The index of a start, and the row of any index. *)
LEMMA LoadedShape ==
    ASSUME Loaded
    PROVE  /\ Indices = Ix /\ graph.rowids = Rowids
           /\ \A r \in Entities : EntityIndex(graph.rowids)[r] = IndexOf[r] /\ IndexOf[r] \in Ix
           /\ \A i \in Ix : Row(graph.out, i) \in Seq(EdgeRecords)
<1>1. graph.rowids = Rowids BY DEF Loaded, Load, Rowids
<1>2. Indices = Ix BY <1>1 DEF Indices, EntityCount, Ix, Count
<1>3. \A r \in Entities : EntityIndex(graph.rowids)[r] = IndexOf[r] /\ IndexOf[r] \in Ix
  BY <1>1, Names DEF IndexOf
<1>4. ASSUME NEW i \in Ix PROVE Row(graph.out, i) \in Seq(EdgeRecords)
  <2>1. Name(i) \in Entities BY Names
  <2>2. IndexOf[Name(i)] = i BY <2>1, Names
  <2>3. Mirrors(Row(graph.out, i), Leaving(Name(i)), "target")
    <3>1. EntityIndex(graph.rowids)[Name(i)] = i BY <1>3, <2>1, <2>2
    <3>2. Mirrors(Row(graph.out, EntityIndex(graph.rowids)[Name(i)]), Leaving(Name(i)), "target")
      BY <2>1, RowsMirror
    <3>. QED BY <3>1, <3>2
  <2>. QED BY <2>3 DEF Mirrors
<1>. QED BY <1>1, <1>2, <1>3, <1>4

QueueDepths == IF query.phase = "run" THEN 0 .. query.depth ELSE {}

(* Every variable keeps its type: in particular marks and offsets are only  *)
(* read inside their arrays.                                                *)
THEOREM TraversalTypes == Spec => []TypeOK
<1>1. ASSUME Init PROVE TypeOK
  <2>1. Loaded BY <1>1 DEF Init, Loaded
  <2>2. Indices = Ix BY <2>1, LoadedShape
  <2>3. bfs_visited \in [Indices -> 0 .. GenMod - 1] /\ bfs_gen \in 0 .. GenMod - 1
    BY <1>1, GenWidth DEF Init, Indices
  <2>4. query = Idle /\ queue = <<>> /\ out = <<>> /\ queries = 0 /\ queries \in 0 .. MaxQueries
    BY <1>1, GenWidth DEF Init
  <2>. QED BY <2>3, <2>4 DEF TypeOK
<1>2. ASSUME TypeOK, Loaded, [Next]_vars PROVE TypeOK'
  <2> DEFINE Queries == [phase : {"run", "done"}, start : Starts, depth : Depths,
                         filter : Filters, limit : Limits]
  <2>1. /\ bfs_visited \in [Ix -> 0 .. GenMod - 1] /\ bfs_gen \in 0 .. GenMod - 1
        /\ queue \in Seq(Ix \X QueueDepths) /\ out \in Seq(Entities)
        /\ queries \in 0 .. MaxQueries /\ query \in {Idle} \cup Queries
    BY <1>2, LoadedShape DEF TypeOK, QueueDepths
  <2>2. query.phase \in {"run", "done"} => query \in Queries BY <2>1 DEF Idle
  <2>3. ASSUME graph' = graph
        PROVE  Indices' = Ix
    BY <1>2, <2>3, LoadedShape DEF Indices, EntityCount
  <2>4. CASE vars' = vars
    <3>1. graph' = graph BY <2>4 DEF vars
    <3>. QED BY <2>1, <2>3, <2>4, <3>1 DEF TypeOK, vars, QueueDepths
  <2>5. ASSUME NEW s \in Starts, NEW d \in Depths, NEW f \in Filters, NEW l \in Limits,
               Begin(s, d, f, l)
        PROVE  TypeOK'
    <3>1. /\ graph' = graph /\ queries' = queries + 1 /\ queries < MaxQueries
          /\ bfs_gen' = NextGen
          /\ query' = [phase |-> "run", start |-> s, depth |-> d, filter |-> f, limit |-> l]
      BY <2>5 DEF Begin
    <3>2. NextGen \in 0 .. GenMod - 1 BY <2>1, GenWidth DEF NextGen
    <3>3. queries' \in 0 .. MaxQueries BY <2>1, <3>1, GenWidth
    <3>4. query' \in Queries /\ query'.phase = "run" /\ query'.depth = d /\ d \in Nat
      BY <3>1, Arguments
    <3>5. /\ bfs_visited' \in [Ix -> 0 .. GenMod - 1]
          /\ queue' \in Seq(Ix \X (0 .. d)) /\ out' \in Seq(Entities)
      <4>1. CASE s \in Entities
        <5> DEFINE i == EntityIndex(graph.rowids)[s]
        <5>1. i \in Ix BY <1>2, <4>1, LoadedShape
        <5>2. /\ bfs_visited' = [bfs_visited EXCEPT ![i] = NextGen]
              /\ queue' = <<<<i, 0>>>> /\ out' = <<s>>
          BY <2>5, <4>1 DEF Begin
        <5> HIDE DEF i
        <5>3. <<i, 0>> \in Ix \X (0 .. d) BY <3>4, <5>1
        <5>. QED BY <2>1, <3>2, <4>1, <5>2, <5>3
      <4>2. CASE s \notin Entities
        <5>1. bfs_visited' = bfs_visited /\ queue' = <<>> /\ out' = <<>>
          BY <2>5, <4>2 DEF Begin
        <5>. QED BY <2>1, <5>1
      <4>. QED BY <4>1, <4>2
    <3>. QED BY <2>3, <3>1, <3>2, <3>3, <3>4, <3>5 DEF TypeOK
  <2>6. CASE Expand
    <3> DEFINE i == Head(queue)[1]
               d == Head(queue)[2]
               acc == [visited |-> bfs_visited, queue |-> Tail(queue), out |-> out]
               T == 0 .. query.depth
               new == IF TooDeep(d) THEN acc
                      ELSE VisitAll(acc, Row(graph.out, i), d, query.filter)
    <3>1. /\ query.phase = "run" /\ queue # <<>> /\ query' = query /\ queries' = queries
          /\ graph' = graph /\ bfs_gen' = bfs_gen
          /\ bfs_visited' = new.visited /\ queue' = new.queue /\ out' = new.out
      BY <2>6 DEF Expand
    <3>2. query \in Queries /\ query.depth \in Nat BY <2>2, <3>1, Arguments
    <3>3. queue \in Seq(Ix \X T) BY <2>1, <3>1 DEF QueueDepths
    <3>4. Head(queue) \in Ix \X T /\ Tail(queue) \in Seq(Ix \X T)
      BY <3>1, <3>3, HeadTailProperties
    <3>5. i \in Ix /\ d \in T BY <3>4
    <3>6. AccType(acc, T) BY <2>1, <3>4 DEF AccType
    <3> HIDE DEF i, d, acc
    <3>7. AccType(new, T)
      <4>1. CASE TooDeep(d) BY <3>6, <4>1
      <4>2. CASE ~ TooDeep(d)
        <5>1. d + 1 \in T BY <3>2, <3>5, <4>2 DEF TooDeep
        <5>2. Row(graph.out, i) \in Seq(EdgeRecords) BY <1>2, <3>5, LoadedShape
        <5>3. AccType(VisitAll(acc, Row(graph.out, i), d, query.filter), T)
          BY <1>2, <2>1, <3>6, <5>1, <5>2, VisitAllTypes
        <5>. QED BY <4>2, <5>3
      <4>. QED BY <4>1, <4>2
    <3> HIDE DEF new
    <3>8. /\ bfs_visited' \in [Ix -> 0 .. GenMod - 1]
          /\ queue' \in Seq(Ix \X T) /\ out' \in Seq(Entities)
      BY <3>1, <3>7 DEF AccType
    <3>. QED BY <2>1, <2>3, <3>1, <3>8 DEF TypeOK
  <2>7. CASE Return
    <3>1. /\ query.phase = "run" /\ queue = <<>> /\ query' = [query EXCEPT !.phase = "done"]
          /\ out' = Shorter(out, query.limit)
          /\ graph' = graph /\ bfs_visited' = bfs_visited /\ bfs_gen' = bfs_gen
          /\ queue' = queue /\ queries' = queries
      BY <2>7 DEF Return
    <3>2. query \in Queries /\ query.limit \in Nat BY <2>2, <3>1, Arguments
    <3>3. query' \in Queries /\ query'.phase = "done" BY <3>1, <3>2
    <3>4. out' \in Seq(Entities)
      <4>1. CASE Len(out) <= query.limit BY <2>1, <3>1, <4>1 DEF Shorter
      <4>2. CASE ~ (Len(out) <= query.limit)
        <5>1. out' = SubSeq(out, 1, query.limit) BY <3>1, <4>2 DEF Shorter
        <5>2. \A a \in 1 .. query.limit : out[a] \in Entities BY <2>1, <3>2, <4>2
        <5>. QED BY <3>2, <5>1, <5>2, SubSeqProperties
      <4>. QED BY <4>1, <4>2
    <3>5. queue' \in Seq(Ix \X {}) BY <3>1
    <3>. QED BY <2>1, <2>3, <3>1, <3>3, <3>4, <3>5 DEF TypeOK
  <2>. QED BY <1>2, <2>4, <2>5, <2>6, <2>7 DEF Next
<1>. QED BY <1>1, <1>2, StaysLoaded, PTL DEF Spec

-----------------------------------------------------------------------------
(* Traversals *)

Reach == Within(query.start, query.filter)

\* As long as the generations do not wrap, the marks of a traversal are newer
\* than all that earlier ones left.
WalkInv ==
    /\ TypeOK /\ Loaded
    /\ bfs_gen = queries /\ bfs_visited \in [Ix -> 0 .. bfs_gen]
    /\ query.phase = "run" =>
         Walk(bfs_visited, queue, out, query.filter, Reach, query.depth, bfs_gen)
    /\ NearestWithinDepth

LEMMA WalkInvHolds == ASSUME MaxQueries < GenMod PROVE Spec => []WalkInv
<1> DEFINE Queries == [phase : {"run", "done"}, start : Starts, depth : Depths,
                       filter : Filters, limit : Limits]
<1>0. MaxQueries < GenMod OBVIOUS
<1>1. ASSUME Init, TypeOK, Loaded PROVE WalkInv
  <2>1. query = Idle /\ bfs_gen = 0 /\ queries = 0 BY <1>1 DEF Init
  <2>2. query.phase # "run" /\ query.phase # "done" BY <2>1 DEF Idle
  <2>3. bfs_visited = [i \in Ix |-> 0]
    <3>1. Indices = Ix BY <1>1, LoadedShape
    <3>. QED BY <1>1, <3>1 DEF Init, Indices
  <2>4. bfs_visited \in [Ix -> 0 .. 0] BY <2>3
  <2>. QED BY <1>1, <2>1, <2>2, <2>4 DEF WalkInv, NearestWithinDepth
<1>2. ASSUME WalkInv, TypeOK', Loaded', [Next]_vars PROVE WalkInv'
  <2>1. /\ TypeOK /\ Loaded /\ bfs_gen = queries /\ bfs_visited \in [Ix -> 0 .. bfs_gen]
        /\ query.phase = "run" =>
             Walk(bfs_visited, queue, out, query.filter, Reach, query.depth, bfs_gen)
        /\ NearestWithinDepth
    BY <1>2 DEF WalkInv
  <2>2. queries \in 0 .. MaxQueries /\ query \in {Idle} \cup Queries BY <2>1 DEF TypeOK
  <2>3. query.phase \in {"run", "done"} => query \in Queries BY <2>2 DEF Idle
  <2>4. ASSUME rows' = rows, query'.start = query.start, query'.filter = query.filter
        PROVE  Reach' = Reach
    BY <2>4 DEF Reach, Within, Known
  <2>4a. ASSUME rows' = rows,
               Walk(bfs_visited', queue', out', query'.filter, Reach', query'.depth, bfs_gen')
        PROVE  Walk(bfs_visited, queue, out, query.filter, Reach, query.depth, bfs_gen)'
    BY <2>4a DEF Walk, Closed, Succ, Known
  <2>5. CASE vars' = vars
    <3>1. /\ rows' = rows /\ query' = query /\ out' = out /\ queue' = queue
          /\ bfs_visited' = bfs_visited /\ bfs_gen' = bfs_gen /\ queries' = queries
      BY <2>5 DEF vars
    <3>2. Reach' = Reach BY <2>4, <3>1
    <3>3. NearestWithinDepth' BY <2>1, <3>1, <3>2 DEF NearestWithinDepth, Reach
    <3>4. query'.phase = "run" =>
            Walk(bfs_visited', queue', out', query'.filter, Reach', query'.depth, bfs_gen')
      BY <2>1, <3>1, <3>2
    <3>. QED BY <1>2, <2>1, <2>4a, <3>1, <3>3, <3>4 DEF WalkInv
  <2>6. ASSUME NEW s \in Starts, NEW d \in Depths, NEW f \in Filters, NEW l \in Limits,
               Begin(s, d, f, l)
        PROVE  WalkInv'
    <3>1. /\ rows' = rows /\ queries' = queries + 1 /\ queries < MaxQueries
          /\ bfs_gen' = NextGen
          /\ query' = [phase |-> "run", start |-> s, depth |-> d, filter |-> f, limit |-> l]
      BY <2>6 DEF Begin
    <3>2. /\ query'.phase = "run" /\ query'.start = s /\ query'.depth = d
          /\ query'.filter = f /\ d \in Nat
      BY <3>1, Arguments
    <3>3. /\ NextGen = bfs_gen + 1 /\ bfs_gen' = queries' /\ bfs_gen \in Nat
          /\ NextGen \in Nat \ {0} /\ NextGen - 1 = bfs_gen
      <4>1. bfs_gen + 1 < GenMod /\ bfs_gen \in Nat /\ GenMod \in Nat
        BY <1>0, <2>1, <2>2, <3>1, GenWidth
      <4>2. (bfs_gen + 1) % GenMod = bfs_gen + 1 BY <4>1
      <4>. QED BY <2>1, <3>1, <4>1, <4>2 DEF NextGen
    <3>4. Balls(Reach', s, f)
      <4>1. Reach' = Within(s, f)'  BY <3>2 DEF Reach
      <4>2. Within(s, f)' = Within(s, f) BY <2>6 DEF Begin, Within, Known
      <4>. QED BY <2>1, <4>1, <4>2, WithinBalls
    <3>5. bfs_visited \in [Ix -> 0 .. NextGen - 1] BY <2>1, <3>3
    <3>6. Walk(bfs_visited', queue', out', f, Reach', d, NextGen)
      <4>1. CASE s \in Entities
        <5>1. EntityIndex(graph.rowids)[s] = IndexOf[s] BY <2>1, <4>1, LoadedShape
        <5>2. /\ bfs_visited' = [bfs_visited EXCEPT ![IndexOf[s]] = NextGen]
              /\ queue' = <<<<IndexOf[s], 0>>>> /\ out' = <<s>>
          BY <2>6, <4>1, <5>1 DEF Begin
        <5>3. Walk([bfs_visited EXCEPT ![IndexOf[s]] = NextGen], <<<<IndexOf[s], 0>>>>, <<s>>,
                   f, Reach', d, NextGen)
          BY <3>2, <3>3, <3>4, <3>5, <4>1, BeginsAt
        <5>. QED BY <5>2, <5>3
      <4>2. CASE s \notin Entities
        <5>1. bfs_visited' = bfs_visited /\ queue' = <<>> /\ out' = <<>>
          BY <2>6, <4>2 DEF Begin
        <5>2. Walk(bfs_visited, <<>>, <<>>, f, Reach', d, NextGen)
          BY <3>2, <3>3, <3>4, <3>5, <4>2, BeginsEmpty
        <5>. QED BY <5>1, <5>2
      <4>. QED BY <4>1, <4>2
    <3>7. bfs_visited' \in [Ix -> 0 .. NextGen] BY <3>6 DEF Walk, Marked
    <3>8. NearestWithinDepth' BY <3>2 DEF NearestWithinDepth
    <3>9. Walk(bfs_visited', queue', out', query'.filter, Reach', query'.depth, bfs_gen')
      BY <3>1, <3>2, <3>6
    <3>. QED BY <1>2, <2>4a, <3>1, <3>3, <3>7, <3>8, <3>9 DEF WalkInv
  <2>7. CASE Expand
    <3> DEFINE i == Head(queue)[1]
               d == Head(queue)[2]
               acc == [visited |-> bfs_visited, queue |-> Tail(queue), out |-> out]
               new == IF d >= query.depth THEN acc
                      ELSE VisitAll(acc, Row(graph.out, i), d, query.filter)
    <3>1. /\ query.phase = "run" /\ queue # <<>> /\ query' = query /\ queries' = queries
          /\ rows' = rows /\ bfs_gen' = bfs_gen
          /\ bfs_visited' = new.visited /\ queue' = new.queue /\ out' = new.out
      BY <2>7 DEF Expand, TooDeep
    <3>2. query.depth \in Nat /\ bfs_gen \in Nat
      <4>1. query \in Queries BY <2>3, <3>1
      <4>2. query.depth \in Nat BY <4>1, Arguments
      <4>3. bfs_gen \in Nat BY <2>1, <2>2, GenWidth
      <4>. QED BY <4>2, <4>3
    <3>3. Balls(Reach, query.start, query.filter) BY <2>1, WithinBalls DEF Reach
    <3>4. Walk(bfs_visited, queue, out, query.filter, Reach, query.depth, bfs_gen)
      BY <2>1, <3>1
    <3>5. Walk(new.visited, new.queue, new.out, query.filter, Reach, query.depth, bfs_gen)
      BY <2>1, <3>1, <3>2, <3>3, <3>4, ExpandWalks
    <3> HIDE DEF new
    <3>6. Reach' = Reach BY <2>4, <3>1
    <3>7. Walk(bfs_visited', queue', out', query'.filter, Reach', query'.depth, bfs_gen')
      BY <3>1, <3>5, <3>6
    <3>8. bfs_visited' \in [Ix -> 0 .. bfs_gen'] BY <3>7 DEF Walk, Marked
    <3>9. NearestWithinDepth' BY <3>1 DEF NearestWithinDepth
    <3>. QED BY <1>2, <2>1, <2>4a, <3>1, <3>7, <3>8, <3>9 DEF WalkInv
  <2>8. CASE Return
    <3>1. /\ query.phase = "run" /\ queue = <<>> /\ query' = [query EXCEPT !.phase = "done"]
          /\ out' = Shorter(out, query.limit)
          /\ rows' = rows /\ bfs_visited' = bfs_visited /\ bfs_gen' = bfs_gen
          /\ queries' = queries
      BY <2>8 DEF Return
    <3>2. query \in Queries /\ query.depth \in Nat /\ query.limit \in Nat
      BY <2>3, <3>1, Arguments
    <3>3. /\ query'.phase = "done" /\ query'.start = query.start
          /\ query'.filter = query.filter /\ query'.depth = query.depth
          /\ query'.limit = query.limit
      BY <3>1, <3>2
    <3>4. Balls(Reach, query.start, query.filter) BY <2>1, WithinBalls DEF Reach
    <3>5. Walk(bfs_visited, <<>>, out, query.filter, Reach, query.depth, bfs_gen)
      BY <2>1, <3>1
    <3>6. /\ Cardinality(ToSet(out')) = Len(out')
          /\ Len(out') = IF Cardinality(Reach[query.depth]) < query.limit
                         THEN Cardinality(Reach[query.depth]) ELSE query.limit
          /\ ToSet(out') \subseteq Reach[query.depth]
          /\ \A k \in 0 .. query.depth :
               ToSet(out') \subseteq Reach[k] \/ Reach[k] \subseteq ToSet(out')
      BY <2>1, <3>1, <3>2, <3>4, <3>5, Finishes
    <3>7. Reach' = Reach BY <2>4, <3>1, <3>3
    <3>8. NearestWithinDepth'
      BY <3>3, <3>6, <3>7 DEF NearestWithinDepth, Reach
    <3>. QED BY <1>2, <2>1, <3>1, <3>3, <3>8 DEF WalkInv
  <2>. QED BY <1>2, <2>5, <2>6, <2>7, <2>8 DEF Next
<1>. QED BY <1>1, <1>2, TraversalTypes, StaysLoaded, PTL DEF Spec

(* A traversal returns entities within its depth, each once, as many as      *)
(* there are up to the limit, and leaves out none that is nearer than one it *)
(* returns (bfs_impl in graph_index.rs).  The thread has made fewer than     *)
(* 2^32 traversals: then the generations start over.                         *)
THEOREM TraversalsAreNearest ==
    ASSUME MaxQueries < GenMod PROVE Spec => []NearestWithinDepth
<1>1. WalkInv => NearestWithinDepth BY DEF WalkInv
<1>. QED BY <1>1, WalkInvHolds, PTL

(* While a traversal runs, the marks of its generation are the entities it   *)
(* reported: nothing an earlier one left counts as visited (query_ctx.rs).   *)
THEOREM MarksAreOfThis ==
    ASSUME MaxQueries < GenMod PROVE Spec => []MarksAreOut
<1>1. ASSUME WalkInv PROVE MarksAreOut
  <2> SUFFICES ASSUME query.phase = "run"
               PROVE  {Rowid(graph, i) : i \in {i \in Indices : bfs_visited[i] = bfs_gen}}
                      = ToSet(out)
    BY DEF MarksAreOut
  <2>1. /\ Marked(bfs_visited, out, bfs_gen)
        /\ Lined(queue, out, Len(out) - Len(queue))
    BY <1>1 DEF WalkInv, Walk
  <2>2. Indices = Ix /\ \A i \in Ix : Rowid(graph, i) = Name(i)
    BY <1>1, LoadedShape DEF WalkInv, Rowid, Name
  <2>3. out \in Seq(Entities) BY <2>1 DEF Lined
  <2>4. \A x : x \in ToSet(out) <=> Has(out, x) BY <2>3 DEF ToSet, Has
  <2>5. \A x : Has(out, x) => x \in Entities BY <2>3 DEF Has
  <2>6. \A x : Has(out, x) => \E i \in Ix : Name(i) = x BY <2>5, Names
  <2>. QED BY <2>1, <2>2, <2>4, <2>6 DEF Marked
<1>. QED BY <1>1, WalkInvHolds, PTL

=============================================================================
