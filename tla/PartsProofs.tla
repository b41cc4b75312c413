------------------------------ MODULE PartsProofs ------------------------------
(***************************************************************************)
(* Proofs about the parts that share nothing: the download of a blob, the  *)
(* tile batch codec, the spin lock and the packed pointer word, for any    *)
(* sizes of them.  Fairness is not needed.                                 *)
(*                                                                         *)
(* The theorem modules' induction needs an operator; here it is that a set *)
(* of counterexamples has a least element.  A loop of the library unfolds  *)
(* by the theorem on functions defined by recursion over an interval.      *)
(***************************************************************************)
EXTENDS MCParts, SequenceTheorems, FiniteSetTheorems, WellFoundedInduction, TLAPS

(* A number below n and a multiple of n are told apart by n. *)
LEMMA DivMod ==
    ASSUME NEW n \in Nat \ {0}, NEW low \in 0 .. n - 1, NEW high \in Nat
    PROVE  /\ low + n * high \in Nat
           /\ (low + n * high) % n = low
           /\ (low + n * high) \div n = high
<1> DEFINE w == low + n * high
<1>1. n * high \in Nat OBVIOUS
<1>2. w \in Nat BY <1>1
<1>3. w = n * (w \div n) + (w % n) /\ w % n \in 0 .. n - 1 /\ w \div n \in Int
  BY <1>2
<1>4. w \div n = high
  <2> SUFFICES ASSUME w \div n # high PROVE FALSE OBVIOUS
  <2> DEFINE d == w \div n
  <2>1. n * d - n * high = low - (w % n) BY <1>1, <1>3
  <2>2. n * d - n * high = n * (d - high) BY <1>3
  <2>3. CASE d > high
    <3>1. d - high >= 1 BY <1>3, <2>3
    <3>2. n * (d - high) >= n BY <1>3, <3>1
    <3>. QED BY <1>3, <2>1, <2>2, <3>2
  <2>4. CASE d < high
    <3>1. d - high <= -1 BY <1>3, <2>4
    <3>2. n * (d - high) <= -n BY <1>3, <3>1
    <3>. QED BY <1>3, <2>1, <2>2, <3>2
  <2>. QED BY <1>3, <2>3, <2>4
<1>. QED BY <1>1, <1>2, <1>3, <1>4

(* A set of natural numbers has a least element, *)
LEMMA LeastNat ==
    ASSUME NEW S \in SUBSET Nat, S # {}
    PROVE  \E m \in S : \A k \in S : m <= k
<1> DEFINE R == OpToRel(<, Nat)
<1>1. IsWellFoundedOn(R, Nat) BY NatLessThanWellFounded
<1>2. \A x, y \in Nat : x < y => <<x, y>> \in R BY DEF OpToRel
<1> HIDE DEF R
<1>3. PICK x \in S : \A y \in S : ~ (<<y, x>> \in R) BY <1>1, WFMin
<1>4. ASSUME NEW y \in S, y < x PROVE FALSE
  <2>1. x \in Nat /\ y \in Nat OBVIOUS
  <2>2. <<y, x>> \in R BY <2>1, <1>2, <1>4
  <2>. QED BY <2>2, <1>3
<1>5. \A y \in S : y \in Nat OBVIOUS
<1>. QED BY <1>4, <1>5

(* and a greatest one if it is bounded. *)
LEMMA GreatestNat ==
    ASSUME NEW n \in Nat, NEW S \in SUBSET (0 .. n), S # {}
    PROVE  \E m \in S : \A k \in S : m >= k
<1> DEFINE U == {k \in 0 .. n : n - k \in S}
<1>1. PICK s \in S : TRUE OBVIOUS
<1>2. n - s \in U BY <1>1
<1>3. U # {} /\ U \in SUBSET Nat BY <1>2
<1> HIDE DEF U
<1>4. PICK u \in U : \A k \in U : u <= k BY <1>3, LeastNat
<1>5. n - u \in S /\ u \in 0 .. n BY <1>4 DEF U
<1>6. ASSUME NEW k \in S PROVE n - u >= k
  <2>1. n - k \in U BY DEF U
  <2>. QED BY <2>1, <1>4, <1>5
<1>. QED BY <1>5, <1>6

-----------------------------------------------------------------------------
(* get_blob *)

Blobs == 0 .. MaxBlob

(* A multiple of the chunk size, and the next one. *)
LEMMA NextMultiple ==
    ASSUME NEW x \in Nat, x % Chunk = 0
    PROVE  /\ (x + Chunk) % Chunk = 0
           /\ \A y \in Nat : y % Chunk = 0 /\ x < y => x + Chunk <= y
<1>1. Chunk \in Nat \ {0} BY BlobSizes
<1>2. x \div Chunk \in Nat /\ x = Chunk * (x \div Chunk) BY <1>1
<1> DEFINE m == x \div Chunk
<1>3. x + Chunk = 0 + Chunk * (m + 1) BY <1>1, <1>2
<1>4. (0 + Chunk * (m + 1)) % Chunk = 0
  <2>1. m + 1 \in Nat /\ 0 \in 0 .. Chunk - 1 BY <1>1, <1>2
  <2> HIDE DEF m
  <2>. QED BY <1>1, <2>1, DivMod
<1>5. ASSUME NEW y \in Nat, y % Chunk = 0, x < y PROVE x + Chunk <= y
  <2> DEFINE r == y \div Chunk
  <2>1. r \in Nat /\ y = Chunk * r BY <1>1, <1>5
  <2>2. m < r
    <3> SUFFICES ASSUME r <= m PROVE FALSE BY <1>2, <2>1
    <3>1. m - r \in Nat /\ Chunk * (m - r) \in Nat BY <1>1, <1>2, <2>1
    <3>2. Chunk * m = Chunk * r + Chunk * (m - r) BY <1>1, <1>2, <2>1
    <3> HIDE DEF m, r
    <3>. QED BY <1>1, <1>2, <1>5, <2>1, <3>1, <3>2 DEF m
  <2>3. r - (m + 1) \in Nat BY <1>2, <2>1, <2>2
  <2>4. Chunk * (r - (m + 1)) \in Nat BY <1>1, <2>3
  <2>5. Chunk * r = Chunk * m + Chunk + Chunk * (r - (m + 1)) BY <1>1, <1>2, <2>1
  <2> HIDE DEF m, r
  <2>. QED BY <1>1, <1>2, <2>1, <2>4, <2>5 DEF m
<1>. QED BY <1>3, <1>4, <1>5

(* A chunk is the bytes from its offset on, as many as there are. *)
LEMMA ChunkShape ==
    ASSUME stored \in Blobs, NEW at \in 0 .. stored - 1
    PROVE  LET n == IF at + Chunk < stored THEN Chunk ELSE stored - at
           IN  /\ n \in 1 .. Chunk
               /\ LoadBlobData(at) = [i \in 1 .. n |-> at + i]
               /\ LoadBlobData(at) \in Seq(1 .. MaxBlob)
               /\ Len(LoadBlobData(at)) = n
<1> DEFINE n == IF at + Chunk < stored THEN Chunk ELSE stored - at
<1>1. n \in 1 .. Chunk /\ n \in Nat BY BlobSizes DEF Blobs
<1>2. LoadBlobData(at) = [i \in 1 .. n |-> at + i]
  BY BlobSizes DEF LoadBlobData, Blobs
<1>3. \A i \in 1 .. n : at + i \in 1 .. MaxBlob BY BlobSizes DEF Blobs
<1> HIDE DEF n
<1>4. [i \in 1 .. n |-> at + i] \in [1 .. n -> 1 .. MaxBlob] BY <1>3
<1>5. [i \in 1 .. n |-> at + i] \in Seq(1 .. MaxBlob) BY <1>1, <1>4
<1>6. Len([i \in 1 .. n |-> at + i]) = n BY <1>1
<1>. QED BY <1>1, <1>2, <1>5, <1>6 DEF n

(* Where the last chunk of an answer starts.  There is an answer exactly if  *)
(* the offset is within the blob.  If the recorded length is that of the     *)
(* blob, the last chunk ends it; an answer from the start of a blob of one   *)
(* chunk is that chunk.                                                      *)
LEMMA LastStart ==
    ASSUME stored \in Blobs, size_bytes \in Blobs, NEW o \in Nat
    PROVE  /\ o < stored <=> Starts(o) # {}
           /\ o < stored => \E at \in o .. stored - 1 :
                /\ LastChunk(o) = LoadBlobData(at)
                /\ size_bytes = stored => at + Chunk >= stored
                /\ size_bytes = stored /\ o = 0 /\ stored <= Chunk => at = 0
<1>0. Chunk \in Nat \ {0} /\ stored \in Nat /\ size_bytes \in Nat
  BY BlobSizes DEF Blobs
<1>1. ASSUME Starts(o) # {} PROVE o < stored
  BY <1>0, <1>1 DEF Starts
<1>2. ASSUME o < stored PROVE o \in Starts(o)
  <2>1. o \in o .. stored - 1 BY <1>0, <1>2
  <2>2. (o - o) % Chunk = 0 BY <1>0
  <2>3. o .. o - 1 = {} OBVIOUS
  <2>. QED BY <2>1, <2>2, <2>3 DEF Starts
<1>3. ASSUME o < stored
      PROVE  \E at \in o .. stored - 1 :
                /\ LastChunk(o) = LoadBlobData(at)
                /\ size_bytes = stored => at + Chunk >= stored
                /\ size_bytes = stored /\ o = 0 /\ stored <= Chunk => at = 0
  <2> DEFINE at == CHOOSE a \in Starts(o) : \A s \in Starts(o) : a >= s
  <2>1. Starts(o) \subseteq 0 .. stored /\ Starts(o) # {}
    <3>1. \A a \in Starts(o) : a \in o .. stored - 1 BY DEF Starts
    <3>2. o .. stored - 1 \subseteq 0 .. stored BY <1>0
    <3>. QED BY <1>2, <1>3, <3>1, <3>2
  <2>2. \E a \in Starts(o) : \A s \in Starts(o) : a >= s
    BY <1>0, <2>1, GreatestNat
  <2>3. at \in Starts(o) /\ \A s \in Starts(o) : at >= s BY <2>2
  <2>4. LastChunk(o) = LoadBlobData(at) BY DEF LastChunk
  <2> HIDE DEF at
  <2>5. /\ at \in o .. stored - 1 /\ at \in Nat /\ (at - o) % Chunk = 0
        /\ \A b \in o .. at - 1 : (b - o) % Chunk = 0 => ~ Reaches(b)
    BY <1>0, <2>3 DEF Starts
  <2>6. ASSUME size_bytes = stored, at + Chunk < stored PROVE FALSE
    <3> DEFINE next == at + Chunk
               x == at - o
    <3>0. /\ x \in Nat /\ x % Chunk = 0 /\ (x + Chunk) % Chunk = 0
          /\ \A y \in Nat : y % Chunk = 0 /\ x < y => x + Chunk <= y
      <4>1. x \in Nat /\ x % Chunk = 0 BY <1>0, <2>5
      <4> HIDE DEF x
      <4>. QED BY <4>1, NextMultiple
    <3>1. next \in o .. stored - 1 /\ next - o = (at - o) + Chunk BY <1>0, <2>5, <2>6
    <3>2. (next - o) % Chunk = 0 BY <1>0, <2>5, <3>0, <3>1
    <3>3. ASSUME NEW b \in o .. next - 1, (b - o) % Chunk = 0 PROVE ~ Reaches(b)
      <4>1. CASE b < at BY <1>0, <2>5, <3>3, <4>1
      <4>2. CASE at < b
        <5>1. (at - o) + Chunk <= b - o
          <6>1. b - o \in Nat /\ at - o < b - o BY <1>0, <2>5, <3>3, <4>2
          <6>. QED BY <3>0, <3>3, <6>1
        <5>. QED BY <1>0, <2>5, <3>3, <5>1
      <4>3. CASE b = at
        <5>1. Len(LoadBlobData(at)) = Chunk BY <1>0, <2>5, <2>6, ChunkShape
        <5>. QED BY <1>0, <2>5, <2>6, <4>3, <5>1 DEF Reaches
      <4>. QED BY <1>0, <2>5, <3>3, <4>1, <4>2, <4>3
    <3>4. next \in Starts(o) BY <3>1, <3>2, <3>3 DEF Starts
    <3>. QED BY <1>0, <2>3, <2>5, <3>4
  <2>7. ASSUME size_bytes = stored, o = 0, stored <= Chunk PROVE at = 0
    <3>1. Len(LoadBlobData(0)) = stored
      BY <1>0, <1>3, <2>7, ChunkShape
    <3>2. Reaches(0) BY <1>0, <2>7, <3>1 DEF Reaches
    <3>3. (0 - 0) % Chunk = 0 BY <1>0
    <3>. QED BY <1>0, <2>5, <2>7, <3>2, <3>3
  <2>. QED BY <1>0, <2>4, <2>5, <2>6, <2>7
<1>. QED BY <1>1, <1>2, <1>3

(* What get_blob has so far, and why it stops. *)
BlobInv ==
    /\ BlobTypeOK
    /\ outcome = "loading" => data = <<>> \/ Len(data) < size_bytes
    /\ outcome = "ok" => data # <<>> /\ Len(data) >= size_bytes
    /\ outcome = "no chunk" => stored = 0 \/ stored < size_bytes
    /\ size_bytes = stored =>
          /\ Len(data) <= stored
          /\ data # <<>> /\ stored <= Chunk => data = [i \in 1 .. stored |-> i]

LEMMA InitBlob == BlobInit => BlobInv
  BY BlobSizes DEF BlobInit, BlobInv, BlobTypeOK

LEMMA BlobInvTypes ==
    ASSUME BlobInv
    PROVE  /\ Chunk \in Nat \ {0} /\ MaxBlob \in Nat
           /\ stored \in Blobs /\ size_bytes \in Blobs /\ stored \in Nat /\ size_bytes \in Nat
           /\ data \in Seq(1 .. MaxBlob) /\ Len(data) \in Nat
           /\ data = <<>> <=> Len(data) = 0
<1>1. BlobTypeOK BY DEF BlobInv
<1>2. /\ stored \in Blobs /\ size_bytes \in Blobs /\ data \in Seq(1 .. MaxBlob)
  BY <1>1 DEF BlobTypeOK, Blobs
<1>3. Len(data) \in Nat BY <1>2, LenProperties
<1>4. stored \in Nat /\ size_bytes \in Nat BY <1>2, BlobSizes DEF Blobs
<1>5. data = <<>> <=> Len(data) = 0 BY <1>2, EmptySeq
<1>. QED BY <1>2, <1>3, <1>4, <1>5, BlobSizes

LEMMA FetchBlob == ASSUME BlobInv, Fetch PROVE BlobInv'
<1>0. /\ Chunk \in Nat \ {0} /\ MaxBlob \in Nat
      /\ stored \in Blobs /\ size_bytes \in Blobs /\ stored \in Nat /\ size_bytes \in Nat
      /\ data \in Seq(1 .. MaxBlob) /\ Len(data) \in Nat
  BY BlobInvTypes
<1> DEFINE o == Len(data)
<1>1. o < stored BY <1>0, LastStart DEF Fetch
<1>2. PICK at \in o .. stored - 1 :
        /\ LastChunk(o) = LoadBlobData(at)
        /\ size_bytes = stored => at + Chunk >= stored
        /\ size_bytes = stored /\ o = 0 /\ stored <= Chunk => at = 0
  BY <1>0, <1>1, LastStart
<1> DEFINE chunk == LoadBlobData(at)
           n == IF at + Chunk < stored THEN Chunk ELSE stored - at
<1>3. /\ at \in 0 .. stored - 1 /\ n \in 1 .. Chunk
      /\ chunk = [i \in 1 .. n |-> at + i]
      /\ chunk \in Seq(1 .. MaxBlob) /\ Len(chunk) = n
  <2>1. at \in 0 .. stored - 1 BY <1>0
  <2>. QED BY <1>0, <2>1, ChunkShape
<1>4. /\ data' = data \o chunk
      /\ outcome = "loading" /\ stored' = stored /\ size_bytes' = size_bytes
      /\ outcome' = IF Len(data') < size_bytes THEN "loading" ELSE "ok"
  BY <1>2 DEF Fetch
<1> HIDE DEF chunk
<1>5. /\ data' \in Seq(1 .. MaxBlob) /\ Len(data') = o + n
      /\ data = <<>> => data' = chunk
      /\ data' # <<>>
  <2>1. data' \in Seq(1 .. MaxBlob) /\ Len(data') = o + n
    BY <1>0, <1>3, <1>4, ConcatProperties
  <2>3. data = <<>> => data' = chunk BY <1>3, <1>4, ConcatEmptySeq
  <2>4. n > 0 BY <1>0, <1>3
  <2>. QED BY <1>0, <2>1, <2>3, <2>4, EmptySeq
<1>6. BlobTypeOK'
  BY <1>0, <1>4, <1>5 DEF BlobTypeOK, Blobs
<1>7. ASSUME size_bytes = stored
      PROVE  /\ Len(data') <= stored
             /\ stored <= Chunk => data' = [i \in 1 .. stored |-> i]
  <2>1. n = stored - at BY <1>0, <1>2, <1>3, <1>7
  <2>2. Len(data') <= stored BY <1>0, <1>3, <1>5, <2>1
  <2>3. CASE data = <<>>
    <3>1. o = 0 /\ data' = chunk BY <1>5, <2>3, EmptySeq
    <3>2. CASE stored <= Chunk
      <4>1. at = 0 BY <1>2, <1>7, <3>1, <3>2
      <4>2. \A i \in 1 .. stored : 0 + i = i BY <1>0
      <4>3. chunk = [i \in 1 .. stored |-> 0 + i] BY <1>0, <1>3, <2>1, <4>1
      <4>4. chunk = [i \in 1 .. stored |-> i] BY <4>2, <4>3
      <4>. QED BY <2>2, <3>1, <3>2, <4>4
    <3>. QED BY <2>2, <3>2
  <2>4. CASE data # <<>>
    <3>1. ~ (stored <= Chunk)
      <4> SUFFICES ASSUME stored <= Chunk PROVE FALSE OBVIOUS
      <4>1. data = [i \in 1 .. stored |-> i] BY <1>7, <2>4 DEF BlobInv
      <4>2. Len(data) = stored BY <1>0, <4>1
      <4>. QED BY <1>0, <1>1, <4>2
    <3>. QED BY <2>2, <3>1
  <2>. QED BY <2>3, <2>4
<1>8. outcome' = "loading" => Len(data') < size_bytes' BY <1>4
<1>9. outcome' = "ok" => Len(data') >= size_bytes' BY <1>0, <1>3, <1>4, <1>5
<1>10. outcome' # "no chunk" BY <1>4
<1>. QED BY <1>4, <1>5, <1>6, <1>7, <1>8, <1>9, <1>10 DEF BlobInv

LEMMA NextBlob == BlobInv /\ [BlobNext]_blob_vars => BlobInv'
<1> SUFFICES ASSUME BlobInv, [BlobNext]_blob_vars PROVE BlobInv' OBVIOUS
<1>1. CASE Fetch BY <1>1, FetchBlob
<1>2. CASE NoChunk
  <2>1. /\ outcome = "loading" /\ outcome' = "no chunk" /\ Starts(Len(data)) = {}
        /\ stored' = stored /\ size_bytes' = size_bytes /\ data' = data
    BY <1>2 DEF NoChunk
  <2>2. stored \in Blobs /\ size_bytes \in Blobs /\ data \in Seq(1 .. MaxBlob)
    BY BlobInvTypes
  <2>3. Len(data) \in Nat /\ stored \in Nat /\ size_bytes \in Nat
    BY BlobInvTypes
  <2>4. ~ (Len(data) < stored) BY <2>1, <2>2, <2>3, LastStart
  <2>5. Len(data) = 0 \/ Len(data) < size_bytes
    BY <2>1, BlobInvTypes DEF BlobInv
  <2>6. stored = 0 \/ stored < size_bytes BY <2>3, <2>4, <2>5
  <2>. QED BY <2>1, <2>6 DEF BlobInv, BlobTypeOK
<1>3. CASE FetchFails BY <1>3 DEF FetchFails, BlobInv, BlobTypeOK
<1>4. CASE UNCHANGED blob_vars BY <1>4 DEF blob_vars, BlobInv, BlobTypeOK
<1>. QED BY <1>1, <1>2, <1>3, <1>4 DEF BlobNext

(* get_blob keeps its contract for blobs of at most one chunk, for any chunk *)
(* size.  The run blob shows that it does not for longer ones.               *)
THEOREM SmallBlobRight == BlobSpec => [](stored <= Chunk => BlobReturned)
<1>1. BlobSpec => []BlobInv BY InitBlob, NextBlob, PTL DEF BlobSpec
<1>2. BlobInv => (stored <= Chunk => BlobReturned)
  BY BlobInvTypes DEF BlobInv, BlobReturned
<1>. QED BY <1>1, <1>2, PTL

-----------------------------------------------------------------------------
(* FlattenSeq *)

(* FlattenSeq is a loop, *)
LEMMA FlattenLoop ==
    ASSUME NEW T, NEW ps \in Seq(Seq(T)), Len(ps) # 0
    PROVE  \E fl \in [1 .. Len(ps) -> Seq(T)] :
             /\ FlattenSeq(ps) = fl[Len(ps)]
             /\ fl[1] = ps[1]
             /\ \A k \in 1 .. Len(ps) : k > 1 => fl[k] = fl[k - 1] \o ps[k]
<1> DEFINE n == Len(ps)
           Def(v, k) == v \o ps[k]
           fl == CHOOSE g : g = [k \in 1 .. n |-> IF k = 1 THEN ps[1] ELSE Def(g[k - 1], k)]
<1>1. n \in Nat \ {0} /\ \A k \in 1 .. n : ps[k] \in Seq(T) OBVIOUS
<1>2. FlattenSeq(ps) = fl[n]
  <2> DEFINE gl == CHOOSE g : g = [k \in 1 .. n |-> IF k = 1 THEN ps[k] ELSE g[k - 1] \o ps[k]]
  <2>1. FlattenSeq(ps) = gl[n] BY <1>1 DEF FlattenSeq
  <2>2. gl = fl
    <3>1. \A g : [k \in 1 .. n |-> IF k = 1 THEN ps[k] ELSE g[k - 1] \o ps[k]]
                 = [k \in 1 .. n |-> IF k = 1 THEN ps[1] ELSE Def(g[k - 1], k)]
      OBVIOUS
    <3>. QED BY <3>1
  <2>. QED BY <2>1, <2>2
<1>3. FiniteNatInductiveDefHypothesis(fl, ps[1], Def, 1, n)
  BY DEF FiniteNatInductiveDefHypothesis
<1> HIDE DEF fl
<1>4. FiniteNatInductiveDefConclusion(fl, ps[1], Def, 1, n)
  BY <1>1, <1>3, FiniteNatInductiveDef
<1>5. fl = [k \in 1 .. n |-> IF k = 1 THEN ps[1] ELSE fl[k - 1] \o ps[k]]
  BY <1>4 DEF FiniteNatInductiveDefConclusion
<1>6. \A k \in 1 .. n : fl[k] \in Seq(T)
  <2> DEFINE Bad == {k \in 1 .. n : fl[k] \notin Seq(T)}
  <2> SUFFICES ASSUME Bad # {} PROVE FALSE OBVIOUS
  <2>1. Bad \in SUBSET Nat OBVIOUS
  <2>2. PICK m \in Bad : \A k \in Bad : m <= k BY <2>1, LeastNat
  <2>3. fl[m] = IF m = 1 THEN ps[1] ELSE fl[m - 1] \o ps[m] BY <1>5
  <2>4. CASE m = 1 BY <1>1, <2>2, <2>3, <2>4
  <2>5. CASE m # 1
    <3>1. m - 1 \in 1 .. n /\ m - 1 \notin Bad BY <1>1, <2>2, <2>5
    <3>2. fl[m - 1] \in Seq(T) /\ ps[m] \in Seq(T) BY <1>1, <3>1
    <3>3. fl[m - 1] \o ps[m] \in Seq(T) BY <3>2, ConcatProperties
    <3>. QED BY <2>3, <2>5, <3>3
  <2>. QED BY <2>4, <2>5
<1>7. fl \in [1 .. n -> Seq(T)] BY <1>5, <1>6
<1>8. fl[1] = ps[1] BY <1>1, <1>5
<1>9. \A k \in 1 .. n : k > 1 => fl[k] = fl[k - 1] \o ps[k]
  <2>1. \A k \in 1 .. n : fl[k] = IF k = 1 THEN ps[1] ELSE fl[k - 1] \o ps[k] BY <1>5
  <2>2. \A k \in 1 .. n : k > 1 => k # 1 BY <1>1
  <2> HIDE DEF n
  <2>. QED BY <2>1, <2>2
<1>. QED BY <1>2, <1>7, <1>8, <1>9

(* over the prefixes of the sequence: each adds the next part. *)
LEMMA FlattenPrefixes ==
    ASSUME NEW T, NEW ps \in Seq(Seq(T))
    PROVE  LET Prefix(k) == FlattenSeq([j \in 1 .. k |-> ps[j]])
           IN  /\ Prefix(0) = <<>> /\ Prefix(Len(ps)) = FlattenSeq(ps)
               /\ \A k \in 0 .. Len(ps) : Prefix(k) \in Seq(T)
               /\ \A k \in 1 .. Len(ps) : Prefix(k) = Prefix(k - 1) \o ps[k]
<1> DEFINE n == Len(ps)
           Part(k) == [j \in 1 .. k |-> ps[j]]
<1>1. n \in Nat /\ \A k \in 1 .. n : ps[k] \in Seq(T) OBVIOUS
<1>2. \A k \in 0 .. n : Part(k) \in Seq(Seq(T)) /\ Len(Part(k)) = k
  <2> SUFFICES ASSUME NEW k \in 0 .. n PROVE Part(k) \in Seq(Seq(T)) /\ Len(Part(k)) = k
    OBVIOUS
  <2>1. Part(k) \in [1 .. k -> Seq(T)] BY <1>1
  <2>. QED BY <1>1, <2>1
<1>3. Part(n) = ps OBVIOUS
<1>4. FlattenSeq(Part(0)) = <<>>
  <2>1. Part(0) \in Seq(Seq(T)) /\ Len(Part(0)) = 0 BY <1>1, <1>2
  <2>2. Part(0) = <<>> BY <2>1, EmptySeq
  <2>. QED BY <2>1, <2>2 DEF FlattenSeq
<1>5. CASE n = 0
  <2> HIDE DEF Part
  <2>1. FlattenSeq(Part(n)) = FlattenSeq(ps) BY <1>3
  <2>2. \A k \in 0 .. n : FlattenSeq(Part(k)) \in Seq(T)
    <3>1. \A k \in 0 .. n : k = 0 BY <1>5
    <3>. QED BY <1>4, <3>1, EmptySeq
  <2>3. \A k \in 1 .. n : FALSE BY <1>5
  <2>. QED BY <1>4, <2>1, <2>2, <2>3 DEF Part
<1>6. CASE n # 0
  <2>1. PICK fl \in [1 .. n -> Seq(T)] :
          /\ FlattenSeq(ps) = fl[n] /\ fl[1] = ps[1]
          /\ \A k \in 1 .. n : k > 1 => fl[k] = fl[k - 1] \o ps[k]
    BY <1>6, FlattenLoop
  <2>2. ASSUME NEW k \in 1 .. n PROVE FlattenSeq(Part(k)) = fl[k]
    <3>1. Part(k) \in Seq(Seq(T)) /\ Len(Part(k)) = k /\ k # 0 BY <1>2
    <3>2. \A j \in 1 .. k : Part(k)[j] = ps[j] OBVIOUS
    <3> HIDE DEF Part
    <3> DEFINE pk == Part(k)
    <3> HIDE DEF pk
    <3>6. pk \in Seq(Seq(T)) /\ Len(pk) = k BY <3>1 DEF pk
    <3>7. PICK gl \in [1 .. Len(pk) -> Seq(T)] :
            /\ FlattenSeq(pk) = gl[Len(pk)] /\ gl[1] = pk[1]
            /\ \A j \in 1 .. Len(pk) : j > 1 => gl[j] = gl[j - 1] \o pk[j]
      BY <3>1, <3>6, FlattenLoop
    <3>3. /\ FlattenSeq(Part(k)) = gl[k] /\ gl[1] = Part(k)[1]
          /\ \A j \in 1 .. k : j > 1 => gl[j] = gl[j - 1] \o Part(k)[j]
      BY <3>6, <3>7 DEF pk
    <3> DEFINE Bad == {j \in 1 .. k : gl[j] # fl[j]}
    <3>4. Bad = {}
      <4> SUFFICES ASSUME Bad # {} PROVE FALSE OBVIOUS
      <4>1. Bad \in SUBSET Nat OBVIOUS
      <4>2. PICK m \in Bad : \A j \in Bad : m <= j BY <4>1, LeastNat
      <4>3. CASE m = 1 BY <2>1, <3>2, <3>3, <4>2, <4>3
      <4>4. CASE m # 1
        <5>1. m \in 1 .. k /\ m \in 1 .. n /\ m > 1 /\ gl[m] # fl[m] BY <4>2, <4>4
        <5>2. m - 1 \in 1 .. k /\ m - 1 \notin Bad BY <4>2, <5>1
        <5>3. gl[m - 1] = fl[m - 1] BY <5>2
        <5>. QED BY <2>1, <3>2, <3>3, <5>1, <5>3
      <4>. QED BY <4>3, <4>4
    <3>5. k \in 1 .. k BY <1>1
    <3>. QED BY <3>3, <3>4, <3>5
  <2>3. \A k \in 0 .. n : FlattenSeq(Part(k)) \in Seq(T)
    <3> HIDE DEF Part
    <3> SUFFICES ASSUME NEW k \in 0 .. n PROVE FlattenSeq(Part(k)) \in Seq(T) OBVIOUS
    <3>1. CASE k = 0 BY <1>4, <3>1, EmptySeq
    <3>2. CASE k # 0
      <4>1. k \in 1 .. n BY <1>1, <3>2
      <4>. QED BY <2>1, <2>2, <4>1
    <3>. QED BY <3>1, <3>2
  <2>4. ASSUME NEW k \in 1 .. n
        PROVE  FlattenSeq(Part(k)) = FlattenSeq(Part(k - 1)) \o ps[k]
    <3> HIDE DEF Part
    <3>1. CASE k = 1
      <4>1. FlattenSeq(Part(k - 1)) = <<>> BY <1>4, <3>1
      <4>2. FlattenSeq(Part(k)) = ps[k] BY <2>1, <2>2, <3>1
      <4>3. <<>> \o ps[k] = ps[k] BY <1>1, ConcatEmptySeq
      <4>. QED BY <4>1, <4>2, <4>3
    <3>2. CASE k # 1
      <4>1. k - 1 \in 1 .. n /\ k > 1 BY <1>1, <3>2
      <4>. QED BY <2>1, <2>2, <4>1
    <3>. QED BY <3>1, <3>2
  <2>. QED BY <1>3, <1>4, <2>3, <2>4
<1>. QED BY <1>1, <1>5, <1>6

(* So each part is found in the whole after the parts before it. *)
LEMMA FlattenSlices ==
    ASSUME NEW T, NEW ps \in Seq(Seq(T)), NEW i \in 1 .. Len(ps)
    PROVE  LET whole == FlattenSeq(ps)
               at == Len(FlattenSeq([j \in 1 .. i - 1 |-> ps[j]]))
           IN  /\ at \in Nat /\ at + Len(ps[i]) <= Len(whole)
               /\ i = Len(ps) => at + Len(ps[i]) = Len(whole)
               /\ \A x \in 1 .. Len(ps[i]) : whole[at + x] = ps[i][x]
<1> DEFINE n == Len(ps)
           Prefix(k) == FlattenSeq([j \in 1 .. k |-> ps[j]])
<1>1. n \in Nat /\ \A k \in 1 .. n : ps[k] \in Seq(T) OBVIOUS
<1>2. /\ Prefix(n) = FlattenSeq(ps)
      /\ \A k \in 0 .. n : Prefix(k) \in Seq(T)
      /\ \A k \in 1 .. n : Prefix(k) = Prefix(k - 1) \o ps[k]
  BY FlattenPrefixes
<1> HIDE DEF Prefix
<1>3. \A k \in 0 .. n : Len(Prefix(k)) \in Nat BY <1>2, LenProperties
<1>4. \A k \in 1 .. n :
        /\ Len(Prefix(k)) = Len(Prefix(k - 1)) + Len(ps[k])
        /\ \A x \in 1 .. Len(Prefix(k - 1)) + Len(ps[k]) : Prefix(k)[x] =
             IF x <= Len(Prefix(k - 1)) THEN Prefix(k - 1)[x]
                                        ELSE ps[k][x - Len(Prefix(k - 1))]
  <2> SUFFICES ASSUME NEW k \in 1 .. n
               PROVE  /\ Len(Prefix(k)) = Len(Prefix(k - 1)) + Len(ps[k])
                      /\ \A x \in 1 .. Len(Prefix(k - 1)) + Len(ps[k]) : Prefix(k)[x] =
                           IF x <= Len(Prefix(k - 1)) THEN Prefix(k - 1)[x]
                                                      ELSE ps[k][x - Len(Prefix(k - 1))]
    OBVIOUS
  <2>1. k - 1 \in 0 .. n BY <1>1
  <2> DEFINE before == Prefix(k - 1)
             piece == ps[k]
  <2>2. before \in Seq(T) /\ piece \in Seq(T) BY <1>1, <1>2, <2>1
  <2>3. Prefix(k) = before \o piece BY <1>2
  <2> HIDE DEF before, piece
  <2>4. /\ Len(before \o piece) = Len(before) + Len(piece)
        /\ \A x \in 1 .. Len(before) + Len(piece) : (before \o piece)[x] =
             IF x <= Len(before) THEN before[x] ELSE piece[x - Len(before)]
    BY <2>2, ConcatProperties
  <2>. QED BY <2>3, <2>4 DEF before, piece
<1> DEFINE at == Len(Prefix(i - 1))
           Keeps(k) == /\ Len(Prefix(k)) >= at + Len(ps[i])
                       /\ \A x \in 1 .. Len(ps[i]) : Prefix(k)[at + x] = ps[i][x]
<1>5. at \in Nat /\ Len(ps[i]) \in Nat /\ i \in Nat /\ i - 1 \in 0 .. n
  BY <1>1, <1>3, LenProperties
<1>6. Keeps(i) /\ Len(Prefix(i)) = at + Len(ps[i])
  <2>1. Len(Prefix(i)) = at + Len(ps[i]) BY <1>4
  <2>2. ASSUME NEW x \in 1 .. Len(ps[i]) PROVE Prefix(i)[at + x] = ps[i][x]
    <3>1. at + x \in 1 .. at + Len(ps[i]) /\ ~ (at + x <= at) /\ (at + x) - at = x BY <1>5
    <3>. QED BY <1>4, <3>1
  <2>. QED BY <1>5, <2>1, <2>2
<1>7. Keeps(n)
  <2> DEFINE Bad == {k \in i .. n : ~ Keeps(k)}
  <2> HIDE DEF Keeps
  <2> SUFFICES ASSUME Bad # {} PROVE FALSE
    <3>1. n \in i .. n BY <1>1, <1>5
    <3>. QED BY <3>1
  <2>1. Bad \in SUBSET Nat BY <1>1, <1>5
  <2>2. PICK m \in Bad : \A k \in Bad : m <= k BY <2>1, LeastNat
  <2>3. m \in i .. n /\ ~ Keeps(m) /\ m # i BY <1>6, <2>2
  <2>4. m - 1 \in i .. n /\ m \in 1 .. n /\ m - 1 \in 0 .. n BY <1>1, <1>5, <2>3
  <2>5. Keeps(m - 1) BY <1>1, <1>5, <2>2, <2>3, <2>4
  <2>6. Len(ps[m]) \in Nat /\ Len(Prefix(m - 1)) \in Nat BY <1>1, <1>3, <2>4, LenProperties
  <2>9. /\ Len(Prefix(m - 1)) >= at + Len(ps[i])
        /\ Len(Prefix(m)) = Len(Prefix(m - 1)) + Len(ps[m])
    BY <1>4, <2>4, <2>5 DEF Keeps
  <2>7. Len(Prefix(m)) >= at + Len(ps[i])
    <3> DEFINE a == Len(Prefix(m - 1))
               b == Len(ps[m])
               c == Len(ps[i])
    <3>1. /\ a \in Nat /\ b \in Nat /\ c \in Nat /\ at \in Nat
          /\ a >= at + c /\ Len(Prefix(m)) = a + b
      BY <1>5, <2>6, <2>9
    <3> HIDE DEF at, a, b, c
    <3>2. Len(Prefix(m)) >= at + c BY <3>1
    <3>. QED BY <3>2 DEF c
  <2>8. ASSUME NEW x \in 1 .. Len(ps[i]) PROVE Prefix(m)[at + x] = ps[i][x]
    <3>1. Len(Prefix(m - 1)) >= at + Len(ps[i]) /\ Prefix(m - 1)[at + x] = ps[i][x]
      BY <2>5 DEF Keeps
    <3> HIDE DEF at
    <3>2. at + x \in 1 .. Len(Prefix(m - 1)) + Len(ps[m]) /\ at + x <= Len(Prefix(m - 1))
      <4> DEFINE a == Len(Prefix(m - 1))
                 b == Len(ps[m])
                 c == Len(ps[i])
      <4>1. a \in Nat /\ b \in Nat /\ c \in Nat /\ at \in Nat /\ x \in 1 .. c /\ a >= at + c
        BY <1>5, <2>6, <3>1
      <4> HIDE DEF a, b, c
      <4>2. at + x \in 1 .. a + b /\ at + x <= a BY <4>1
      <4>. QED BY <4>2 DEF a, b
    <3>. QED BY <1>4, <2>4, <3>1, <3>2
  <2>. QED BY <2>3, <2>7, <2>8 DEF Keeps
<1>. QED BY <1>2, <1>5, <1>6, <1>7 DEF Prefix

-----------------------------------------------------------------------------
(* The tile batch codec *)

Bytes == UNION {Range(payload) : payload \in Payloads}
PayloadsOf(b) == [i \in DOMAIN b |-> b[i].payload]
Cells(b) == {Header(b)} \cup {Entry(b, i) : i \in DOMAIN b} \cup Bytes

LEMMA TileShape ==
    ASSUME NEW b \in Seq(Tiles)
    PROVE  /\ Len(b) \in Nat /\ DOMAIN b = 1 .. Len(b)
           /\ \A i \in 1 .. Len(b) :
                b[i] \in Tiles /\ b[i].tx \in Nat /\ b[i].nodes \in Nat /\ b[i].payload \in Seq(Bytes)
           /\ PayloadsOf(b) \in Seq(Seq(Bytes)) /\ Len(PayloadsOf(b)) = Len(b)
           /\ \A i \in 1 .. Len(b) : PayloadsOf(b)[i] = b[i].payload
<1>1. \A payload \in Payloads : payload \in Seq(Bytes)
  <2> SUFFICES ASSUME NEW payload \in Payloads PROVE payload \in Seq(Bytes) OBVIOUS
  <2>1. payload \in Seq(Range(payload)) BY TilePayloads
  <2>2. Range(payload) \subseteq Bytes BY DEF Bytes
  <2>. QED BY <2>1, <2>2, SeqMonotonic
<1>2. Len(b) \in Nat /\ DOMAIN b = 1 .. Len(b) /\ \A i \in 1 .. Len(b) : b[i] \in Tiles
  OBVIOUS
<1>3. \A i \in 1 .. Len(b) :
        b[i].tx \in Nat /\ b[i].nodes \in Nat /\ b[i].payload \in Seq(Bytes)
  BY <1>1, <1>2, TileInputs DEF Tiles
<1>4. PayloadsOf(b) = [i \in 1 .. Len(b) |-> b[i].payload] BY <1>2 DEF PayloadsOf
<1>5. PayloadsOf(b) \in Seq(Seq(Bytes)) /\ Len(PayloadsOf(b)) = Len(b)
  <2>1. PayloadsOf(b) \in [1 .. Len(b) -> Seq(Bytes)] BY <1>3, <1>4
  <2>. QED BY <1>2, <2>1
<1>. QED BY <1>2, <1>3, <1>4, <1>5

(* The base is the least coordinate of the batch. *)
LEMMA BaseLeast ==
    ASSUME NEW b \in Seq(Tiles)
    PROVE  /\ Base(b) \in Nat
           /\ \A i \in DOMAIN b : Base(b) <= b[i].tx
           /\ b # <<>> => \E i \in DOMAIN b : b[i].tx = Base(b)
           /\ b = <<>> => Base(b) = 0
<1>1. \A i \in DOMAIN b : b[i].tx \in Nat BY TileShape
<1>2. CASE b = <<>>
  <2>1. Base(b) = 0 BY <1>2 DEF Base
  <2>2. DOMAIN b = {} BY <1>2, EmptySeq, TileShape
  <2>. QED BY <1>2, <2>1, <2>2
<1>3. CASE b # <<>>
  <2>1. TxOf(b) \in SUBSET Nat BY <1>1 DEF TxOf
  <2>2. TxOf(b) # {}
    <3>1. 1 \in DOMAIN b BY <1>3, EmptySeq, TileShape
    <3>. QED BY <3>1 DEF TxOf
  <2>3. \E x \in TxOf(b) : \A y \in TxOf(b) : x <= y BY <2>1, <2>2, LeastNat
  <2>4. Base(b) \in TxOf(b) /\ \A y \in TxOf(b) : Base(b) <= y
    BY <1>3, <2>3 DEF Base
  <2>. QED BY <1>3, <2>1, <2>4 DEF TxOf
<1>. QED BY <1>2, <1>3

(* A frame, cell by cell. *)
LEMMA EncodeShape ==
    ASSUME NEW b \in Seq(Tiles)
    PROVE  LET whole == FlattenSeq(PayloadsOf(b)) IN
           /\ whole \in Seq(Bytes) /\ Len(whole) \in Nat
           /\ Encode(b) \in Seq(Cells(b))
           /\ Len(Encode(b)) = 1 + Len(b) + Len(whole)
           /\ Encode(b)[1] = Header(b)
           /\ \A i \in 1 .. Len(b) : Encode(b)[1 + i] = Entry(b, i)
           /\ \A x \in 1 .. Len(whole) : Encode(b)[1 + Len(b) + x] = whole[x]
<1> DEFINE whole == FlattenSeq(PayloadsOf(b))
           head == <<Header(b)>>
           entries == [i \in DOMAIN b |-> Entry(b, i)]
           top == head \o entries
           n == Len(b)
<1>1. n \in Nat /\ DOMAIN b = 1 .. n BY TileShape
<1>2. whole \in Seq(Bytes)
  <2>1. PayloadsOf(b) \in Seq(Seq(Bytes)) BY TileShape
  <2> DEFINE ps == PayloadsOf(b)
  <2> HIDE DEF ps
  <2>2. ps \in Seq(Seq(Bytes)) BY <2>1 DEF ps
  <2>3. /\ FlattenSeq([j \in 1 .. Len(ps) |-> ps[j]]) = FlattenSeq(ps)
        /\ \A k \in 0 .. Len(ps) : FlattenSeq([j \in 1 .. k |-> ps[j]]) \in Seq(Bytes)
    BY <2>2, FlattenPrefixes
  <2>4. Len(ps) \in 0 .. Len(ps) BY <2>2
  <2>5. FlattenSeq(ps) \in Seq(Bytes) BY <2>3, <2>4
  <2>. QED BY <2>5 DEF ps
<1>3. head \in Seq(Cells(b)) /\ Len(head) = 1 /\ head[1] = Header(b) BY DEF Cells
<1>4. entries \in Seq(Cells(b)) /\ Len(entries) = n /\ \A i \in 1 .. n : entries[i] = Entry(b, i)
  <2>1. entries \in [1 .. n -> Cells(b)] BY <1>1 DEF Cells
  <2>. QED BY <1>1, <2>1
<1>5. Encode(b) = top \o whole BY DEF Encode, PayloadsOf
<1>6. whole \in Seq(Cells(b)) BY <1>2, SeqMonotonic DEF Cells
<1>7. Len(whole) \in Nat BY <1>2, LenProperties
<1> HIDE DEF whole, head, entries
<1>8. /\ top \in Seq(Cells(b)) /\ Len(top) = 1 + n
      /\ \A i \in 1 .. 1 + n : top[i] = IF i <= 1 THEN head[i] ELSE entries[i - 1]
  <2> DEFINE C == Cells(b)
  <2> HIDE DEF C, top
  <2>0. head \in Seq(C) /\ entries \in Seq(C) /\ top = head \o entries
    BY <1>3, <1>4 DEF C, top
  <2>1. /\ top \in Seq(C) /\ Len(top) = Len(head) + Len(entries)
        /\ \A i \in 1 .. Len(head) + Len(entries) :
             top[i] = IF i <= Len(head) THEN head[i] ELSE entries[i - Len(head)]
    <3>1. /\ head \o entries \in Seq(C) /\ Len(head \o entries) = Len(head) + Len(entries)
          /\ \A i \in 1 .. Len(head) + Len(entries) :
               (head \o entries)[i] = IF i <= Len(head) THEN head[i] ELSE entries[i - Len(head)]
      BY <2>0, ConcatProperties
    <3>. QED BY <2>0, <3>1
  <2>. QED BY <1>3, <1>4, <2>1 DEF C
<1>9. top[1] = Header(b) BY <1>1, <1>3, <1>8
<1>10. \A i \in 1 .. n : top[1 + i] = Entry(b, i)
  <2> SUFFICES ASSUME NEW i \in 1 .. n PROVE top[1 + i] = Entry(b, i) OBVIOUS
  <2>1. 1 + i \in 1 .. 1 + n /\ ~ (1 + i <= 1) /\ (1 + i) - 1 = i BY <1>1
  <2>. QED BY <1>4, <1>8, <2>1
<1> HIDE DEF top
<1>11. /\ Encode(b) \in Seq(Cells(b)) /\ Len(Encode(b)) = (1 + n) + Len(whole)
       /\ \A i \in 1 .. (1 + n) + Len(whole) :
            Encode(b)[i] = IF i <= 1 + n THEN top[i] ELSE whole[i - (1 + n)]
  <2>1. /\ top \o whole \in Seq(Cells(b)) /\ Len(top \o whole) = Len(top) + Len(whole)
        /\ \A i \in 1 .. Len(top) + Len(whole) :
             (top \o whole)[i] = IF i <= Len(top) THEN top[i] ELSE whole[i - Len(top)]
    BY <1>6, <1>8, ConcatProperties
  <2>. QED BY <1>5, <1>8, <2>1
<1>12. Encode(b)[1] = Header(b)
  <2>1. 1 \in 1 .. (1 + n) + Len(whole) /\ 1 <= 1 + n BY <1>1, <1>7
  <2>. QED BY <1>9, <1>11, <2>1
<1>13. \A i \in 1 .. n : Encode(b)[1 + i] = Entry(b, i)
  <2> SUFFICES ASSUME NEW i \in 1 .. n PROVE Encode(b)[1 + i] = Entry(b, i) OBVIOUS
  <2>1. 1 + i \in 1 .. (1 + n) + Len(whole) /\ 1 + i <= 1 + n BY <1>1, <1>7
  <2>. QED BY <1>10, <1>11, <2>1
<1>14. \A x \in 1 .. Len(whole) : Encode(b)[1 + n + x] = whole[x]
  <2> SUFFICES ASSUME NEW x \in 1 .. Len(whole) PROVE Encode(b)[1 + n + x] = whole[x] OBVIOUS
  <2>1. /\ 1 + n + x \in 1 .. (1 + n) + Len(whole) /\ ~ (1 + n + x <= 1 + n)
        /\ (1 + n + x) - (1 + n) = x
    BY <1>1, <1>7
  <2>. QED BY <1>11, <2>1
<1>15. Len(Encode(b)) = 1 + n + Len(whole) BY <1>1, <1>7, <1>11
<1>. QED BY <1>2, <1>7, <1>11, <1>12, <1>13, <1>14, <1>15 DEF whole

(* An entry says where its payload is. *)
LEMMA EntrySlice ==
    ASSUME NEW b \in Seq(Tiles), NEW i \in 1 .. Len(b)
    PROVE  LET whole == FlattenSeq(PayloadsOf(b)) IN
           /\ Offset(b, i) \in Nat
           /\ Offset(b, i) + Len(b[i].payload) <= Len(whole)
           /\ i = Len(b) => Offset(b, i) + Len(b[i].payload) = Len(whole)
           /\ \A x \in 1 .. Len(b[i].payload) : whole[Offset(b, i) + x] = b[i].payload[x]
<1> DEFINE ps == PayloadsOf(b)
<1>1. /\ ps \in Seq(Seq(Bytes)) /\ Len(ps) = Len(b) /\ Len(b) \in Nat
      /\ \A j \in 1 .. Len(b) : ps[j] = b[j].payload
  BY TileShape
<1>2. Offset(b, i) = Len(FlattenSeq([j \in 1 .. i - 1 |-> ps[j]]))
  <2>1. [j \in 1 .. i - 1 |-> b[j].payload] = [j \in 1 .. i - 1 |-> ps[j]] BY <1>1
  <2>. QED BY <2>1 DEF Offset
<1> HIDE DEF ps
<1>3. /\ Offset(b, i) \in Nat /\ Offset(b, i) + Len(ps[i]) <= Len(FlattenSeq(ps))
      /\ i = Len(ps) => Offset(b, i) + Len(ps[i]) = Len(FlattenSeq(ps))
      /\ \A x \in 1 .. Len(ps[i]) : FlattenSeq(ps)[Offset(b, i) + x] = ps[i][x]
  <2>1. i \in 1 .. Len(ps) BY <1>1
  <2>. QED BY <1>1, <1>2, <2>1, FlattenSlices
<1>. QED BY <1>1, <1>3 DEF ps

(* The start of a frame, cell by cell. *)
LEMMA CutShape ==
    ASSUME NEW b \in Seq(Tiles), NEW k \in 0 .. Len(Encode(b))
    PROVE  LET cut == SubSeq(Encode(b), 1, k) IN
           /\ cut \in Seq(Cells(b)) /\ Len(cut) = k
           /\ \A x \in 1 .. k : cut[x] = Encode(b)[x]
           /\ k = Len(Encode(b)) => cut = Encode(b)
<1> DEFINE f == Encode(b)
           cut == SubSeq(f, 1, k)
           C == Cells(b)
<1>1. f \in Seq(C) BY EncodeShape
<1> HIDE DEF f, C
<1>2. Len(f) \in Nat /\ \A x \in 1 .. Len(f) : f[x] \in C BY <1>1
<1>3. k \in Nat /\ k <= Len(f) BY <1>2 DEF f
<1>4. \A x \in 1 .. k : f[x] \in C BY <1>2, <1>3
<1>5. /\ cut \in Seq(C) /\ Len(cut) = IF 1 <= k THEN k - 1 + 1 ELSE 0
      /\ \A x \in 1 .. k - 1 + 1 : cut[x] = f[1 + x - 1]
  BY <1>3, <1>4, SubSeqProperties
<1> HIDE DEF cut
<1>6. Len(cut) = k BY <1>3, <1>5
<1>7. \A x \in 1 .. k : cut[x] = f[x] BY <1>3, <1>5
<1>8. k = Len(f) => cut = f BY <1>1, SubSeqFull DEF cut
<1>. QED BY <1>5, <1>6, <1>7, <1>8 DEF f, cut, C

(* A whole frame of no more tiles than are counted is well formed; what it  *)
(* decodes to, field by field.                                              *)
LEMMA WholeDecodes ==
    ASSUME NEW b \in Seq(Tiles), Len(b) <= CountMax
    PROVE  Decode(Encode(b)) = Some([i \in 1 .. Len(b) |->
             [tx |-> (Base(b) % BaseMod) + Least(b[i].tx - Base(b), DeltaMax),
              nodes |-> Least(b[i].nodes, CounterMax),
              payload |-> b[i].payload]])
<1> DEFINE f == Encode(b)
           n == Len(b)
           whole == FlattenSeq(PayloadsOf(b))
           Field(i) == [tx |-> (Base(b) % BaseMod) + Least(b[i].tx - Base(b), DeltaMax),
                        nodes |-> Least(b[i].nodes, CounterMax),
                        payload |-> b[i].payload]
<1>1. /\ n \in Nat /\ Len(whole) \in Nat
      /\ f \in Seq(Cells(b)) /\ Len(f) = 1 + n + Len(whole)
      /\ f[1] = Header(b)
      /\ \A i \in 1 .. n : f[1 + i] = Entry(b, i)
      /\ \A x \in 1 .. Len(whole) : f[1 + n + x] = whole[x]
  BY EncodeShape, TileShape
<1>2. f[1].count = n /\ f[1].base = Base(b) % BaseMod
  <2>1. CountMax \in Nat BY TileWidths
  <2>. QED BY <1>1, <2>1 DEF Header, Least
<1>3. EntriesEnd(f) = 1 + n BY <1>2 DEF EntriesEnd
<1>4. \A i \in 1 .. n :
        /\ Entry(b, i).delta = Least(b[i].tx - Base(b), DeltaMax)
        /\ Entry(b, i).nodes = Least(b[i].nodes, CounterMax)
        /\ Entry(b, i).offset = Offset(b, i)
        /\ Entry(b, i).size = Len(b[i].payload)
  BY DEF Entry
<1>5. \A i \in 1 .. n :
        /\ Offset(b, i) \in Nat /\ Len(b[i].payload) \in Nat /\ b[i].payload \in Seq(Bytes)
        /\ Offset(b, i) + Len(b[i].payload) <= Len(whole)
        /\ \A x \in 1 .. Len(b[i].payload) : whole[Offset(b, i) + x] = b[i].payload[x]
  <2> SUFFICES ASSUME NEW i \in 1 .. n
               PROVE  /\ Offset(b, i) \in Nat /\ Len(b[i].payload) \in Nat
                      /\ b[i].payload \in Seq(Bytes)
                      /\ Offset(b, i) + Len(b[i].payload) <= Len(whole)
                      /\ \A x \in 1 .. Len(b[i].payload) :
                           whole[Offset(b, i) + x] = b[i].payload[x]
    OBVIOUS
  <2>1. b[i].payload \in Seq(Bytes) BY TileShape
  <2>2. Len(b[i].payload) \in Nat BY <2>1, LenProperties
  <2>. QED BY <2>1, <2>2, EntrySlice
<1> HIDE DEF f, n, whole
<1>6. WellFormed(f)
  <2>1. f # <<>> /\ Len(f) >= EntriesEnd(f)
    <3>1. Len(f) # 0 /\ Len(f) >= 1 + n BY <1>1
    <3>. QED BY <1>1, <1>3, <3>1, EmptySeq
  <2>2. ASSUME NEW i \in 2 .. EntriesEnd(f)
        PROVE  EntriesEnd(f) + f[i].offset + f[i].size <= Len(f)
    <3>1. i - 1 \in 1 .. n /\ 1 + (i - 1) = i BY <1>1, <1>3
    <3>2. f[i] = Entry(b, i - 1) BY <1>1, <3>1
    <3>3. f[i].offset = Offset(b, i - 1) /\ f[i].size = Len(b[i - 1].payload)
      BY <1>4, <3>1, <3>2
    <3>4. /\ Offset(b, i - 1) \in Nat /\ Len(b[i - 1].payload) \in Nat
          /\ Offset(b, i - 1) + Len(b[i - 1].payload) <= Len(whole)
      BY <1>5, <3>1
    <3>. QED BY <1>1, <1>3, <3>3, <3>4
  <2>. QED BY <2>1, <2>2 DEF WellFormed
<1>7. ASSUME NEW i \in 1 .. n PROVE DecodeEntry(f, f[i + 1]) = Field(i)
  <2> DEFINE e == f[i + 1]
             start == EntriesEnd(f) + e.offset
             piece == b[i].payload
             size == Len(piece)
  <2>1. e = Entry(b, i)
    <3>1. i + 1 = 1 + i BY <1>1
    <3>. QED BY <1>1, <3>1
  <2>2. /\ e.delta = Least(b[i].tx - Base(b), DeltaMax)
        /\ e.nodes = Least(b[i].nodes, CounterMax)
        /\ e.offset = Offset(b, i) /\ e.size = size
    BY <1>4, <2>1
  <2> HIDE DEF e
  <2>3. start = 1 + n + Offset(b, i) BY <1>3, <2>2
  <2>4. /\ size \in Nat /\ Offset(b, i) \in Nat /\ piece \in Seq(Bytes)
        /\ Offset(b, i) + size <= Len(whole)
        /\ \A x \in 1 .. size : whole[Offset(b, i) + x] = piece[x]
    BY <1>5
  <2> HIDE DEF start, piece, size
  <2>5. \A x \in 1 .. size : start + x \in Nat /\ f[start + x] = piece[x]
    <3> SUFFICES ASSUME NEW x \in 1 .. size
                 PROVE  start + x \in Nat /\ f[start + x] = piece[x]
      OBVIOUS
    <3>1. /\ Offset(b, i) + x \in 1 .. Len(whole)
          /\ start + x = 1 + n + (Offset(b, i) + x) /\ start + x \in Nat
      <4> DEFINE o == Offset(b, i)
                 w == Len(whole)
      <4>1. /\ o \in Nat /\ w \in Nat /\ n \in Nat /\ size \in Nat /\ o + size <= w
            /\ x \in 1 .. size /\ start = 1 + n + o
        BY <1>1, <2>3, <2>4
      <4> HIDE DEF o, w
      <4>2. /\ o + x \in 1 .. w
            /\ start + x = 1 + n + (o + x) /\ start + x \in Nat
        BY <4>1
      <4>. QED BY <4>2 DEF o, w
    <3>. QED BY <1>1, <2>4, <3>1
  <2>6. SubSeq(f, start + 1, start + size) = piece
    <3> DEFINE sub == SubSeq(f, start + 1, start + size)
    <3>1. start \in Nat BY <1>1, <2>3, <2>4
    <3>2. \A x \in start + 1 .. start + size : f[x] \in Bytes
      <4> SUFFICES ASSUME NEW x \in start + 1 .. start + size PROVE f[x] \in Bytes OBVIOUS
      <4>1. x - start \in 1 .. size /\ start + (x - start) = x BY <2>4, <3>1
      <4>2. f[x] = piece[x - start] BY <2>5, <4>1
      <4>. QED BY <2>4, <4>1, <4>2, ElementOfSeq DEF size
    <3>3. /\ sub \in Seq(Bytes)
          /\ Len(sub) = IF start + 1 <= start + size THEN (start + size) - (start + 1) + 1 ELSE 0
          /\ \A x \in 1 .. (start + size) - (start + 1) + 1 : sub[x] = f[(start + 1) + x - 1]
      <4>1. start + 1 \in Int /\ start + size \in Int BY <2>4, <3>1
      <4>. QED BY <3>2, <4>1, SubSeqProperties
    <3> HIDE DEF sub
    <3>4. Len(sub) = size BY <2>4, <3>1, <3>3
    <3>5. \A x \in 1 .. size : sub[x] = piece[x]
      <4> SUFFICES ASSUME NEW x \in 1 .. size PROVE sub[x] = piece[x] OBVIOUS
      <4>1. x \in 1 .. (start + size) - (start + 1) + 1 /\ (start + 1) + x - 1 = start + x
        BY <2>4, <3>1
      <4>. QED BY <2>5, <3>3, <4>1
    <3>6. sub = piece BY <2>4, <3>3, <3>4, <3>5, SeqEqual DEF size
    <3>. QED BY <3>6 DEF sub
  <2>7. SubSeq(f, (EntriesEnd(f) + e.offset) + 1, (EntriesEnd(f) + e.offset) + e.size) = piece
    BY <2>2, <2>6 DEF start
  <2>8. DecodeEntry(f, e) = [tx |-> f[1].base + e.delta, nodes |-> e.nodes, payload |-> piece]
    BY <2>7 DEF DecodeEntry
  <2>. QED BY <1>2, <2>2, <2>8 DEF e, piece
<1>8. Decode(f) = Some([i \in 1 .. n |-> DecodeEntry(f, f[i + 1])])
  BY <1>2, <1>6 DEF Decode
<1> HIDE DEF Field
<1>9. [i \in 1 .. n |-> DecodeEntry(f, f[i + 1])] = [i \in 1 .. n |-> Field(i)] BY <1>7
<1>10. Decode(f) = Some([i \in 1 .. n |-> Field(i)]) BY <1>8, <1>9
<1>. QED BY <1>10 DEF f, n, Field

(* A frame that was cut is not well formed: its last payload sticks out. *)
LEMMA CutRejected ==
    ASSUME NEW b \in Seq(Tiles), Len(b) <= CountMax,
           NEW k \in 0 .. Len(Encode(b)), k # Len(Encode(b))
    PROVE  ~ WellFormed(SubSeq(Encode(b), 1, k))
<1> DEFINE cut == SubSeq(Encode(b), 1, k)
           n == Len(b)
           whole == FlattenSeq(PayloadsOf(b))
<1> SUFFICES ASSUME WellFormed(cut) PROVE FALSE OBVIOUS
<1>1. /\ n \in Nat /\ Len(whole) \in Nat
      /\ Len(Encode(b)) = 1 + n + Len(whole) /\ Encode(b)[1] = Header(b)
      /\ \A i \in 1 .. n : Encode(b)[1 + i] = Entry(b, i)
  BY EncodeShape, TileShape
<1>2. cut \in Seq(Cells(b)) /\ Len(cut) = k /\ \A x \in 1 .. k : cut[x] = Encode(b)[x]
  BY CutShape
<1>3. /\ cut # <<>> /\ Len(cut) >= EntriesEnd(cut)
      /\ \A i \in 2 .. EntriesEnd(cut) :
           EntriesEnd(cut) + cut[i].offset + cut[i].size <= Len(cut)
  BY DEF WellFormed
<1>4. k \in 1 .. n + Len(whole)
  <2>1. k # 0 BY <1>2, <1>3, EmptySeq
  <2>. QED BY <1>1, <2>1
<1> HIDE DEF cut
<1>5. EntriesEnd(cut) = 1 + n
  <2>1. cut[1] = Header(b) BY <1>1, <1>2, <1>4
  <2>2. Header(b).count = n
    <3>1. CountMax \in Nat BY TileWidths
    <3>. QED BY <1>1, <3>1 DEF Header, Least
  <2>. QED BY <2>1, <2>2 DEF EntriesEnd
<1>6. CASE n = 0
  <2>1. Len(whole) = 0
    <3>1. b = <<>> /\ Len(PayloadsOf(b)) = 0 /\ PayloadsOf(b) \in Seq(Seq(Bytes))
      BY <1>6, EmptySeq, TileShape
    <3>2. PayloadsOf(b) = <<>> BY <3>1, EmptySeq
    <3>3. whole = <<>> BY <3>1, <3>2 DEF FlattenSeq
    <3>. QED BY <3>3, EmptySeq
  <2>. QED BY <1>4, <1>6, <2>1
<1>7. CASE n # 0
  <2>1. n \in 1 .. n BY <1>1, <1>7
  <2>2. /\ Offset(b, n) \in Nat /\ Offset(b, n) + Len(b[n].payload) = Len(whole)
    BY <2>1, EntrySlice
  <2>3. 1 + n \in 2 .. EntriesEnd(cut) BY <1>1, <1>5, <1>7
  <2>4. 1 + n \in 1 .. k BY <1>1, <1>2, <1>3, <1>4, <1>5
  <2>5. cut[1 + n] = Entry(b, n) BY <1>1, <1>2, <2>1, <2>4
  <2>6. cut[1 + n].offset = Offset(b, n) /\ cut[1 + n].size = Len(b[n].payload)
    BY <2>5 DEF Entry
  <2>7. (1 + n) + cut[1 + n].offset + cut[1 + n].size <= k BY <1>2, <1>3, <1>5, <2>3
  <2>8. Len(b[n].payload) \in Nat
    <3>1. b[n].payload \in Seq(Bytes) BY <2>1, TileShape
    <3>. QED BY <3>1, LenProperties
  <2> HIDE DEF whole
  <2>9. (1 + n) + Offset(b, n) + Len(b[n].payload) <= k BY <2>6, <2>7
  <2>. QED BY <1>1, <1>4, <2>2, <2>8, <2>9
<1>. QED BY <1>6, <1>7

(* The codec as a whole: what comes out, of all of a frame or of its start. *)
LEMMA RoundTrip ==
    ASSUME NEW b \in Seq(Tiles), NEW k \in 0 .. Len(Encode(b))
    PROVE  LET f == SubSeq(Encode(b), 1, k) IN
           IF f = Encode(b)
           THEN Decode(f) = Some(Saturated(b)) <=> Fits(b)
           ELSE Len(b) <= CountMax => Decode(f) = None
<1> DEFINE f == SubSeq(Encode(b), 1, k)
           n == Len(b)
           base == Base(b)
           Tile(i) == [tx |-> (base % BaseMod) + Least(b[i].tx - base, DeltaMax),
                       nodes |-> Least(b[i].nodes, CounterMax),
                       payload |-> b[i].payload]
<1>1. /\ n \in Nat /\ DOMAIN b = 1 .. n
      /\ \A i \in 1 .. n : b[i] \in Tiles /\ b[i].tx \in Nat
  BY TileShape
<1>2. /\ base \in Nat /\ \A i \in 1 .. n : base <= b[i].tx
      /\ b # <<>> => \E i \in 1 .. n : b[i].tx = base
      /\ b = <<>> => base = 0
  BY <1>1, BaseLeast
<1>3. BaseMod \in Nat \ {0} /\ DeltaMax \in Nat /\ CountMax \in Nat BY TileWidths
<1>4. base % BaseMod \in Nat /\ base % BaseMod <= base /\ base % BaseMod < BaseMod
      /\ (base < BaseMod => base % BaseMod = base)
  <2> HIDE DEF base
  <2>. QED BY <1>2, <1>3
<1>5. \A i \in 1 .. n :
        Saturated(b)[i] = [tx |-> b[i].tx, nodes |-> Least(b[i].nodes, CounterMax),
                           payload |-> b[i].payload]
  BY <1>1 DEF Saturated, Tiles
<1>6. Saturated(b) = [i \in 1 .. n |-> Saturated(b)[i]] BY <1>1 DEF Saturated
<1>7. Fits(b) <=> /\ n <= CountMax
                  /\ \A i \in 1 .. n : b[i].tx - base <= DeltaMax
                  /\ base < BaseMod
  BY <1>1 DEF Fits, TxOf
<1> HIDE DEF f, base
<1>8. CASE f # Encode(b)
  <2>1. k # Len(Encode(b)) BY <1>8, CutShape DEF f
  <2>2. n <= CountMax => ~ WellFormed(f) BY <2>1, CutRejected DEF f
  <2>. QED BY <1>8, <2>2 DEF Decode, f
<1>9. CASE f = Encode(b)
  <2>1. CASE ~ (n <= CountMax)
    <3>1. Encode(b)[1] = Header(b) BY EncodeShape
    <3>2. f[1].count = CountMax
      <4>1. Header(b).count = Least(n, CountMax) BY DEF Header
      <4>2. Least(n, CountMax) = CountMax
        <5> HIDE DEF n
        <5>. QED BY <1>1, <1>3, <2>1 DEF Least
      <4>. QED BY <1>9, <3>1, <4>1, <4>2
    <3>3. ASSUME Decode(f) = Some(Saturated(b)) PROVE FALSE
      <4>1. WellFormed(f) BY <3>3 DEF Decode, Some, None
      <4>2. Saturated(b) = [i \in 1 .. f[1].count |-> DecodeEntry(f, f[i + 1])]
        BY <3>3, <4>1 DEF Decode, Some
      <4>3. DOMAIN Saturated(b) = 1 .. CountMax BY <3>2, <4>2
      <4>4. DOMAIN Saturated(b) = 1 .. n BY <1>1 DEF Saturated
      <4>5. n \in 1 .. n /\ n \notin 1 .. CountMax BY <1>1, <1>3, <2>1
      <4>. QED BY <4>3, <4>4, <4>5
    <3>. QED BY <1>7, <1>9, <2>1, <3>3 DEF f
  <2>2. CASE n <= CountMax
    <3> HIDE DEF Tile
    <3>1. Decode(f) = Some([i \in 1 .. n |-> Tile(i)])
      BY <1>9, <2>2, WholeDecodes DEF base, Tile
    <3>2. Decode(f) = Some(Saturated(b)) <=> \A i \in 1 .. n : Tile(i) = Saturated(b)[i]
      <4>1. Decode(f) = Some(Saturated(b)) <=> [i \in 1 .. n |-> Tile(i)] = Saturated(b)
        BY <3>1 DEF Some
      <4>. QED BY <1>6, <4>1
    <3>3. \A i \in 1 .. n : Tile(i) = Saturated(b)[i] <=>
            (base % BaseMod) + Least(b[i].tx - base, DeltaMax) = b[i].tx
      <4> SUFFICES ASSUME NEW i \in 1 .. n
                   PROVE  Tile(i) = Saturated(b)[i] <=>
                            (base % BaseMod) + Least(b[i].tx - base, DeltaMax) = b[i].tx
        OBVIOUS
      <4> DEFINE x == (base % BaseMod) + Least(b[i].tx - base, DeltaMax)
                 y == Least(b[i].nodes, CounterMax)
                 z == b[i].payload
      <4>1. Tile(i) = [tx |-> x, nodes |-> y, payload |-> z] BY DEF Tile
      <4>2. Saturated(b)[i] = [tx |-> b[i].tx, nodes |-> y, payload |-> z] BY <1>5
      <4> HIDE DEF x, y, z
      <4>3. Tile(i) = Saturated(b)[i] <=> x = b[i].tx BY <4>1, <4>2
      <4>. QED BY <4>3 DEF x
    <3>4. ASSUME Fits(b), NEW i \in 1 .. n
          PROVE  (base % BaseMod) + Least(b[i].tx - base, DeltaMax) = b[i].tx
      <4>1. base % BaseMod = base /\ b[i].tx - base <= DeltaMax BY <1>4, <1>7, <3>4
      <4>2. base \in Nat /\ b[i].tx \in Nat BY <1>1, <1>2
      <4>3. Least(b[i].tx - base, DeltaMax) = b[i].tx - base BY <1>3, <4>1, <4>2 DEF Least
      <4>. QED BY <4>1, <4>2, <4>3
    <3>5. ASSUME ~ Fits(b)
          PROVE  \E i \in 1 .. n : (base % BaseMod) + Least(b[i].tx - base, DeltaMax) # b[i].tx
      <4>1. CASE ~ (base < BaseMod)
        <5>1. b # <<>> BY <1>2, <1>3, <4>1
        <5>2. PICK i \in 1 .. n : b[i].tx = base BY <1>2, <5>1
        <5>3. Least(b[i].tx - base, DeltaMax) = 0 BY <1>2, <1>3, <5>2 DEF Least
        <5>4. base % BaseMod # base BY <1>2, <1>3, <1>4, <4>1
        <5>. QED BY <1>4, <5>2, <5>3, <5>4
      <4>2. CASE ~ (\A i \in 1 .. n : b[i].tx - base <= DeltaMax)
        <5>1. PICK i \in 1 .. n : ~ (b[i].tx - base <= DeltaMax) BY <4>2
        <5>3. base \in Nat /\ b[i].tx \in Nat BY <1>1, <1>2
        <5>2. Least(b[i].tx - base, DeltaMax) = DeltaMax BY <1>3, <5>1, <5>3 DEF Least
        <5>4. base % BaseMod \in Nat /\ base % BaseMod <= base BY <1>3, <1>4, <5>3
        <5>5. (base % BaseMod) + DeltaMax < b[i].tx
          <6> DEFINE low == base % BaseMod
          <6> HIDE DEF low
          <6>1. low \in Nat /\ low <= base BY <5>4 DEF low
          <6>2. low + DeltaMax < b[i].tx BY <1>3, <5>1, <5>3, <6>1
          <6>. QED BY <6>2 DEF low
        <5>6. (base % BaseMod) + DeltaMax # b[i].tx BY <1>3, <5>3, <5>4, <5>5
        <5>. QED BY <5>2, <5>6
      <4>. QED BY <1>7, <2>2, <3>5, <4>1, <4>2
    <3>6. Decode(f) = Some(Saturated(b)) <=> Fits(b) BY <3>2, <3>3, <3>4, <3>5
    <3>. QED BY <1>9, <3>6 DEF f
  <2>. QED BY <2>1, <2>2
<1>. QED BY <1>8, <1>9

(* What is on the way is the frame of the batch, what has come its start.   *)
TileInv ==
    /\ batch \in Seq(Tiles) /\ Len(batch) <= MaxTiles
    /\ stage \in {"built", "sent", "received"}
    /\ stage = "built" => frame = <<>>
    /\ stage = "sent" => frame = Encode(batch)
    /\ stage = "received" =>
          \E n \in 0 .. Len(Encode(batch)) : frame = SubSeq(Encode(batch), 1, n)
    /\ decoded = IF stage = "received" THEN Decode(frame) ELSE None

LEMMA InitTile == TileInit => TileInv
<1>1. MaxTiles \in Nat BY TileWidths
<1>2. <<>> \in Seq(Tiles) /\ Len(<<>>) = 0 BY EmptySeq
<1>. QED BY <1>1, <1>2 DEF TileInit, TileInv

LEMMA NextTile == TileInv /\ [TileNext]_tile_vars => TileInv'
<1> SUFFICES ASSUME TileInv, [TileNext]_tile_vars PROVE TileInv' OBVIOUS
<1>1. CASE Add
  <2>1. PICK t \in Tiles : stage = "built" /\ Len(batch) < MaxTiles /\ batch' = Append(batch, t)
    BY <1>1 DEF Add
  <2>2. frame' = frame /\ decoded' = decoded /\ stage' = stage BY <1>1 DEF Add
  <2>3. batch \in Seq(Tiles) BY DEF TileInv
  <2>4. batch' \in Seq(Tiles) /\ Len(batch') = Len(batch) + 1
    BY <2>1, <2>3, AppendProperties
  <2>5. Len(batch') <= MaxTiles
    <3>1. Len(batch) \in Nat /\ MaxTiles \in Nat BY <2>3, TileWidths
    <3>. QED BY <2>1, <2>4, <3>1
  <2>. QED BY <2>1, <2>2, <2>4, <2>5 DEF TileInv
<1>2. CASE SendFrame BY <1>2 DEF SendFrame, TileInv
<1>3. CASE ReceiveFrame
  <2>1. PICK n \in 0 .. Len(frame) :
          /\ stage = "sent" /\ stage' = "received" /\ frame' = SubSeq(frame, 1, n)
          /\ decoded' = Decode(frame') /\ batch' = batch
    BY <1>3 DEF ReceiveFrame
  <2>. QED BY <2>1 DEF TileInv
<1>4. CASE UNCHANGED tile_vars BY <1>4 DEF tile_vars, TileInv
<1>. QED BY <1>1, <1>2, <1>3, <1>4 DEF TileNext

LEMMA TileInvRoundTrip == TileInv => TileRoundTrip
<1> SUFFICES ASSUME TileInv, stage = "received" PROVE TileRoundTrip BY DEF TileRoundTrip
<1>1. PICK n \in 0 .. Len(Encode(batch)) : frame = SubSeq(Encode(batch), 1, n)
  BY DEF TileInv
<1>2. batch \in Seq(Tiles) /\ decoded = Decode(frame) BY DEF TileInv
<1>. QED BY <1>1, <1>2, RoundTrip DEF TileRoundTrip

LEMMA TileInvType == TileInv => TileTypeOK
<1> SUFFICES ASSUME TileInv PROVE TileTypeOK OBVIOUS
<1>1. batch \in Seq(Tiles) BY DEF TileInv
<1>2. \A b \in Seq(Tiles) : Encode(b)[1].count \in 0 .. CountMax
  <2> SUFFICES ASSUME NEW b \in Seq(Tiles) PROVE Encode(b)[1].count \in 0 .. CountMax OBVIOUS
  <2>1. Encode(b)[1] = Header(b) BY EncodeShape
  <2>2. Len(b) \in Nat /\ CountMax \in Nat BY TileWidths
  <2>. QED BY <2>1, <2>2 DEF Header, Least
<1>3. frame = <<>> \/ frame[1].count \in 0 .. CountMax
  <2>1. CASE stage = "received"
    <3>1. PICK n \in 0 .. Len(Encode(batch)) : frame = SubSeq(Encode(batch), 1, n)
      BY <2>1 DEF TileInv
    <3>2. /\ frame \in Seq(Cells(batch)) /\ Len(frame) = n
          /\ \A x \in 1 .. n : frame[x] = Encode(batch)[x]
      BY <1>1, <3>1, CutShape
    <3>3. CASE n = 0 BY <3>2, <3>3, EmptySeq
    <3>4. CASE n # 0
      <4>1. 1 \in 1 .. n BY <3>2, <3>4, LenProperties
      <4>. QED BY <1>1, <1>2, <3>2, <4>1
    <3>. QED BY <3>3, <3>4
  <2>2. CASE stage # "received" BY <1>1, <1>2, <2>2 DEF TileInv
  <2>. QED BY <2>1, <2>2
<1>4. decoded = None \/ \E n \in 0 .. CountMax : DOMAIN decoded[1] = 1 .. n
  <2>1. CASE decoded # None
    <3>1. decoded = Decode(frame) BY <2>1 DEF TileInv
    <3>2. WellFormed(frame) BY <2>1, <3>1 DEF Decode
    <3>3. decoded[1] = [i \in 1 .. frame[1].count |-> DecodeEntry(frame, frame[i + 1])]
      BY <3>1, <3>2 DEF Decode, Some
    <3>4. frame # <<>> BY <3>2 DEF WellFormed
    <3>. QED BY <1>3, <3>3, <3>4
  <2>. QED BY <2>1
<1>5. frame = <<>> \/ frame[1].count <= CountMax
  <2>1. CountMax \in Nat BY TileWidths
  <2>. QED BY <1>3, <2>1
<1>. QED BY <1>1, <1>4, <1>5 DEF TileInv, TileTypeOK

(* A frame decodes to its batch exactly if the batch fits in it, and the    *)
(* start of a frame to nothing: for any tiles, payloads and widths.         *)
THEOREM FramesRoundTrip == TileSpec => []TileRoundTrip
<1>1. TileSpec => []TileInv BY InitTile, NextTile, PTL DEF TileSpec
<1>. QED BY <1>1, TileInvRoundTrip, PTL

-----------------------------------------------------------------------------
(* The spin lock *)

(* What a thread knows inside a section it has begun.                       *)
Sections == \A t \in Threads :
    /\ pc[t] \in {"try", "spin", "in"} => op[t] \in {"clone", "drop", "upgrade", "sync"}
    /\ pc[t] = "push" =>
          /\ op[t] \in {"clone", "drop", "upgrade"}
          /\ op[t] = "upgrade" => epoch = 0
          /\ seen[t] = IF op[t] = "drop" THEN sub_ref ELSE add_ref
    /\ pc[t] = "drain" => op[t] = "sync" /\ add_ref = 0

SpinInv == LockTypeOK /\ Exclusion /\ Sections

(* The threads start outside. *)
LEMMA InitSpin == LockInit => SpinInv
<1> SUFFICES ASSUME LockInit PROVE SpinInv OBVIOUS
<1>1. LockTypeOK
  <2>1. PICK h \in Threads : held = [t \in Threads |-> IF t = h THEN 1 ELSE 0]
    BY DEF LockInit
  <2>2. held \in [Threads -> Int] BY <2>1
  <2>3. /\ lock = FALSE /\ add_ref = 0 /\ sub_ref = 0 /\ epoch = 0 /\ meta = 1
        /\ pc = [t \in Threads |-> "out"] /\ op = [t \in Threads |-> "none"]
        /\ seen = [t \in Threads |-> 0] /\ ops_left = [t \in Threads |-> MaxOps]
    BY DEF LockInit
  <2>4. ops_left \in [Threads -> 0 .. MaxOps] BY <2>3, MaxOpsNat
  <2>5. pc \in [Threads -> Places] BY <2>3 DEF Places
  <2>6. /\ op \in [Threads -> {"none", "clone", "drop", "upgrade", "sync", "fmt"}]
        /\ seen \in [Threads -> Nat]
    BY <2>3
  <2>7. lock \in BOOLEAN BY <2>3
  <2>8. add_ref \in Nat /\ sub_ref \in Nat /\ epoch \in Nat /\ meta \in Int BY <2>3
  <2>. QED BY <2>2, <2>4, <2>5, <2>6, <2>7, <2>8 DEF LockTypeOK
<1>2. Exclusion BY DEF LockInit, Exclusion, Inside
<1>3. Sections BY DEF LockInit, Sections
<1>. QED BY <1>1, <1>2, <1>3 DEF SpinInv

(* Coming to the lock and leaving it keep the invariant. *)
LEMMA DoorInv ==
    ASSUME SpinInv, NEW t \in Threads,
           \/ \E k \in {"clone", "drop", "upgrade", "sync"} : Enter(t, k)
           \/ CompareExchange(t) \/ Spin(t) \/ Fmt(t) \/ Unlock(t)
    PROVE  SpinInv'
<1>1. LockTypeOK'
  <2>1. CASE \E k \in {"clone", "drop", "upgrade", "sync"} : Enter(t, k)
    <3>1. ops_left'[t] \in 0 .. MaxOps /\ ops_left' = [ops_left EXCEPT ![t] = ops_left'[t]]
      BY <2>1, MaxOpsNat DEF SpinInv, LockTypeOK, Enter
    <3>. QED BY <2>1, <3>1 DEF SpinInv, LockTypeOK, Enter, Move, Places, pending
  <2>2. CASE Fmt(t)
    <3>1. ops_left'[t] \in 0 .. MaxOps /\ ops_left' = [ops_left EXCEPT ![t] = ops_left'[t]]
      BY <2>2, MaxOpsNat DEF SpinInv, LockTypeOK, Fmt
    <3>. QED BY <2>2, <3>1 DEF SpinInv, LockTypeOK, Fmt, Move, Places, pending
  <2>3. CASE CompareExchange(t) \/ Spin(t) \/ Unlock(t)
    BY <2>3 DEF SpinInv, LockTypeOK, CompareExchange, Spin, Unlock, Move, Places, pending
  <2>. QED BY <2>1, <2>2, <2>3
<1>2. Exclusion'
  <2>1. CASE \E k \in {"clone", "drop", "upgrade", "sync"} : Enter(t, k)
    BY <2>1 DEF SpinInv, LockTypeOK, Exclusion, Inside, Enter, Move
  <2>2. CASE CompareExchange(t)
    BY <2>2 DEF SpinInv, LockTypeOK, Exclusion, Inside, CompareExchange, Move
  <2>3. CASE Spin(t)
    BY <2>3 DEF SpinInv, LockTypeOK, Exclusion, Inside, Spin, Move
  <2>4. CASE Fmt(t)
    BY <2>4 DEF SpinInv, LockTypeOK, Exclusion, Inside, Fmt, Move
  <2>5. CASE Unlock(t)
    BY <2>5 DEF SpinInv, LockTypeOK, Exclusion, Inside, Unlock, Move
  <2>. QED BY <2>1, <2>2, <2>3, <2>4, <2>5
<1>3. Sections'
  BY DEF SpinInv, LockTypeOK, Sections, Enter, CompareExchange, Spin, Fmt, Unlock, Move, pending
<1>. QED BY <1>1, <1>2, <1>3 DEF SpinInv

(* The steps of the critical sections keep it: nobody else is inside. *)
LEMMA SectionInv ==
    ASSUME SpinInv, NEW t \in Threads,
           ReadLength(t) \/ Push(t) \/ Dead(t) \/ DrainAdds(t) \/ DrainSubs(t)
    PROVE  SpinInv'
<1>1. LockTypeOK'
  <2>1. CASE ReadLength(t) \/ Dead(t)
    BY <2>1 DEF SpinInv, LockTypeOK, ReadLength, Dead, Move, Places, pending
  <2>2. CASE Push(t)
    BY <2>2 DEF SpinInv, LockTypeOK, Push, Move, Places
  <2>3. CASE DrainAdds(t) \/ DrainSubs(t)
    BY <2>3 DEF SpinInv, LockTypeOK, DrainAdds, DrainSubs, Drained, Renewed, Move, Places
  <2>. QED BY <2>1, <2>2, <2>3
<1>2. Inside(t) /\ Inside(t)' /\ lock' = lock
      /\ \A u \in Threads : u # t => pc'[u] = pc[u] /\ op'[u] = op[u] /\ ~Inside(u)
  BY DEF SpinInv, LockTypeOK, Exclusion, Inside, ReadLength, Push, Dead, DrainAdds, DrainSubs, Move
<1>3. Exclusion' BY <1>2 DEF SpinInv, Exclusion, Inside
<1>4. Sections'
  <2>1. \A u \in Threads : u # t => pc'[u] \notin {"in", "push", "drain"}
    BY <1>2 DEF Inside
  <2>2. /\ pc'[t] = "push" =>
             /\ op'[t] \in {"clone", "drop", "upgrade"}
             /\ op'[t] = "upgrade" => epoch' = 0
             /\ seen'[t] = IF op'[t] = "drop" THEN sub_ref' ELSE add_ref'
        /\ pc'[t] = "drain" => op'[t] = "sync" /\ add_ref' = 0
        /\ pc'[t] \notin {"try", "spin", "in"}
    BY DEF SpinInv, LockTypeOK, ReadLength, Push, Dead, DrainAdds, DrainSubs, Move, pending
  <2>. QED BY <1>2, <2>1, <2>2 DEF SpinInv, Sections
<1>. QED BY <1>1, <1>3, <1>4 DEF SpinInv

(* Every step keeps it. *)
LEMMA SpinStep == SpinInv /\ [LockNext]_lock_vars => SpinInv'
<1> SUFFICES ASSUME SpinInv, [LockNext]_lock_vars PROVE SpinInv' OBVIOUS
<1>1. CASE UNCHANGED lock_vars
  BY <1>1 DEF lock_vars, pending, SpinInv, LockTypeOK, Exclusion, Inside, Sections
<1>. QED BY <1>1, DoorInv, SectionInv DEF LockNext, LockStep

(* The flag, the places of the threads and what they have read agree.       *)
THEOREM SpinInvariant == LockSpec => []SpinInv
<1>. QED BY InitSpin, SpinStep, PTL DEF LockSpec

(* Mutual exclusion: at most one guard of the Mutex is alive.               *)
THEOREM MutualExclusion == LockSpec => []Exclusion
<1>1. SpinInv => Exclusion BY DEF SpinInv
<1>. QED BY <1>1, SpinInvariant, PTL

-----------------------------------------------------------------------------
(* The spin lock: the refinement *)

WantedBar == [t \in Threads |->
    IF pc[t] \in {"try", "spin", "in", "push"} THEN op[t] ELSE "none"]

(* A step of t changes what t wants, and what nobody else wants. *)
LEMMA WantedMaps ==
    ASSUME NEW t \in Threads, NEW k,
           \A u \in Threads : u # t => pc'[u] = pc[u] /\ op'[u] = op[u],
           k = IF pc'[t] \in {"try", "spin", "in", "push"} THEN op'[t] ELSE "none"
    PROVE  WantedBar' = [WantedBar EXCEPT ![t] = k]
BY DEF WantedBar

(* Steps that move no effect: outside, at the lock, and inside before it. *)
LEMMA QuietMaps ==
    ASSUME SpinInv, NEW t \in Threads,
           \/ CompareExchange(t) \/ Spin(t) \/ Fmt(t) \/ Unlock(t)
           \/ ReadLength(t) \/ DrainSubs(t)
    PROVE  UNCHANGED Ops!op_vars
<1>1. UNCHANGED <<add_ref, held>>
  BY DEF CompareExchange, Spin, Fmt, Unlock, ReadLength, DrainSubs, pending
<1>2. WantedBar' = WantedBar
  <2>1. \A u \in Threads : u # t => pc'[u] = pc[u] /\ op'[u] = op[u]
    BY DEF SpinInv, LockTypeOK, CompareExchange, Spin, Fmt, Unlock, ReadLength, DrainSubs, Move
  <2>2. WantedBar'[t] = WantedBar[t]
    BY DEF SpinInv, LockTypeOK, CompareExchange, Spin, Fmt, Unlock, ReadLength, DrainSubs, Move, WantedBar
  <2>. QED BY <2>1, <2>2 DEF WantedBar
<1>3. UNCHANGED << IF Draining THEN 0 ELSE sub_ref,
                   IF Draining THEN Drained ELSE meta,
                   IF Draining THEN Renewed ELSE epoch >>
  <2>1. CASE DrainSubs(t)
    <3>1. Draining BY <2>1 DEF DrainSubs, Move, Draining
    <3>2. ~Draining'
      BY <2>1 DEF SpinInv, LockTypeOK, Exclusion, Inside, DrainSubs, Move, Draining
    <3>. QED BY <2>1, <3>1, <3>2 DEF DrainSubs
  <2>2. CASE CompareExchange(t) \/ Spin(t) \/ Fmt(t) \/ Unlock(t) \/ ReadLength(t)
    <3>1. Draining' <=> Draining
      BY <2>2 DEF SpinInv, LockTypeOK, CompareExchange, Spin, Fmt, Unlock, ReadLength, Move, Draining
    <3>2. UNCHANGED <<sub_ref, meta, epoch>>
      BY <2>2 DEF CompareExchange, Spin, Fmt, Unlock, ReadLength, pending
    <3>. QED BY <3>1, <3>2 DEF Drained, Renewed
  <2>. QED BY <2>1, <2>2
<1>. QED BY <1>1, <1>2, <1>3 DEF Ops!op_vars, WantedBar

(* An operation is called when its thread comes to the lock. *)
LEMMA EnterMaps ==
    ASSUME SpinInv, NEW t \in Threads, NEW k \in {"clone", "drop", "upgrade", "sync"},
           Enter(t, k)
    PROVE  Ops!Call(t)
<1>1. pc[t] = "out" /\ pc'[t] = "try" /\ op'[t] = k
      /\ \A u \in Threads : u # t => pc'[u] = pc[u] /\ op'[u] = op[u]
  BY DEF SpinInv, LockTypeOK, Enter, Move
<1>2. WantedBar[t] = "none" /\ WantedBar' = [WantedBar EXCEPT ![t] = k]
  BY <1>1, WantedMaps DEF WantedBar
<1>3. Draining' <=> Draining
  BY DEF SpinInv, LockTypeOK, Enter, Move, Draining
<1>4. UNCHANGED <<add_ref, sub_ref, meta, epoch, held>> BY DEF Enter, pending
<1>. QED
  BY <1>2, <1>3, <1>4 DEF Ops!Call, Ops!Kinds, WantedBar, Drained, Renewed

(* A push is the effect of a clone, a drop or an upgrade that found the     *)
(* component; a failed upgrade takes effect with its look at the epoch.     *)
LEMMA PushMaps ==
    ASSUME SpinInv, NEW t \in Threads, Push(t) \/ Dead(t)
    PROVE  Ops!Effect(t)
<1>1. pc[t] \in {"in", "push"} /\ pc'[t] = "unlock"
      /\ \A u \in Threads : u # t => pc'[u] = pc[u] /\ op'[u] = op[u]
  BY DEF SpinInv, LockTypeOK, Push, Dead, Move
<1>2. WantedBar[t] = op[t] /\ WantedBar' = [WantedBar EXCEPT ![t] = "none"]
  BY <1>1, WantedMaps DEF WantedBar
<1>3. ~Draining /\ ~Draining'
  BY <1>1 DEF SpinInv, Exclusion, Inside, Draining
<1>4. CASE Dead(t)
  <2>1. op[t] = "upgrade" /\ epoch # 0 /\ UNCHANGED <<add_ref, sub_ref, meta, epoch, held>>
    BY <1>4 DEF Dead, pending
  <2>2. Ops!Upgrade(t)
    BY <1>2, <1>3, <2>1 DEF Ops!Upgrade, Ops!Done, WantedBar
  <2>. QED BY <2>2 DEF Ops!Effect
<1>5. CASE Push(t)
  <2>1. /\ op[t] \in {"clone", "drop", "upgrade"}
        /\ op[t] = "upgrade" => epoch = 0
        /\ seen[t] = IF op[t] = "drop" THEN sub_ref ELSE add_ref
    BY <1>5 DEF Push, Move, SpinInv, Sections
  <2>2. CASE op[t] = "drop"
    <3>1. Ops!Drop(t)
      BY <1>2, <1>3, <1>5, <2>1, <2>2 DEF Push, Ops!Drop, Ops!Done, WantedBar
    <3>. QED BY <3>1 DEF Ops!Effect
  <2>3. CASE op[t] # "drop"
    <3>1. Ops!Gain(t)
      BY <1>3, <1>5, <2>1, <2>3 DEF Push, Ops!Gain
    <3>2. CASE op[t] = "clone"
      BY <1>2, <3>1, <3>2 DEF Ops!Effect, Ops!Clone, Ops!Done, WantedBar
    <3>3. CASE op[t] = "upgrade"
      BY <1>2, <1>3, <2>1, <3>1, <3>3 DEF Ops!Effect, Ops!Upgrade, Ops!Done, WantedBar
    <3>. QED BY <2>1, <2>3, <3>2, <3>3
  <2>. QED BY <2>2, <2>3
<1>. QED BY <1>4, <1>5

(* A sync takes effect with its first loop. *)
LEMMA DrainMaps ==
    ASSUME SpinInv, NEW t \in Threads, DrainAdds(t)
    PROVE  Ops!Effect(t)
<1>1. pc[t] = "in" /\ pc'[t] = "drain" /\ op[t] = "sync"
      /\ \A u \in Threads : u # t => pc'[u] = pc[u] /\ op'[u] = op[u]
  BY DEF SpinInv, LockTypeOK, DrainAdds, Move
<1>2. WantedBar[t] = "sync" /\ WantedBar' = [WantedBar EXCEPT ![t] = "none"]
  BY <1>1, WantedMaps DEF WantedBar
<1>3. ~Draining /\ Draining'
  BY <1>1 DEF SpinInv, Exclusion, Inside, Draining
<1>4. /\ UNCHANGED <<sub_ref, epoch, held>>
      /\ add_ref' = 0 /\ Drained' = meta + add_ref - sub_ref
  BY DEF DrainAdds, Drained, SpinInv, LockTypeOK
<1>5. Ops!Sync(t)
  BY <1>2, <1>3, <1>4 DEF Ops!Sync, Ops!Done, WantedBar, Renewed
<1>. QED BY <1>5 DEF Ops!Effect

(* Every step behind the lock is a call, an effect, or nothing to see. *)
LEMMA LockStepMaps == SpinInv /\ [LockNext]_lock_vars => [Ops!OpNext]_(Ops!op_vars)
<1> SUFFICES ASSUME SpinInv, [LockNext]_lock_vars PROVE [Ops!OpNext]_(Ops!op_vars)
  OBVIOUS
<1>1. ASSUME NEW t \in Threads,
             \E k \in {"clone", "drop", "upgrade", "sync"} : Enter(t, k)
      PROVE  Ops!OpNext
  BY <1>1, EnterMaps DEF Ops!OpNext
<1>2. ASSUME NEW t \in Threads, Fmt(t) PROVE UNCHANGED Ops!op_vars
  BY <1>2, QuietMaps
<1>3. ASSUME NEW t \in Threads, LockStep(t)
      PROVE  Ops!OpNext \/ UNCHANGED Ops!op_vars
  <2>1. CASE CompareExchange(t) \/ Spin(t) \/ Unlock(t) \/ ReadLength(t) \/ DrainSubs(t)
    BY <2>1, QuietMaps
  <2>2. CASE Push(t) \/ Dead(t) BY <2>2, PushMaps DEF Ops!OpNext
  <2>3. CASE DrainAdds(t) BY <2>3, DrainMaps DEF Ops!OpNext
  <2>. QED BY <1>3, <2>1, <2>2, <2>3 DEF LockStep
<1>4. CASE UNCHANGED lock_vars
  BY <1>4 DEF lock_vars, pending, Ops!op_vars, Draining, Drained, Renewed
<1>. QED BY <1>1, <1>2, <1>3, <1>4 DEF LockNext

(* The safety part of Linearized: clone, drop, upgrade and sync_pending are *)
(* atomic, as the module Storage takes them to be.                          *)
THEOREM Atomicity == LockSpec => Ops!OpInit /\ [][Ops!OpNext]_(Ops!op_vars)
<1>1. LockInit => Ops!OpInit
  <2> SUFFICES ASSUME LockInit PROVE Ops!OpInit OBVIOUS
  <2>1. ~Draining BY DEF LockInit, Draining
  <2>. QED BY <2>1 DEF LockInit, Ops!OpInit
<1>. QED BY <1>1, LockStepMaps, SpinInvariant, PTL DEF LockSpec

-----------------------------------------------------------------------------
(* The packed pointer word *)

Indices == 0 .. IndexMod - 1
Epochs == 0 .. EpochMod - 1
StorageIds == 0 .. StorageMod - 1

(* Whatever the epoch and the storage id, the index is what was packed, and *)
(* the rest of the word is the other two.                                   *)
LEMMA IndexApart ==
    ASSUME NEW i \in Indices, NEW e \in Nat, NEW s \in Nat
    PROVE  /\ PackedWord(i, e, s) \in Nat
           /\ GetIndex(PackedWord(i, e, s)) = i
           /\ PackedWord(i, e, s) \div IndexMod = e + EpochMod * s
<1> DEFINE high == e + EpochMod * s
<1>1. EpochMod * s \in Nat BY FieldWidths
<1>2. high \in Nat BY <1>1
<1> HIDE DEF high
<1>3. /\ i + IndexMod * high \in Nat
      /\ (i + IndexMod * high) % IndexMod = i
      /\ (i + IndexMod * high) \div IndexMod = high
  BY <1>2, FieldWidths, DivMod DEF Indices
<1>. QED BY <1>3 DEF high, PackedWord, GetIndex

(* The fields of a word are what it was packed from: no field shows in      *)
(* another, as long as each is within its width.                            *)
THEOREM FieldsApart ==
    ASSUME NEW i \in Indices, NEW e \in Epochs, NEW s \in StorageIds
    PROVE  /\ GetIndex(PackedWord(i, e, s)) = i
           /\ GetEpoch(PackedWord(i, e, s)) = e
           /\ GetStorageId(PackedWord(i, e, s)) = s
<1>1. e \in Nat /\ s \in Nat BY FieldWidths DEF Epochs, StorageIds
<1>2. /\ GetIndex(PackedWord(i, e, s)) = i
      /\ PackedWord(i, e, s) \div IndexMod = e + EpochMod * s
  BY <1>1, IndexApart
<1>3. (e + EpochMod * s) % EpochMod = e /\ (e + EpochMod * s) \div EpochMod = s
  BY <1>1, FieldWidths, DivMod DEF Epochs
<1>4. s % StorageMod = s BY FieldWidths DEF StorageIds
<1>. QED BY <1>2, <1>3, <1>4 DEF GetEpoch, GetStorageId

(* Equality and hash of a Pointer are those of its word: they are equality  *)
(* of slot, epoch and storage.                                              *)
THEOREM WordsTellApart ==
    ASSUME NEW i \in Indices, NEW e \in Epochs, NEW s \in StorageIds,
           NEW j \in Indices, NEW f \in Epochs, NEW r \in StorageIds
    PROVE  PackedWord(i, e, s) = PackedWord(j, f, r) <=> i = j /\ e = f /\ s = r
<1>1. ASSUME PackedWord(i, e, s) = PackedWord(j, f, r) PROVE i = j /\ e = f /\ s = r
  BY <1>1, FieldsApart
<1>. QED BY <1>1

(* CursorItem::pin replaces the epoch of an item's word, and nothing else.  *)
THEOREM EpochReplaced ==
    ASSUME NEW i \in Indices, NEW e \in Epochs, NEW s \in StorageIds, NEW f \in Epochs
    PROVE  WithEpoch(PackedWord(i, e, s), f) = PackedWord(i, f, s)
<1> DEFINE n == IndexMod * (EpochMod * s)
<1>1. e \in Nat /\ f \in Nat /\ s \in Nat /\ i \in Nat
  BY FieldWidths DEF Indices, Epochs, StorageIds
<1>2. EpochMod * s \in Nat BY <1>1, FieldWidths
<1>3. n \in Nat /\ IndexMod * e \in Nat /\ IndexMod * f \in Nat
  BY <1>1, <1>2, FieldWidths
<1>4. \A x \in Nat : IndexMod * (x + EpochMod * s) = IndexMod * x + n
  BY <1>2, FieldWidths
<1>5. /\ PackedWord(i, e, s) = i + (IndexMod * e + n)
      /\ PackedWord(i, f, s) = i + (IndexMod * f + n)
  BY <1>1, <1>4 DEF PackedWord
<1>6. WithEpoch(PackedWord(i, e, s), f)
        = PackedWord(i, e, s) - IndexMod * e + IndexMod * f
  BY FieldsApart DEF WithEpoch
<1> HIDE DEF n
<1>. QED BY <1>1, <1>3, <1>5, <1>6

(* An epoch one too large for its field reads as epoch 0 of the next        *)
(* storage: on 32-bit targets that is epoch 256, and get_epoch of a word    *)
(* never equals the u16 kept in pending again.                              *)
THEOREM EpochSpills ==
    ASSUME NEW i \in Indices, NEW s \in StorageIds
    PROVE  /\ GetEpoch(PackedWord(i, EpochMod, s)) = 0
           /\ GetStorageId(PackedWord(i, EpochMod, s)) = (s + 1) % StorageMod
<1>1. s \in Nat /\ s + 1 \in Nat /\ EpochMod \in Nat
  BY FieldWidths DEF StorageIds
<1>2. EpochMod + EpochMod * s = 0 + EpochMod * (s + 1) BY <1>1
<1>3. PackedWord(i, EpochMod, s) \div IndexMod = 0 + EpochMod * (s + 1)
  BY <1>1, <1>2, IndexApart
<1>4. /\ (0 + EpochMod * (s + 1)) % EpochMod = 0
      /\ (0 + EpochMod * (s + 1)) \div EpochMod = s + 1
  BY <1>1, FieldWidths, DivMod
<1>. QED BY <1>3, <1>4 DEF GetEpoch, GetStorageId

-----------------------------------------------------------------------------
(* The parts together *)

PartsInv == SpinInv /\ TileInv /\ BlobInv

(* Whichever part a behaviour is of, the lock, the batch and the download   *)
(* keep their types.                                                        *)
THEOREM PartsTypes == Spec => []TypeOK
<1>1. Init => PartsInv
  <2> SUFFICES ASSUME Init PROVE PartsInv OBVIOUS
  <2>1. LockInit /\ TileInit /\ BlobInit BY DEF Init
  <2>. QED BY <2>1, InitSpin, InitTile, InitBlob DEF PartsInv
<1>2. PartsInv /\ [Next]_vars => PartsInv'
  <2> SUFFICES ASSUME PartsInv, [Next]_vars PROVE PartsInv' OBVIOUS
  <2>1. [LockNext]_lock_vars /\ [TileNext]_tile_vars /\ [BlobNext]_blob_vars
    BY DEF Next, vars
  <2>. QED BY <2>1, SpinStep, NextTile, NextBlob DEF PartsInv
<1>3. PartsInv => TypeOK
  BY TileInvType DEF PartsInv, SpinInv, BlobInv, TypeOK
<1>. QED BY <1>1, <1>2, <1>3, PTL DEF Spec

=============================================================================
