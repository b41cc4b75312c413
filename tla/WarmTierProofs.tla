---------------------------- MODULE WarmTierProofs ----------------------------
(***************************************************************************)
(* Proofs about WarmTier, for a file of any capacity that is not reopened  *)
(* and whose records have one size: it never lies, and implements          *)
(* LossyCache.  The run warm_mixed shows that one size is needed.          *)
(***************************************************************************)
EXTENDS WarmTier, SequenceTheorems, TLAPS

OneSize == Positioned = {} \/ Positioned = Rows

\* The cells of a record, and of a record with the gap behind it.
Size == IF Positioned = {} THEN 6 ELSE 8
Step == Size + 2

Aligned(o) == \E k \in Nat : o = k * Step

InPlace(q) ==
    /\ index[q] \in CacheEntry
    /\ index[q].len = Size /\ Aligned(index[q].offset)
    /\ index[q].offset + Size <= file_len
    /\ \A k \in 0 .. Size - 1 : file[index[q].offset + k] = Record(q)[k + 1]

RingInv ==
    /\ WarmTypeOK /\ restarts = 0
    /\ Aligned(write_offset)
    /\ DOMAIN index \subseteq Rows
    /\ \A q \in DOMAIN index : InPlace(q)
    /\ \A p, q \in DOMAIN index : p # q => index[p].offset # index[q].offset

-----------------------------------------------------------------------------
(* Records *)

(* A record is as long as every other, and its cells are numbers. *)
LEMMA RecordShape ==
    ASSUME OneSize, NEW r \in Rows
    PROVE  /\ Total(r) = Size /\ EntryLen(r) = Step
           /\ \A k \in 1 .. Size : Record(r)[k] \in Nat
           /\ Record(r)[4] = IF r \in Positioned THEN 1 ELSE 0
           /\ r \in Positioned => Record(r)[5] = X(r) /\ Record(r)[6] = Y(r)
<1>1. r \in Nat /\ X(r) \in Nat /\ Y(r) \in Nat BY RowsOK DEF X, Y
<1> DEFINE head == <<r, 0, Len(Payload(r))>>
<1>2. Payload(r) \in Seq(Nat) BY <1>1 DEF Payload
<1>3. /\ head \in Seq(Nat) /\ Len(head) = 3 BY <1>1, <1>2
<1>4. Record(r) = head \o Payload(r) BY DEF Record
<1> HIDE DEF head
<1>5. /\ Record(r) \in Seq(Nat) /\ Len(Record(r)) = 3 + Len(Payload(r))
      /\ \A k \in 1 .. 3 + Len(Payload(r)) :
            Record(r)[k] = IF k <= 3 THEN head[k] ELSE Payload(r)[k - 3]
  <2> DEFINE payload == Payload(r)
  <2>1. payload \in Seq(Nat) BY <1>2
  <2> HIDE DEF payload
  <2>2. /\ head \o payload \in Seq(Nat)
        /\ Len(head \o payload) = Len(head) + Len(payload)
        /\ \A k \in 1 .. Len(head) + Len(payload) :
              (head \o payload)[k] = IF k <= Len(head) THEN head[k] ELSE payload[k - Len(head)]
    BY <1>3, <2>1, ConcatProperties
  <2>3. Record(r) = head \o payload BY <1>4 DEF payload
  <2>4. /\ Record(r) \in Seq(Nat) /\ Len(Record(r)) = 3 + Len(payload)
        /\ \A k \in 1 .. 3 + Len(payload) :
              Record(r)[k] = IF k <= 3 THEN head[k] ELSE payload[k - 3]
    BY <1>3, <2>2, <2>3
  <2>. QED BY <2>4 DEF payload
<1>0. \A k \in 1 .. Len(Record(r)) : Record(r)[k] \in Nat BY <1>5, ElementOfSeq
<1>6. CASE r \in Positioned
  <2>1. Size = 8 BY <1>6 DEF Size
  <2>2. /\ Len(Payload(r)) = 5 /\ Payload(r)[1] = 1
        /\ Payload(r)[2] = X(r) /\ Payload(r)[3] = Y(r)
    BY <1>6 DEF Payload
  <2>3. Record(r)[4] = 1 /\ Record(r)[5] = X(r) /\ Record(r)[6] = Y(r) BY <1>5, <2>2
  <2>4. Total(r) = 8 /\ \A k \in 1 .. 8 : Record(r)[k] \in Nat
    BY <1>0, <1>5, <2>2 DEF Total
  <2>. QED BY <1>6, <2>1, <2>3, <2>4 DEF EntryLen, RowidLen, Step
<1>7. CASE r \notin Positioned
  <2>1. Size = 6 BY <1>7 DEF OneSize, Size
  <2>2. Len(Payload(r)) = 3 /\ Payload(r)[1] = 0 BY <1>7 DEF Payload
  <2>3. Record(r)[4] = 0 BY <1>5, <2>2
  <2>4. Total(r) = 6 /\ \A k \in 1 .. 6 : Record(r)[k] \in Nat
    BY <1>0, <1>5, <2>2 DEF Total
  <2>. QED BY <1>7, <2>1, <2>3, <2>4 DEF EntryLen, RowidLen, Step
<1>. QED BY <1>6, <1>7

(* Two aligned offsets are equal or a record and its gap apart. *)
LEMMA StepsApart ==
    ASSUME NEW a, NEW b, Aligned(a), Aligned(b), a # b
    PROVE  a \in Nat /\ b \in Nat /\ (a + Step <= b \/ b + Step <= a)
<1>1. PICK i \in Nat : a = i * Step BY DEF Aligned
<1>2. PICK j \in Nat : b = j * Step BY DEF Aligned
<1>3. i # j BY <1>1, <1>2
<1>4. CASE Positioned = {}
  <2>1. a = i * 8 /\ b = j * 8 /\ Step = 8 BY <1>1, <1>2, <1>4 DEF Step, Size
  <2>. QED BY <1>3, <2>1
<1>5. CASE Positioned # {}
  <2>1. a = i * 10 /\ b = j * 10 /\ Step = 10 BY <1>1, <1>2, <1>5 DEF Step, Size
  <2>. QED BY <1>3, <2>1
<1>. QED BY <1>4, <1>5

(* The next offset is aligned if the last one was, and the first one is. *)
LEMMA StepOn ==
    ASSUME NEW a, Aligned(a)
    PROVE  Aligned(a + Step) /\ Aligned(0)
<1>1. PICK k \in Nat : a = k * Step BY DEF Aligned
<1>2. Step \in Nat BY DEF Step, Size
<1>3. 0 = 0 * Step BY <1>2
<1>4. a + Step = (k + 1) * Step
  <2>1. CASE Positioned = {}
    <3>1. Step = 8 BY <2>1 DEF Step, Size
    <3>. QED BY <1>1, <3>1
  <2>2. CASE Positioned # {}
    <3>1. Step = 10 BY <2>2 DEF Step, Size
    <3>. QED BY <1>1, <3>1
  <2>. QED BY <2>1, <2>2
<1>. QED BY <1>3, <1>4 DEF Aligned

(* get decodes a record that is in its place. *)
LEMMA GetInPlace ==
    ASSUME OneSize, NEW q \in Rows, q \in DOMAIN index, InPlace(q), file_len \in Nat
    PROVE  Get(q) = Meta(q)
<1> DEFINE e == index[q]
           buf == [k \in 0 .. e.len - 1 |-> file[e.offset + k]]
<1>1. /\ e.offset \in Nat /\ e.len = Size /\ e.offset + Size <= file_len
      /\ \A k \in 0 .. Size - 1 : file[e.offset + k] = Record(q)[k + 1]
  BY DEF InPlace, CacheEntry
<1>2. Size = 6 \/ Size = 8 BY DEF Size
<1>3. ~ (e.offset + e.len > file_len) BY <1>1, <1>2
<1>4. Get(q) = DecodeRecord(buf) BY <1>3 DEF Get
<1>5. DOMAIN buf = 0 .. Size - 1 /\ \A k \in 0 .. Size - 1 : buf[k] = Record(q)[k + 1]
  BY <1>1
<1> HIDE DEF buf, e
<1>6. 3 \in DOMAIN buf /\ 4 \in DOMAIN buf /\ 5 \in DOMAIN buf BY <1>2, <1>5
<1>7. buf[3] = Record(q)[4] /\ buf[4] = Record(q)[5] /\ buf[5] = Record(q)[6]
  <2>1. 3 \in 0 .. Size - 1 /\ 4 \in 0 .. Size - 1 /\ 5 \in 0 .. Size - 1 BY <1>2
  <2>2. 3 + 1 = 4 /\ 4 + 1 = 5 /\ 5 + 1 = 6 OBVIOUS
  <2>. QED BY <1>5, <2>1, <2>2
<1>8. CASE q \in Positioned
  <2>1. buf[3] = 1 /\ buf[4] = X(q) /\ buf[5] = Y(q) BY <1>7, <1>8, RecordShape
  <2>2. 7 \in DOMAIN buf BY <1>5, <1>8 DEF Size
  <2>3. DecodeRecord(buf) = <<buf[4], buf[5]>>
    BY <1>6, <2>1, <2>2 DEF DecodeRecord, FlagAt, HeaderLen, RowidLen
  <2>. QED BY <1>4, <1>8, <2>1, <2>3 DEF Meta
<1>9. CASE q \notin Positioned
  <2>1. buf[3] = 0 BY <1>7, <1>9, RecordShape
  <2>2. DecodeRecord(buf) = <<>> BY <1>6, <2>1 DEF DecodeRecord, FlagAt, HeaderLen, RowidLen
  <2>. QED BY <1>4, <1>9, <2>2 DEF Meta
<1>. QED BY <1>8, <1>9

-----------------------------------------------------------------------------
(* Every step keeps the invariant *)

(* An empty cache is in it. *)
LEMMA InitRing == WarmInit => RingInv
<1> SUFFICES ASSUME WarmInit PROVE RingInv OBVIOUS
<1>1. DOMAIN index = {} BY DEF WarmInit
<1>2. Capacity \in Nat /\ Restarts \in Nat BY RoomForOne
<1>3. WarmTypeOK BY <1>1, <1>2 DEF WarmInit, WarmTypeOK, Offsets
<1>4. Aligned(write_offset)
  <2>1. Step \in Nat BY DEF Step, Size
  <2>2. 0 = 0 * Step BY <2>1
  <2>. QED BY <2>2 DEF WarmInit, Aligned
<1>. QED BY <1>1, <1>3, <1>4 DEF RingInv, WarmInit

(* Where a record goes: an aligned place with room for it and its gap. *)
LEMMA PlaceFits ==
    ASSUME OneSize, RingInv, NEW r \in Rows
    PROVE  Place(r) \in Nat /\ Aligned(Place(r)) /\ Place(r) + Step <= Capacity
<1>1. Step \in {8, 10} /\ Capacity \in Nat /\ Capacity >= 10
  BY RoomForOne DEF Step, Size
<1>2. write_offset \in Nat /\ Aligned(write_offset) BY DEF RingInv, WarmTypeOK
<1>3. EntryLen(r) = Step BY RecordShape
<1>4. Aligned(0) BY <1>2, StepOn
<1>. QED BY <1>1, <1>2, <1>3, <1>4 DEF Place

(* put writes one record and takes what it overwrites out of the index. *)
LEMMA PutKeeps ==
    ASSUME OneSize, RingInv, NEW r \in Rows, Put(r)
    PROVE  RingInv'
<1> DEFINE at == Place(r)
           kept == Kept(at)
<1>1. at \in Nat /\ Aligned(at) /\ at + Step <= Capacity BY PlaceFits
<1>2. /\ Total(r) = Size /\ EntryLen(r) = Step
      /\ \A k \in 1 .. Size : Record(r)[k] \in Nat
  BY RecordShape
<1>3. /\ file' = [o \in Offsets |->
            IF o \in at .. at + Size - 1 THEN Record(r)[o - at + 1] ELSE file[o]]
      /\ file_len' = IF at + Size > file_len THEN at + Size ELSE file_len
      /\ index' = [q \in kept \cup {r} |->
            IF q = r THEN [offset |-> at, len |-> Size] ELSE index[q]]
      /\ write_offset' = at + Step /\ restarts' = restarts
  BY <1>2 DEF Put
<1>4. kept = {q \in DOMAIN index : index[q].offset # at} BY DEF Kept
<1> HIDE DEF at, kept
<1>5. /\ Size \in Nat /\ Step = Size + 2 /\ Capacity \in Nat /\ Restarts \in Nat
      /\ file_len \in Nat /\ file_len <= Capacity
      /\ file \in [Offsets -> Nat] /\ restarts = 0
  BY RoomForOne DEF Step, Size, RingInv, WarmTypeOK
<1>6. file_len' \in Nat /\ file_len' <= Capacity /\ file_len <= file_len'
      /\ at + Size <= file_len'
  <2>1. file_len' = IF at + Size > file_len THEN at + Size ELSE file_len BY <1>3
  <2>2. at + Size \in Nat /\ at + Size <= Capacity BY <1>1, <1>5
  <2>. QED BY <2>1, <2>2, <1>5
<1>7. file' \in [Offsets -> Nat]
  <2>1. ASSUME NEW o \in Offsets, o \in at .. at + Size - 1
        PROVE  Record(r)[o - at + 1] \in Nat
    <3>1. o - at + 1 \in 1 .. Size BY <2>1, <1>1, <1>5
    <3>. QED BY <3>1, <1>2
  <2>. QED BY <2>1, <1>3, <1>5
<1>8. /\ DOMAIN index' = kept \cup {r} /\ r \in DOMAIN index'
      /\ index'[r] = [offset |-> at, len |-> Size]
      /\ \A q \in kept : q # r => index'[q] = index[q]
      /\ kept \subseteq DOMAIN index
  BY <1>3, <1>4
<1>9. Aligned(write_offset') BY <1>1, <1>3, StepOn
<1>10. InPlace(r)'
  <2>1. index'[r] \in CacheEntry /\ index'[r].len = Size /\ index'[r].offset = at
    BY <1>1, <1>5, <1>8 DEF CacheEntry
  <2>2. ASSUME NEW k \in 0 .. Size - 1 PROVE file'[at + k] = Record(r)[k + 1]
    <3>1. /\ at + k \in Offsets /\ at + k \in at .. at + Size - 1
          /\ (at + k) - at + 1 = k + 1
      BY <1>1, <1>5 DEF Offsets
    <3>. QED BY <3>1, <1>3
  <2>. QED BY <2>1, <2>2, <1>1, <1>6 DEF InPlace
<1>11. ASSUME NEW q \in kept, q # r PROVE InPlace(q)'
  <2>1. InPlace(q) BY <1>8 DEF RingInv
  <2>2. index'[q] = index[q] /\ index[q].offset # at BY <1>4, <1>8, <1>11
  <2>3. Aligned(index[q].offset) /\ index[q].offset + Size <= file_len
    BY <2>1 DEF InPlace
  <2>4. /\ index[q].offset \in Nat
        /\ index[q].offset + Step <= at \/ at + Step <= index[q].offset
    BY <1>1, <2>2, <2>3, StepsApart
  <2>5. ASSUME NEW k \in 0 .. Size - 1
        PROVE  file'[index[q].offset + k] = Record(q)[k + 1]
    <3>1. /\ index[q].offset + k \in Offsets
          /\ index[q].offset + k \notin at .. at + Size - 1
      <4> DEFINE o == index[q].offset
      <4>1. /\ o \in Nat /\ o + Size <= file_len
            /\ o + (Size + 2) <= at \/ at + (Size + 2) <= o
        BY <2>3, <2>4, <1>5
      <4> HIDE DEF o
      <4>2. o + k \in Nat /\ o + k < file_len BY <4>1, <1>5
      <4>3. ~ (at <= o + k /\ o + k <= at + Size - 1) BY <4>1, <1>1, <1>5
      <4>4. o + k \in Offsets /\ o + k \notin at .. at + Size - 1
        BY <4>2, <4>3, <1>5 DEF Offsets
      <4>. QED BY <4>4 DEF o
    <3>2. file'[index[q].offset + k] = file[index[q].offset + k] BY <3>1, <1>3
    <3>. QED BY <3>2, <2>1 DEF InPlace
  <2>6. index[q].offset + Size <= file_len' BY <1>5, <1>6, <2>3, <2>4
  <2>. QED BY <2>1, <2>2, <2>5, <2>6 DEF InPlace
<1>12. \A p, q \in DOMAIN index' : p # q => index'[p].offset # index'[q].offset
  <2>1. \A q \in kept : q # r => index'[q].offset # at BY <1>4, <1>8
  <2>2. \A p, q \in kept : p # q => index[p].offset # index[q].offset
    BY <1>8 DEF RingInv
  <2>. QED BY <2>1, <2>2, <1>8
<1>13. DOMAIN index' \subseteq Rows BY <1>8 DEF RingInv
<1>14. \A q \in DOMAIN index' : InPlace(q)' BY <1>8, <1>10, <1>11
<1>15. WarmTypeOK'
  <2>1. \A q \in DOMAIN index' : index'[q] \in CacheEntry BY <1>14 DEF InPlace
  <2>2. write_offset' \in Nat /\ write_offset' <= Capacity BY <1>1, <1>3, <1>5
  <2>3. restarts' = 0 /\ restarts' \in 0 .. Restarts BY <1>3, <1>5
  <2>4. file_len' \in 0 .. Capacity BY <1>5, <1>6
  <2>. QED BY <2>1, <2>2, <2>3, <2>4, <1>7 DEF WarmTypeOK
<1>. QED
  BY <1>3, <1>5, <1>9, <1>12, <1>13, <1>14, <1>15 DEF RingInv

(* remove forgets a record. *)
LEMMA RemoveKeeps ==
    ASSUME RingInv, NEW r \in Rows, RemoveEntry(r)
    PROVE  RingInv'
<1>1. /\ DOMAIN index' = DOMAIN index \ {r}
      /\ \A q \in DOMAIN index' : index'[q] = index[q]
      /\ file' = file /\ file_len' = file_len /\ write_offset' = write_offset
      /\ restarts' = restarts
  BY DEF RemoveEntry
<1>2. ASSUME NEW q \in DOMAIN index' PROVE InPlace(q)'
  <2>1. InPlace(q) /\ index'[q] = index[q] BY <1>1 DEF RingInv
  <2>. QED BY <2>1, <1>1 DEF InPlace
<1>3. WarmTypeOK' BY <1>1 DEF RingInv, WarmTypeOK
<1>. QED BY <1>1, <1>2, <1>3 DEF RingInv

(* Every step does. *)
LEMMA RingStep ==
    ASSUME OneSize, RingInv, [WarmNext]_warm_vars
    PROVE  RingInv'
<1>1. ASSUME NEW r \in Rows, Put(r) PROVE RingInv' BY <1>1, PutKeeps
<1>2. ASSUME NEW r \in Rows, RemoveEntry(r) PROVE RingInv' BY <1>2, RemoveKeeps
<1>3. CASE UNCHANGED warm_vars
  BY <1>3 DEF warm_vars, RingInv, WarmTypeOK, InPlace
<1>. QED BY <1>1, <1>2, <1>3 DEF WarmNext

-----------------------------------------------------------------------------
(* The properties *)

(* The index lists whole records at the offsets put uses, no two at one. *)
THEOREM RingInvariant == OneSize => (WarmSpec => []RingInv)
<1> SUFFICES ASSUME OneSize PROVE WarmSpec => []RingInv OBVIOUS
<1>1. RingInv /\ [WarmNext]_warm_vars => RingInv' BY RingStep
<1>. QED BY InitRing, <1>1, PTL DEF WarmSpec

(* Every operation of warm_tier.rs keeps the file, the index and the offset in
   their types: no record goes over the end of the file. *)
THEOREM WarmTypes == OneSize => (WarmSpec => []WarmTypeOK)
<1> SUFFICES ASSUME OneSize PROVE WarmSpec => []WarmTypeOK OBVIOUS
<1>1. RingInv => WarmTypeOK BY DEF RingInv
<1>. QED BY RingInvariant, <1>1, PTL

(* get returns what put stored (warm_tier.rs), or the entity is not listed. *)
THEOREM WarmReadsBack == OneSize => (WarmSpec => []ReadsBack)
<1> SUFFICES ASSUME OneSize PROVE WarmSpec => []ReadsBack OBVIOUS
<1>1. RingInv => ReadsBack
  <2> SUFFICES ASSUME RingInv, NEW q \in Rows \cap DOMAIN index PROVE Get(q) = Meta(q)
    BY DEF ReadsBack
  <2>1. InPlace(q) /\ file_len \in Nat BY DEF RingInv, WarmTypeOK
  <2>. QED BY <2>1, GetInPlace
<1>. QED BY RingInvariant, <1>1, PTL

(* put never leaves a record in the index that it wrote over in part. *)
THEOREM WarmRecordsApart == OneSize => (WarmSpec => []RecordsApart)
<1> SUFFICES ASSUME OneSize PROVE WarmSpec => []RecordsApart OBVIOUS
<1>1. RingInv => RecordsApart
  <2> SUFFICES ASSUME RingInv, NEW p \in DOMAIN index, NEW q \in DOMAIN index, p # q
               PROVE  \/ index[p].offset + index[p].len <= index[q].offset
                      \/ index[q].offset + index[q].len <= index[p].offset
    BY DEF RecordsApart
  <2>1. /\ index[p].len = Size /\ index[q].len = Size
        /\ Aligned(index[p].offset) /\ Aligned(index[q].offset)
        /\ index[p].offset # index[q].offset
    BY DEF RingInv, InPlace
  <2>2. /\ index[p].offset \in Nat /\ index[q].offset \in Nat
        /\ \/ index[p].offset + Step <= index[q].offset
           \/ index[q].offset + Step <= index[p].offset
    BY <2>1, StepsApart
  <2>3. Size \in Nat /\ Step = Size + 2 BY DEF Size, Step
  <2>. QED BY <2>1, <2>2, <2>3
<1>. QED BY RingInvariant, <1>1, PTL

(* What get answers, by rowid. *)
GetsListed == \A q \in Rows : Get(q) = IF q \in DOMAIN index THEN Meta(q) ELSE Absent

(* It answers with exactly the entities the index lists. *)
LEMMA Answers == OneSize /\ RingInv => GetsListed
<1> SUFFICES ASSUME OneSize, RingInv, NEW q \in Rows
             PROVE  Get(q) = IF q \in DOMAIN index THEN Meta(q) ELSE Absent
  BY DEF GetsListed
<1>1. CASE q \in DOMAIN index
  <2>1. InPlace(q) /\ file_len \in Nat BY <1>1 DEF RingInv, WarmTypeOK
  <2>. QED BY <1>1, <2>1, GetInPlace
<1>2. CASE q \notin DOMAIN index BY <1>2 DEF Get
<1>. QED BY <1>1, <1>2

(* A new cache answers nothing. *)
LEMMA InitMaps == WarmInit => Cache!Init
<1> SUFFICES ASSUME WarmInit PROVE Cache!Init OBVIOUS
<1>1. \A r \in Rows : Get(r) = Absent BY DEF WarmInit, Get
<1>. QED BY <1>1 DEF Cache!Init

(* A step puts one entity and loses others, or forgets one. *)
LEMMA StepMaps ==
    ASSUME RingInv, GetsListed, GetsListed', [WarmNext]_warm_vars
    PROVE  [Cache!Next]_([r \in Rows |-> Get(r)])
<1> DEFINE entries == [r \in Rows |-> Get(r)]
<1>1. \A q \in Rows : entries[q] = IF q \in DOMAIN index THEN Meta(q) ELSE Absent
  BY DEF GetsListed
<1>2. \A q \in Rows : entries'[q] = IF q \in DOMAIN index' THEN Meta(q) ELSE Absent
  BY DEF GetsListed
<1>3. /\ DOMAIN entries = Rows /\ DOMAIN entries' = Rows
      /\ entries = [q \in Rows |-> entries[q]] /\ entries' = [q \in Rows |-> entries'[q]]
  OBVIOUS
<1>4. ASSUME NEW r \in Rows, Put(r) PROVE Cache!Next
  <2> DEFINE kept == Kept(Place(r))
             lost == Rows \ (kept \cup {r})
  <2>1. DOMAIN index' = kept \cup {r} /\ kept \subseteq DOMAIN index BY <1>4 DEF Put, Kept
  <2>2. lost \in SUBSET (Rows \ {r}) OBVIOUS
  <2>3. entries' = [q \in Rows |->
           IF q = r THEN Meta(r) ELSE IF q \in lost THEN Absent ELSE entries[q]]
    <3> HIDE DEF entries, kept
    <3>1. \A q \in Rows : entries'[q] =
             IF q = r THEN Meta(r) ELSE IF q \in lost THEN Absent ELSE entries[q]
      BY <1>1, <1>2, <2>1
    <3>. QED BY <1>3, <3>1
  <2>4. Cache!Put(r, Meta(r)) BY <2>2, <2>3 DEF Cache!Put
  <2>. QED BY <2>4 DEF Cache!Next
<1>5. ASSUME NEW r \in Rows, RemoveEntry(r) PROVE Cache!Next
  <2>1. DOMAIN index' = DOMAIN index \ {r} BY <1>5 DEF RemoveEntry
  <2>2. entries' = [entries EXCEPT ![r] = Absent]
    <3> HIDE DEF entries
    <3>1. \A q \in Rows : entries'[q] = IF q = r THEN Absent ELSE entries[q]
      BY <1>1, <1>2, <2>1
    <3>. QED BY <1>3, <3>1
  <2>3. Cache!Forget(r) BY <2>2 DEF Cache!Forget
  <2>. QED BY <2>3 DEF Cache!Next
<1>6. CASE UNCHANGED warm_vars
  <2>1. DOMAIN index' = DOMAIN index BY <1>6 DEF warm_vars
  <2>2. entries' = entries
    <3> HIDE DEF entries
    <3>. QED BY <1>1, <1>2, <1>3, <2>1
  <2>. QED BY <2>2
<1>. QED BY <1>4, <1>5, <1>6 DEF WarmNext

(* With records of one size the file is the cache Pipeline relies on: it may
   forget, but an entity it answers with is the one that was put. *)
THEOREM WarmIsLossyCache == OneSize => (WarmSpec => Lossy)
<1> SUFFICES ASSUME OneSize PROVE WarmSpec => Lossy OBVIOUS
<1>1. WarmSpec => []GetsListed
  <2>1. RingInv => GetsListed BY Answers
  <2>. QED BY RingInvariant, <2>1, PTL
<1>2. RingInv /\ GetsListed /\ GetsListed' /\ [WarmNext]_warm_vars
         => [Cache!Next]_([r \in Rows |-> Get(r)])
  BY StepMaps
<1>3. WarmSpec => []RingInv BY RingInvariant
<1>. QED BY <1>1, <1>2, <1>3, InitMaps, PTL DEF WarmSpec, Lossy, Cache!Spec
=============================================================================
