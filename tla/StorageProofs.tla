---------------------------- MODULE StorageProofs ----------------------------
(***************************************************************************)
(* Proofs about Storage, for every number of slots, handles and bounds.    *)
(* NoWrap is the assumption the u16 count and epoch leave to the program.  *)
(***************************************************************************)
EXTENDS Storage, FiniteSetTheorems, TLAPS

-----------------------------------------------------------------------------
(* Helpers *)

(* The u16 arithmetic of sync_pending is exact below the modulus. *)
LEMMA ModSmall ==
    ASSUME NEW a \in Nat, NEW b \in Nat \ {0}, a < b
    PROVE  a % b = a
  BY SMT

(* The Pointers into a slot can be counted. *)
LEMMA StrongOnFinite ==
    ASSUME NEW i
    PROVE  /\ IsFiniteSet(StrongOn(i))
           /\ Cardinality(StrongOn(i)) \in Nat
           /\ Cardinality(StrongOn(i)) = 0 <=> StrongOn(i) = {}
<1>1. IsFiniteSet(StrongOn(i))
  <2>1. StrongOn(i) \in SUBSET Handles BY DEF StrongOn
  <2>. QED BY <2>1, FS_Subset, HandlesFinite
<1>. QED BY <1>1, FS_CardinalityType, FS_EmptySet

(* Filling an empty place adds one Pointer to that slot. *)
LEMMA StrongOnFill ==
    ASSUME TypeOK, NEW h \in Handles, NEW p \in PointerData,
           strong[h] = NoPtr, strong' = [strong EXCEPT ![h] = p],
           NEW i \in Slots
    PROVE  Cardinality(StrongOn(i)') =
             IF i = p.index THEN Cardinality(StrongOn(i)) + 1
                            ELSE Cardinality(StrongOn(i))
<1>1. p # NoPtr BY NoPtrFresh
<1>2. CASE i = p.index
  <2>1. StrongOn(i)' = StrongOn(i) \cup {h}
    BY <1>1, <1>2 DEF StrongOn, TypeOK
  <2>2. h \notin StrongOn(i) BY DEF StrongOn
  <2>. QED BY <1>2, <2>1, <2>2, StrongOnFinite, FS_AddElement
<1>3. CASE i # p.index
  <2>1. StrongOn(i)' = StrongOn(i)
    BY <1>1, <1>3 DEF StrongOn, TypeOK
  <2>. QED BY <1>3, <2>1
<1>. QED BY <1>2, <1>3

(* Emptying a place removes one. *)
LEMMA StrongOnEmpty ==
    ASSUME TypeOK, NEW h \in Handles,
           strong[h] # NoPtr, strong' = [strong EXCEPT ![h] = NoPtr],
           NEW i \in Slots
    PROVE  /\ Cardinality(StrongOn(i)') =
                IF i = strong[h].index THEN Cardinality(StrongOn(i)) - 1
                                       ELSE Cardinality(StrongOn(i))
           /\ Cardinality(StrongOn(i)') \in Nat
<1>0. StrongOn(i)' = StrongOn(i) \ {h}
  BY DEF StrongOn, TypeOK
<1>1. h \in StrongOn(i) <=> i = strong[h].index BY DEF StrongOn
<1>2. Cardinality(StrongOn(i)') =
        IF h \in StrongOn(i) THEN Cardinality(StrongOn(i)) - 1
                             ELSE Cardinality(StrongOn(i))
  BY <1>0, StrongOnFinite, FS_RemoveElement
<1>3. IsFiniteSet(StrongOn(i)')
  BY <1>0, StrongOnFinite, FS_RemoveElement
<1>4. Cardinality(StrongOn(i)') \in Nat BY <1>3, FS_CardinalityType
<1>. QED BY <1>1, <1>2, <1>4

(* A slot some Pointer indexes is not free: its count is not 0. *)
LEMMA HeldNotFree ==
    ASSUME StorageInv, NEW h \in Handles, strong[h] # NoPtr
    PROVE  /\ strong[h] \in PointerData
           /\ ~Free(strong[h].index)
           /\ meta[strong[h].index] + add_ref[strong[h].index] > sub_ref[strong[h].index]
<1> DEFINE i == strong[h].index
<1>1. strong[h] \in PointerData BY DEF StorageInv, TypeOK
<1>2. i \in Slots BY <1>1 DEF PointerData
<1>3. h \in StrongOn(i) BY DEF StrongOn
<1>4. Cardinality(StrongOn(i)) \in Nat \ {0} BY <1>3, StrongOnFinite
<1>5. meta[i] + add_ref[i] > sub_ref[i]
  <2>1. meta[i] + add_ref[i] = Cardinality(StrongOn(i)) + sub_ref[i]
    BY <1>2 DEF StorageInv, Balance
  <2>2. meta[i] \in Int /\ add_ref[i] \in Nat /\ sub_ref[i] \in Nat
    BY <1>2, BoundsOK DEF StorageInv, TypeOK
  <2>. QED BY <1>4, <2>1, <2>2
<1>6. ~Free(i)
  <2>1. SUFFICES ASSUME NEW e \in free_list, e.index = i PROVE FALSE
    BY DEF Free
  <2>2. meta[i] = 0 /\ add_ref[i] = 0 /\ sub_ref[i] = 0
    BY <2>1 DEF StorageInv, FreeQuiet
  <2>. QED BY <1>5, <2>2
<1>. QED BY <1>1, <1>5, <1>6

(* A WeakPointer that passes the epoch check refers to what the slot holds. *)
LEMMA WeakCurrent ==
    ASSUME StorageInv, NEW w \in Weaks, weak[w] # NoPtr,
           epoch[weak[w].index] = weak[w].epoch
    PROVE  /\ weak[w] \in PointerData
           /\ weak[w].index < len
           /\ ~Free(weak[w].index)
           /\ weak[w].comp = data[weak[w].index]
<1> DEFINE i == weak[w].index
<1>1. weak[w] \in PointerData BY DEF StorageInv, TypeOK
<1>2. i \in Slots BY <1>1 DEF PointerData
<1>3. /\ i < len /\ weak[w].comp = weak[w].epoch
      /\ weak[w].comp <= data[i]
  BY DEF StorageInv, WeakPast
<1>4. data[i] \in Int BY <1>2, BoundsOK DEF StorageInv, TypeOK
<1>5. epoch[i] = IF Free(i) THEN data[i] + 1 ELSE data[i]
  BY <1>2, <1>3 DEF StorageInv, EpochCounts
<1>6. weak[w].comp = epoch[i] BY <1>3
<1>7. ~Free(i) BY <1>3, <1>4, <1>5, <1>6
<1>. QED BY <1>1, <1>3, <1>5, <1>6, <1>7

-----------------------------------------------------------------------------
(* The inductive invariant *)

(* new and from_iter start in the invariant. *)
LEMMA InitInv == Init => StorageInv
<1> SUFFICES ASSUME Init PROVE StorageInv OBVIOUS
<1>1. TypeOK BY BoundsOK DEF Init, TypeOK, Zero
<1>2. Balance
  <2>. SUFFICES ASSUME NEW i \in Slots
       PROVE meta[i] + add_ref[i] = Cardinality(StrongOn(i)) + sub_ref[i]
    BY DEF Balance
  <2>1. StrongOn(i) = {} BY DEF StrongOn, Init
  <2>2. Cardinality(StrongOn(i)) = 0 BY <2>1, FS_EmptySet
  <2>. QED BY <2>2 DEF Init, Zero
<1>3. FreeQuiet /\ Untouched /\ StrongCurrent /\ WeakPast
  BY DEF Init, FreeQuiet, Untouched, StrongCurrent, WeakPast, Zero
<1>4. Bounded /\ EpochCounts
  BY BoundsOK DEF Init, Bounded, EpochCounts, Zero, Free
<1>. QED BY <1>1, <1>2, <1>3, <1>4 DEF StorageInv

(* Clone, pin and upgrade: a Pointer to what the slot holds. *)
LEMMA AcquireInv ==
    ASSUME StorageInv, NEW h \in Handles, NEW p \in PointerData, Acquire(h, p),
           p.index < len, ~Free(p.index),
           p.epoch = epoch[p.index], p.comp = data[p.index]
    PROVE  StorageInv'
<1>0. p.index \in Slots BY DEF PointerData
<1>1. TypeOK'
  BY <1>0 DEF StorageInv, TypeOK, Acquire, Count
<1>2. \A i \in Slots : add_ref'[i] = IF i = p.index THEN add_ref[i] + 1 ELSE add_ref[i]
  BY <1>0 DEF StorageInv, TypeOK, Acquire, Count
<1>3. Balance'
  <2>. SUFFICES ASSUME NEW i \in Slots
       PROVE meta'[i] + add_ref'[i] = Cardinality(StrongOn(i)') + sub_ref'[i]
    BY DEF Balance
  <2>1. Cardinality(StrongOn(i)') =
          IF i = p.index THEN Cardinality(StrongOn(i)) + 1
                         ELSE Cardinality(StrongOn(i))
    BY StrongOnFill DEF StorageInv, Acquire
  <2>2. meta[i] + add_ref[i] = Cardinality(StrongOn(i)) + sub_ref[i]
    BY DEF StorageInv, Balance
  <2>3. meta'[i] = meta[i] /\ sub_ref'[i] = sub_ref[i] BY DEF Acquire
  <2>4. meta[i] \in Int /\ add_ref[i] \in Nat /\ sub_ref[i] \in Nat
        /\ Cardinality(StrongOn(i)) \in Nat
    BY BoundsOK, StrongOnFinite DEF StorageInv, TypeOK
  <2>. QED BY <1>2, <2>1, <2>2, <2>3, <2>4
<1>4. Bounded'
  <2>. SUFFICES ASSUME NEW i \in Slots PROVE meta'[i] + add_ref'[i] <= MaxRefs
    BY DEF Bounded
  <2>1. meta[i] \in Int /\ add_ref[i] \in Nat BY BoundsOK DEF StorageInv, TypeOK
  <2>. QED BY <1>2, <2>1, BoundsOK DEF StorageInv, Bounded, Acquire, CanAdd
<1>5. FreeQuiet'
  <2>. SUFFICES ASSUME NEW e \in free_list
       PROVE e.index \in Slots /\ e.index # p.index
    BY <1>2 DEF StorageInv, FreeQuiet, Acquire
  <2>. QED BY DEF StorageInv, TypeOK, FreeEntry, Free
<1>6. Untouched'
  <2>. SUFFICES ASSUME NEW i \in Slots, i >= len PROVE i # p.index
    BY <1>2 DEF StorageInv, Untouched, Acquire
  <2>. QED BY DEF Slots, StorageInv, TypeOK
<1>7. EpochCounts' BY DEF StorageInv, EpochCounts, Acquire, Free
<1>8. StrongCurrent'
  <2>. SUFFICES ASSUME NEW g \in Handles, strong'[g] # NoPtr
       PROVE /\ strong'[g].index < len
             /\ strong'[g].comp = data[strong'[g].index]
             /\ strong'[g].epoch = epoch[strong'[g].index]
    BY DEF StrongCurrent, Acquire
  <2>1. strong'[g] = IF g = h THEN p ELSE strong[g]
    BY DEF StorageInv, TypeOK, Acquire
  <2>. QED BY <2>1 DEF StorageInv, StrongCurrent
<1>9. WeakPast' BY DEF StorageInv, WeakPast, Acquire
<1>. QED BY <1>1, <1>3, <1>4, <1>5, <1>6, <1>7, <1>8, <1>9 DEF StorageInv

(* Dropping a Pointer keeps it. *)
LEMMA DropInv ==
    ASSUME StorageInv, NEW h \in Handles, DropPtr(h)
    PROVE  StorageInv'
<1> DEFINE j == strong[h].index
<1>0. j \in Slots /\ ~Free(j) /\ meta[j] + add_ref[j] > sub_ref[j]
  BY HeldNotFree DEF DropPtr, PointerData
<1>1. TypeOK' BY <1>0 DEF StorageInv, TypeOK, DropPtr, Count
<1>2. \A i \in Slots : sub_ref'[i] = IF i = j THEN sub_ref[i] + 1 ELSE sub_ref[i]
  BY <1>0 DEF StorageInv, TypeOK, DropPtr, Count
<1>3. Balance'
  <2>. SUFFICES ASSUME NEW i \in Slots
       PROVE meta'[i] + add_ref'[i] = Cardinality(StrongOn(i)') + sub_ref'[i]
    BY DEF Balance
  <2>1. Cardinality(StrongOn(i)') =
          IF i = j THEN Cardinality(StrongOn(i)) - 1 ELSE Cardinality(StrongOn(i))
    BY StrongOnEmpty DEF StorageInv, DropPtr
  <2>2. meta[i] + add_ref[i] = Cardinality(StrongOn(i)) + sub_ref[i]
    BY DEF StorageInv, Balance
  <2>3. meta'[i] = meta[i] /\ add_ref'[i] = add_ref[i] BY DEF DropPtr
  <2>4. meta[i] \in Int /\ add_ref[i] \in Nat /\ sub_ref[i] \in Nat
        /\ Cardinality(StrongOn(i)) \in Nat
    BY BoundsOK, StrongOnFinite DEF StorageInv, TypeOK
  <2>. QED BY <1>2, <2>1, <2>2, <2>3, <2>4
<1>4. Bounded' BY DEF StorageInv, Bounded, DropPtr
<1>5. FreeQuiet'
  <2>. SUFFICES ASSUME NEW e \in free_list
       PROVE e.index \in Slots /\ e.index # j
    BY <1>2 DEF StorageInv, FreeQuiet, DropPtr
  <2>. QED BY <1>0 DEF StorageInv, TypeOK, FreeEntry, Free
<1>6. Untouched'
  <2>. SUFFICES ASSUME NEW i \in Slots, i >= len PROVE i # j
    BY <1>2 DEF StorageInv, Untouched, DropPtr
  <2>1. j < len BY DEF StorageInv, StrongCurrent, DropPtr
  <2>. QED BY <2>1 DEF Slots, StorageInv, TypeOK
<1>7. EpochCounts' BY DEF StorageInv, EpochCounts, DropPtr, Free
<1>8. StrongCurrent' BY DEF StorageInv, TypeOK, StrongCurrent, DropPtr
<1>9. WeakPast' BY DEF StorageInv, WeakPast, DropPtr
<1>. QED BY <1>1, <1>3, <1>4, <1>5, <1>6, <1>7, <1>8, <1>9 DEF StorageInv


(* create from the free list: the slot was quiet, so its count is exactly
   the new Pointer. *)
LEMMA ReuseInv ==
    ASSUME StorageInv, NEW h \in Handles, CreateReuse(h)
    PROVE  StorageInv'
<1>1. PICK e \in free_list :
        /\ strong[h] = NoPtr
        /\ data[e.index] < MaxComps
        /\ free_list' = free_list \ {e}
        /\ data' = Count(data, e.index)
        /\ meta' = [meta EXCEPT ![e.index] = 1]
        /\ strong' = [strong EXCEPT ![h] =
              [index |-> e.index, epoch |-> e.epoch, comp |-> data[e.index] + 1]]
        /\ UNCHANGED <<len, add_ref, sub_ref, epoch, weak>>
  BY DEF CreateReuse
<1> DEFINE j == e.index
           p == [index |-> j, epoch |-> e.epoch, comp |-> data[j] + 1]
<1>2. /\ j \in Slots /\ e \in FreeEntry /\ j < len /\ Free(j)
      /\ e.epoch = epoch[j] /\ meta[j] = 0 /\ add_ref[j] = 0 /\ sub_ref[j] = 0
  BY DEF StorageInv, TypeOK, FreeEntry, FreeQuiet, Free
<1>3. data[j] \in 0 .. MaxComps BY <1>2 DEF StorageInv, TypeOK
<1>4. p \in PointerData
  BY <1>1, <1>2, <1>3, BoundsOK DEF PointerData, FreeEntry
<1>5. /\ \A i \in Slots : data'[i] = IF i = j THEN data[i] + 1 ELSE data[i]
      /\ \A i \in Slots : meta'[i] = IF i = j THEN 1 ELSE meta[i]
      /\ \A g \in Handles : strong'[g] = IF g = h THEN p ELSE strong[g]
  BY <1>1, <1>2 DEF StorageInv, TypeOK, Count
<1>6. TypeOK'
  BY <1>1, <1>2, <1>3, <1>4, BoundsOK DEF StorageInv, TypeOK, Count
<1>7. \A d \in free_list : d.index = j => d = e
  BY <1>2 DEF StorageInv, TypeOK, FreeEntry, FreeQuiet
<1>8. \A i \in Slots : Free(i)' <=> (Free(i) /\ i # j)
  BY <1>1, <1>7 DEF Free
<1>9. StrongOn(j) = {}
  BY <1>2, HeldNotFree DEF StrongOn
<1>10. Balance'
  <2>. SUFFICES ASSUME NEW i \in Slots
       PROVE meta'[i] + add_ref'[i] = Cardinality(StrongOn(i)') + sub_ref'[i]
    BY DEF Balance
  <2>1. Cardinality(StrongOn(i)') =
          IF i = j THEN Cardinality(StrongOn(i)) + 1 ELSE Cardinality(StrongOn(i))
    BY <1>1, <1>4, StrongOnFill DEF StorageInv
  <2>2. meta[i] + add_ref[i] = Cardinality(StrongOn(i)) + sub_ref[i]
    BY DEF StorageInv, Balance
  <2>3. meta[i] \in Int /\ add_ref[i] \in Nat /\ sub_ref[i] \in Nat
        /\ Cardinality(StrongOn(i)) \in Nat
    BY BoundsOK, StrongOnFinite DEF StorageInv, TypeOK
  <2>. QED BY <1>1, <1>2, <1>5, <2>1, <2>2, <2>3
<1>11. Bounded' BY <1>1, <1>2, <1>5, BoundsOK DEF StorageInv, Bounded
<1>12. FreeQuiet'
  <2>. SUFFICES ASSUME NEW d \in free_list, d # e
       PROVE /\ d.index < len /\ d.epoch = epoch[d.index]
             /\ meta'[d.index] = 0 /\ add_ref[d.index] = 0 /\ sub_ref[d.index] = 0
    BY <1>1 DEF FreeQuiet
  <2>1. d.index # j /\ d.index \in Slots
    BY <1>7 DEF StorageInv, TypeOK, FreeEntry
  <2>. QED BY <1>5, <2>1 DEF StorageInv, FreeQuiet
<1>13. Untouched'
  <2>. SUFFICES ASSUME NEW i \in Slots, i >= len PROVE i # j
    BY <1>1, <1>5 DEF StorageInv, Untouched
  <2>. QED BY <1>2 DEF Slots, StorageInv, TypeOK
<1>14. EpochCounts'
  BY <1>1, <1>2, <1>5, <1>8 DEF StorageInv, EpochCounts
<1>15. StrongCurrent'
  <2>. SUFFICES ASSUME NEW g \in Handles, strong'[g] # NoPtr
       PROVE /\ strong'[g].index < len
             /\ strong'[g].comp = data'[strong'[g].index]
             /\ strong'[g].epoch = epoch[strong'[g].index]
    BY <1>1 DEF StrongCurrent
  <2>1. CASE g = h BY <1>2, <1>5, <2>1
  <2>2. CASE g # h
    <3>1. strong'[g] = strong[g] /\ strong[g] \in PointerData
      BY <1>5, <2>2 DEF StorageInv, TypeOK
    <3>2. strong[g].index # j /\ strong[g].index \in Slots
      BY <1>9, <3>1 DEF StrongOn, PointerData
    <3>. QED BY <1>5, <3>1, <3>2 DEF StorageInv, StrongCurrent
  <2>. QED BY <2>1, <2>2
<1>16. WeakPast'
  <2>. SUFFICES ASSUME NEW w \in Weaks, weak[w] # NoPtr
       PROVE /\ weak[w].index < len /\ weak[w].comp = weak[w].epoch
             /\ weak[w].comp <= data'[weak[w].index]
    BY <1>1 DEF WeakPast
  <2>1. weak[w].index \in Slots /\ weak[w].comp \in Int
    BY DEF StorageInv, TypeOK, PointerData
  <2>2. data[weak[w].index] \in Int BY <2>1 DEF StorageInv, TypeOK
  <2>. QED BY <1>5, <2>1, <2>2 DEF StorageInv, WeakPast
<1>. QED BY <1>6, <1>10, <1>11, <1>12, <1>13, <1>14, <1>15, <1>16 DEF StorageInv

(* create by growing: the new slot was untouched. *)
LEMMA GrowInv ==
    ASSUME StorageInv, NEW h \in Handles, CreateGrow(h)
    PROVE  StorageInv'
<1> DEFINE p == [index |-> len, epoch |-> 0, comp |-> 0]
<1>1. /\ strong[h] = NoPtr /\ free_list = {} /\ len < NumSlots /\ len' = len + 1
      /\ data' = [data EXCEPT ![len] = 0]
      /\ meta' = [meta EXCEPT ![len] = 1]
      /\ strong' = [strong EXCEPT ![h] = p]
      /\ UNCHANGED <<free_list, add_ref, sub_ref, epoch, weak>>
  BY DEF CreateGrow
<1>2. len \in Slots BY <1>1, BoundsOK DEF StorageInv, TypeOK, Slots
<1>3. /\ data[len] = 0 /\ epoch[len] = 0
      /\ meta[len] = 0 /\ add_ref[len] = 0 /\ sub_ref[len] = 0
  BY <1>2 DEF StorageInv, Untouched, Slots
<1>4. p \in PointerData BY <1>2, BoundsOK DEF PointerData
<1>5. /\ data' = data
      /\ \A i \in Slots : meta'[i] = IF i = len THEN 1 ELSE meta[i]
      /\ \A g \in Handles : strong'[g] = IF g = h THEN p ELSE strong[g]
  BY <1>1, <1>2, <1>3 DEF StorageInv, TypeOK
<1>6. TypeOK'
  BY <1>1, <1>2, <1>4, <1>5, BoundsOK DEF StorageInv, TypeOK
<1>7. Balance'
  <2>. SUFFICES ASSUME NEW i \in Slots
       PROVE meta'[i] + add_ref'[i] = Cardinality(StrongOn(i)') + sub_ref'[i]
    BY DEF Balance
  <2>1. Cardinality(StrongOn(i)') =
          IF i = len THEN Cardinality(StrongOn(i)) + 1 ELSE Cardinality(StrongOn(i))
    BY <1>1, <1>4, StrongOnFill DEF StorageInv
  <2>2. meta[i] + add_ref[i] = Cardinality(StrongOn(i)) + sub_ref[i]
    BY DEF StorageInv, Balance
  <2>3. meta[i] \in Int /\ add_ref[i] \in Nat /\ sub_ref[i] \in Nat
        /\ Cardinality(StrongOn(i)) \in Nat
    BY BoundsOK, StrongOnFinite DEF StorageInv, TypeOK
  <2>. QED BY <1>1, <1>3, <1>5, <2>1, <2>2, <2>3
<1>8. Bounded' BY <1>1, <1>3, <1>5, BoundsOK DEF StorageInv, Bounded
<1>9. FreeQuiet' BY <1>1 DEF FreeQuiet
<1>10. Untouched' BY <1>1, <1>5 DEF StorageInv, Untouched, TypeOK, Slots
<1>11. EpochCounts'
  BY <1>1, <1>3, <1>5 DEF StorageInv, EpochCounts, Free, TypeOK, Slots
<1>12. StrongCurrent'
  <2>. SUFFICES ASSUME NEW g \in Handles, strong'[g] # NoPtr
       PROVE /\ strong'[g].index < len'
             /\ strong'[g].comp = data[strong'[g].index]
             /\ strong'[g].epoch = epoch[strong'[g].index]
    BY <1>1, <1>5 DEF StrongCurrent
  <2>1. CASE g = h BY <1>1, <1>2, <1>3, <1>5, <2>1 DEF Slots
  <2>2. CASE g # h
    <3>1. strong'[g] = strong[g] /\ strong[g].index \in Slots
      BY <1>5, <2>2 DEF StorageInv, TypeOK, PointerData
    <3>. QED BY <1>1, <1>2, <3>1 DEF StorageInv, StrongCurrent, Slots
  <2>. QED BY <2>1, <2>2
<1>13. WeakPast'
  <2>. SUFFICES ASSUME NEW w \in Weaks, weak[w] # NoPtr
       PROVE weak[w].index < len + 1
    BY <1>1, <1>5 DEF StorageInv, WeakPast
  <2>1. weak[w].index \in Int BY DEF StorageInv, TypeOK, PointerData, Slots
  <2>. QED BY <1>2, <2>1 DEF StorageInv, WeakPast, Slots
<1>. QED BY <1>6, <1>7, <1>8, <1>9, <1>10, <1>11, <1>12, <1>13 DEF StorageInv

(* Making a WeakPointer keeps it. *)
LEMMA DowngradeInv ==
    ASSUME StorageInv, NEW h \in Handles, NEW w \in Weaks, Downgrade(h, w)
    PROVE  StorageInv'
<1>0. /\ strong[h] \in PointerData /\ ~Free(strong[h].index)
      /\ strong[h].index < len
      /\ strong[h].comp = data[strong[h].index]
      /\ strong[h].epoch = epoch[strong[h].index]
  BY HeldNotFree DEF Downgrade, StorageInv, StrongCurrent
<1>1. strong[h].comp = strong[h].epoch
  BY <1>0 DEF StorageInv, EpochCounts, PointerData
<1>2. TypeOK' BY <1>0 DEF Downgrade, StorageInv, TypeOK
<1>3. Balance' BY DEF Downgrade, StorageInv, Balance, StrongOn
<1>4. Bounded' /\ FreeQuiet' /\ Untouched' /\ EpochCounts' /\ StrongCurrent'
  BY DEF Downgrade, StorageInv, Bounded, FreeQuiet, Untouched, EpochCounts,
         StrongCurrent, Free
<1>5. WeakPast'
  <2>. SUFFICES ASSUME NEW x \in Weaks, weak'[x] # NoPtr
       PROVE /\ weak'[x].index < len /\ weak'[x].comp = weak'[x].epoch
             /\ weak'[x].comp <= data[weak'[x].index]
    BY DEF WeakPast, Downgrade
  <2>1. weak'[x] = IF x = w THEN strong[h] ELSE weak[x]
    BY DEF Downgrade, StorageInv, TypeOK
  <2>2. CASE x = w
    <3>1. weak'[x] = strong[h] BY <2>1, <2>2
    <3>2. strong[h].comp \in Int BY <1>0, BoundsOK DEF PointerData
    <3>3. strong[h].comp <= data[strong[h].index] BY <1>0, <3>2
    <3>. QED BY <1>0, <1>1, <3>1, <3>3
  <2>3. CASE x # w
    <3>1. weak'[x] = weak[x] BY <2>1, <2>3
    <3>. QED BY <3>1 DEF StorageInv, WeakPast
  <2>. QED BY <2>2, <2>3
<1>. QED BY <1>2, <1>3, <1>4, <1>5 DEF StorageInv


-----------------------------------------------------------------------------
(* sync_pending *)

(* The slots the drain frees: some count, all of it dropped. *)
Swept(i) == sub_ref[i] > 0 /\ sub_ref[i] = meta[i] + add_ref[i]

(* Below the moduli the drain of one slot is a subtraction that frees the
   slot at most once, at its last reference. *)
LEMMA DrainExact ==
    ASSUME StorageInv, NoWrap, NEW i \in Slots
    PROVE  /\ Drained(i) = Cardinality(StrongOn(i))
           /\ Zeroes(i) = IF Swept(i) THEN {sub_ref[i]} ELSE {}
           /\ Swept(i) => i < len /\ ~Free(i) /\ StrongOn(i) = {}
<1> DEFINE c == meta[i] + add_ref[i]
           s == sub_ref[i]
<1>1. c \in Nat /\ s \in Nat /\ Cardinality(StrongOn(i)) \in Nat
  BY BoundsOK, StrongOnFinite DEF StorageInv, TypeOK
<1>2. c = Cardinality(StrongOn(i)) + s /\ c < RefMod
  BY <1>1, BoundsOK DEF StorageInv, Balance, Bounded, NoWrap
<1>3. c - s \in Nat /\ c - s < RefMod BY <1>1, <1>2, BoundsOK
<1>4. Added(i) = c BY <1>1, <1>2, ModSmall, BoundsOK DEF Added
<1>5. Drained(i) = c - s BY <1>3, <1>4, ModSmall, BoundsOK DEF Drained
<1>6. ASSUME NEW k \in 1 .. s
      PROVE  (Added(i) - k) % RefMod = 0 <=> k = c
  <2>1. c - k \in Nat /\ c - k < RefMod BY <1>1, <1>2, BoundsOK
  <2>2. (c - k) % RefMod = c - k BY <2>1, ModSmall, BoundsOK
  <2>. QED BY <1>1, <1>4, <2>1, <2>2
<1>7. Zeroes(i) = {k \in 1 .. s : k = c} BY <1>6 DEF Zeroes
<1>8. Zeroes(i) = IF Swept(i) THEN {s} ELSE {}
  <2>1. CASE s > 0 /\ s = c BY <1>1, <1>7, <2>1 DEF Swept
  <2>2. CASE ~(s > 0 /\ s = c) BY <1>1, <1>2, <1>7, <2>2 DEF Swept
  <2>. QED BY <2>1, <2>2
<1>9. ASSUME Swept(i) PROVE i < len /\ ~Free(i) /\ StrongOn(i) = {}
  <2>1. c > 0 /\ Cardinality(StrongOn(i)) = 0 BY <1>1, <1>2, <1>9 DEF Swept
  <2>2. i < len
    <3>1. i \in Int /\ len \in Int BY DEF Slots, StorageInv, TypeOK
    <3>. QED BY <2>1, <3>1 DEF StorageInv, Untouched
  <2>3. ~Free(i) BY <2>1 DEF Free, StorageInv, FreeQuiet
  <2>. QED BY <2>1, <2>2, <2>3, StrongOnFinite
<1>. QED BY <1>1, <1>2, <1>5, <1>8, <1>9

(* What sync_pending does to the state, below the moduli. *)
LEMMA SyncEffect ==
    ASSUME StorageInv, NoWrap, SyncPending
    PROVE  /\ \A i \in Slots : meta'[i] = Cardinality(StrongOn(i))
           /\ \A i \in Slots : epoch'[i] = IF Swept(i) THEN epoch[i] + 1 ELSE epoch[i]
           /\ \A i \in Slots : Swept(i) => epoch[i] + 1 < EpochMod
           /\ free_list' = free_list \cup
                 {e \in FreeEntry : Swept(e.index) /\ e.epoch = epoch[e.index] + 1}
           /\ \A i \in Slots : Free(i)' <=> (Free(i) \/ Swept(i))
           /\ add_ref' = Zero /\ sub_ref' = Zero
           /\ UNCHANGED <<len, data, strong, weak>>
<1>1. \A i \in Slots : meta'[i] = Cardinality(StrongOn(i))
  BY DrainExact DEF SyncPending
<1>2. ASSUME NEW i \in Slots
      PROVE  /\ Cardinality(Zeroes(i)) = IF Swept(i) THEN 1 ELSE 0
             /\ Bumped(i, Cardinality(Zeroes(i))) =
                  IF Swept(i) THEN epoch[i] + 1 ELSE epoch[i]
             /\ Swept(i) => Bumped(i, 1) = epoch[i] + 1
             /\ Swept(i) => epoch[i] + 1 < EpochMod
  <2>0. epoch[i] \in Nat /\ epoch[i] < EpochMod /\ epoch[i] + 0 = epoch[i]
    BY BoundsOK DEF StorageInv, TypeOK
  <2>1. CASE Swept(i)
    <3>1. Cardinality(Zeroes(i)) = 1 BY <2>1, DrainExact, FS_Singleton
    <3>2. i < len /\ ~Free(i) BY <2>1, DrainExact
    <3>3. epoch[i] = data[i] /\ data[i] \in 0 .. MaxComps
      BY <3>2 DEF StorageInv, EpochCounts, TypeOK
    <3>4. epoch[i] + 1 \in Nat /\ epoch[i] + 1 < EpochMod
      BY <3>3, BoundsOK DEF NoWrap
    <3>5. Bumped(i, 1) = epoch[i] + 1
      BY <3>4, ModSmall, BoundsOK DEF Bumped
    <3>. QED BY <2>1, <3>1, <3>4, <3>5
  <2>2. CASE ~Swept(i)
    <3>1. Cardinality(Zeroes(i)) = 0 BY <2>2, DrainExact, FS_EmptySet
    <3>2. Bumped(i, 0) = epoch[i] BY <2>0, ModSmall, BoundsOK DEF Bumped
    <3>. QED BY <2>2, <3>1, <3>2
  <2>. QED BY <2>1, <2>2
<1>3. \A i \in Slots : epoch'[i] = IF Swept(i) THEN epoch[i] + 1 ELSE epoch[i]
  BY <1>2 DEF SyncPending
<1>4. \A i \in Slots : Swept(i) => epoch[i] + 1 < EpochMod BY <1>2
<1>5. ASSUME NEW e \in FreeEntry
      PROVE (\E n \in 1 .. Cardinality(Zeroes(e.index)) : e.epoch = Bumped(e.index, n))
              <=> (Swept(e.index) /\ e.epoch = epoch[e.index] + 1)
  <2>0. e.index \in Slots BY DEF FreeEntry
  <2>1. CASE Swept(e.index)
    <3>1. 1 .. Cardinality(Zeroes(e.index)) = {1} BY <1>2, <2>0, <2>1
    <3>. QED BY <1>2, <2>0, <2>1, <3>1
  <2>2. CASE ~Swept(e.index)
    <3>1. 1 .. Cardinality(Zeroes(e.index)) = {} BY <1>2, <2>0, <2>2
    <3>. QED BY <2>2, <3>1
  <2>. QED BY <2>1, <2>2
<1>6. free_list' = free_list \cup
        {e \in FreeEntry : Swept(e.index) /\ e.epoch = epoch[e.index] + 1}
  BY <1>5 DEF SyncPending
<1>7. ASSUME NEW i \in Slots PROVE Free(i)' <=> (Free(i) \/ Swept(i))
  <2>1. ASSUME Free(i)' PROVE Free(i) \/ Swept(i) BY <1>6, <2>1 DEF Free
  <2>2. ASSUME Free(i) PROVE Free(i)' BY <1>6, <2>2 DEF Free
  <2>3. ASSUME Swept(i) PROVE Free(i)'
    <3> DEFINE e == [index |-> i, epoch |-> epoch[i] + 1]
    <3>1. e \in FreeEntry
      BY <1>4, <2>3, BoundsOK DEF FreeEntry, StorageInv, TypeOK
    <3>2. e \in free_list' BY <1>6, <2>3, <3>1
    <3>. QED BY <3>2 DEF Free
  <2>. QED BY <2>1, <2>2, <2>3
<1>. QED BY <1>1, <1>3, <1>4, <1>6, <1>7 DEF SyncPending

(* sync_pending keeps it. *)
LEMMA SyncInv ==
    ASSUME StorageInv, NoWrap, SyncPending
    PROVE  StorageInv'
<1>0. \A i \in Slots :
        /\ meta[i] \in Int /\ add_ref[i] \in Nat /\ sub_ref[i] \in Nat
        /\ Cardinality(StrongOn(i)) \in Nat
        /\ meta[i] + add_ref[i] = Cardinality(StrongOn(i)) + sub_ref[i]
        /\ meta[i] + add_ref[i] <= MaxRefs
        /\ Cardinality(StrongOn(i)') = Cardinality(StrongOn(i))
  <2>1. \A i \in Slots : StrongOn(i)' = StrongOn(i) BY DEF SyncPending, StrongOn
  <2>. QED
    BY <2>1, BoundsOK, StrongOnFinite DEF StorageInv, TypeOK, Balance, Bounded
<1>1. \A i \in Slots : add_ref'[i] = 0 /\ sub_ref'[i] = 0
  BY SyncEffect DEF Zero
<1>2. \A i \in Slots : meta'[i] = Cardinality(StrongOn(i)) BY SyncEffect
<1>3. TypeOK'
  <2>1. meta' \in [Slots -> 0 .. RefMod - 1]
    <3>1. \A i \in Slots : Cardinality(StrongOn(i)) <= MaxRefs BY <1>0, BoundsOK
    <3>2. \A i \in Slots : Drained(i) \in 0 .. RefMod - 1
      BY <1>0, <3>1, DrainExact, BoundsOK DEF NoWrap
    <3>. QED BY <3>2 DEF SyncPending
  <2>2. epoch' \in [Slots -> 0 .. EpochMod - 1]
    <3>1. \A i \in Slots : epoch'[i] \in 0 .. EpochMod - 1
      BY SyncEffect, BoundsOK DEF StorageInv, TypeOK
    <3>2. epoch' = [i \in Slots |-> epoch'[i]] BY DEF SyncPending
    <3>. QED BY <3>1, <3>2
  <2>3. free_list' \subseteq FreeEntry BY SyncEffect DEF StorageInv, TypeOK
  <2>. QED BY <2>1, <2>2, <2>3, SyncEffect DEF StorageInv, TypeOK, Zero
<1>4. Balance' BY <1>0, <1>1, <1>2 DEF Balance
<1>5. Bounded' BY <1>0, <1>1, <1>2, BoundsOK DEF Bounded
<1>6. FreeQuiet'
  <2>. SUFFICES ASSUME NEW e \in free_list'
       PROVE /\ e.index < len /\ e.epoch = epoch'[e.index]
             /\ meta'[e.index] = 0 /\ add_ref'[e.index] = 0 /\ sub_ref'[e.index] = 0
    BY SyncEffect DEF FreeQuiet
  <2>0. e.index \in Slots BY SyncEffect DEF StorageInv, TypeOK, FreeEntry
  <2>1. CASE e \in free_list
    <3>1. /\ e.index < len /\ e.epoch = epoch[e.index]
          /\ meta[e.index] = 0 /\ add_ref[e.index] = 0 /\ sub_ref[e.index] = 0
      BY <2>1 DEF StorageInv, FreeQuiet
    <3>2. ~Swept(e.index) BY <3>1 DEF Swept
    <3>3. epoch'[e.index] = epoch[e.index] BY <2>0, <3>2, SyncEffect
    <3>4. meta'[e.index] = 0 BY <1>0, <1>2, <2>0, <3>1
    <3>. QED BY <1>1, <2>0, <3>1, <3>3, <3>4
  <2>2. CASE e \notin free_list
    <3>1. Swept(e.index) /\ e.epoch = epoch[e.index] + 1 BY <2>2, SyncEffect
    <3>2. e.index < len /\ StrongOn(e.index) = {} BY <2>0, <3>1, DrainExact
    <3>3. meta'[e.index] = 0 BY <1>2, <2>0, <3>2, FS_EmptySet
    <3>4. e.epoch = epoch'[e.index] BY <2>0, <3>1, SyncEffect
    <3>. QED BY <1>1, <2>0, <3>2, <3>3, <3>4
  <2>. QED BY <2>1, <2>2
<1>7. Untouched'
  <2>. SUFFICES ASSUME NEW i \in Slots, i >= len
       PROVE data[i] = 0 /\ epoch'[i] = 0 /\ meta'[i] = 0
    BY <1>1, SyncEffect DEF Untouched
  <2>1. /\ data[i] = 0 /\ epoch[i] = 0
        /\ meta[i] = 0 /\ add_ref[i] = 0 /\ sub_ref[i] = 0
    BY DEF StorageInv, Untouched
  <2>2. ~Swept(i) BY <2>1 DEF Swept
  <2>. QED BY <1>0, <1>2, <2>1, <2>2, SyncEffect
<1>8. EpochCounts'
  <2>. SUFFICES ASSUME NEW i \in Slots, i < len
       PROVE epoch'[i] = IF Free(i)' THEN data[i] + 1 ELSE data[i]
    BY SyncEffect DEF EpochCounts
  <2>1. epoch[i] = IF Free(i) THEN data[i] + 1 ELSE data[i]
    BY DEF StorageInv, EpochCounts
  <2>2. CASE Swept(i) BY <2>1, <2>2, SyncEffect, DrainExact
  <2>3. CASE ~Swept(i) BY <2>1, <2>3, SyncEffect
  <2>. QED BY <2>2, <2>3
<1>9. StrongCurrent'
  <2>. SUFFICES ASSUME NEW h \in Handles, strong[h] # NoPtr
       PROVE /\ strong[h].index < len
             /\ strong[h].comp = data[strong[h].index]
             /\ strong[h].epoch = epoch'[strong[h].index]
    BY SyncEffect DEF StrongCurrent
  <2>1. strong[h].index \in Slots BY DEF StorageInv, TypeOK, PointerData
  <2>2. StrongOn(strong[h].index) # {} BY DEF StrongOn
  <2>3. ~Swept(strong[h].index) BY <2>1, <2>2, DrainExact
  <2>. QED BY <2>1, <2>3, SyncEffect DEF StorageInv, StrongCurrent
<1>10. WeakPast' BY SyncEffect DEF StorageInv, WeakPast
<1>. QED BY <1>3, <1>4, <1>5, <1>6, <1>7, <1>8, <1>9, <1>10 DEF StorageInv


-----------------------------------------------------------------------------
(* Every step *)

(* Pinning a slot that is not free keeps it. *)
LEMMA PinInv ==
    ASSUME StorageInv, NEW h \in Handles, NEW i \in Slots,
           i < len, ~Free(i), PinSlot(h, i)
    PROVE  StorageInv'
<1> DEFINE p == [index |-> i, epoch |-> epoch[i], comp |-> data[i]]
<1>1. p \in PointerData BY DEF PointerData, StorageInv, TypeOK
<1>2. Acquire(h, p) BY DEF PinSlot
<1>. QED BY <1>1, <1>2, AcquireInv

(* No step leaves the invariant while nothing wraps. *)
LEMMA StepInv == StorageInv /\ NoWrap /\ [Next]_vars => StorageInv'
<1> SUFFICES ASSUME StorageInv, NoWrap, [Next]_vars PROVE StorageInv'
  OBVIOUS
<1>1. CASE SyncPending BY <1>1, SyncInv
<1>2. ASSUME NEW h \in Handles, CreateReuse(h) PROVE StorageInv'
  BY <1>2, ReuseInv
<1>3. ASSUME NEW h \in Handles, CreateGrow(h) PROVE StorageInv'
  BY <1>3, GrowInv
<1>4. ASSUME NEW h \in Handles, PinLive(h) PROVE StorageInv'
  <2>1. PICK i \in Slots : i < len /\ meta[i] # 0 /\ PinSlot(h, i)
    BY <1>4 DEF PinLive
  <2>2. ~Free(i) BY <2>1 DEF Free, StorageInv, FreeQuiet
  <2>. QED BY <2>1, <2>2, PinInv
<1>5. ASSUME NEW h \in Handles, PinLoaded(h) PROVE StorageInv'
  BY <1>5, PinInv DEF PinLoaded
<1>6. ASSUME NEW h \in Handles, DropPtr(h) PROVE StorageInv'
  BY <1>6, DropInv
<1>7. ASSUME NEW h \in Handles, NEW g \in Handles, Clone(h, g) PROVE StorageInv'
  <2>1. strong[h] # NoPtr /\ Acquire(g, strong[h]) BY <1>7 DEF Clone
  <2>2. /\ strong[h] \in PointerData /\ ~Free(strong[h].index)
    BY <2>1, HeldNotFree
  <2>3. /\ strong[h].index < len
        /\ strong[h].comp = data[strong[h].index]
        /\ strong[h].epoch = epoch[strong[h].index]
    BY <2>1 DEF StorageInv, StrongCurrent
  <2>. QED BY <2>1, <2>2, <2>3, AcquireInv
<1>8. ASSUME NEW h \in Handles, NEW w \in Weaks, Downgrade(h, w) PROVE StorageInv'
  BY <1>8, DowngradeInv
<1>9. ASSUME NEW h \in Handles, NEW w \in Weaks, Upgrade(w, h) PROVE StorageInv'
  <2>1. weak[w] # NoPtr /\ epoch[weak[w].index] = weak[w].epoch /\ Acquire(h, weak[w])
    BY <1>9 DEF Upgrade
  <2>. QED BY <2>1, WeakCurrent, AcquireInv
<1>10. CASE UNCHANGED vars
  BY <1>10 DEF vars, StorageInv, TypeOK, Balance, Bounded, FreeQuiet, Untouched,
     EpochCounts, StrongCurrent, WeakPast, StrongOn, Free
<1>. QED
  BY <1>1, <1>2, <1>3, <1>4, <1>5, <1>6, <1>7, <1>8, <1>9, <1>10 DEF Next

(* The inductive invariant: the counts balance, free slots are quiet, and   *)
(* every pointer is current.  It needs NoWrap, the u16 widths' condition.   *)
THEOREM Invariant == NoWrap => (Spec => []StorageInv)
<1> SUFFICES ASSUME NoWrap PROVE Spec => []StorageInv OBVIOUS
<1>1. StorageInv /\ [Next]_vars => StorageInv' BY StepInv
<1>. QED BY <1>1, InitInv, PTL DEF Spec

-----------------------------------------------------------------------------
(* The properties *)

(* Every operation of storage.rs and pointer.rs leaves the types intact: no  *)
(* count, epoch or index leaves its range.                                  *)
THEOREM StorageTypes == NoWrap => (Spec => []TypeOK)
<1>1. StorageInv => TypeOK BY DEF StorageInv
<1>. QED BY <1>1, Invariant, PTL

(* "The component outlives this pointer" (Pointer, pointer.rs). *)
THEOREM PointerSafety == NoWrap => (Spec => []PointerOutlives)
<1>1. StorageInv => PointerOutlives
  BY HeldNotFree DEF PointerOutlives, StorageInv, StrongCurrent
<1>. QED BY <1>1, Invariant, PTL

(* The debug assertions of create hold, and the free list has no slot twice. *)
THEOREM CreateSafety == NoWrap => (Spec => []CreateAssertion)
<1>1. StorageInv => CreateAssertion
  <2>. SUFFICES ASSUME StorageInv PROVE CreateAssertion OBVIOUS
  <2>1. \A d, e \in free_list : d.index = e.index => d = e
    BY DEF StorageInv, TypeOK, FreeEntry, FreeQuiet
  <2>. QED BY <2>1 DEF CreateAssertion, StorageInv, FreeQuiet
<1>. QED BY <1>1, Invariant, PTL

(* Applied and buffered counts of a slot are the Pointers into it. *)
THEOREM CountsBalance == NoWrap => (Spec => []Balance)
<1>1. StorageInv => Balance BY DEF StorageInv
<1>. QED BY <1>1, Invariant, PTL

(* Two Pointers into one slot agree on its epoch (Pointer::partial_cmp). *)
THEOREM EpochAgreement == NoWrap => (Spec => []SameSlotSameEpoch)
<1>1. StorageInv => SameSlotSameEpoch
  BY DEF StorageInv, StrongCurrent, SameSlotSameEpoch
<1>. QED BY <1>1, Invariant, PTL

(* WeakPointer::upgrade never returns a Pointer to another component. *)
THEOREM WeakSafety == NoWrap => (Spec => []WeakFindsItsOwn)
<1>1. StorageInv => WeakFindsItsOwn BY WeakCurrent DEF WeakFindsItsOwn
<1>. QED BY <1>1, Invariant, PTL

(* After sync_pending the iterators show exactly the referenced slots. *)
THEOREM SyncExact == NoWrap => (Spec => SyncShowsLiveness)
<1> SUFFICES ASSUME NoWrap PROVE Spec => SyncShowsLiveness OBVIOUS
<1>1. ASSUME StorageInv, [Next]_vars
      PROVE  [SyncPending => \A i \in Slots : (meta'[i] # 0) <=> (StrongOn(i) # {})]_vars
  <2>1. ASSUME SyncPending, NEW i \in Slots
        PROVE  (meta'[i] # 0) <=> (StrongOn(i) # {})
    BY <1>1, <2>1, SyncEffect, StrongOnFinite
  <2>. QED BY <2>1
<1>2. Spec => []StorageInv BY Invariant
<1>. QED BY <1>1, <1>2, PTL DEF Spec, SyncShowsLiveness

-----------------------------------------------------------------------------
(* Storage implements Components: every step of the counts, epochs and free *)
(* list is a step of the abstract table or leaves it as it is.              *)

Comps == 0 .. MaxComps
CreatedBar == {s \in Slots \X Comps : s[1] < len /\ s[2] <= data[s[1]]}
LivingBar == {s \in Slots \X Comps : Living(s[1]) /\ s[2] = data[s[1]]}
LoadedBar == {i \in Slots : Living(i) /\ meta[i] + add_ref[i] = 0}
StrongBar == [h \in Handles |-> Ref(strong[h])]
WeakBar == [w \in Weaks |-> Ref(weak[w])]

(* A Pointer's component is told apart from an empty place. *)
LEMMA RefPair ==
    ASSUME NEW p \in PointerData
    PROVE  Ref(p) = <<p.index, p.comp>> /\ Ref(p) # NoPtr
<1>1. p # NoPtr BY NoPtrFresh
<1>. QED BY <1>1, NoPtrFresh DEF Ref, PointerData

(* The initial states are those of the table. *)
LEMMA InitMaps == Init => Table!Init
<1> SUFFICES ASSUME Init PROVE Table!Init OBVIOUS
<1>0. \A i : ~Free(i) BY DEF Free, Init
<1>1. LivingBar = (0 .. NumLoaded - 1) \X {0}
  BY <1>0, BoundsOK DEF Init, LivingBar, Living, Zero, Slots, Comps
<1>2. CreatedBar = (0 .. NumLoaded - 1) \X {0}
  BY BoundsOK DEF Init, CreatedBar, Zero, Slots, Comps
<1>3. LoadedBar = 0 .. NumLoaded - 1
  BY <1>0, BoundsOK DEF Init, LoadedBar, Living, Zero, Slots
<1>4. StrongBar = [h \in Handles |-> NoPtr] /\ WeakBar = [w \in Weaks |-> NoPtr]
  BY DEF Init, StrongBar, WeakBar, Ref
<1>. QED
  BY <1>1, <1>2, <1>3, <1>4
  DEF Table!Init, LivingBar, CreatedBar, LoadedBar, StrongBar, WeakBar, Comps

(* Filling a place in the detailed state fills it in the table. *)
LEMMA StrongFillMaps ==
    ASSUME TypeOK, NEW h \in Handles, NEW p \in PointerData,
           strong[h] = NoPtr, strong' = [strong EXCEPT ![h] = p]
    PROVE  /\ StrongBar[h] = NoPtr
           /\ StrongBar' = [StrongBar EXCEPT ![h] = <<p.index, p.comp>>]
<1>1. StrongBar[h] = NoPtr BY DEF StrongBar, Ref
<1>2. \A g \in Handles : StrongBar'[g] =
        IF g = h THEN <<p.index, p.comp>> ELSE StrongBar[g]
  BY RefPair DEF StrongBar, TypeOK, Ref
<1>3. StrongBar' = [g \in Handles |-> StrongBar'[g]] BY DEF StrongBar
<1>4. [StrongBar EXCEPT ![h] = <<p.index, p.comp>>]
        = [g \in Handles |-> IF g = h THEN <<p.index, p.comp>> ELSE StrongBar[g]]
  BY DEF StrongBar
<1>. QED BY <1>1, <1>2, <1>3, <1>4

(* A clone, pin or upgrade is an Acquire of the table. *)
LEMMA AcquireMaps ==
    ASSUME StorageInv, NEW h \in Handles, NEW p \in PointerData, Acquire(h, p),
           p.index < len, ~Free(p.index), p.comp = data[p.index]
    PROVE  Table!Acquire(h)
<1> DEFINE j == p.index
<1>0. j \in Slots /\ p.comp \in Comps BY DEF PointerData, Comps
<1>1. StrongBar[h] = NoPtr /\ StrongBar' = [StrongBar EXCEPT ![h] = <<j, p.comp>>]
  BY StrongFillMaps DEF StorageInv, Acquire
<1>2. \A i \in Slots : add_ref'[i] = IF i = j THEN add_ref[i] + 1 ELSE add_ref[i]
  BY <1>0 DEF StorageInv, TypeOK, Acquire, Count
<1>3. \A i \in Slots : meta[i] \in Nat /\ add_ref[i] \in Nat
  BY BoundsOK DEF StorageInv, TypeOK
<1>4. LoadedBar' = LoadedBar \ {j}
  BY <1>0, <1>2, <1>3 DEF LoadedBar, Living, Free, Acquire
<1>5. CreatedBar' = CreatedBar /\ LivingBar' = LivingBar /\ WeakBar' = WeakBar
  BY DEF CreatedBar, LivingBar, WeakBar, Living, Free, Acquire
<1>6. <<j, p.comp>> \in LivingBar BY <1>0 DEF LivingBar, Living
<1>. QED
  BY <1>1, <1>4, <1>5, <1>6
  DEF Table!Acquire, LivingBar, CreatedBar, LoadedBar, StrongBar, WeakBar, Comps

(* Dropping a Pointer is a Release. *)
LEMMA DropMaps ==
    ASSUME StorageInv, NEW h \in Handles, DropPtr(h)
    PROVE  Table!Release(h)
<1>1. StrongBar' = [StrongBar EXCEPT ![h] = NoPtr]
  BY DEF DropPtr, StorageInv, TypeOK, StrongBar, Ref
<1>2. /\ CreatedBar' = CreatedBar /\ LivingBar' = LivingBar
      /\ WeakBar' = WeakBar /\ LoadedBar' = LoadedBar
  BY DEF CreatedBar, LivingBar, WeakBar, LoadedBar, Living, Free, DropPtr
<1>. QED
  BY <1>1, <1>2
  DEF Table!Release, LivingBar, CreatedBar, LoadedBar, StrongBar, WeakBar, Comps

(* Downgrading is a Downgrade. *)
LEMMA DowngradeMaps ==
    ASSUME StorageInv, NEW h \in Handles, NEW w \in Weaks, Downgrade(h, w)
    PROVE  Table!Downgrade(h, w)
<1>0. strong[h] \in PointerData BY HeldNotFree DEF Downgrade
<1>1. StrongBar[h] # NoPtr BY <1>0, RefPair DEF StrongBar
<1>2. WeakBar' = [WeakBar EXCEPT ![w] = StrongBar[h]]
  BY DEF Downgrade, StorageInv, TypeOK, StrongBar, WeakBar, Ref
<1>3. /\ CreatedBar' = CreatedBar /\ LivingBar' = LivingBar
      /\ StrongBar' = StrongBar /\ LoadedBar' = LoadedBar
  BY DEF CreatedBar, LivingBar, StrongBar, LoadedBar, Living, Free, Downgrade
<1>. QED
  BY <1>1, <1>2, <1>3
  DEF Table!Downgrade, LivingBar, CreatedBar, LoadedBar, StrongBar, WeakBar, Comps

(* create on a free slot is a Create. *)
LEMMA ReuseMaps ==
    ASSUME StorageInv, NEW h \in Handles, CreateReuse(h)
    PROVE  Table!Create(h)
<1>1. PICK e \in free_list :
        /\ strong[h] = NoPtr
        /\ data[e.index] < MaxComps
        /\ free_list' = free_list \ {e}
        /\ data' = Count(data, e.index)
        /\ meta' = [meta EXCEPT ![e.index] = 1]
        /\ strong' = [strong EXCEPT ![h] =
              [index |-> e.index, epoch |-> e.epoch, comp |-> data[e.index] + 1]]
        /\ UNCHANGED <<len, add_ref, sub_ref, epoch, weak>>
  BY DEF CreateReuse
<1> DEFINE j == e.index
           c == data[j] + 1
           p == [index |-> j, epoch |-> e.epoch, comp |-> c]
<1>2. /\ j \in Slots /\ e \in FreeEntry /\ j < len /\ Free(j)
      /\ meta[j] = 0 /\ add_ref[j] = 0
  BY DEF StorageInv, TypeOK, FreeEntry, FreeQuiet, Free
<1>3. data[j] \in 0 .. MaxComps /\ c \in Comps
  BY <1>1, <1>2, BoundsOK DEF StorageInv, TypeOK, Comps
<1>4. p \in PointerData BY <1>2, <1>3 DEF PointerData, FreeEntry, Comps
<1>5. /\ \A i \in Slots : data'[i] = IF i = j THEN c ELSE data[i]
      /\ \A i \in Slots : meta'[i] = IF i = j THEN 1 ELSE meta[i]
  BY <1>1, <1>2 DEF StorageInv, TypeOK, Count
<1>6. \A i \in Slots : data[i] \in Int /\ meta[i] \in Nat /\ add_ref[i] \in Nat
  BY BoundsOK DEF StorageInv, TypeOK
<1>7. \A d \in free_list : d.index = j => d = e
  BY DEF StorageInv, TypeOK, FreeEntry, FreeQuiet
<1>8. \A i \in Slots : Living(i)' <=> (Living(i) \/ i = j)
  BY <1>1, <1>2, <1>7 DEF Free, Living
<1>9. StrongBar[h] = NoPtr /\ StrongBar' = [StrongBar EXCEPT ![h] = <<j, c>>]
  BY <1>1, <1>4, StrongFillMaps DEF StorageInv
<1>10. CreatedBar' = CreatedBar \cup {<<j, c>>}
  BY <1>1, <1>2, <1>3, <1>5, <1>6 DEF CreatedBar, Comps
<1>11. LivingBar' = LivingBar \cup {<<j, c>>}
  BY <1>2, <1>3, <1>5, <1>8 DEF LivingBar, Living
<1>12. LoadedBar' = LoadedBar
  BY <1>1, <1>2, <1>5, <1>6, <1>8 DEF LoadedBar, Living
<1>13. WeakBar' = WeakBar BY <1>1 DEF WeakBar
<1>14. j \in Slots \ Table!SlotsOf(LivingBar)
  BY <1>2 DEF Table!SlotsOf, LivingBar, Living
<1>15. <<j, c>> \notin CreatedBar BY <1>3 DEF CreatedBar
<1>. QED
  BY <1>3, <1>9, <1>10, <1>11, <1>12, <1>13, <1>14, <1>15
  DEF Table!Create, LivingBar, CreatedBar, LoadedBar, StrongBar, WeakBar, Comps

(* create on a new slot is a Create. *)
LEMMA GrowMaps ==
    ASSUME StorageInv, NEW h \in Handles, CreateGrow(h)
    PROVE  Table!Create(h)
<1> DEFINE p == [index |-> len, epoch |-> 0, comp |-> 0]
<1>1. /\ strong[h] = NoPtr /\ free_list = {} /\ len < NumSlots /\ len' = len + 1
      /\ data' = [data EXCEPT ![len] = 0]
      /\ meta' = [meta EXCEPT ![len] = 1]
      /\ strong' = [strong EXCEPT ![h] = p]
      /\ UNCHANGED <<free_list, add_ref, sub_ref, epoch, weak>>
  BY DEF CreateGrow
<1>2. len \in Slots /\ 0 \in Comps
  BY <1>1, BoundsOK DEF StorageInv, TypeOK, Slots, Comps
<1>3. data[len] = 0 /\ meta[len] = 0 /\ add_ref[len] = 0
  BY <1>2 DEF StorageInv, Untouched, Slots
<1>4. p \in PointerData BY <1>2, BoundsOK DEF PointerData
<1>5. /\ data' = data
      /\ \A i \in Slots : meta'[i] = IF i = len THEN 1 ELSE meta[i]
  BY <1>1, <1>2, <1>3 DEF StorageInv, TypeOK
<1>6. \A i \in Slots :
        i \in Int /\ data[i] \in Nat /\ meta[i] \in Nat /\ add_ref[i] \in Nat
  BY BoundsOK DEF StorageInv, TypeOK, Slots
<1>7. \A i \in Slots : Living(i)' <=> (Living(i) \/ i = len)
  BY <1>1, <1>2, <1>6 DEF Free, Living
<1>8. StrongBar[h] = NoPtr /\ StrongBar' = [StrongBar EXCEPT ![h] = <<len, 0>>]
  BY <1>1, <1>4, StrongFillMaps DEF StorageInv
<1>9. CreatedBar' = CreatedBar \cup {<<len, 0>>}
  BY <1>1, <1>2, <1>3, <1>5, <1>6 DEF CreatedBar, Comps
<1>10. LivingBar' = LivingBar \cup {<<len, 0>>}
  BY <1>2, <1>3, <1>5, <1>7 DEF LivingBar
<1>11. LoadedBar' = LoadedBar
  BY <1>1, <1>2, <1>5, <1>6, <1>7 DEF LoadedBar, Living
<1>12. WeakBar' = WeakBar BY <1>1 DEF WeakBar
<1>13. len \in Slots \ Table!SlotsOf(LivingBar)
  BY <1>2, <1>6 DEF Table!SlotsOf, LivingBar, Living
<1>14. <<len, 0>> \notin CreatedBar BY <1>2, <1>6 DEF CreatedBar
<1>. QED
  BY <1>2, <1>8, <1>9, <1>10, <1>11, <1>12, <1>13, <1>14
  DEF Table!Create, LivingBar, CreatedBar, LoadedBar, StrongBar, WeakBar, Comps

(* sync_pending reclaims exactly what the table's Sync reclaims. *)
LEMMA SyncMaps ==
    ASSUME StorageInv, NoWrap, SyncPending
    PROVE  Table!Sync
<1>0. ASSUME NEW i \in Slots
      PROVE  /\ meta[i] \in Nat /\ add_ref[i] \in Nat /\ sub_ref[i] \in Nat
             /\ Cardinality(StrongOn(i)) \in Nat
             /\ meta[i] + add_ref[i] = Cardinality(StrongOn(i)) + sub_ref[i]
             /\ meta'[i] = Cardinality(StrongOn(i)) /\ add_ref'[i] = 0
             /\ Living(i)' <=> (Living(i) /\ ~Swept(i))
             /\ Swept(i) => StrongOn(i) = {}
             /\ StrongOn(i) # {} => ~Swept(i)
             /\ StrongOn(i) = {} <=> Cardinality(StrongOn(i)) = 0
  <2>1. meta[i] \in Nat /\ add_ref[i] \in Nat /\ sub_ref[i] \in Nat
        /\ meta[i] + add_ref[i] = Cardinality(StrongOn(i)) + sub_ref[i]
    BY BoundsOK DEF StorageInv, TypeOK, Balance
  <2>2. meta'[i] = Cardinality(StrongOn(i)) /\ add_ref'[i] = 0
    BY SyncEffect DEF Zero
  <2>3. Living(i)' <=> (Living(i) /\ ~Swept(i)) BY SyncEffect DEF Living
  <2>. QED BY <2>1, <2>2, <2>3, StrongOnFinite, DrainExact
<1>1. \A i \in Slots : i \in LoadedBar <=> (Living(i) /\ meta[i] + add_ref[i] = 0)
  BY DEF LoadedBar
<1>2. LoadedBar' = LoadedBar
  <2>1. ASSUME NEW i \in Slots
        PROVE  (Living(i)' /\ meta'[i] + add_ref'[i] = 0)
                 <=> (Living(i) /\ meta[i] + add_ref[i] = 0)
    BY <1>0 DEF Swept
  <2>. QED BY <2>1 DEF LoadedBar
<1>3. ASSUME NEW i \in Slots, Living(i)
      PROVE  <<i, data[i]>> \in Table!Referenced <=> StrongOn(i) # {}
  <2>1. ASSUME NEW h \in StrongOn(i) PROVE <<i, data[i]>> \in Table!Referenced
    <3>1. h \in Handles /\ strong[h] # NoPtr /\ strong[h].index = i
      BY DEF StrongOn
    <3>2. strong[h] \in PointerData /\ strong[h].comp = data[i]
      BY <3>1 DEF StorageInv, TypeOK, StrongCurrent
    <3>3. StrongBar[h] = <<i, data[i]>> /\ StrongBar[h] # NoPtr
      BY <3>1, <3>2, RefPair DEF StrongBar
    <3>. QED BY <3>1, <3>3 DEF Table!Referenced, StrongBar
  <2>2. ASSUME <<i, data[i]>> \in Table!Referenced PROVE StrongOn(i) # {}
    <3>1. PICK h \in Handles : StrongBar[h] = <<i, data[i]>> /\ StrongBar[h] # NoPtr
      BY <2>2 DEF Table!Referenced, StrongBar
    <3>2. strong[h] # NoPtr BY <3>1 DEF StrongBar, Ref
    <3>3. strong[h] \in PointerData BY <3>2 DEF StorageInv, TypeOK
    <3>4. strong[h].index = i BY <3>1, <3>3, RefPair DEF StrongBar
    <3>. QED BY <3>2, <3>4 DEF StrongOn
  <2>. QED BY <2>1, <2>2
<1>4. ASSUME NEW i \in Slots, Living(i)
      PROVE  Living(i)' <=> (<<i, data[i]>> \in Table!Referenced \/ i \in LoadedBar)
  BY <1>0, <1>1, <1>3, <1>4 DEF Swept
<1>5. LivingBar' = {p \in LivingBar : p \in Table!Referenced \/ p[1] \in LoadedBar}
  <2>1. data' = data BY SyncEffect
  <2>. QED BY <1>0, <1>4, <2>1 DEF LivingBar
<1>6. CreatedBar' = CreatedBar /\ StrongBar' = StrongBar /\ WeakBar' = WeakBar
  BY SyncEffect DEF CreatedBar, StrongBar, WeakBar
<1>. QED
  BY <1>2, <1>5, <1>6
  DEF Table!Sync, LivingBar, CreatedBar, LoadedBar, StrongBar, WeakBar, Comps

(* A pin is an Acquire of the slot's living component. *)
LEMMA PinMaps ==
    ASSUME StorageInv, NEW h \in Handles, NEW i \in Slots,
           i < len, ~Free(i), PinSlot(h, i)
    PROVE  Table!Acquire(h)
<1> DEFINE p == [index |-> i, epoch |-> epoch[i], comp |-> data[i]]
<1>1. p \in PointerData BY DEF PointerData, StorageInv, TypeOK
<1>2. Acquire(h, p) BY DEF PinSlot
<1>. QED BY <1>1, <1>2, AcquireMaps

(* Every step of Storage is one of the table, or changes nothing of it. *)
LEMMA StepMaps == StorageInv /\ NoWrap /\ [Next]_vars => [Table!Next]_(Table!vars)
<1> SUFFICES ASSUME StorageInv, NoWrap, [Next]_vars PROVE [Table!Next]_(Table!vars)
  OBVIOUS
<1>1. CASE SyncPending BY <1>1, SyncMaps DEF Table!Next
<1>2. ASSUME NEW h \in Handles, CreateReuse(h) PROVE Table!Next
  BY <1>2, ReuseMaps DEF Table!Next
<1>3. ASSUME NEW h \in Handles, CreateGrow(h) PROVE Table!Next
  BY <1>3, GrowMaps DEF Table!Next
<1>4. ASSUME NEW h \in Handles, PinLive(h) PROVE Table!Next
  <2>1. PICK i \in Slots : i < len /\ meta[i] # 0 /\ PinSlot(h, i)
    BY <1>4 DEF PinLive
  <2>2. ~Free(i) BY <2>1 DEF Free, StorageInv, FreeQuiet
  <2>. QED BY <2>1, <2>2, PinMaps DEF Table!Next
<1>5. ASSUME NEW h \in Handles, PinLoaded(h) PROVE Table!Next
  BY <1>5, PinMaps DEF PinLoaded, Table!Next
<1>6. ASSUME NEW h \in Handles, DropPtr(h) PROVE Table!Next
  BY <1>6, DropMaps DEF Table!Next
<1>7. ASSUME NEW h \in Handles, NEW g \in Handles, Clone(h, g) PROVE Table!Next
  <2>1. strong[h] # NoPtr /\ Acquire(g, strong[h]) BY <1>7 DEF Clone
  <2>2. strong[h] \in PointerData /\ ~Free(strong[h].index)
    BY <2>1, HeldNotFree
  <2>3. strong[h].index < len /\ strong[h].comp = data[strong[h].index]
    BY <2>1 DEF StorageInv, StrongCurrent
  <2>. QED BY <2>1, <2>2, <2>3, AcquireMaps DEF Table!Next
<1>8. ASSUME NEW h \in Handles, NEW w \in Weaks, Downgrade(h, w) PROVE Table!Next
  BY <1>8, DowngradeMaps DEF Table!Next
<1>9. ASSUME NEW h \in Handles, NEW w \in Weaks, Upgrade(w, h) PROVE Table!Next
  <2>1. weak[w] # NoPtr /\ epoch[weak[w].index] = weak[w].epoch /\ Acquire(h, weak[w])
    BY <1>9 DEF Upgrade
  <2>. QED BY <2>1, WeakCurrent, AcquireMaps DEF Table!Next
<1>10. CASE UNCHANGED vars
  BY <1>10 DEF vars, Table!vars, Living, Free, Ref
<1>. QED
  BY <1>1, <1>2, <1>3, <1>4, <1>5, <1>6, <1>7, <1>8, <1>9, <1>10 DEF Next

(* Counts, epochs, free list and buffers implement the table of components: *)
(* sync_pending and create recycle a slot only when nobody references it.   *)
THEOREM Refinement == NoWrap => (Spec => Promise)
<1> SUFFICES ASSUME NoWrap PROVE Spec => Promise OBVIOUS
<1>1. StorageInv /\ [Next]_vars => [Table!Next]_(Table!vars) BY StepMaps
<1>2. Spec => []StorageInv BY Invariant
<1>. QED BY <1>1, <1>2, InitMaps, PTL DEF Spec, Promise, Table!Spec

=============================================================================
