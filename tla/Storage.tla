------------------------------- MODULE Storage -------------------------------
(***************************************************************************)
(* waw_core's Storage<T>: slots with buffered reference counts.            *)
(*                                                                         *)
(* A Pointer (strong) or WeakPointer holds a PointerData and the shared    *)
(* `pending` buffer.  Clone, Drop, upgrade and pin only push an index on   *)
(* pending.add_ref or pending.sub_ref, under the pending mutex;            *)
(* sync_pending(&mut self) drains both lists into the counts of the slots  *)
(* and puts the slots whose count reached 0 on the free list under a new   *)
(* epoch; create(&mut self) reuses a free slot or grows the storage, and   *)
(* does not touch `pending`.  Every operation is one action: it runs under *)
(* &mut self, under the pending mutex, or both, so operations of different *)
(* threads interleave at this grain.                                       *)
(*                                                                         *)
(* Abstractions.  The payload of a slot is the number of the component     *)
(* that was written there.  Pending lists are kept as counts per slot and  *)
(* the free list as a set: the order in which a list is drained only       *)
(* decides which free slot create pops, so create takes any.  epoch[i] = 0 *)
(* also stands for an epoch entry sync_pending has not pushed yet          *)
(* (get_epoch reads both alike).  The storage id is one storage's.         *)
(***************************************************************************)
EXTENDS Integers, FiniteSets

CONSTANTS
    Handles,    \* places of the program that can hold a Pointer
    Weaks,      \* places of the program that can hold a WeakPointer
    NoPtr,      \* an empty place
    NumSlots,   \* bound: the storage grows to at most this many slots
    NumLoaded,  \* slots a FromIterator construction starts with (count 0)
    MaxComps,   \* bound: components ever created in one slot
    MaxRefs,    \* bound: count of a slot plus its pending add_refs
    RefMod,     \* 2^16 in the code: RefCount is u16
    EpochMod    \* 2^16 in the code: Epoch is u16

Slots == 0 .. NumSlots - 1

\* PointerData without the storage id; `comp` is a history field: the
\* component the pointer was made for.
PointerData == [index : Slots, epoch : 0 .. EpochMod - 1, comp : 0 .. MaxComps]

ASSUME HandlesFinite == IsFiniteSet(Handles)
ASSUME NoPtrFresh ==
    NoPtr \notin PointerData /\ NoPtr \notin Slots \X (0 .. MaxComps)
ASSUME BoundsOK ==
    /\ NumSlots \in Nat /\ NumLoaded \in 0 .. NumSlots
    /\ MaxComps \in Nat
    /\ MaxRefs \in Nat \ {0}
    /\ RefMod \in Nat \ {0, 1} /\ EpochMod \in Nat \ {0, 1}

VARIABLES
    len,        \* inner.data.len() = inner.meta.len()
    data,       \* inner.data: the number of the component in the slot
    meta,       \* inner.meta: counts as of the last sync_pending
    free_list,  \* inner.free_list: slots ready for reuse with their epoch
    add_ref,    \* pending.add_ref: occurrences of each slot
    sub_ref,    \* pending.sub_ref: occurrences of each slot
    epoch,      \* pending.epoch
    strong,     \* the Pointers the program holds
    weak        \* the WeakPointers the program holds

vars == <<len, data, meta, free_list, add_ref, sub_ref, epoch, strong, weak>>

FreeEntry == [index : Slots, epoch : 0 .. EpochMod - 1]

TypeOK ==
    /\ len \in 0 .. NumSlots
    /\ data \in [Slots -> 0 .. MaxComps]
    /\ meta \in [Slots -> 0 .. RefMod - 1]
    /\ free_list \subseteq FreeEntry
    /\ add_ref \in [Slots -> Nat]
    /\ sub_ref \in [Slots -> Nat]
    /\ epoch \in [Slots -> 0 .. EpochMod - 1]
    /\ strong \in [Handles -> PointerData \cup {NoPtr}]
    /\ weak \in [Weaks -> PointerData \cup {NoPtr}]

Zero == [i \in Slots |-> 0]

\* Storage::new (NumLoaded = 0) or from_iter: loaded slots have count 0 and
\* are not on the free list.
Init ==
    /\ len = NumLoaded
    /\ data = Zero /\ meta = Zero /\ free_list = {}
    /\ add_ref = Zero /\ sub_ref = Zero /\ epoch = Zero
    /\ strong = [h \in Handles |-> NoPtr]
    /\ weak = [w \in Weaks |-> NoPtr]

-----------------------------------------------------------------------------
\* Operators on the state

StrongOn(i) == {h \in Handles : strong[h] # NoPtr /\ strong[h].index = i}

Free(i) == \E e \in free_list : e.index = i

CanAdd(i) == meta[i] + add_ref[i] < MaxRefs

Count(f, i) == [f EXCEPT ![i] = @ + 1]

\* Fault: the push on add_ref is forgotten.
AcquireUncounted(h, p) ==
    /\ strong[h] = NoPtr
    /\ strong' = [strong EXCEPT ![h] = p]
    /\ UNCHANGED <<len, data, meta, free_list, add_ref, sub_ref, epoch, weak>>

Acquire(h, p) ==
    /\ strong[h] = NoPtr
    /\ CanAdd(p.index)
    /\ strong' = [strong EXCEPT ![h] = p]
    /\ add_ref' = Count(add_ref, p.index)
    /\ UNCHANGED <<len, data, meta, free_list, sub_ref, epoch, weak>>

-----------------------------------------------------------------------------
\* Operations on the storage

\* Fault: create reads the top of the free list without popping it.
CreateReusePeek(h) == \E e \in free_list :
    /\ strong[h] = NoPtr
    /\ data[e.index] < MaxComps
    /\ data' = Count(data, e.index)
    /\ meta' = [meta EXCEPT ![e.index] = 1]
    /\ strong' = [strong EXCEPT ![h] =
            [index |-> e.index, epoch |-> e.epoch, comp |-> data[e.index] + 1]]
    /\ UNCHANGED <<len, free_list, add_ref, sub_ref, epoch, weak>>

\* create, free-list branch: the popped entry becomes the pointer.
CreateReuse(h) == \E e \in free_list :
    /\ strong[h] = NoPtr
    /\ data[e.index] < MaxComps
    /\ free_list' = free_list \ {e}
    /\ data' = Count(data, e.index)
    /\ meta' = [meta EXCEPT ![e.index] = 1]
    /\ strong' = [strong EXCEPT ![h] =
            [index |-> e.index, epoch |-> e.epoch, comp |-> data[e.index] + 1]]
    /\ UNCHANGED <<len, add_ref, sub_ref, epoch, weak>>

\* create, push branch: a new slot at epoch 0.
CreateGrow(h) ==
    /\ strong[h] = NoPtr
    /\ free_list = {}
    /\ len < NumSlots
    /\ len' = len + 1
    /\ data' = [data EXCEPT ![len] = 0]
    /\ meta' = [meta EXCEPT ![len] = 1]
    /\ strong' = [strong EXCEPT ![h] = [index |-> len, epoch |-> 0, comp |-> 0]]
    /\ UNCHANGED <<free_list, add_ref, sub_ref, epoch, weak>>

\* Fault: pin keeps the epoch 0 a cursor's PointerData starts with.
PinSlotEpochZero(h, i) == Acquire(h, [index |-> i, epoch |-> 0, comp |-> data[i]])

\* pin of an item of slot i: the epoch is the one `pending` holds now.
PinSlot(h, i) == Acquire(h, [index |-> i, epoch |-> epoch[i], comp |-> data[i]])

\* Storage::pin of an item of iter(), CursorItem::pin of an item of a
\* cursor: both skip the slots whose count was 0 at the last sync.
PinLive(h) == \E i \in Slots : i < len /\ meta[i] # 0 /\ PinSlot(h, i)

\* Storage::pin of an item only iter_all() shows: a slot from_iter filled
\* and no sync has counted a Pointer for yet.
PinLoaded(h) == \E i \in Slots : i < len /\ meta[i] = 0 /\ ~Free(i) /\ PinSlot(h, i)

\* Storage::pin of an item of iter_all() whose slot is on the free list.
PinDead(h) == \E i \in Slots : i < len /\ Free(i) /\ PinSlot(h, i)

\* Faults: sub_refs drained before add_refs; repeated sub_refs drained once;
\* the epoch not bumped, or bumped at each drained sub_ref.
ZeroesSubsFirst(i) == {k \in 1 .. sub_ref[i] : (meta[i] - k) % RefMod = 0}
DrainedOnce(i) ==
    (meta[i] + add_ref[i] - IF sub_ref[i] > 0 THEN 1 ELSE 0) % RefMod
BumpedNever(i, n) == epoch[i]
BumpedPerDrop(i, n) == epoch[i] + sub_ref[i]

\* The pending counts, applied in the order of the code: every add_ref,
\* then the sub_refs one by one.  A slot is freed at each decrement that
\* reaches 0.
Added(i) == (meta[i] + add_ref[i]) % RefMod
Zeroes(i) == {k \in 1 .. sub_ref[i] : (Added(i) - k) % RefMod = 0}
Drained(i) == (Added(i) - sub_ref[i]) % RefMod
Bumped(i, n) == (epoch[i] + n) % EpochMod

SyncPending ==
    /\ meta' = [i \in Slots |-> Drained(i)]
    /\ epoch' = [i \in Slots |-> Bumped(i, Cardinality(Zeroes(i)))]
    /\ free_list' = free_list \cup
            {e \in FreeEntry : \E n \in 1 .. Cardinality(Zeroes(e.index)) :
                e.epoch = Bumped(e.index, n)}
    /\ add_ref' = Zero /\ sub_ref' = Zero
    /\ UNCHANGED <<len, data, strong, weak>>

-----------------------------------------------------------------------------
\* Operations on pointers

\* Pointer::clone
Clone(h, g) == strong[h] # NoPtr /\ Acquire(g, strong[h])

\* Drop for Pointer
DropPtr(h) ==
    /\ strong[h] # NoPtr
    /\ strong' = [strong EXCEPT ![h] = NoPtr]
    /\ sub_ref' = Count(sub_ref, strong[h].index)
    /\ UNCHANGED <<len, data, meta, free_list, add_ref, epoch, weak>>

\* Pointer::downgrade, WeakPointer::clone and the drop of a WeakPointer only
\* decide what the place w holds.
Downgrade(h, w) ==
    /\ strong[h] # NoPtr /\ weak[w] # strong[h]
    /\ weak' = [weak EXCEPT ![w] = strong[h]]
    /\ UNCHANGED <<len, data, meta, free_list, add_ref, sub_ref, epoch, strong>>

\* Fault: upgrade does not compare epochs.
UpgradeUnchecked(w, h) == weak[w] # NoPtr /\ Acquire(h, weak[w])

\* WeakPointer::upgrade, Ok branch (the Err branch changes nothing).
Upgrade(w, h) ==
    /\ weak[w] # NoPtr
    /\ epoch[weak[w].index] = weak[w].epoch
    /\ Acquire(h, weak[w])

-----------------------------------------------------------------------------
Next ==
    \/ SyncPending
    \/ \E h \in Handles :
        \/ CreateReuse(h) \/ CreateGrow(h)
        \/ PinLive(h) \/ PinLoaded(h)
        \/ DropPtr(h)
        \/ \E g \in Handles : Clone(h, g)
        \/ \E w \in Weaks : Downgrade(h, w) \/ Upgrade(w, h)

Spec == Init /\ [][Next]_vars

\* The same program when it also pins what iter_all() shows of dead slots.
SpecIterAll == Init /\ [][Next \/ \E h \in Handles : PinDead(h)]_vars

-----------------------------------------------------------------------------
\* Safety

\* pointer.rs: "The component outlives this pointer."  The slot a Pointer
\* indexes still holds the component it was made for, and is not reusable.
PointerOutlives == \A h \in Handles : strong[h] # NoPtr =>
    /\ strong[h].index < len
    /\ data[strong[h].index] = strong[h].comp
    /\ ~Free(strong[h].index)

\* The debug assertion of create holds whichever free slot it pops, and no
\* slot is on the free list twice.
CreateAssertion ==
    /\ \A e \in free_list : meta[e.index] = 0
    /\ \A d, e \in free_list : d.index = e.index => d = e

\* The counts of a slot are the Pointers to it: what is applied plus what is
\* buffered.  This is what makes a count of 0 mean that nobody can reach it.
Balance == \A i \in Slots :
    meta[i] + add_ref[i] = Cardinality(StrongOn(i)) + sub_ref[i]

\* What the assertion of Pointer::partial_cmp is about: two Pointers into
\* one slot agree on its epoch, even when one was pinned or upgraded
\* between the last drop and the sync.
SameSlotSameEpoch == \A g, h \in Handles :
    (strong[g] # NoPtr /\ strong[h] # NoPtr /\ strong[g].index = strong[h].index)
        => strong[g].epoch = strong[h].epoch

\* upgrade "returns DeadComponentError if the component was destroyed": a
\* WeakPointer that passes the epoch check finds its own component.
WeakFindsItsOwn == \A w \in Weaks :
    (weak[w] # NoPtr /\ epoch[weak[w].index] = weak[w].epoch)
        => data[weak[w].index] = weak[w].comp /\ ~Free(weak[w].index)

\* sync_pending: "so iter/iter_mut reflect true liveness".  After it, the
\* slots an iterator shows are those some Pointer holds, whatever was
\* cloned, dropped, pinned and upgraded since the last one.
SyncShowsLiveness ==
    [][SyncPending => \A i \in Slots : (meta'[i] # 0) <=> (StrongOn(i) # {})]_vars
-----------------------------------------------------------------------------
\* The promise, and the map onto it

Living(i) == i < len /\ ~Free(i)

Ref(p) == IF p = NoPtr THEN NoPtr ELSE <<p.index, p.comp>>

Table == INSTANCE Components WITH
    Comps <- 0 .. MaxComps,
    Loaded <- 0 .. NumLoaded - 1,
    NoRef <- NoPtr,
    created <- {s \in Slots \X (0 .. MaxComps) : s[1] < len /\ s[2] <= data[s[1]]},
    living <- {s \in Slots \X (0 .. MaxComps) : Living(s[1]) /\ s[2] = data[s[1]]},
    loaded <- {i \in Slots : Living(i) /\ meta[i] + add_ref[i] = 0},
    strong <- [h \in Handles |-> Ref(strong[h])],
    weak <- [w \in Weaks |-> Ref(weak[w])]

\* Counts, epochs and the free list together implement Components: a strong
\* reference is never made to a reclaimed component, a slot is not reused
\* early, and each sync reclaims exactly the unreferenced components.
Promise == Table!Spec

-----------------------------------------------------------------------------
\* Why it holds

\* No wrap-around: fewer than 2^16 references counted on a slot between two
\* syncs, fewer than 2^16 - 1 components in its life.
NoWrap == MaxRefs < RefMod /\ MaxComps + 1 < EpochMod

\* A free slot is quiet: nothing counted, nothing buffered, and its entry has
\* the epoch upgrade compares with.
FreeQuiet == \A e \in free_list :
    /\ e.index < len /\ e.epoch = epoch[e.index]
    /\ meta[e.index] = 0 /\ add_ref[e.index] = 0 /\ sub_ref[e.index] = 0

\* Slots create has not reached.
Untouched == \A i \in Slots : i >= len =>
    /\ data[i] = 0 /\ epoch[i] = 0
    /\ meta[i] = 0 /\ add_ref[i] = 0 /\ sub_ref[i] = 0

\* The epoch of a slot counts the components it lost.
EpochCounts == \A i \in Slots : i < len =>
    epoch[i] = IF Free(i) THEN data[i] + 1 ELSE data[i]

StrongCurrent == \A h \in Handles : strong[h] # NoPtr =>
    /\ strong[h].index < len
    /\ strong[h].comp = data[strong[h].index]
    /\ strong[h].epoch = epoch[strong[h].index]

WeakPast == \A w \in Weaks : weak[w] # NoPtr =>
    /\ weak[w].index < len
    /\ weak[w].comp = weak[w].epoch
    /\ weak[w].comp <= data[weak[w].index]

Bounded == \A i \in Slots : meta[i] + add_ref[i] <= MaxRefs

\* The inductive invariant behind all of the properties above.
StorageInv ==
    /\ TypeOK /\ Balance /\ Bounded /\ FreeQuiet /\ Untouched
    /\ EpochCounts /\ StrongCurrent /\ WeakPast
=============================================================================
