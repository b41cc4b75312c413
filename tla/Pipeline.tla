------------------------------- MODULE Pipeline -------------------------------
(***************************************************************************)
(* waw_server's three-tier entity lookup, Pipeline::get_entity, run by     *)
(* several threads at once: hot (EntityStore behind an RwLock), warm       *)
(* (WarmTier behind a Mutex), cold (ColdPool of SQLite connections, each   *)
(* behind a Mutex).  One step is one stretch between two points where      *)
(* another thread can come in: each lock is taken by a step of its own,    *)
(* and a section that takes no second lock is one step.                    *)
(*                                                                         *)
(* Abstractions.  An entity's metadata is its position, told apart as its  *)
(* own, none, or a wrong one; its own never changes (the database is       *)
(* opened read-only).  last_access is 0 everywhere, since access_clock is  *)
(* never advanced, so evict_lru's unstable sort leaves any batch of hot    *)
(* entities in front.  Memory is counted in units of EntityMeta::BYTES.    *)
(*                                                                         *)
(* WarmTier is a file that may lose records.  While it was new at load and *)
(* records of one size were put in it, get reads what was put: that is     *)
(* what the module WarmTier is proved to do.  Otherwise get may give       *)
(* anything its decoder can: the runs warm_mixed and warm_reopen show that *)
(* it does.                                                                *)
(***************************************************************************)
EXTENDS Integers, FiniteSets

CONSTANTS
    Threads, NoOne,
    Entities,       \* rowids of the entity table: those GraphIndex indexes
    Positioned,     \* rowids with a row in position_component
    RequestSets,    \* sets of rowids the callers of get_entity may draw from
    OldListings,    \* sets of rowids the index of an existing warm file may list
    EdgeMemory,     \* memory of the CSR arrays
    Threshold,      \* hot_memory_threshold
    EvictBatch,     \* evict_batch_size
    PoolSize,       \* connections in the cold pool
    MaxLookups      \* bound: lookups per thread

NoRow == "no request"
None == "none"                              \* Ok(None), and an empty slot
Found == {"position", "no position", "wrong position"}
Readings == Found \cup {"error", "panic"}   \* what WarmTier.get can end in
Answers == Readings \cup {None, "pending"}  \* of get_entity; not answered yet
Rowids == Entities \cup UNION RequestSets

ASSUME EntitiesFinite == IsFiniteSet(Entities) /\ NoRow \notin UNION RequestSets
ASSUME NoOneFresh == NoOne \notin Threads
ASSUME SizesOK ==
    /\ EdgeMemory \in Nat /\ Threshold \in Nat /\ EvictBatch \in Nat
    /\ PoolSize \in Nat \ {0} /\ MaxLookups \in Nat

VARIABLES
    requests,       \* the rowids the callers of this process ask for
    hot,            \* entity_ptrs: what the slot of an entity holds, or None
    memory_used,    \* EntityStore.memory_used
    warm,           \* what WarmTier.get may give for a rowid; {} if not listed
    sizes,          \* record sizes in the warm file: TRUE is with a position
    writer,         \* thread in entities.write(); a read section is one step
    warm_lock,      \* holder of the WarmTier mutex
    poisoned,       \* locks whose holder panicked: "entities", "warm"
    next,           \* ColdPool.next % PoolSize
    conn,           \* holder of each connection's mutex
    ticket,         \* connection index each thread drew from `next`
    pc, row, answer,    \* each thread's place in get_entity, argument, result
    meta,           \* what a thread has read of its row and has to load
    evicted,        \* the batch a thread took out and has to put in warm
    todo            \* lookups each thread may still start

locks == <<writer, warm_lock, poisoned>>
tiers == <<hot, memory_used, warm, sizes>>
pool == <<next, conn, ticket>>
threads == <<pc, row, answer, meta, evicted, todo>>
vars == <<requests, tiers, locks, pool, threads>>

Steps == {"idle", "hot", "warm", "warm_get", "promote", "cold", "cold_lock",
          "cold_load", "reload", "spill"}

Meta(r) == IF r \in Positioned THEN "position" ELSE "no position"

\* The entities of a table of slots that are there.
Loaded(slots) == {r \in Entities : slots[r] # None}

\* get reads what was put.
Faithful == sizes # BOOLEAN

TypeOK ==
    /\ requests \in RequestSets
    /\ hot \in [Entities -> Found \cup {None}] /\ memory_used \in Nat
    /\ warm \in [Rowids -> SUBSET Readings] /\ sizes \subseteq BOOLEAN
    /\ writer \in Threads \cup {NoOne} /\ warm_lock \in Threads \cup {NoOne}
    /\ poisoned \subseteq {"entities", "warm"}
    /\ next \in 0 .. PoolSize - 1
    /\ conn \in [0 .. PoolSize - 1 -> Threads \cup {NoOne}]
    /\ ticket \in [Threads -> 0 .. PoolSize - 1]
    /\ pc \in [Threads -> Steps]
    /\ row \in [Threads -> requests \cup {NoRow}]
    /\ answer \in [Threads -> Answers]
    /\ meta \in [Threads -> Found \cup {None}]
    /\ evicted \in [Threads -> [Entities -> Found \cup {None}]]
    /\ todo \in [Threads -> 0 .. MaxLookups]

\* A file made by WarmTier::create, or the index WarmTier::open rebuilds from
\* an existing one, whose records may be of any size and misread.
NewFile == warm = [r \in Rowids |-> {}] /\ sizes = {}
OldFile == \E listed \in OldListings :
    /\ warm = [r \in Rowids |-> IF r \in listed THEN Readings ELSE {}]
    /\ sizes = BOOLEAN

NoEntities == [r \in Entities |-> None]

\* Before the first lookup.
InitThreads ==
    /\ writer = NoOne /\ warm_lock = NoOne /\ poisoned = {}
    /\ next = 0 /\ conn = [c \in 0 .. PoolSize - 1 |-> NoOne]
    /\ ticket = [t \in Threads |-> 0]
    /\ pc = [t \in Threads |-> "idle"] /\ row = [t \in Threads |-> NoRow]
    /\ answer = [t \in Threads |-> "pending"]
    /\ meta = [t \in Threads |-> None]
    /\ evicted = [t \in Threads |-> NoEntities]
    /\ todo = [t \in Threads |-> MaxLookups]

\* Fault: populate gives a slot to the entities that have a position only.
InitPositionedOnly ==
    /\ requests \in RequestSets
    /\ hot = [r \in Entities |-> IF r \in Positioned THEN Meta(r) ELSE None]
    /\ memory_used = EdgeMemory + Cardinality(Entities)
    /\ NewFile \/ OldFile
    /\ InitThreads

\* Pipeline::load: populate gives every indexed entity a slot, with or
\* without a position; the warm file is the one at the path, if there is one.
Init ==
    /\ requests \in RequestSets
    /\ hot = [r \in Entities |-> Meta(r)]
    /\ memory_used = EdgeMemory + Cardinality(Entities)
    /\ NewFile \/ OldFile
    /\ InitThreads

-----------------------------------------------------------------------------
\* Steps of a thread

Goto(t, from, to) == pc[t] = from /\ pc' = [pc EXCEPT ![t] = to]

Return(t, from, a) ==
    /\ Goto(t, from, "idle")
    /\ answer' = [answer EXCEPT ![t] = a]

Start(t, r) ==
    /\ todo[t] > 0
    /\ todo' = [todo EXCEPT ![t] = @ - 1]
    /\ Goto(t, "idle", "hot")
    /\ row' = [row EXCEPT ![t] = r]
    /\ answer' = [answer EXCEPT ![t] = "pending"]
    /\ UNCHANGED <<requests, tiers, locks, pool, meta, evicted>>

\* 1. The read-only fast path, under entities.read().
HotHit(t) ==
    /\ writer = NoOne /\ "entities" \notin poisoned
    /\ row[t] \in Loaded(hot)
    /\ Return(t, "hot", hot[row[t]])
    /\ UNCHANGED <<requests, tiers, locks, pool, row, meta, evicted, todo>>

HotMiss(t) ==
    /\ writer = NoOne /\ "entities" \notin poisoned
    /\ row[t] \notin Loaded(hot)
    /\ Goto(t, "hot", "warm")
    /\ UNCHANGED <<requests, tiers, locks, pool, row, answer, meta, evicted, todo>>

\* A write guard was dropped in a panic: read() and write() unwrap an error.
EntitiesPanic(t) == \E from \in {"hot", "promote", "reload"} :
    /\ writer = NoOne /\ "entities" \in poisoned
    /\ Return(t, from, "panic")
    /\ meta' = [meta EXCEPT ![t] = None]
    /\ UNCHANGED <<requests, tiers, locks, pool, row, evicted, todo>>

\* 2. contains and get under the warm mutex, which is dropped before
\* entities.write() is taken.
WarmLock(t) ==
    /\ warm_lock = NoOne
    /\ IF "warm" \in poisoned
       THEN Return(t, "warm", "panic") /\ UNCHANGED warm_lock
       ELSE Goto(t, "warm", "warm_get") /\ warm_lock' = t /\ UNCHANGED answer
    /\ UNCHANGED <<requests, tiers, writer, poisoned, pool, row, meta, evicted, todo>>

\* What contains and get come to.
Reading(r) == IF warm[r] = {} THEN {"error"} ELSE warm[r]

\* Faults: the warm guard lives on into the promotion; a warm hit goes back
\* to the hot check; a record that cannot be read is one without a position.
WarmGetHeld(t) ==
    /\ pc[t] = "warm_get"
    /\ \E got \in Reading(row[t]) \ {"panic"} :
          /\ Goto(t, "warm_get", IF got \in Found THEN "promote" ELSE "cold")
          /\ meta' = [meta EXCEPT ![t] = IF got \in Found THEN got ELSE None]
          /\ warm_lock' = IF got \in Found THEN t ELSE NoOne
    /\ UNCHANGED <<requests, tiers, writer, poisoned, pool, row, answer, evicted, todo>>
WarmGetRetry(t) ==
    /\ pc[t] = "warm_get"
    /\ \E got \in Reading(row[t]) \ {"panic"} :
          /\ Goto(t, "warm_get", IF got \in Found THEN "hot" ELSE "cold")
    /\ warm_lock' = NoOne
    /\ UNCHANGED <<requests, tiers, writer, poisoned, pool, row, answer, meta, evicted, todo>>
WarmGetDefault(t) ==
    /\ pc[t] = "warm_get"
    /\ \E got \in Reading(row[t]) \ {"panic"} :
          /\ Goto(t, "warm_get", IF warm[row[t]] # {} THEN "promote" ELSE "cold")
          /\ meta' = [meta EXCEPT ![t] =
                IF warm[row[t]] = {} THEN None
                ELSE IF got \in Found THEN got ELSE "no position"]
    /\ warm_lock' = NoOne
    /\ UNCHANGED <<requests, tiers, writer, poisoned, pool, row, answer, evicted, todo>>

\* Not listed, or an Err: on to the cold tier.
WarmGet(t) ==
    /\ pc[t] = "warm_get"
    /\ \E got \in Reading(row[t]) \ {"panic"} :
          /\ Goto(t, "warm_get", IF got \in Found THEN "promote" ELSE "cold")
          /\ meta' = [meta EXCEPT ![t] = IF got \in Found THEN got ELSE None]
    /\ warm_lock' = NoOne
    /\ UNCHANGED <<requests, tiers, writer, poisoned, pool, row, answer, evicted, todo>>

\* get slices beyond the record.
WarmPanic(t) ==
    /\ Return(t, "warm_get", "panic")
    /\ "panic" \in Reading(row[t])
    /\ warm_lock' = NoOne /\ poisoned' = poisoned \cup {"warm"}
    /\ UNCHANGED <<requests, tiers, writer, pool, row, meta, evicted, todo>>

\* 3. A connection drawn round-robin, load_position, the connection dropped.
ColdTicket(t) ==
    /\ Goto(t, "cold", "cold_lock")
    /\ ticket' = [ticket EXCEPT ![t] = next]
    /\ next' = (next + 1) % PoolSize
    /\ UNCHANGED <<requests, tiers, locks, conn, row, answer, meta, evicted, todo>>

ColdLock(t) ==
    /\ Goto(t, "cold_lock", "cold_load")
    /\ conn[ticket[t]] = NoOne
    /\ conn' = [conn EXCEPT ![ticket[t]] = t]
    /\ UNCHANGED <<requests, tiers, locks, next, ticket, row, answer, meta, evicted, todo>>

\* The guard is dropped.
DropConnection(t) ==
    /\ conn' = [conn EXCEPT ![ticket[t]] = NoOne]
    /\ ticket' = [ticket EXCEPT ![t] = 0]

ColdLoad(t) ==
    /\ IF row[t] \in Positioned
       THEN /\ Goto(t, "cold_load", "reload")
            /\ meta' = [meta EXCEPT ![t] = Meta(row[t])]
            /\ UNCHANGED answer
       ELSE Return(t, "cold_load", None) /\ UNCHANGED meta
    /\ DropConnection(t)
    /\ UNCHANGED <<requests, tiers, locks, next, row, evicted, todo>>

\* SQLite fails: `?` drops the connection and returns the error.
ColdFails(t) ==
    /\ Return(t, "cold_load", "error")
    /\ DropConnection(t)
    /\ UNCHANGED <<requests, tiers, locks, next, row, meta, evicted, todo>>

\* Faults: a rowid outside the index gets a slot; a reload is not counted.
ReloadedUnindexed(r, m) == [q \in Entities \cup {r} |-> IF q = r THEN m ELSE hot[q]]
ReloadedMemoryUncounted(r) == memory_used

\* EntityStore::reload_entity: the slot is filled, and counted, whether or
\* not another thread filled it since the miss.
Reloaded(r, m) == [q \in Entities |-> IF q = r THEN m ELSE hot[q]]
ReloadedMemory(r) == memory_used + Cardinality({r} \cap Entities)

\* EntityStore::evict_lru takes EvictBatch entities, all if there are fewer.
Batches(h) ==
    {b \in SUBSET h : Cardinality(b) =
        IF EvictBatch < Cardinality(h) THEN EvictBatch ELSE Cardinality(h)}

\* saturating_sub, once per evicted entity
Unload(m, n) == IF m < n THEN 0 ELSE m - n

\* The write section up to maybe_evict_inner's warm lock: reload_entity, the
\* answer, then evict_lru if the count is over the threshold.  The write lock
\* stays with t while it still has to take the warm lock.
WriteSection(t, from, a) ==
    /\ pc[t] = from /\ writer = NoOne /\ "entities" \notin poisoned
    /\ LET h == Reloaded(row[t], meta[t])
           m == ReloadedMemory(row[t])
       IN  \E b \in IF m > Threshold THEN Batches(Loaded(h)) ELSE {{}} :
             /\ hot' = [q \in DOMAIN h |-> IF q \in b THEN None ELSE h[q]]
             /\ memory_used' = Unload(m, Cardinality(b))
             /\ evicted' = [evicted EXCEPT ![t] =
                   [q \in Entities |-> IF q \in b THEN h[q] ELSE None]]
             /\ answer' = [answer EXCEPT ![t] = a]
             /\ pc' = [pc EXCEPT ![t] = IF b = {} THEN "idle" ELSE "spill"]
             /\ writer' = IF b = {} THEN NoOne ELSE t
    /\ meta' = [meta EXCEPT ![t] = None]
    /\ UNCHANGED <<requests, warm, sizes, warm_lock, poisoned, pool, row, todo>>

\* Warm hit: what get decoded is loaded, and is the answer.
PromoteWarm(t) == WriteSection(t, "promote", meta[t])

\* Fault: the answer is read before the reload.
PromoteColdEarlyRead(t) == WriteSection(t, "reload",
    IF row[t] \in Loaded(hot) THEN hot[row[t]] ELSE None)

\* Cold hit: get_entity_readonly after the reload is the answer.
PromoteCold(t) == WriteSection(t, "reload",
    IF row[t] \in Loaded(Reloaded(row[t], meta[t])) THEN meta[t] ELSE None)

\* What get may give for r after `put` was put in the file, if r is still
\* listed: what was put, an error, or what was there if the put failed; with
\* records of both sizes, anything.
ReadingAfter(r, put, all_sizes) ==
    IF all_sizes = BOOLEAN THEN Readings
    ELSE warm[r] \cup IF r \in Loaded(put) THEN {put[r], "error"} ELSE {}

\* The evicted batch put in the warm tier; errors are ignored, and any
\* records may be overwritten.  Both locks are released.
Spill(t) ==
    /\ Goto(t, "spill", "idle")
    /\ warm_lock = NoOne /\ "warm" \notin poisoned
    /\ LET put == evicted[t]
       IN  /\ sizes' = sizes \cup {put[r] # "no position" : r \in Loaded(put)}
           /\ \E listed \in SUBSET (Loaded(put) \cup {r \in Rowids : warm[r] # {}}) :
                 warm' = [r \in Rowids |->
                     IF r \in listed THEN ReadingAfter(r, put, sizes') ELSE {}]
    /\ evicted' = [evicted EXCEPT ![t] = NoEntities]
    /\ writer' = NoOne
    /\ UNCHANGED <<requests, hot, memory_used, warm_lock, poisoned, pool, row, answer, meta, todo>>

\* The warm mutex is poisoned: the panic drops the write guard and poisons
\* entities too.
SpillPanic(t) ==
    /\ warm_lock = NoOne /\ "warm" \in poisoned
    /\ Return(t, "spill", "panic")
    /\ evicted' = [evicted EXCEPT ![t] = NoEntities]
    /\ writer' = NoOne /\ poisoned' = poisoned \cup {"entities"}
    /\ UNCHANGED <<requests, tiers, warm_lock, pool, row, meta, todo>>

-----------------------------------------------------------------------------
Step(t) ==
    \/ HotHit(t) \/ HotMiss(t) \/ EntitiesPanic(t)
    \/ WarmLock(t) \/ WarmGet(t) \/ WarmPanic(t) \/ PromoteWarm(t)
    \/ ColdTicket(t) \/ ColdLock(t) \/ ColdLoad(t) \/ ColdFails(t) \/ PromoteCold(t)
    \/ Spill(t) \/ SpillPanic(t)

\* Every thread has made its lookups.
Finished ==
    /\ \A t \in Threads : pc[t] = "idle" /\ todo[t] = 0
    /\ UNCHANGED vars

Next ==
    \/ \E t \in Threads : Step(t) \/ \E r \in requests : Start(t, r)
    \/ Finished

\* The scheduler runs a thread that can go on; lookups are bounded, so a lock
\* a thread waits for is not taken from it for ever.
Fairness == \A t \in Threads : WF_vars(Step(t))

Spec == Init /\ [][Next]_vars /\ Fairness

-----------------------------------------------------------------------------
\* Properties

\* get_entity: "Checks hot -> warm -> cold".  An indexed entity that has a
\* position is never taken for absent, whatever other threads evict, reload
\* or overwrite between the checks of a lookup, and whatever the warm tier
\* reads: its errors lead to the cold tier, and a wrong record to an answer.
PositionedFound == \A t \in Threads :
    answer[t] = None => row[t] \notin Entities \cap Positioned

\* As long as the warm file was new at load and records of one size were put
\* in it, no lookup panics, and one that finds an entity finds an indexed one
\* with its own metadata.
AnswersTrue == Faithful => \A t \in Threads :
    /\ answer[t] # "panic"
    /\ answer[t] \in Found => row[t] \in Entities /\ answer[t] = Meta(row[t])

\* memory_used never forgets an entity that is hot: it errs to early eviction.
MemoryNeverUnder == memory_used >= EdgeMemory + Cardinality(Loaded(hot))

\* memory_used is "current memory usage of the hot tier".
MemoryExact == writer = NoOne => memory_used = EdgeMemory + Cardinality(Loaded(hot))

\* Whoever holds a lock can go on: the warm mutex is never held by a thread
\* that waits for entities.write(), and a holder of a connection waits for
\* no one.
HoldersProceed ==
    /\ \A t \in Threads : writer = t <=> pc[t] = "spill"
    /\ \A t \in Threads : warm_lock = t <=> pc[t] = "warm_get"
    /\ \A c \in DOMAIN conn : \A t \in Threads :
          conn[c] = t <=> (pc[t] = "cold_load" /\ ticket[t] = c)

\* Every lookup ends: no set of threads waits on one another.
LookupsEnd == \A t \in Threads : pc[t] # "idle" ~> pc[t] = "idle"

\* As long as only indexed entities are asked for, which is all that
\* http.rs's extract_entity lets through, no lookup misses: nothing is ever
\* evicted, the memory threshold never comes into play, and what the warm
\* file holds, which may be wrong, is never looked at.
IndexedRequestsHit == requests \subseteq Entities =>
    /\ hot = [r \in Entities |-> Meta(r)]
    /\ memory_used = EdgeMemory + Cardinality(Entities)
    /\ \A t \in Threads : pc[t] \in {"idle", "hot"}
=============================================================================
