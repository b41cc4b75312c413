# SeGraph, specified

TLA+ modules, TLC configurations and TLAPS proofs for SeGraph, the graph
database in `crates/`. Paths below are relative to `src/`. `PROJECT.json`
lists the runs, what each definition models (`map`), the hazards and the theorems.

## 1. The system

| Component | State | Operations | Modelled in |
|---|---|---|---|
| `waw_core` `Storage<T>`, `Pointer`, `WeakPointer` | slots with applied counts, a free list, a shared buffer of pending count changes and epochs | create, pin, clone, drop, downgrade, upgrade, `sync_pending`, iteration | `Storage`, promise in `Components` |
| cursors of `waw_core` | a position | next, prev, pin | which slots they show, in `Storage` |
| `waw_core` `bitfield` | the packed word of a pointer | pack, unpack, `with_epoch` | `PointerWord` |
| `waw_core` `mutex` | a flag | lock, try_lock, unlock around the pending buffer | `SpinLock`, promise in `PendingOps` |
| `waw_server` `Pipeline`, `EntityStore`, `ColdPool` | hot slots and their memory count, warm file, pool of connections | `get_entity` by many threads, eviction | `Pipeline` |
| `WarmTier` | a ring file and an index in memory | create, open, put, get, remove | `WarmTier`, promise in `LossyCache` |
| `ColdTier` | SQLite, opened read-only | queries | as the rows they return; blobs in `Blob` |
| `GraphIndex`, `QueryContext` | CSR rows both ways; each thread's visited marks | load, `get_edges`, `traverse_bfs` | `GraphIndex`, `Traversal` |
| `SpatialIndex`, `tile_math` | a grid of positions | build, `search_spatial` | `Spatial` |
| `http.rs`, `GraphClient`, `WsClient` | two query counters, a connection, the call in progress | requests, answers, errors, connect, disconnect; `get_blob` | `Session`, `Blob` |
| `waw_proto` messages, types | none | encode, decode | kinds of messages, in `Session` |
| `waw_proto` `tile.rs` | none | encode, decode of a tile batch | `TileBatch` |
| `waw_client` wasm stream | a queue, two wakers, the browser's socket | connect, callbacks, poll, send, drop | `WsStream`, promise in `Channel` |
| `main.rs`, `crates/benchmark` | | | no |

How they interact. A client's request travels over one WebSocket to
`handle_socket`, which dispatches it on a blocking thread to `Pipeline`, one
request of a connection at a time. `Pipeline` reads the immutable `GraphIndex`
without a lock, `EntityStore` under an `RwLock`, `WarmTier` under a mutex and
SQLite through `ColdPool`, a mutex per connection. `EntityStore` keeps its
entities in a `Storage`, whose pointers are what makes an entity hot. On a
page, `WsClient` reads its socket through `WsStream`, which browser callbacks
fill; elsewhere through a library.

What is hard. *Buffered counts*: a pointer's birth and death are only seen by
the storage at the next sync, and a slot may be dropped, upgraded and reused
around it. *Check and act under different locks*: `get_entity` looks in each
tier under that tier's lock only, and acts later. *A ring file* that overwrites
records, with an index that must forget exactly those. *Generations* in
place of cleared marks. *Two counters* in two processes that must agree with no
number on the wire in one direction. *Callbacks and wakers*: a
message that arrives between two polls must wake whoever reads next. What each component must keep true is in
section 3; `hazards` in `PROJECT.json` names the lines.

## 2. The modules

`Storage` keeps the variables of the code: `meta`, `free_list`, `add_ref`,
`sub_ref`, `epoch`, `data`, and the pointers the program holds. Each operation
is one action, because it runs under `&mut self` or the pending mutex (shown in
`SpinLock`). A pointer is a record (what `PointerWord` allows). Pending
lists are counts per slot, which loses only the order within a list; the order
between the lists, adds before subs, is in `Drained` and `Zeroes`. A slot's
payload is the number of its component, so "this pointer's component" can be
said. `Components` is a table of living components with none of that. The map
between them is at the end of `Storage`.

`Pipeline` cuts `get_entity` where another thread can come in: a step takes a
lock, or is a whole section that takes no second one. Eviction holds the write lock and
then takes the warm mutex (`WriteSection`, `Spill`), as the code does. An entity's
metadata is its own position, none, or a wrong one, and this is what slots,
records and answers hold. The warm tier is, for each row its index lists, the set
of things `get` may end in: metadata, an error or a panic. The file is new at load
or an existing one (`pipeline.rs:72-76`), which may list anything and read as
anything. In a new file, as long as records of one size were put in it
(`Faithful`), `get` gives what was put or fails; this is what `WarmTier` is proved
to do. Otherwise it may give anything, as `warm_mixed` and `warm_reopen` show. An
error leads to the cold tier; what decodes is loaded and returned; a panic poisons
the warm mutex, and an eviction that then finds it poisoned poisons the entities'
lock. A put may forget any listed row, and may fail, which the code ignores. SQLite may
fail, and the lookup with it. `requests` is what the threads of a behaviour may ask
for: any row of the database (the API of `Pipeline`), or indexed entities only (the
server's `http.rs`, which looks the entity up first). Which entities are evicted
is open: `last_access` is equal everywhere, so the code's unstable sort decides
nothing.

`WarmTier` has the file cell by cell (a cell is four bytes; `has_position` has
one too), with the gap `entry_len` leaves, `get`'s decoding, and
`rebuild_index`. `LossyCache` is what `Pipeline` may rely on while `Faithful`.

`SpinLock` cuts the critical sections on one slot's pending counts into the steps
another thread could come between: a push reads and then writes, an
upgrade compares the epoch before it pushes, a sync drains one list and
then the other. Memory is sequentially consistent, which the Acquire exchange and
the Release store give the sections. `PendingOps` has each operation as one
step, which is how `Storage` takes them; the map is at the end of `SpinLock`.

`PointerWord` packs slot, epoch and storage into a number with the widths as
parameters. It has no state; its theorems say when fields can be told apart.

`GraphIndex` holds the loader's operators, `Traversal` the state machine: a thread's
breadth-first searches with the marks it keeps between them, one row per step.
`Spatial` is the grid and a thread's searches over it while entities leave the
hot tier and return. A search runs under the read lock and is one step. It
always starts at the level of detail of the grid, as `http.rs` calls it.

`Session` is one client and its connections. Messages carry a ghost `of`, the
call they belong to, which only properties read. A break may lose any suffix of
the replies; a dropped call leaves its answer in the socket.

`WsStream` is one socket of a page. A callback and a poll each run to their end,
since the page has one thread, in any order; wakers mark tasks for the
executor, which polls a task later. Calls come one at a time (`&mut self`) but
from any task, and a dropped call leaves its waker behind. `Channel` is
what `Session` takes a socket for: messages in order, each once, then the end.

`Blob` is the loop of `get_blob` against the server's answers, request by
request. `TileBatch` encodes a batch, may cut the frame short, and decodes; a
frame is a sequence of cells, one per header, tile and payload byte.
`MCParts` puts these two, `SpinLock` and `WarmTier` in one run: a behaviour is of
one of the four, so the state spaces add.

The definitions commented "Fault" are deliberate mistakes. No action
uses them: a property is shown to be able to fail by putting one in the place
of the definition it varies.

## 3. Runs

Every run finishes in at most two and a half minutes on two workers. "v" runs check one
statement of the source that the code does not keep.

| Run | Shows | Instance and why it is enough |
|---|---|---|
| `storage` | pointers outlive, counts balance, epochs tell, syncs are exact, `Components` is implemented | 3 pointers, 1 weak, 2 slots of which 1 loaded, 3 components each: a slot is reused twice while the other lives, and 3 holders cover create, clone and upgrade of one slot between two syncs. Handles are symmetric; all properties are symmetric in them |
| `storage_iter_all` (v) | pin of a dead slot breaks `create`'s assertion | 1 slot |
| `pipeline` | positioned entities are always found, answers are true while the warm file is, memory never counted low, holders of locks proceed, lookups end; indexed requests alone never evict | 2 threads with 2 lookups each: one evicts what the other asks for, whose next lookup finds it in the warm tier or not; 2 connections; 2 entities with a position, one without, one row outside the index; a threshold crossed by one reload; the warm file new, or an existing one that lists an entity and the row outside the index |
| `pipeline_accounting` (v) | `memory_used` exceeds what is hot | 2 threads that miss the same entity |
| `warm_mixed` (v) | two sizes overlap after a wrap | the smallest file with room for two |
| `warm_reopen` (v) | a reopened file is misread | 1 restart |
| `session` | a call ends by its own answer only, complete, while the counters agree | 3 calls, 2 connections, 2 items per answer: a dropped call, a failed send and a reconnect before a call that must still be right |
| `traversal` | CSR rows, `get_edges` and consecutive searches agree with reference definitions | all tables of up to 3 of 12 edges, with a cycle, a loop, an unknown entity and a label too wide for its field; 2 queries |
| `spatial` | the grid holds each position in its cell, searches are exact | points on and off cell edges and outside the world, an inverted box, a box large enough for the coarser level, limits 0, 2 and 1000 |
| `ws_stream` | no task sleeps through a message, the end or the opening; calls see the messages in order, then the end | 2 tasks, so that the reader changes after a dropped call; 3 arrivals of 2 messages, so that the queue holds several, and equal ones |
| `parts` | operations under the spin lock act at one instant; a tile batch decodes to itself exactly within its widths; the ring keeps records apart, reads back what was put and is a lossy cache; types of a download | 3 threads with 2 operations; up to 3 tiles where the count holds 2, offsets to 2, a base modulo 4; 4 records of one size in a file with room for 3, so that the ring wraps and any record can be the one pushed out; blobs up to 7 bytes in chunks of 2, with any recorded size |
| `blob` (v) | `get_blob` returns other bytes than the blob's | blobs up to 5 bytes in chunks of 2: one chunk, several, and a last one that is not full |

The properties, by what would go wrong. `PointerOutlives`, `CreateAssertion`,
`Balance`, `SyncShowsLiveness`: a slot freed under a pointer, or leaked.
`SameSlotSameEpoch`, `WeakFindsItsOwn`: a weak pointer or a pinned cursor item
taken for another component. `PositionedFound`: an entity that falls between
the tiers while it moves. `AnswersTrue`: a record that is another entity's, or of
another time, given as the answer. `HoldersProceed`, `LookupsEnd`: lock cycles.
`ReadsBack`, `RecordsApart`, `Lossy`: a cache that lies. `OwnEnd`, `EntityOwn`,
`OnlyDroppedLeak`, `Complete`, `AnsweredInStep`, `InStepReturns`: an answer
given to another call, or a call that waits for ever. `MarksAreOut`,
`NearestWithinDepth`, `SearchExact`: marks of an earlier query. `CsrFaithful`,
`GridFaithful`, `EdgesWithinLimit`: boundaries of rows, cells and limits.
`IndexedRequestsHit`: an eviction the server's own requests never cause.
`NoLostWakeup`, `Promise` of `ws_stream`: a reader left asleep, a message
lost or read twice. `Linearized`: half of another thread's operation seen.
`TileRoundTrip`: exactly which batches come back as they were; it states also that
the others do not, so a change of the code either way shows. `BlobReturned`: the
bytes of a blob, all of them and in order, which `blob` shows the code does not
keep.

Deadlock is checked except in `session`, `traversal`, `spatial`, `ws_stream`,
`parts` and `blob`, where the caller may stop calling, a socket closes, or the work
is bounded. `Pipeline` ends in an explicit `Finished` step.

Fairness. `Pipeline`: each thread's steps are weakly fair. Lookups are finite,
so a lock is not taken from a waiting thread for ever, and weak fairness is
enough. Starting a lookup is not fair. `Session`: the server's handler and the
poll of the call in progress are weakly fair, since the runtimes poll them; calls,
drops and breaks are not. `InStepReturns` is the only promise the code can
keep: a call whose number differs from the server's waits for ever, and this
happens after every failed send or reconnect. `WsStream`: the executor polls
each woken task in the end; the browser and the callers owe nothing.
`SpinLock`: a thread in an operation is scheduled; each has boundedly many
operations, so nobody takes the lock from a spinning thread for ever.

Bounds. `MaxComps`, `MaxRefs`, `NumSlots` (`Storage`), `MaxLookups`
(`Pipeline`), `Restarts` (`WarmTier`), `MaxItems`, `MaxCalls`, `MaxConnects`
(`Session`), `MaxQueries` (`Traversal`), `MaxSearches` (`Spatial`), `MaxMessages`
(`WsStream`), `MaxOps` (`SpinLock`), `MaxTiles` (`TileBatch`), `MaxBlob` (`Blob`)
limit runs, not the code. `RefMod`, `EpochMod`, `GenMod`, `LabelMod`, `WordMod`,
`CountMax`, `DeltaMax`, `BaseMod`, `CounterMax`, `IndexMod`, `StorageMod` are
widths of the code's integers, and `Chunk` is its chunk size. `OldListings` and
`RequestSets` are inputs of `Pipeline`: what an existing warm file lists, and who calls. Within the bounds of `traversal` and `spatial` a
generation does not come round; at 2^32 queries of one thread it does, and old
marks would then count.

## 4. Findings

1. `pin` of a dead slot's item from `iter_all` breaks `create` (`storage.rs:243`).
2. Two threads load one entity twice and its memory is counted twice (`pipeline.rs:112`, `127`).
3. Records of two sizes overlap in the warm file (`warm_tier.rs:110`).
4. A reopened warm file is indexed at the wrong offsets (`warm_tier.rs:229`).
5. `get_blob` keeps only the last of the chunks the server sends in one answer, so
   a blob of more than one chunk comes back wrong (`graph_client.rs:245`).

Noticed while reading, with no finding:

- The comment at `warm_tier.rs:24` gives 17 and 25 bytes for records of 21 and 29.
- `reload_entity` is stamped with a clock that nothing advances.
- `search_spatial` with limit 0 returns one entity.
- An empty blob is answered with no chunk, and `get_blob` returns an error for it.
- A tile batch of more than 255 tiles, or with tiles too far apart, does not decode
  to itself (`TileRoundTrip` says exactly when).
- The 16-bit count of a slot wraps at 65536 pointers in a release build, and
  on 32-bit targets an epoch above 255 spills into the storage id (`EpochSpills`).
- On wasm, `connect` ignores its timeout (`ws.rs:48`), `graph_client.rs:70` names
  a variant that is compiled out, and two `move` closures of `connect` borrow a
  local (`wasm/mod.rs:36-54`), so that target seems not to build as it is.
  `WsStream` models what the code means.

## 5. Proofs

For every value of the constants:

`StorageProofs`. The inductive invariant is `StorageInv`, at the end of
`Storage`. `PointerOutlives` alone is not inductive: that a sync does not free
a slot with pointers needs `Balance`; that `create` does not reuse a slot with
buffered changes needs `FreeQuiet`; that a weak pointer's epoch tells components
apart needs `EpochCounts` and `WeakPast`. The theorems assume `NoWrap`: fewer
references than the count's width and fewer components per slot than the
epoch's. Each of the safety properties of run `storage` and `SyncShowsLiveness`
follows. `Refinement` shows from the same invariant that every step of
`Storage` is a step of `Components` or a stutter.

`PartsProofs`, of the four small components. `PointerWord`, for any widths: the
fields of a word are what it was made of, two words are equal only if all fields
are, and an epoch one too large reads as epoch 0 of the next storage.
`SpinLock`: the lock is taken exactly when a thread is inside; from that, mutual
exclusion. What a thread inside has read is still so, and hence each
operation takes effect at one step of `PendingOps`. `Blob`: with the right size recorded,
a blob of at most one chunk is returned byte for byte, for any chunk size
(`SmallBlobRight`); run `blob` shows that this is as far as the contract holds.
`TileBatch`: what the encoder writes has the payloads end to end, so that the
decoder's offsets, which it sums again, are the encoder's, and a frame cut
anywhere is shorter than its header says; `TileRoundTrip` for every batch and all
widths.

`PipelineProofs`. Any number of threads, entities and connections. The
invariant adds to the types what a thread's place says of its request and of
the locks it holds, and that a thread past the warm tier holds metadata it may answer
with. `LookupFinds` needs no more, whatever the warm file reads: what it cannot read
leads to the cold tier, and what it misreads to an answer. That the answer is the
entity's own (`LookupsTrue`) is true while `Faithful`, and needs that then all
that the slots, the warm file and the batches on their way to it hold is the
entity's own (`TruthInv`). `NoUndercount` needs that reloading adds at
least what becomes hot. `HttpNeverEvicts` uses the invariant and
`requests \subseteq Entities` to show that no thread gets past the hot check.

`SessionProofs`. Any number of calls, connections and items. A Done or Error
under way names a number at most its own request's (`Sound`), because the
server, which counts from 0 on each connection, never counts ahead of the
client (`Numbered`). So a message that names the last number is that of the
last request, and the server has seen them all: `EndedInStep`.
Its second part looks at what the client has still to read as one stream:
the replies on their way, then the answers the server is sending, with the
requests behind. Its items are of the call in progress and of calls dropped on this
connection only, what follows the end of a call is of later calls, and the
requests wait in order. So what else a call collects is of dropped calls, and
`get_entity`, which returns the last entity it read before its Done, returns its own.

`Complete` needs one thing more, of what a call has read and what is still to be
read taken as one sequence, the tape: before the Done of the call in progress
stand as many items as it counts, all its own and in order, and before those
none of it (`AnswersWhole`). Reading an item only moves the border between the two
parts of the tape; anything else that is read away stands before the answer.

`TraversalProofs`, for every database, query and order of queries. The loader:
an edge list in order, cut at the offsets the loop of `build_csr` sets, gives each
entity the run of edges of its own row, empty rows and the last one included
(`RowsAreFaithful`); from it, what `get_edges` returns (`EdgesAreLimited`). The
traversal: `WalkInv` says that the queue is the end of what was found, at depths
that differ by at most one; that exactly what was found, each once, is marked;
that what was found is at the depth it was queued at and in the order of its
distance; and that what left the queue has its neighbours found. So what is nearer
than all that waits is found (`BallFound`), and when the queue is empty, the ball
of the depth asked for.
`NearestWithinDepth` alone is not inductive: it says nothing until the search
returns. `TraversalsAreNearest` and `MarksAreOfThis` assume
`MaxQueries < GenMod`: a generation must not come round, which in the program
takes 2^32 traversals of one thread. The types, rows and limits need no such
bound.

`WsStreamProofs`. Between two steps a call that waits has stored its waker or
is scheduled, and a queue with something in it has its reader scheduled: every
callback that adds to the queue takes the waker. The history variables give
`InOrder`.

`WarmTierProofs`, under `OneSize`: all entities have a position or none has.
Then every record starts at a multiple of one length, so a put
either takes a record's place exactly or leaves it alone: the index is
distinct offsets, each with the record it names whole in the file. From that
`ReadsBack`, `RecordsApart` and the refinement to `LossyCache`, on which the
faithful warm tier of `Pipeline` stands. `warm_mixed`
shows that the premise is needed. The theorems are about one run of the program;
a restart is `warm_reopen`'s.

`SpatialProofs`, for every table of positions, grid, box, limit and order of
searches. The grid: after `k` positions of the second pass the cursor of a cell stands
as far behind its offset as there are positions of that cell among them, so no
position is written over another's and each row is full at the end
(`GridIsFaithful`). The tiles of a range, native or a level coarser, cover the cell of
every coordinate in it, on the edges of the world and outside it too, because
rounding to tiles is monotone and the tiles of a level are pairs of those of the
next (`SpanCovers`). A search that is not full yet has marked exactly the
entities it has visited, and holds those of them that count (`Sought`);
`SearchesAreExact` follows. `SearchExact` alone is not inductive: that a
search starts without marks needs that none is of a generation to come (`Fresh`),
which is where `MaxSearches < GenMod` is assumed, as for traversals. The order in which
entries are visited matters to none of this, only that each has its turn. The
assumption `PlacementsOK`, one position per entity, is the primary key of the
position table.

The types of every component are theorems too, since every argument above
starts from them.

Induction. The library's induction theorems take an operator as parameter,
which the provers cannot instantiate. What needs induction here is shown by a least
counterexample instead: a set of natural numbers that is not empty has a least
element (`LeastNat`, from well-foundedness), and that element and the one before
it contradict the step. Loops are recursive functions, which the library's
theorems on inductive definitions unfold; folds and `SortSeq` could not be
unfolded, which is why the loops of `GraphIndex`, `Traversal` and `Spatial` are written as
functions.

Only model-checked: liveness (`LookupsEnd`, `InStepReturns`, and what `Promise`
of `WsStream` and `Linearized` say under fairness), and the restart of `WarmTier`.

## 6. Not modelled

- SQL and the properties of the cold tier: read-only queries, whose rows are
  inputs of the models.
- The byte encoding of messages, which a library derives, and the WebSocket
  handshake, which is the web framework's.
- Errors of the file system inside `WarmTier`. `Pipeline` has their effect on a
  lookup: a `get` that fails, and a put whose record does not reach the file.
- `Storage::split` and the slices it hands out: unchecked pointer arithmetic on
  disjoint ranges, with no state of its own.
- `tiles_for_bounds`, `tile_distance` and `get_cell`, which nothing calls.
- `main.rs`, which wires the parts together, and the benchmark.

What could come next: `EntityStore`'s populate, reload and evict as sequences of
`Storage` operations, to show `Pipeline`'s write section is what they do.
