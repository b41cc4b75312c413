---------------------------- MODULE PipelineProofs ----------------------------
(***************************************************************************)
(* Proofs about Pipeline, for any number of threads, entities, connections *)
(* and any threshold and batch size.  Fairness is not needed for these.    *)
(***************************************************************************)
EXTENDS Pipeline, FiniteSetTheorems, TLAPS

(* What a thread knows of its row between two of its steps. *)
InFlight == \A t \in Threads :
    /\ pc[t] # "idle" => row[t] \in requests
    /\ pc[t] \in {"promote", "reload"} => meta[t] \in Found
    /\ pc[t] = "reload" => row[t] \in Positioned /\ meta[t] = "position"

(* What the tiers hold, and what is on its way between them, is true. *)
TiersTrue ==
    /\ \A r \in Entities : hot[r] \in {Meta(r), None}
    /\ \A r \in Rowids : warm[r] \subseteq {Meta(r), "error"}
    /\ \A r \in Rowids : warm[r] # {} => r \in Entities
    /\ \A t \in Threads : \A r \in Entities : evicted[t][r] \in {Meta(r), None}
    /\ poisoned = {}
PromotionsTrue == \A t \in Threads :
    pc[t] = "promote" => row[t] \in Entities /\ meta[t] = Meta(row[t])
TruthInv == Faithful => TiersTrue /\ PromotionsTrue

PipelineInv ==
    /\ TypeOK /\ InFlight /\ HoldersProceed
    /\ MemoryNeverUnder /\ PositionedFound
    /\ TruthInv /\ AnswersTrue

(* What a reload has read of an entity counts as an answer that found it. *)
LEMMA MetaFound == \A r : Meta(r) \in Found
  BY DEF Meta, Found

(* No reading is mistaken for another outcome. *)
LEMMA FoundApart == None \notin Found /\ "error" \notin Found /\ "panic" \notin Found
                    /\ "pending" \notin Found /\ Found \subseteq Answers
                    /\ None \in Answers /\ "error" \in Answers /\ "panic" \in Answers
                    /\ "pending" \in Answers
  BY DEF Found, None, Answers, Readings

(* The caller's rowids are among those warm is a table of. *)
LEMMA RequestsRowids == TypeOK => requests \subseteq Rowids /\ Entities \subseteq Rowids
  BY DEF TypeOK, Rowids

(* Subsets of the entities can be counted. *)
LEMMA Countable ==
    ASSUME NEW S \in SUBSET Entities
    PROVE  IsFiniteSet(S) /\ Cardinality(S) \in Nat
<1>1. IsFiniteSet(S) BY EntitiesFinite, FS_Subset
<1>. QED BY <1>1, FS_CardinalityType

(* Pipeline::load starts in the invariant, whatever the file at its path. *)
LEMMA InitPipeline == Init => PipelineInv
<1> SUFFICES ASSUME Init PROVE PipelineInv OBVIOUS
<1>1. Cardinality(Entities) \in Nat BY Countable
<1>2. /\ hot = [r \in Entities |-> Meta(r)] /\ \A r : Meta(r) \in Found
      /\ \A t \in Threads : /\ pc[t] = "idle" /\ answer[t] = "pending"
                            /\ evicted[t] = [r \in Entities |-> None]
      /\ poisoned = {}
  BY MetaFound DEF Init, InitThreads, NoEntities
<1>3. warm \in [Rowids -> SUBSET Readings] /\ sizes \subseteq BOOLEAN
  <2>1. CASE NewFile BY <2>1 DEF NewFile
  <2>2. CASE OldFile BY <2>2 DEF OldFile
  <2>. QED BY <2>1, <2>2 DEF Init
<1>4. TypeOK
  <2>1. hot \in [Entities -> Found \cup {None}] /\ memory_used \in Nat
    BY <1>1, <1>2, SizesOK DEF Init
  <2>2. evicted \in [Threads -> [Entities -> Found \cup {None}]]
    BY DEF Init, InitThreads, NoEntities
  <2>. QED
    BY <1>3, <2>1, <2>2, SizesOK, FoundApart DEF Init, InitThreads, TypeOK, Steps
<1>5. InFlight BY <1>2 DEF InFlight
<1>6. HoldersProceed BY NoOneFresh DEF Init, InitThreads, HoldersProceed
<1>7. MemoryNeverUnder
  <2>1. Loaded(hot) = Entities BY <1>2, FoundApart DEF Loaded
  <2>. QED BY <1>1, <2>1, SizesOK DEF Init, MemoryNeverUnder
<1>8. PositionedFound BY <1>2 DEF PositionedFound, None
<1>9. TruthInv
  <2> SUFFICES ASSUME Faithful PROVE TiersTrue /\ PromotionsTrue BY DEF TruthInv
  <2>1. \A r \in Rowids : warm[r] = {} BY DEF Init, NewFile, OldFile, Faithful
  <2>. QED BY <1>2, <2>1 DEF TiersTrue, PromotionsTrue
<1>10. AnswersTrue BY <1>2, FoundApart DEF AnswersTrue
<1>. QED BY <1>4, <1>5, <1>6, <1>7, <1>8, <1>9, <1>10 DEF PipelineInv

-----------------------------------------------------------------------------
(* The write section *)

(* What the hot tier holds after a reload, and after b is taken out of it. *)
After(r, m, b) ==
    [q \in Entities |-> IF q \in b THEN None ELSE Reloaded(r, m)[q]]

(* A reload adds to the count at least what it adds to the hot set, and an  *)
(* eviction takes off the count exactly what it takes off the hot set.      *)
LEMMA SectionMemory ==
    ASSUME TypeOK, MemoryNeverUnder, NEW r, NEW x \in Found,
           NEW b \in SUBSET Loaded(Reloaded(r, x))
    PROVE  /\ Loaded(Reloaded(r, x)) = Loaded(hot) \cup ({r} \cap Entities)
           /\ Unload(ReloadedMemory(r), Cardinality(b)) \in Nat
           /\ Unload(ReloadedMemory(r), Cardinality(b))
                >= EdgeMemory + Cardinality(Loaded(After(r, x, b)))
<1> DEFINE one == {r} \cap Entities
           g == Loaded(hot)
           h == Loaded(Reloaded(r, x))
           m == ReloadedMemory(r)
<1>0. Loaded(After(r, x, b)) = h \ b BY DEF Loaded, After, Reloaded
<1>1. h = g \cup one /\ h \subseteq Entities /\ g \subseteq Entities
      /\ one \subseteq Entities /\ b \subseteq Entities /\ h \ b \subseteq Entities
      /\ g \cap one \subseteq Entities
  BY FoundApart DEF Reloaded, Loaded
<1>4. m = memory_used + Cardinality(one) /\ memory_used \in Nat
  BY DEF ReloadedMemory, TypeOK
<1>5. memory_used >= EdgeMemory + Cardinality(g) BY DEF MemoryNeverUnder
<1>b. b \subseteq h OBVIOUS
<1> HIDE DEF g, h, m, one
<1>2. /\ Cardinality(h) \in Nat /\ Cardinality(g) \in Nat
      /\ Cardinality(one) \in Nat /\ Cardinality(b) \in Nat
      /\ Cardinality(h \ b) \in Nat /\ Cardinality(g \cap one) \in Nat
      /\ IsFiniteSet(h) /\ IsFiniteSet(g) /\ IsFiniteSet(one)
  BY <1>1, Countable
<1>3. Cardinality(h) <= Cardinality(g) + Cardinality(one)
  <2>1. Cardinality(h) =
          Cardinality(g) + Cardinality(one) - Cardinality(g \cap one)
    BY <1>1, <1>2, FS_Union
  <2>. QED BY <1>2, <2>1
<1>6. m >= EdgeMemory + Cardinality(h) /\ m \in Nat
  BY <1>2, <1>3, <1>4, <1>5, SizesOK
<1>7. Cardinality(h \ b) = Cardinality(h) - Cardinality(b)
  <2>1. h \cap b = b BY <1>b
  <2>2. Cardinality(h \ b) = Cardinality(h) - Cardinality(h \cap b)
    BY <1>2, FS_Difference
  <2>. QED BY <2>1, <2>2
<1>8. m >= Cardinality(b) BY <1>2, <1>6, <1>7, SizesOK
<1>9. Unload(m, Cardinality(b)) = m - Cardinality(b)
  BY <1>2, <1>6, <1>8 DEF Unload
<1>10. Unload(m, Cardinality(b)) \in Nat
       /\ Unload(m, Cardinality(b)) >= EdgeMemory + Cardinality(h \ b)
  BY <1>2, <1>6, <1>7, <1>8, <1>9, SizesOK
<1>. QED BY <1>0, <1>1, <1>10 DEF g, h, m, one

(* What the write section does with a batch b. *)
SectionWith(t, a, b) ==
    /\ hot' = After(row[t], meta[t], b)
    /\ memory_used' = Unload(ReloadedMemory(row[t]), Cardinality(b))
    /\ evicted' = [evicted EXCEPT ![t] =
          [q \in Entities |-> IF q \in b THEN Reloaded(row[t], meta[t])[q] ELSE None]]
    /\ answer' = [answer EXCEPT ![t] = a]
    /\ pc' = [pc EXCEPT ![t] = IF b = {} THEN "idle" ELSE "spill"]
    /\ writer' = IF b = {} THEN NoOne ELSE t

LEMMA SectionBatch ==
    ASSUME NEW t \in Threads, NEW from, NEW a, WriteSection(t, from, a)
    PROVE  \E b \in SUBSET Loaded(Reloaded(row[t], meta[t])) : SectionWith(t, a, b)
<1> DEFINE h == Reloaded(row[t], meta[t])
           m == ReloadedMemory(row[t])
<1>1. PICK b \in (IF m > Threshold THEN Batches(Loaded(h)) ELSE {{}}) :
        /\ hot' = [q \in DOMAIN h |-> IF q \in b THEN None ELSE h[q]]
        /\ memory_used' = Unload(m, Cardinality(b))
        /\ evicted' = [evicted EXCEPT ![t] =
              [q \in Entities |-> IF q \in b THEN h[q] ELSE None]]
        /\ answer' = [answer EXCEPT ![t] = a]
        /\ pc' = [pc EXCEPT ![t] = IF b = {} THEN "idle" ELSE "spill"]
        /\ writer' = IF b = {} THEN NoOne ELSE t
  BY DEF WriteSection
<1>2. DOMAIN h = Entities BY DEF Reloaded
<1>3. b \in SUBSET Loaded(h) BY <1>1 DEF Batches
<1>4. hot' = After(row[t], meta[t], b) BY <1>1, <1>2 DEF After
<1>. QED BY <1>1, <1>3, <1>4 DEF SectionWith

(* The write section, with the answer it gives, keeps the invariant. *)
LEMMA SectionInv ==
    ASSUME PipelineInv, NEW t \in Threads, NEW from \in {"promote", "reload"},
           NEW a \in Found \cup {None}, WriteSection(t, from, a),
           a = None => row[t] \notin Entities,
           Faithful => (row[t] \in Entities => meta[t] = Meta(row[t])),
           Faithful => (a \in Found => row[t] \in Entities /\ a = Meta(row[t]))
    PROVE  PipelineInv'
<1>1. /\ pc[t] = from /\ writer = NoOne /\ meta' = [meta EXCEPT ![t] = None]
      /\ requests' = requests /\ warm' = warm /\ sizes' = sizes /\ warm_lock' = warm_lock
      /\ poisoned' = poisoned /\ next' = next /\ conn' = conn /\ ticket' = ticket
      /\ row' = row /\ todo' = todo
  BY DEF WriteSection, pool
<1>2. PICK b \in SUBSET Loaded(Reloaded(row[t], meta[t])) : SectionWith(t, a, b)
  BY SectionBatch
<1>3. /\ TypeOK /\ InFlight /\ HoldersProceed /\ MemoryNeverUnder /\ PositionedFound
      /\ TruthInv /\ AnswersTrue
  BY DEF PipelineInv
<1>4. meta[t] \in Found BY <1>1, <1>3 DEF InFlight
<1>5. /\ memory_used' \in Nat
      /\ memory_used' >= EdgeMemory + Cardinality(Loaded(hot'))
  BY <1>2, <1>3, <1>4, SectionMemory DEF SectionWith
<1>6. \A u \in Threads :
        /\ pc'[u] = IF u = t THEN (IF b = {} THEN "idle" ELSE "spill") ELSE pc[u]
        /\ answer'[u] = IF u = t THEN a ELSE answer[u]
        /\ meta'[u] = IF u = t THEN None ELSE meta[u]
  BY <1>1, <1>2, <1>3 DEF TypeOK, SectionWith
<1>7. \A q \in Entities : Reloaded(row[t], meta[t])[q] = IF q = row[t] THEN meta[t] ELSE hot[q]
  BY DEF Reloaded
<1>8. TypeOK'
  <2>1. \A q \in Entities : Reloaded(row[t], meta[t])[q] \in Found \cup {None}
    BY <1>3, <1>4, <1>7 DEF TypeOK
  <2>2. hot' \in [Entities -> Found \cup {None}]
    BY <1>2, <2>1 DEF SectionWith, After
  <2>3. evicted' \in [Threads -> [Entities -> Found \cup {None}]]
    <3>1. [q \in Entities |-> IF q \in b THEN Reloaded(row[t], meta[t])[q] ELSE None]
             \in [Entities -> Found \cup {None}]
      BY <2>1
    <3>. QED BY <1>2, <1>3, <3>1 DEF SectionWith, TypeOK
  <2>4. pc' \in [Threads -> Steps] BY <1>2, <1>3 DEF SectionWith, TypeOK, Steps
  <2>5. answer' \in [Threads -> Answers]
    BY <1>2, <1>3, FoundApart DEF SectionWith, TypeOK
  <2>6. meta' \in [Threads -> Found \cup {None}] BY <1>1, <1>3 DEF TypeOK
  <2>7. writer' \in Threads \cup {NoOne} BY <1>2 DEF SectionWith
  <2>. QED
    BY <1>1, <1>3, <1>5, <2>2, <2>3, <2>4, <2>5, <2>6, <2>7 DEF TypeOK
<1>9. InFlight' BY <1>1, <1>3, <1>6 DEF InFlight
<1>10. HoldersProceed'
  BY <1>1, <1>2, <1>3, <1>6, NoOneFresh DEF HoldersProceed, SectionWith
<1>11. MemoryNeverUnder' BY <1>5 DEF MemoryNeverUnder
<1>12. PositionedFound' BY <1>1, <1>3, <1>6 DEF PositionedFound
<1>13. TruthInv'
  <2> SUFFICES ASSUME Faithful PROVE TiersTrue' /\ PromotionsTrue'
    BY <1>1 DEF TruthInv, Faithful
  <2>1. TiersTrue /\ PromotionsTrue BY <1>3 DEF TruthInv
  <2>2. \A q \in Entities : Reloaded(row[t], meta[t])[q] \in {Meta(q), None}
    BY <1>7, <2>1 DEF TiersTrue
  <2>3. \A q \in Entities : hot'[q] \in {Meta(q), None}
    BY <1>2, <2>2 DEF SectionWith, After
  <2>4. \A u \in Threads : \A q \in Entities : evicted'[u][q] \in {Meta(q), None}
    <3>1. \A u \in Threads : evicted'[u] = IF u = t
             THEN [q \in Entities |-> IF q \in b THEN Reloaded(row[t], meta[t])[q] ELSE None]
             ELSE evicted[u]
      BY <1>2, <1>3 DEF SectionWith, TypeOK
    <3>2. ASSUME NEW q \in Entities PROVE evicted'[t][q] \in {Meta(q), None}
      BY <2>2, <3>1
    <3>3. ASSUME NEW u \in Threads, u # t PROVE evicted'[u] = evicted[u]
      BY <3>1, <3>3
    <3>. QED BY <2>1, <3>2, <3>3 DEF TiersTrue
  <2>5. TiersTrue' BY <1>1, <2>1, <2>3, <2>4 DEF TiersTrue
  <2>6. PromotionsTrue' BY <1>1, <1>6, <2>1 DEF PromotionsTrue
  <2>. QED BY <2>5, <2>6
<1>14. AnswersTrue'
  <2> SUFFICES ASSUME Faithful, NEW u \in Threads
               PROVE  /\ answer'[u] # "panic"
                      /\ answer'[u] \in Found =>
                            row'[u] \in Entities /\ answer'[u] = Meta(row'[u])
    BY <1>1 DEF AnswersTrue, Faithful
  <2>1. CASE u = t
    <3>1. answer'[u] = a /\ row'[u] = row[t] BY <1>1, <1>6, <2>1
    <3>2. "panic" # None BY DEF None
    <3>3. a # "panic" BY <3>2, FoundApart
    <3>. QED BY <3>1, <3>3
  <2>2. CASE u # t BY <1>1, <1>3, <1>6, <2>2 DEF AnswersTrue
  <2>. QED BY <2>1, <2>2
<1>. QED
  BY <1>8, <1>9, <1>10, <1>11, <1>12, <1>13, <1>14 DEF PipelineInv

-----------------------------------------------------------------------------
(* Every step.  The steps other than the write section and the spill leave  *)
(* what the tiers hold, and the count of it, alone.                         *)

Quiet == /\ hot' = hot /\ memory_used' = memory_used /\ warm' = warm /\ sizes' = sizes
         /\ requests' = requests /\ evicted' = evicted

(* Such a step of t keeps the parts that are about the tiers, if it does not *)
(* poison a lock and what it promotes or answers is true.                   *)
LEMMA QuietInv ==
    ASSUME PipelineInv, Quiet, NEW t \in Threads,
           Faithful => poisoned' = poisoned,
           \A u \in Threads : u # t =>
              /\ pc'[u] = pc[u] /\ row'[u] = row[u] /\ meta'[u] = meta[u]
              /\ answer'[u] = answer[u],
           Faithful /\ pc'[t] = "promote"
              => row'[t] \in Entities /\ meta'[t] = Meta(row'[t]),
           Faithful => answer'[t] # "panic",
           Faithful /\ answer'[t] \in Found
              => row'[t] \in Entities /\ answer'[t] = Meta(row'[t]),
           answer'[t] = None => row'[t] \notin Entities \cap Positioned
    PROVE  MemoryNeverUnder' /\ PositionedFound' /\ TruthInv' /\ AnswersTrue'
<1>1. MemoryNeverUnder' BY DEF PipelineInv, MemoryNeverUnder, Quiet
<1>2. PositionedFound' BY DEF PipelineInv, PositionedFound
<1>3. Faithful' <=> Faithful BY DEF Faithful, Quiet
<1>4. TruthInv'
  <2> SUFFICES ASSUME Faithful PROVE TiersTrue' /\ PromotionsTrue' BY <1>3 DEF TruthInv
  <2>1. TiersTrue /\ PromotionsTrue BY DEF PipelineInv, TruthInv
  <2>2. TiersTrue' BY <2>1 DEF TiersTrue, Quiet
  <2>3. PromotionsTrue' BY <2>1 DEF PromotionsTrue
  <2>. QED BY <2>2, <2>3
<1>5. AnswersTrue' BY <1>3 DEF PipelineInv, AnswersTrue
<1>. QED BY <1>1, <1>2, <1>4, <1>5

(* A new lookup keeps it. *)
LEMMA StartInv ==
    ASSUME PipelineInv, NEW t \in Threads, NEW r \in requests, Start(t, r)
    PROVE  PipelineInv'
<1>1. TypeOK'
  BY SizesOK, FoundApart DEF PipelineInv, TypeOK, Start, Goto, tiers, locks, pool, Steps
<1>2. InFlight'
  BY DEF PipelineInv, TypeOK, InFlight, Start, Goto, Steps
<1>3. HoldersProceed'
  BY DEF PipelineInv, TypeOK, HoldersProceed, Start, Goto, locks, pool
<1>4. /\ Quiet /\ poisoned' = poisoned /\ pc'[t] = "hot" /\ answer'[t] = "pending"
      /\ \A u \in Threads : u # t =>
            /\ pc'[u] = pc[u] /\ row'[u] = row[u] /\ meta'[u] = meta[u]
            /\ answer'[u] = answer[u]
  BY DEF PipelineInv, TypeOK, Start, Goto, Quiet, tiers, locks
<1>5. MemoryNeverUnder' /\ PositionedFound' /\ TruthInv' /\ AnswersTrue'
  BY <1>4, QuietInv, FoundApart DEF None
<1>. QED BY <1>1, <1>2, <1>3, <1>5 DEF PipelineInv

(* The fast path under entities.read() keeps it. *)
LEMMA HotInv ==
    ASSUME PipelineInv, NEW t \in Threads, HotHit(t) \/ HotMiss(t)
    PROVE  PipelineInv'
<1>1. TypeOK'
  <2>1. CASE HotHit(t)
    <3>1. hot[row[t]] \in Answers
      BY <2>1, FoundApart DEF HotHit, Loaded, PipelineInv, TypeOK
    <3>. QED
      BY <2>1, <3>1 DEF PipelineInv, TypeOK, HotHit, Return, Goto, tiers, locks, pool, Steps
  <2>2. CASE HotMiss(t)
    BY <2>2 DEF PipelineInv, TypeOK, HotMiss, Goto, tiers, locks, pool, Steps
  <2>. QED BY <2>1, <2>2
<1>2. InFlight'
  BY DEF PipelineInv, TypeOK, InFlight, HotHit, HotMiss, Return, Goto, Steps
<1>3. HoldersProceed'
  <2>1. CASE HotHit(t)
    BY <2>1 DEF PipelineInv, TypeOK, HoldersProceed, HotHit, Return, Goto, locks, pool
  <2>2. CASE HotMiss(t)
    BY <2>2 DEF PipelineInv, TypeOK, HoldersProceed, HotMiss, Goto, locks, pool
  <2>. QED BY <2>1, <2>2
<1>4. /\ Quiet /\ poisoned' = poisoned /\ pc'[t] # "promote"
      /\ row' = row /\ meta' = meta
      /\ \A u \in Threads : u # t => pc'[u] = pc[u] /\ answer'[u] = answer[u]
  BY DEF PipelineInv, TypeOK, HotHit, HotMiss, Return, Goto, Quiet, tiers, locks
<1>5. /\ Faithful => answer'[t] # "panic"
      /\ Faithful /\ answer'[t] \in Found
            => row[t] \in Entities /\ answer'[t] = Meta(row[t])
      /\ answer'[t] = None => row[t] \notin Entities \cap Positioned
  <2>1. CASE HotHit(t)
    <3>1. /\ answer'[t] = hot[row[t]] /\ row[t] \in Entities /\ hot[row[t]] \in Found
      BY <2>1 DEF HotHit, Return, Loaded, PipelineInv, TypeOK
    <3>2. Faithful => hot[row[t]] = Meta(row[t])
      BY <3>1, FoundApart DEF PipelineInv, TruthInv, TiersTrue
    <3>. QED BY <3>1, <3>2, FoundApart
  <2>2. CASE HotMiss(t)
    BY <2>2 DEF HotMiss, PipelineInv, AnswersTrue, PositionedFound
  <2>. QED BY <2>1, <2>2
<1>6. MemoryNeverUnder' /\ PositionedFound' /\ TruthInv' /\ AnswersTrue'
  BY <1>4, <1>5, QuietInv
<1>. QED BY <1>1, <1>2, <1>3, <1>6 DEF PipelineInv

(* A panic on a poisoned lock keeps it. *)
LEMMA PanicInv ==
    ASSUME PipelineInv, NEW t \in Threads, EntitiesPanic(t) \/ WarmPanic(t)
    PROVE  PipelineInv'
<1>0. /\ Quiet /\ pc'[t] = "idle" /\ answer'[t] = "panic" /\ row' = row
      /\ pc' \in [Threads -> Steps] /\ answer' \in [Threads -> Answers]
      /\ pc[t] \notin {"idle", "spill", "cold_load"}
      /\ meta' \in [Threads -> Found \cup {None}]
      /\ \A u \in Threads : u # t =>
            pc'[u] = pc[u] /\ answer'[u] = answer[u] /\ meta'[u] = meta[u]
      /\ todo' = todo /\ writer' = writer /\ next' = next /\ conn' = conn /\ ticket' = ticket
  <2>1. CASE EntitiesPanic(t)
    BY <2>1, FoundApart
    DEF PipelineInv, TypeOK, EntitiesPanic, Return, Goto, Quiet, tiers, locks, pool, Steps
  <2>2. CASE WarmPanic(t)
    BY <2>2, FoundApart
    DEF PipelineInv, TypeOK, WarmPanic, Return, Goto, Quiet, tiers, pool, Steps
  <2>. QED BY <2>1, <2>2
<1>1. ~ Faithful
  <2> SUFFICES ASSUME Faithful PROVE FALSE OBVIOUS
  <2>1. TiersTrue BY DEF PipelineInv, TruthInv
  <2>2. ~ EntitiesPanic(t) BY <2>1 DEF EntitiesPanic, TiersTrue
  <2>3. CASE WarmPanic(t)
    <3>1. "panic" \in Reading(row[t]) BY <2>3 DEF WarmPanic
    <3>2. row[t] \in Rowids
      BY <2>3, RequestsRowids DEF WarmPanic, Return, Goto, PipelineInv, InFlight
    <3>3. Reading(row[t]) \subseteq {Meta(row[t]), "error"}
      BY <2>1, <3>2 DEF TiersTrue, Reading
    <3>. QED BY <3>1, <3>3, MetaFound, FoundApart
  <2>. QED BY <2>2, <2>3
<1>2. TypeOK'
  <2>1. poisoned' \subseteq {"entities", "warm"} /\ warm_lock' \in Threads \cup {NoOne}
    BY DEF EntitiesPanic, WarmPanic, locks, PipelineInv, TypeOK
  <2>. QED BY <1>0, <2>1 DEF PipelineInv, TypeOK, Quiet
<1>3. InFlight' BY <1>0 DEF PipelineInv, InFlight, Quiet
<1>4. HoldersProceed'
  <2>1. CASE EntitiesPanic(t)
    <3>1. warm_lock' = warm_lock /\ pc[t] # "warm_get"
      BY <2>1 DEF EntitiesPanic, Return, Goto, locks
    <3>. QED BY <1>0, <3>1 DEF PipelineInv, HoldersProceed
  <2>2. CASE WarmPanic(t)
    <3>1. warm_lock' = NoOne /\ pc[t] = "warm_get" BY <2>2 DEF WarmPanic, Return, Goto
    <3>. QED BY <1>0, <3>1, NoOneFresh DEF PipelineInv, HoldersProceed
  <2>. QED BY <2>1, <2>2
<1>5. MemoryNeverUnder' /\ PositionedFound' /\ TruthInv' /\ AnswersTrue'
  <2>1. "panic" # None BY FoundApart DEF None
  <2>. QED BY <1>0, <1>1, <2>1, QuietInv
<1>. QED BY <1>2, <1>3, <1>4, <1>5 DEF PipelineInv

(* Taking the warm mutex, or finding it poisoned, keeps it. *)
LEMMA WarmLockInv ==
    ASSUME PipelineInv, NEW t \in Threads, WarmLock(t)
    PROVE  PipelineInv'
<1>1. /\ Quiet /\ poisoned' = poisoned /\ row' = row /\ meta' = meta
      /\ todo' = todo /\ writer' = writer /\ next' = next /\ conn' = conn /\ ticket' = ticket
      /\ pc[t] = "warm" /\ warm_lock = NoOne
      /\ \A u \in Threads : u # t => pc'[u] = pc[u] /\ answer'[u] = answer[u]
  BY DEF PipelineInv, TypeOK, WarmLock, Return, Goto, Quiet, tiers, pool
<1>2. \/ /\ pc'[t] = "idle" /\ answer'[t] = "panic" /\ "warm" \in poisoned
         /\ warm_lock' = warm_lock
      \/ pc'[t] = "warm_get" /\ answer' = answer /\ warm_lock' = t
  BY DEF PipelineInv, TypeOK, WarmLock, Return, Goto
<1>3. pc' \in [Threads -> Steps] /\ answer' \in [Threads -> Answers]
  <2>1. \E to \in {"idle", "warm_get"} : pc' = [pc EXCEPT ![t] = to]
    BY DEF WarmLock, Return, Goto
  <2>2. pc' \in [Threads -> Steps] BY <2>1 DEF PipelineInv, TypeOK, Steps
  <2>3. answer' = answer \/ answer' = [answer EXCEPT ![t] = "panic"]
    BY DEF WarmLock, Return
  <2>4. answer' \in [Threads -> Answers] BY <2>3, FoundApart DEF PipelineInv, TypeOK
  <2>. QED BY <2>2, <2>4
<1>4. TypeOK' BY <1>1, <1>2, <1>3 DEF PipelineInv, TypeOK, Quiet
<1>5. InFlight' BY <1>1, <1>2 DEF PipelineInv, InFlight, Quiet
<1>6. HoldersProceed' BY <1>1, <1>2, NoOneFresh DEF PipelineInv, HoldersProceed
<1>7. Faithful => pc'[t] = "warm_get" /\ answer' = answer
  BY <1>2 DEF PipelineInv, TruthInv, TiersTrue
<1>8. /\ Faithful => answer'[t] # "panic"
      /\ Faithful /\ answer'[t] \in Found
            => row[t] \in Entities /\ answer'[t] = Meta(row[t])
      /\ answer'[t] = None => row[t] \notin Entities \cap Positioned
  BY <1>2, <1>7 DEF PipelineInv, AnswersTrue, PositionedFound, None
<1>9. MemoryNeverUnder' /\ PositionedFound' /\ TruthInv' /\ AnswersTrue'
  BY <1>1, <1>2, <1>8, QuietInv
<1>. QED BY <1>4, <1>5, <1>6, <1>9 DEF PipelineInv

(* Reading the warm tier keeps it. *)
LEMMA WarmGetInv ==
    ASSUME PipelineInv, NEW t \in Threads, WarmGet(t)
    PROVE  PipelineInv'
<1>1. /\ Quiet /\ poisoned' = poisoned /\ row' = row /\ answer' = answer
      /\ todo' = todo /\ writer' = writer /\ next' = next /\ conn' = conn /\ ticket' = ticket
      /\ pc[t] = "warm_get" /\ warm_lock' = NoOne
  BY DEF WarmGet, Goto, Quiet, tiers, pool
<1>2. PICK got \in Reading(row[t]) \ {"panic"} :
        /\ pc' = [pc EXCEPT ![t] = IF got \in Found THEN "promote" ELSE "cold"]
        /\ meta' = [meta EXCEPT ![t] = IF got \in Found THEN got ELSE None]
  BY DEF WarmGet, Goto
<1>3. /\ pc' \in [Threads -> Steps] /\ meta' \in [Threads -> Found \cup {None}]
      /\ pc'[t] = IF got \in Found THEN "promote" ELSE "cold"
      /\ meta'[t] = IF got \in Found THEN got ELSE None
      /\ \A u \in Threads : u # t => pc'[u] = pc[u] /\ meta'[u] = meta[u]
  BY <1>2 DEF PipelineInv, TypeOK, Steps
<1>4. TypeOK' BY <1>1, <1>3 DEF PipelineInv, TypeOK, Quiet
<1>5. InFlight' BY <1>1, <1>3 DEF PipelineInv, InFlight, Quiet
<1>6. HoldersProceed' BY <1>1, <1>3, NoOneFresh DEF PipelineInv, HoldersProceed
<1>7. Faithful /\ got \in Found => row[t] \in Entities /\ got = Meta(row[t])
  <2> SUFFICES ASSUME Faithful, got \in Found
               PROVE  row[t] \in Entities /\ got = Meta(row[t])
    OBVIOUS
  <2>1. TiersTrue BY DEF PipelineInv, TruthInv
  <2>2. row[t] \in Rowids
    BY <1>1, RequestsRowids DEF PipelineInv, InFlight
  <2>3. warm[row[t]] # {} /\ got \in warm[row[t]]
    BY <1>2, FoundApart DEF Reading
  <2>. QED BY <2>1, <2>2, <2>3, FoundApart DEF TiersTrue
<1>8. MemoryNeverUnder' /\ PositionedFound' /\ TruthInv' /\ AnswersTrue'
  <2>1. /\ Faithful => answer'[t] # "panic"
        /\ Faithful /\ answer'[t] \in Found
              => row[t] \in Entities /\ answer'[t] = Meta(row[t])
        /\ answer'[t] = None => row[t] \notin Entities \cap Positioned
    BY <1>1 DEF PipelineInv, AnswersTrue, PositionedFound
  <2>2. Faithful /\ pc'[t] = "promote" => row[t] \in Entities /\ meta'[t] = Meta(row[t])
    BY <1>3, <1>7
  <2>. QED BY <1>1, <1>3, <2>1, <2>2, QuietInv
<1>. QED BY <1>4, <1>5, <1>6, <1>8 DEF PipelineInv

(* The steps on the pool of connections keep it. *)
LEMMA ColdInv ==
    ASSUME PipelineInv, NEW t \in Threads,
           ColdTicket(t) \/ ColdLock(t) \/ ColdLoad(t) \/ ColdFails(t)
    PROVE  PipelineInv'
<1>1. /\ Quiet /\ poisoned' = poisoned /\ row' = row /\ pc[t] # "idle"
      /\ \A u \in Threads : u # t =>
            pc'[u] = pc[u] /\ answer'[u] = answer[u] /\ meta'[u] = meta[u]
  BY DEF PipelineInv, TypeOK, ColdTicket, ColdLock, ColdLoad, ColdFails, DropConnection,
     Return, Goto, Quiet, tiers, locks
<1>2. \/ pc'[t] \in {"cold_lock", "cold_load"} /\ answer' = answer /\ meta' = meta
      \/ /\ pc'[t] = "reload" /\ answer' = answer /\ row[t] \in Positioned
         /\ meta'[t] = Meta(row[t])
      \/ pc'[t] = "idle" /\ answer'[t] = None /\ row[t] \notin Positioned /\ meta' = meta
      \/ pc'[t] = "idle" /\ answer'[t] = "error" /\ meta' = meta
  BY DEF PipelineInv, TypeOK, ColdTicket, ColdLock, ColdLoad, ColdFails, Return, Goto
<1>3. TypeOK'
  <2>1. CASE ColdTicket(t)
    <3>1. (next + 1) % PoolSize \in 0 .. PoolSize - 1
      BY SizesOK DEF PipelineInv, TypeOK
    <3>. QED
      BY <2>1, <3>1 DEF PipelineInv, TypeOK, ColdTicket, Goto, tiers, locks, Steps
  <2>2. CASE ColdLock(t)
    BY <2>2 DEF PipelineInv, TypeOK, ColdLock, Goto, tiers, locks, Steps
  <2>3. CASE ColdLoad(t)
    <3>1. 0 \in 0 .. PoolSize - 1 BY SizesOK
    <3>2. pc' \in [Threads -> Steps]
      <4>1. \E to \in {"idle", "reload"} : pc' = [pc EXCEPT ![t] = to]
        BY <2>3 DEF ColdLoad, Return, Goto
      <4>. QED BY <4>1 DEF PipelineInv, TypeOK, Steps
    <3>3. answer' = answer \/ answer' = [answer EXCEPT ![t] = None]
      BY <2>3 DEF ColdLoad, Return
    <3>4. meta' = meta \/ meta' = [meta EXCEPT ![t] = Meta(row[t])] BY <2>3 DEF ColdLoad
    <3>5. answer' \in [Threads -> Answers]
      BY <3>3, FoundApart DEF PipelineInv, TypeOK
    <3>6. meta' \in [Threads -> Found \cup {None}]
      <4>1. Meta(row[t]) \in Found BY MetaFound
      <4>. QED BY <3>4, <4>1 DEF PipelineInv, TypeOK
    <3>. QED
      BY <2>3, <3>1, <3>2, <3>5, <3>6
      DEF PipelineInv, TypeOK, ColdLoad, DropConnection, tiers, locks
  <2>4. CASE ColdFails(t)
    <3>1. 0 \in 0 .. PoolSize - 1 BY SizesOK
    <3>. QED
      BY <2>4, <3>1, FoundApart
      DEF PipelineInv, TypeOK, ColdFails, DropConnection, Return, Goto, tiers, locks, Steps
  <2>. QED BY <2>1, <2>2, <2>3, <2>4
<1>4. InFlight'
  <2>1. Meta(row[t]) \in Found /\ (row[t] \in Positioned => Meta(row[t]) = "position")
    BY MetaFound DEF Meta
  <2>. QED BY <1>1, <1>2, <2>1 DEF PipelineInv, InFlight, Quiet
<1>5. HoldersProceed'
  <2>1. CASE ColdTicket(t)
    BY <2>1 DEF PipelineInv, TypeOK, HoldersProceed, ColdTicket, Goto, locks, Steps
  <2>2. CASE ColdLock(t)
    BY <2>2, NoOneFresh DEF PipelineInv, TypeOK, HoldersProceed, ColdLock, Goto, locks, Steps
  <2>3. CASE ColdLoad(t)
    BY <2>3, NoOneFresh
    DEF PipelineInv, TypeOK, HoldersProceed, ColdLoad, DropConnection, Return, Goto, locks, Steps
  <2>4. CASE ColdFails(t)
    BY <2>4, NoOneFresh
    DEF PipelineInv, TypeOK, HoldersProceed, ColdFails, DropConnection, Return, Goto, locks, Steps
  <2>. QED BY <2>1, <2>2, <2>3, <2>4
<1>6. /\ Faithful => answer'[t] # "panic"
      /\ Faithful /\ answer'[t] \in Found
            => row[t] \in Entities /\ answer'[t] = Meta(row[t])
      /\ answer'[t] = None => row[t] \notin Entities \cap Positioned
  <2>1. None # "panic" /\ None # "error" BY DEF None
  <2>. QED BY <1>2, <2>1, FoundApart DEF PipelineInv, AnswersTrue, PositionedFound
<1>7. MemoryNeverUnder' /\ PositionedFound' /\ TruthInv' /\ AnswersTrue'
  BY <1>1, <1>2, <1>6, QuietInv
<1>. QED BY <1>3, <1>4, <1>5, <1>7 DEF PipelineInv

(* Putting the evicted batch in the warm tier keeps it. *)
LEMMA SpillInv ==
    ASSUME PipelineInv, NEW t \in Threads, Spill(t)
    PROVE  PipelineInv'
<1> DEFINE put == evicted[t]
<1>1. /\ requests' = requests /\ hot' = hot /\ memory_used' = memory_used
      /\ warm_lock' = warm_lock /\ poisoned' = poisoned /\ row' = row
      /\ answer' = answer /\ meta' = meta /\ todo' = todo
      /\ next' = next /\ conn' = conn /\ ticket' = ticket
      /\ pc[t] = "spill" /\ pc' = [pc EXCEPT ![t] = "idle"] /\ writer' = NoOne
      /\ evicted' = [evicted EXCEPT ![t] = NoEntities]
      /\ sizes' = sizes \cup {put[r] # "no position" : r \in Loaded(put)}
  BY DEF Spill, Goto, pool
<1>2. PICK listed \in SUBSET (Loaded(put) \cup {r \in Rowids : warm[r] # {}}) :
        warm' = [r \in Rowids |->
            IF r \in listed THEN ReadingAfter(r, put, sizes') ELSE {}]
  BY DEF Spill
<1>3. put \in [Entities -> Found \cup {None}] /\ Loaded(put) \subseteq Entities
  BY DEF PipelineInv, TypeOK, Loaded
<1> HIDE DEF put
<1>4. sizes \subseteq sizes' /\ sizes' \subseteq BOOLEAN
  BY <1>1 DEF PipelineInv, TypeOK
<1>5. ASSUME NEW r \in Rowids PROVE warm'[r] \subseteq Readings
  <2>1. warm[r] \subseteq Readings BY DEF PipelineInv, TypeOK
  <2>2. r \in Loaded(put) => put[r] \in Readings /\ "error" \in Readings
    BY <1>3 DEF Loaded, Readings
  <2>3. ReadingAfter(r, put, sizes') \subseteq Readings BY <2>1, <2>2 DEF ReadingAfter
  <2>. QED BY <1>2, <2>3
<1>6. TypeOK'
  <2>1. warm' \in [Rowids -> SUBSET Readings]
    <3>1. warm' = [r \in Rowids |-> warm'[r]] BY <1>2
    <3>. QED BY <1>5, <3>1
  <2>2. evicted' \in [Threads -> [Entities -> Found \cup {None}]]
    BY <1>1 DEF PipelineInv, TypeOK, NoEntities
  <2>3. pc' \in [Threads -> Steps] BY <1>1 DEF PipelineInv, TypeOK, Steps
  <2>. QED BY <1>1, <1>4, <2>1, <2>2, <2>3 DEF PipelineInv, TypeOK
<1>7. InFlight' BY <1>1 DEF PipelineInv, TypeOK, InFlight
<1>8. HoldersProceed'
  <2>1. /\ pc'[t] = "idle" /\ \A u \in Threads : u # t => pc'[u] = pc[u]
        /\ writer' = NoOne /\ warm_lock' = warm_lock /\ conn' = conn /\ ticket' = ticket
    BY <1>1 DEF PipelineInv, TypeOK
  <2>2. HoldersProceed /\ pc[t] = "spill" BY <1>1 DEF PipelineInv
  <2>. QED BY <2>1, <2>2, NoOneFresh DEF HoldersProceed
<1>9. MemoryNeverUnder' BY <1>1 DEF PipelineInv, MemoryNeverUnder
<1>10. PositionedFound' BY <1>1 DEF PipelineInv, PositionedFound
<1>11. Faithful' => Faithful BY <1>4 DEF Faithful
<1>12. TruthInv'
  <2> SUFFICES ASSUME Faithful' PROVE TiersTrue' /\ PromotionsTrue' BY DEF TruthInv
  <2>1. TiersTrue /\ PromotionsTrue BY <1>11 DEF PipelineInv, TruthInv
  <2>2. \A r \in Loaded(put) : r \in Entities /\ put[r] = Meta(r)
    <3>1. \A r \in Entities : put[r] \in {Meta(r), None} BY <2>1 DEF TiersTrue, put
    <3>. QED BY <3>1 DEF Loaded
  <2>3. ASSUME NEW r \in Rowids
        PROVE  warm'[r] \subseteq {Meta(r), "error"} /\ (warm'[r] # {} => r \in Entities)
    <3>1. CASE r \in listed
      <4>1. warm'[r] = warm[r] \cup (IF r \in Loaded(put) THEN {put[r], "error"} ELSE {})
        BY <1>2, <3>1 DEF ReadingAfter, Faithful
      <4>2. r \in Loaded(put) \/ warm[r] # {} BY <1>2, <3>1
      <4>3. warm[r] \subseteq {Meta(r), "error"} /\ (warm[r] # {} => r \in Entities)
        BY <2>1 DEF TiersTrue
      <4>. QED BY <2>2, <4>1, <4>2, <4>3
    <3>2. CASE r \notin listed BY <1>2, <3>2
    <3>. QED BY <3>1, <3>2
  <2>4. \A u \in Threads : \A r \in Entities : evicted'[u][r] \in {Meta(r), None}
    BY <1>1, <2>1 DEF TiersTrue, NoEntities, PipelineInv, TypeOK
  <2>5. TiersTrue' BY <1>1, <2>1, <2>3, <2>4 DEF TiersTrue
  <2>6. PromotionsTrue' BY <1>1, <2>1 DEF PromotionsTrue, PipelineInv, TypeOK
  <2>. QED BY <2>5, <2>6
<1>13. AnswersTrue' BY <1>1, <1>11 DEF PipelineInv, AnswersTrue
<1>. QED
  BY <1>6, <1>7, <1>8, <1>9, <1>10, <1>12, <1>13 DEF PipelineInv

(* A spill that finds the warm mutex poisoned keeps it. *)
LEMMA SpillPanicInv ==
    ASSUME PipelineInv, NEW t \in Threads, SpillPanic(t)
    PROVE  PipelineInv'
<1>1. /\ requests' = requests /\ hot' = hot /\ memory_used' = memory_used
      /\ warm' = warm /\ sizes' = sizes /\ warm_lock' = warm_lock /\ row' = row
      /\ meta' = meta /\ todo' = todo /\ next' = next /\ conn' = conn /\ ticket' = ticket
      /\ pc[t] = "spill" /\ pc' = [pc EXCEPT ![t] = "idle"] /\ writer' = NoOne
      /\ answer' = [answer EXCEPT ![t] = "panic"]
      /\ evicted' = [evicted EXCEPT ![t] = NoEntities]
      /\ "warm" \in poisoned /\ poisoned' = poisoned \cup {"entities"}
  BY DEF SpillPanic, Return, Goto, tiers, pool
<1>2. ~ Faithful' BY <1>1 DEF PipelineInv, TruthInv, TiersTrue, Faithful
<1>3. TypeOK'
  <2>1. evicted' \in [Threads -> [Entities -> Found \cup {None}]]
    BY <1>1 DEF PipelineInv, TypeOK, NoEntities
  <2>2. pc' \in [Threads -> Steps] BY <1>1 DEF PipelineInv, TypeOK, Steps
  <2>3. answer' \in [Threads -> Answers] BY <1>1, FoundApart DEF PipelineInv, TypeOK
  <2>. QED BY <1>1, <2>1, <2>2, <2>3 DEF PipelineInv, TypeOK
<1>4. InFlight' BY <1>1 DEF PipelineInv, TypeOK, InFlight
<1>5. HoldersProceed' BY <1>1, NoOneFresh DEF PipelineInv, TypeOK, HoldersProceed
<1>6. MemoryNeverUnder' BY <1>1 DEF PipelineInv, MemoryNeverUnder
<1>7. PositionedFound' BY <1>1 DEF PipelineInv, TypeOK, PositionedFound, None
<1>8. TruthInv' /\ AnswersTrue' BY <1>2 DEF TruthInv, AnswersTrue
<1>. QED BY <1>3, <1>4, <1>5, <1>6, <1>7, <1>8 DEF PipelineInv

(* No step of any thread leaves the invariant. *)
LEMMA PipelineStep == PipelineInv /\ [Next]_vars => PipelineInv'
<1> SUFFICES ASSUME PipelineInv, [Next]_vars PROVE PipelineInv' OBVIOUS
<1>1. ASSUME NEW t \in Threads, NEW r \in requests, Start(t, r) PROVE PipelineInv'
  BY <1>1, StartInv
<1>2. ASSUME NEW t \in Threads, Step(t) PROVE PipelineInv'
  <2>1. CASE PromoteWarm(t)
    <3>1. WriteSection(t, "promote", meta[t]) /\ meta[t] \in Found
      BY <2>1 DEF PromoteWarm, WriteSection, PipelineInv, InFlight
    <3>2. Faithful => row[t] \in Entities /\ meta[t] = Meta(row[t])
      BY <3>1 DEF WriteSection, PipelineInv, TruthInv, PromotionsTrue
    <3>. QED BY <3>1, <3>2, SectionInv, FoundApart
  <2>2. CASE PromoteCold(t)
    <3>1. row[t] \in Positioned /\ meta[t] = "position" /\ meta[t] \in Found
      BY <2>2 DEF PromoteCold, WriteSection, PipelineInv, InFlight
    <3>2. Meta(row[t]) = meta[t] BY <3>1 DEF Meta
    <3>3. row[t] \in Loaded(Reloaded(row[t], meta[t])) <=> row[t] \in Entities
      BY <3>1, FoundApart DEF Loaded, Reloaded
    <3> DEFINE a == IF row[t] \in Loaded(Reloaded(row[t], meta[t])) THEN meta[t] ELSE None
    <3>4. /\ a \in Found \cup {None} /\ WriteSection(t, "reload", a)
          /\ a = None => row[t] \notin Entities
          /\ a \in Found => row[t] \in Entities /\ a = Meta(row[t])
      BY <2>2, <3>1, <3>2, <3>3, FoundApart DEF PromoteCold
    <3> HIDE DEF a
    <3>. QED BY <3>2, <3>4, SectionInv
  <2>3. CASE HotHit(t) \/ HotMiss(t) BY <2>3, HotInv
  <2>4. CASE EntitiesPanic(t) \/ WarmPanic(t) BY <2>4, PanicInv
  <2>5. CASE WarmLock(t) BY <2>5, WarmLockInv
  <2>6. CASE WarmGet(t) BY <2>6, WarmGetInv
  <2>7. CASE ColdTicket(t) \/ ColdLock(t) \/ ColdLoad(t) \/ ColdFails(t) BY <2>7, ColdInv
  <2>8. CASE Spill(t) BY <2>8, SpillInv
  <2>9. CASE SpillPanic(t) BY <2>9, SpillPanicInv
  <2>. QED BY <1>2, <2>1, <2>2, <2>3, <2>4, <2>5, <2>6, <2>7, <2>8, <2>9 DEF Step
<1>3. CASE UNCHANGED vars
  <2>1. /\ TypeOK' /\ InFlight' /\ HoldersProceed' /\ MemoryNeverUnder' /\ PositionedFound'
    BY <1>3 DEF vars, tiers, locks, pool, threads, PipelineInv, TypeOK, InFlight,
       HoldersProceed, MemoryNeverUnder, PositionedFound
  <2>2. TruthInv' /\ AnswersTrue'
    BY <1>3 DEF vars, tiers, locks, pool, threads, PipelineInv, TruthInv, TiersTrue,
       PromotionsTrue, AnswersTrue, Faithful
  <2>. QED BY <2>1, <2>2 DEF PipelineInv
<1>. QED BY <1>1, <1>2, <1>3 DEF Next, Finished

(* Any threads in get_entity at once keep the types, the locks, the memory  *)
(* count and the answers as PipelineInv says.                               *)
THEOREM PipelineInvariant == Spec => []PipelineInv
<1>. QED BY InitPipeline, PipelineStep, PTL DEF Spec

-----------------------------------------------------------------------------
(* The properties *)

(* get_entity leaves the tiers, the locks and the threads' places in their  *)
(* types.                                                                   *)
THEOREM PipelineTypes == Spec => []TypeOK
<1>1. PipelineInv => TypeOK BY DEF PipelineInv
<1>. QED BY <1>1, PipelineInvariant, PTL

(* A lookup of an indexed entity that has a position never comes back       *)
(* empty, even if the warm file misreads, fails or panics.                  *)
THEOREM LookupFinds == Spec => []PositionedFound
<1>1. PipelineInv => PositionedFound BY DEF PipelineInv
<1>. QED BY <1>1, PipelineInvariant, PTL

(* While records of one size were put in a warm file that was new at load,  *)
(* what get_entity answers with is the metadata of the entity asked for.    *)
THEOREM LookupsTrue == Spec => []AnswersTrue
<1>1. PipelineInv => AnswersTrue BY DEF PipelineInv
<1>. QED BY <1>1, PipelineInvariant, PTL

(* memory_used covers at least the entities that are hot.                   *)
THEOREM NoUndercount == Spec => []MemoryNeverUnder
<1>1. PipelineInv => MemoryNeverUnder BY DEF PipelineInv
<1>. QED BY <1>1, PipelineInvariant, PTL

(* The lock discipline of get_entity: entities.write() is held across a     *)
(* step only to take the warm mutex, whose holders wait for nothing.        *)
THEOREM LockDiscipline == Spec => []HoldersProceed
<1>1. PipelineInv => HoldersProceed BY DEF PipelineInv
<1>. QED BY <1>1, PipelineInvariant, PTL

(* Behind extract_entity's check the hot tier never changes: the threshold, *)
(* the eviction and both lower tiers are out of the HTTP server's reach.    *)
THEOREM HttpNeverEvicts == Spec => []IndexedRequestsHit
<1>1. Init => IndexedRequestsHit
  BY DEF Init, InitThreads, IndexedRequestsHit
<1>2. [Next]_vars => requests' = requests
  BY DEF Next, Finished, vars, Start, Step, HotHit, HotMiss, EntitiesPanic, WarmLock,
     WarmGet, WarmPanic, PromoteWarm, ColdTicket, ColdLock, ColdLoad, ColdFails,
     PromoteCold, WriteSection, Spill, SpillPanic
<1>3. PipelineInv /\ IndexedRequestsHit /\ [Next]_vars => IndexedRequestsHit'
  <2> SUFFICES ASSUME PipelineInv, IndexedRequestsHit, [Next]_vars,
                      requests \subseteq Entities
               PROVE  /\ hot' = hot /\ memory_used' = memory_used
                      /\ \A u \in Threads : pc'[u] \in {"idle", "hot"}
    BY <1>2 DEF IndexedRequestsHit
  <2>1. /\ Loaded(hot) = Entities
        /\ \A u \in Threads : pc[u] \in {"idle", "hot"}
        /\ pc \in [Threads -> Steps]
        /\ \A u \in Threads : pc[u] # "idle" => row[u] \in Entities
    BY MetaFound, FoundApart DEF IndexedRequestsHit, PipelineInv, TypeOK, InFlight, Loaded
  <2>2. ASSUME NEW t \in Threads, NEW r \in requests, Start(t, r)
        PROVE  /\ hot' = hot /\ memory_used' = memory_used
               /\ \A u \in Threads : pc'[u] \in {"idle", "hot"}
    BY <2>1, <2>2 DEF Start, Goto, tiers
  <2>3. ASSUME NEW t \in Threads, Step(t)
        PROVE  HotHit(t) \/ EntitiesPanic(t)
    <3>1. pc[t] \in {"idle", "hot"} /\ (pc[t] = "hot" => row[t] \in Loaded(hot)) BY <2>1
    <3>. QED
      BY <2>3, <3>1 DEF Step, HotMiss, WarmLock, WarmGet, WarmPanic, PromoteWarm,
         ColdTicket, ColdLock, ColdLoad, ColdFails, PromoteCold, Spill, SpillPanic,
         WriteSection, Return, Goto
  <2>4. ASSUME NEW t \in Threads, HotHit(t) \/ EntitiesPanic(t)
        PROVE  /\ hot' = hot /\ memory_used' = memory_used
               /\ \A u \in Threads : pc'[u] \in {"idle", "hot"}
    BY <2>1, <2>4 DEF HotHit, EntitiesPanic, Return, Goto, tiers
  <2>5. CASE UNCHANGED vars BY <2>1, <2>5 DEF vars, tiers, threads
  <2>. QED BY <2>2, <2>3, <2>4, <2>5 DEF Next, Finished
<1>. QED BY <1>1, <1>3, PipelineInvariant, PTL DEF Spec

=============================================================================
