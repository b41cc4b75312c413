CONSTANTS
    e1 = e1
    e2 = e2
    bare = bare
    orphan = orphan
    NoOne = NoOne
    Threads = {t1, t2}
    Entities <- MCEntities
    Positioned <- MCPositioned
    RequestSets <- MCRequestSets
    OldListings <- MCOldListings
    EdgeMemory = 1
    Threshold = 3
    EvictBatch = 1
    PoolSize = 2
    MaxLookups = 2
SPECIFICATION Spec
INVARIANTS
    TypeOK
    PositionedFound
    AnswersTrue
    MemoryNeverUnder
    HoldersProceed
    IndexedRequestsHit
PROPERTY LookupsEnd
