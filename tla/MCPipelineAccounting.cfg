CONSTANTS
    e1 = e1
    e2 = e2
    bare = bare
    orphan = orphan
    NoOne = NoOne
    Threads = {t1, t2}
    Entities <- MCEntities
    Positioned <- MCPositioned
    RequestSets <- MCAnyRequests
    OldListings <- MCOldListings
    EdgeMemory = 1
    Threshold = 3
    EvictBatch = 1
    PoolSize = 1
    MaxLookups = 2
SPECIFICATION Spec
INVARIANT MemoryExact
