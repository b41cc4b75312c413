CONSTANTS
    p = p
    q = q
    Threads = {t1, t2, t3}
    Owner = t1
    MaxOps = 2
    Coordinates <- MCCoordinates
    Counts <- MCCounts
    Payloads <- MCPayloads
    MaxTiles = 3
    CountMax = 2
    DeltaMax = 2
    BaseMod = 4
    CounterMax = 1
    Chunk = 2
    MaxBlob = 7
    IndexMod = 4
    EpochMod = 2
    StorageMod = 2
    Rows = {1, 2, 3, 4}
    Positioned = {1, 2, 3, 4}
    Capacity = 33
    Restarts = 0
SPECIFICATION Spec
INVARIANTS
    TypeOK
    TileRoundTrip
    WarmTypeOK
    ReadsBack
    RecordsApart
PROPERTIES
    Linearized
    Lossy
\* Operations, tiles and bytes are bounded.
CHECK_DEADLOCK FALSE
