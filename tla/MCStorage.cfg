CONSTANTS
    Handles = {h1, h2, h3}
    Weaks = {w1}
    NoPtr = NoPtr
    NumSlots = 2
    NumLoaded = 1
    MaxComps = 2
    MaxRefs = 4
    RefMod = 5
    EpochMod = 4
SPECIFICATION Spec
SYMMETRY Symmetry

INVARIANTS
    TypeOK
    PointerOutlives
    CreateAssertion
    Balance
    SameSlotSameEpoch
    WeakFindsItsOwn
PROPERTIES
    SyncShowsLiveness
    Promise
