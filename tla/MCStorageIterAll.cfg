CONSTANTS
    Handles = {h1, h2}
    Weaks = {w1}
    NoPtr = NoPtr
    NumSlots = 1
    NumLoaded = 0
    MaxComps = 2
    MaxRefs = 4
    RefMod = 5
    EpochMod = 4
SPECIFICATION SpecIterAll
SYMMETRY Symmetry
INVARIANT CreateAssertion
