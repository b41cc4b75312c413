CONSTANTS
    Entities = {0, 1, 2}
    Placements <- MCPlacements
    Boxes <- MCBoxes
    Limits = {0, 2, 1000}
    Scale = 16
    Bits = 4
    WordMod = 65536
    GenMod = 4
    MaxSearches = 2
SPECIFICATION Spec
INVARIANTS
    TypeOK
    GridFaithful
    SearchExact
CHECK_DEADLOCK FALSE
