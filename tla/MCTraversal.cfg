CONSTANTS
    LabelMod = 2
    Entities = {1, 3, 4}
    EdgeTables <- MCEdgeTables
    Starts = {1, 3, 7}
    Depths = {0, 1, 2}
    Filters = {{}, {1}, {2}}
    Limits = {2, 5}
    GenMod = 3
    MaxQueries = 2
SPECIFICATION Spec
INVARIANTS
    TypeOK
    CsrFaithful
    EdgesWithinLimit
    NearestWithinDepth
    MarksAreOut
CHECK_DEADLOCK FALSE
