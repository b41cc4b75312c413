-------------------------------- MODULE Spatial --------------------------------
(***************************************************************************)
(* Spatial search in waw_server: the grid built once from the positions    *)
(* (SpatialIndex in spatial_index.rs), and the searches one thread makes   *)
(* on it while entities leave the hot tier and come back                   *)
(* (Pipeline::search_spatial).  A search runs under entities.read(), so it *)
(* is one step; the thread keeps its seen marks and their generation from  *)
(* one search to the next (query_ctx.rs).                                  *)
(*                                                                         *)
(* Coordinates are integers, in units of 1/Scale: the world of the code,   *)
(* -1 to 1, is -Scale to Scale here.  The grid is a power of two, so that  *)
(* scaling a coordinate is exact in f32 too.  An entity stands for its CSR *)
(* index and its rowid alike.                                              *)
(***************************************************************************)
EXTENDS Integers, Sequences, FiniteSets

CONSTANTS
    Entities,       \* CSR indices
    Placements,     \* the position tables considered: sequences of <<entity, x, y>>
    Boxes,          \* the bounds searches have: [x, y |-> <<min, max>>]
    Limits,         \* and their limits
    Scale,
    Bits,           \* of the grid: 4 to 8 in the code
    WordMod,        \* 2^64: cell counts are u64
    GenMod,         \* 2^32: generations are u32
    MaxSearches     \* bound: searches of the thread

ASSUME GridOK == Scale \in Nat \ {0} /\ Bits \in Nat \ {0}
\* A position has an entity of its own, which is the key of the table.
ASSUME PlacementsOK ==
    /\ Entities \subseteq Nat
    /\ \A pairs \in Placements :
          /\ pairs \in Seq(Entities \X Int \X Int)
          /\ \A i, j \in DOMAIN pairs : pairs[i][1] = pairs[j][1] => i = j
ASSUME ArgumentsOK == Boxes \subseteq [x : Int \X Int, y : Int \X Int] /\ Limits \subseteq Nat
ASSUME WidthsOK == WordMod \in Nat \ {0} /\ GenMod \in Nat \ {0, 1} /\ MaxSearches \in Nat

VARIABLES
    positions,      \* the position table
    index,          \* the SpatialIndex built from it
    hot,            \* entities whose entity_ptrs entry is Some
    seen_set, seen_gen,     \* the thread's QueryContext
    search,         \* ghost: the last search, with what was hot then
    out,            \* what it returned
    searches        \* searches so far

vars == <<positions, index, hot, seen_set, seen_gen, search, out, searches>>

-----------------------------------------------------------------------------
\* The grid

\* 1 << lod
TileCount[lod \in Nat] == IF lod = 0 THEN 1 ELSE 2 * TileCount[lod - 1]

GridSize == TileCount[Bits]
TotalCells == GridSize * GridSize

Clamp(n, high) == IF n < 0 THEN 0 ELSE IF n > high THEN high ELSE n

WorldToTile(v, count) == Clamp(((v + Scale) * count) \div (2 * Scale), count - 1)

Cell(row, column) == row * GridSize + column

CellOf(x, y) == Cell(WorldToTile(y, GridSize), WorldToTile(x, GridSize))

\* Entries of all cells in one array, where the write cursor of a cell starts
\* at the offset of the cell: cells[k] is the cell of the k-th position.
Fill(pairs, offsets, cells) ==
    LET at[k \in 0 .. Len(pairs)] ==
            IF k = 0 THEN [data |-> [s \in 0 .. Len(pairs) - 1 |-> <<>>], write |-> offsets]
            ELSE [data |-> [at[k - 1].data EXCEPT ![at[k - 1].write[cells[k]]] = pairs[k]],
                  write |-> [at[k - 1].write EXCEPT ![cells[k]] = @ + 1]]
    IN  at[Len(pairs)].data

Below(pairs, c) == Cardinality({i \in DOMAIN pairs : CellOf(pairs[i][2], pairs[i][3]) < c})

\* Fault: the second pass takes x for y.
BuildTurned(pairs) ==
    LET offsets == [c \in 0 .. TotalCells |-> Below(pairs, c)]
    IN  [offsets |-> offsets,
         data |-> Fill(pairs, offsets, [k \in DOMAIN pairs |-> CellOf(pairs[k][3], pairs[k][2])])]

\* SpatialIndex::build: offsets are the counts of the cells summed up.
Build(pairs) ==
    LET offsets == [c \in 0 .. TotalCells |-> Below(pairs, c)]
    IN  [offsets |-> offsets,
         data |-> Fill(pairs, offsets, [k \in DOMAIN pairs |-> CellOf(pairs[k][2], pairs[k][3])])]

\* The entries of a cell.
Slots(c) == index.offsets[c] .. index.offsets[c + 1] - 1

-----------------------------------------------------------------------------
\* The cells a search visits

TileRange(range, lod) ==
    WorldToTile(range[1], TileCount[lod]) .. WorldToTile(range[2], TileCount[lod])

CellRatio(lod) == IF lod < Bits THEN TileCount[Bits - lod] ELSE 1

\* estimate_cell_count: u64 arithmetic, which an inverted range makes wrap.
TilesAcross(range, lod) ==
    WorldToTile(range[2], TileCount[lod]) - WorldToTile(range[1], TileCount[lod]) + 1

EstimateCellCount(box, lod) ==
    (TilesAcross(box.x, lod) * CellRatio(lod) * TilesAcross(box.y, lod) * CellRatio(lod))
        % WordMod

\* search_spatial: a level coarser for large boxes with a small limit.
EffectiveLod(box, limit) ==
    IF EstimateCellCount(box, Bits) > TotalCells \div 2 /\ limit < 1000 /\ Bits > 1
    THEN Bits - 1 ELSE Bits

\* The rows, or columns, of native cells that the tiles of a range cover.
Span(range, lod) ==
    LET tiles == TileRange(range, lod)
        ratio == CellRatio(lod)
    IN  {n \in 0 .. GridSize - 1 : \E t \in tiles : t * ratio <= n /\ n < (t + 1) * ratio}

\* The entries of those cells.
Visits(box, lod) ==
    LET rows == Span(box.y, lod)
        columns == Span(box.x, lod)
    IN  UNION {{[row |-> cy, column |-> cx, slot |-> s] : s \in Slots(Cell(cy, cx))} :
                  cy \in rows, cx \in columns}

\* Tile by tile, cell by cell within a tile, and entry by entry.
Turn(v, lod) ==
    (Cell(v.row \div CellRatio(lod), v.column \div CellRatio(lod)) * TotalCells
        + Cell(v.row, v.column)) * Len(positions) + v.slot

\* The first of those left.
Earliest(left, lod) == CHOOSE v \in left : \A w \in left : Turn(v, lod) <= Turn(w, lod)

-----------------------------------------------------------------------------
Init ==
    /\ positions \in Placements
    /\ index = Build(positions)
    /\ hot = Entities
    /\ seen_set = [e \in Entities |-> 0] /\ seen_gen = 0
    /\ search = [phase |-> "none"] /\ out = <<>> /\ searches = 0

Inside(p, box) ==
    /\ box.x[1] <= p[2] /\ p[2] <= box.x[2]
    /\ box.y[1] <= p[3] /\ p[3] <= box.y[2]

\* Fault: a generation is used twice.
NextGenSame == IF seen_gen = 0 THEN 1 ELSE seen_gen

Reported(p, box) == p[1] \in hot /\ Inside(p, box)

NextGen == (seen_gen + 1) % GenMod

\* Fault: the rowid of the next index is pushed.
VisitNext(acc, p, box, limit, gen) ==
    IF acc.full \/ acc.seen[p[1]] = gen THEN acc
    ELSE [seen |-> [acc.seen EXCEPT ![p[1]] = gen],
          out |-> IF Reported(p, box) THEN Append(acc.out, p[1] + 1) ELSE acc.out,
          full |-> Reported(p, box) /\ Len(acc.out) + 1 >= limit]

\* One entry of a cell.  The limit is looked at after an entity was pushed.
Visit(acc, p, box, limit, gen) ==
    IF acc.full \/ acc.seen[p[1]] = gen THEN acc
    ELSE [seen |-> [acc.seen EXCEPT ![p[1]] = gen],
          out |-> IF Reported(p, box) THEN Append(acc.out, p[1]) ELSE acc.out,
          full |-> Reported(p, box) /\ Len(acc.out) + 1 >= limit]

\* The entries that are left, and the marks and output so far, after n of them.
Seek(visits, lod, box, limit, gen) ==
    LET at[n \in 0 .. Cardinality(visits)] ==
            IF n = 0 THEN [left |-> visits,
                           acc |-> [seen |-> seen_set, out |-> <<>>, full |-> FALSE]]
            ELSE LET next == Earliest(at[n - 1].left, lod)
                 IN  [left |-> at[n - 1].left \ {next},
                      acc |-> Visit(at[n - 1].acc, index.data[next.slot], box, limit, gen)]
    IN  at[Cardinality(visits)].acc

\* Pipeline::search_spatial, query_spatial_into and query_filtered_into.
Search(box, limit) ==
    /\ searches < MaxSearches
    /\ searches' = searches + 1
    /\ seen_gen' = NextGen
    /\ LET lod == EffectiveLod(box, limit)
           done == Seek(Visits(box, lod), lod, box, limit, NextGen)
       IN  seen_set' = done.seen /\ out' = done.out
    /\ search' = [phase |-> "done", box |-> box, limit |-> limit, hot |-> hot]
    /\ UNCHANGED <<positions, index, hot>>

\* Pipeline takes a batch of entities out of the hot tier, or one back in.
Evict(batch) ==
    /\ batch # {} /\ hot' = hot \ batch
    /\ UNCHANGED <<positions, index, seen_set, seen_gen, search, out, searches>>

Reload(e) ==
    /\ e \notin hot /\ hot' = hot \cup {e}
    /\ UNCHANGED <<positions, index, seen_set, seen_gen, search, out, searches>>

Next ==
    \/ \E box \in Boxes, limit \in Limits : Search(box, limit)
    \/ \E batch \in SUBSET hot : Evict(batch)
    \/ \E e \in Entities : Reload(e)

Spec == Init /\ [][Next]_vars

-----------------------------------------------------------------------------
TypeOK ==
    /\ hot \subseteq Entities
    /\ seen_set \in [Entities -> 0 .. GenMod - 1] /\ seen_gen \in 0 .. GenMod - 1
    /\ out \in Seq(Entities) /\ searches \in 0 .. MaxSearches

\* build: the row of a cell has the positions in that cell and nothing else,
\* however many share a cell, lie on an edge or outside the world.
GridFaithful ==
    /\ index.offsets[TotalCells] = Len(positions)
    /\ \A i \in DOMAIN positions :
          \E s \in Slots(CellOf(positions[i][2], positions[i][3])) : index.data[s] = positions[i]
    /\ \A c \in 0 .. TotalCells - 1 : \A s \in Slots(c) :
          \E i \in DOMAIN positions :
              index.data[s] = positions[i] /\ CellOf(positions[i][2], positions[i][3]) = c

Returned == {out[i] : i \in DOMAIN out}

\* A search returns hot entities inside its box, each once, and all of them up
\* to the limit, whichever level of detail it ran at and whatever marks earlier
\* searches left.  A limit of 0 counts as 1.
SearchExact == search.phase = "done" =>
    LET all == {positions[i][1] : i \in {i \in DOMAIN positions :
                    positions[i][1] \in search.hot /\ Inside(positions[i], search.box)}}
        most == IF search.limit = 0 THEN 1 ELSE search.limit
    IN  /\ Cardinality(Returned) = Len(out)
        /\ Returned \subseteq all
        /\ Len(out) = IF Cardinality(all) < most THEN Cardinality(all) ELSE most
=============================================================================
