------------------------------ MODULE GraphIndex ------------------------------
(***************************************************************************)
(* The topology waw_server loads once and never changes: entities numbered *)
(* in the order of their rowids, and their edges in compressed sparse rows *)
(* (EdgeCsr in graph_index.rs), once by source and once by target.         *)
(*                                                                         *)
(* The parallel arrays of a direction (targets, labels, rowids) are one    *)
(* sequence of records; indices and offsets count from 0 as in the code.   *)
(***************************************************************************)
EXTENDS Integers, Sequences, FiniteSets, SequencesExt

CONSTANT LabelMod       \* 2^16: labels are stored as u16

ASSUME LabelWidth == LabelMod \in Nat \ {0}

-----------------------------------------------------------------------------
\* Loading.  `entities` is a set of rowids, `rows` a set of edge rows
\* [id, source, target, label] of the database; a row may name entities that
\* do not exist.

\* The elements of a set in an order that tells any two of them apart.
InOrder(S, precedes(_, _)) ==
    CHOOSE s \in [1 .. Cardinality(S) -> S] :
        \A i, j \in 1 .. Cardinality(S) : i < j => precedes(s[i], s[j])

Lower(a, b) == a < b

\* ORDER BY id.
EntityRowids(entities) == InOrder(entities, Lower)

EntityIndex(rowids) ==
    [r \in ToSet(rowids) |-> (CHOOSE i \in 1 .. Len(rowids) : rowids[i] = r) - 1]

\* One direction: the rows with both ends known, as (row, other end) indices.
Edges(rowids, rows, row, other) ==
    LET index == EntityIndex(rowids)
    IN  {[row |-> index[e[row]], end |-> index[e[other]],
          label |-> e.label % LabelMod, id |-> e.id] :
            e \in {e \in rows : {e.source, e.target} \subseteq DOMAIN index}}

\* sort_unstable_by_key(|e| (e.0, e.1)); rows with equal keys may come in any
\* order, here in the order of their ids.
Before(e, f) ==
    \/ e.row < f.row
    \/ e.row = f.row /\ e.end < f.end
    \/ e.row = f.row /\ e.end = f.end /\ e.id < f.id

\* Set the offsets of the rows from..to to len.
Close(offsets, from, to, len) ==
    [i \in DOMAIN offsets |-> IF i \in from .. to THEN len ELSE offsets[i]]

\* The row the loop of build_csr is at and the offsets it has set, after k
\* edges: each row that an edge passes is closed.
CsrLoop(edges, count) ==
    LET loop[k \in 0 .. Len(edges)] ==
            IF k = 0 THEN [row |-> 0, offsets |-> [i \in 0 .. count |-> 0]]
            ELSE [row |-> edges[k].row,
                  offsets |-> Close(loop[k - 1].offsets, loop[k - 1].row + 1,
                                    edges[k].row, k - 1)]
    IN  loop[Len(edges)]

\* Fault: the rows after the last one with an edge stay open.
BuildCsrOpen(edges, count) ==
    [edges |-> edges, offsets |-> CsrLoop(edges, count).offsets]

\* build_csr: after the loop the rows that are left are closed.
BuildCsr(edges, count) ==
    LET done == CsrLoop(edges, count)
    IN  [edges |-> edges,
         offsets |-> Close(done.offsets, done.row + 1, count, Len(edges))]

Csr(rowids, rows, row, other) ==
    BuildCsr(InOrder(Edges(rowids, rows, row, other), Before), Len(rowids))

Load(entities, rows) ==
    LET rowids == EntityRowids(entities)
    IN  [rowids |-> rowids,
         out |-> Csr(rowids, rows, "source", "target"),
         in  |-> Csr(rowids, rows, "target", "source")]

-----------------------------------------------------------------------------
\* Reading

\* outgoing(idx), incoming(idx): a row of one direction.
Row(csr, i) == SubSeq(csr.edges, csr.offsets[i] + 1, csr.offsets[i + 1])

Rowid(g, i) == g.rowids[i + 1]
EntityCount(g) == Len(g.rowids)

Passes(e, filter) == filter = {} \/ e.label \in filter

\* Of the first n edges of a row, those that pass the filter.
Passing(row, filter, n) ==
    LET loop[k \in 0 .. n] ==
            IF k = 0 THEN <<>>
            ELSE IF Passes(row[k], filter) THEN Append(loop[k - 1], row[k]) ELSE loop[k - 1]
    IN  loop[n]

Fewer(m, n) == IF m < n THEN m ELSE n

\* Fault: the two directions have the limit each.
TakeEach(row, filter, limit, found) == Passing(row, filter, Fewer(Len(row), limit))

\* One direction of get_edges: it looks at limit - found edges.
Take(row, filter, limit, found) == Passing(row, filter, Fewer(Len(row), limit - found))

\* Pipeline::get_edges, in ids of edges.
GetEdges(g, entity, direction, filter, limit) ==
    IF entity \notin ToSet(g.rowids) THEN <<>>
    ELSE LET i == EntityIndex(g.rowids)[entity]
             out == IF direction \in {"Outgoing", "Both"}
                    THEN Take(Row(g.out, i), filter, limit, 0) ELSE <<>>
             in  == IF direction \in {"Incoming", "Both"} /\ Len(out) < limit
                    THEN Take(Row(g.in, i), filter, limit, Len(out)) ELSE <<>>
             ids(s) == [k \in 1 .. Len(s) |-> s[k].id]
         IN  ids(out) \o ids(in)
=============================================================================
