------------------------------- MODULE Traversal -------------------------------
(***************************************************************************)
(* The breadth-first traversals one server thread makes, one after the     *)
(* other (bfs_impl and traverse_bfs in graph_index.rs).  The thread keeps  *)
(* its visited marks from one to the next (query_ctx.rs) and tells old     *)
(* marks from new ones by a generation number, which wraps.                *)
(***************************************************************************)
EXTENDS GraphIndex

CONSTANTS
    Entities,       \* rowids of the database
    EdgeTables,     \* sets of edge rows: the databases considered
    Starts, Depths, Filters, Limits,    \* the arguments queries have
    GenMod,         \* 2^32: generations are u32
    MaxQueries      \* bound: queries of the thread

ASSUME GenWidth == GenMod \in Nat \ {0, 1} /\ MaxQueries \in Nat

\* Rowids and ids of edges are primary keys.
ASSUME Keys ==
    /\ IsFiniteSet(Entities) /\ Entities \subseteq Int
    /\ \A table \in EdgeTables :
          /\ IsFiniteSet(table)
          /\ table \subseteq [id : Int, source : Int, target : Int, label : Nat]
          /\ \A e, f \in table : e.id = f.id => e = f

ASSUME Arguments == Depths \subseteq Nat /\ Limits \subseteq Nat

VARIABLES
    rows, graph,    \* the database, and the index loaded from it
    bfs_visited, bfs_gen,       \* the thread's QueryContext
    query,          \* the traversal that runs, or [phase |-> "idle"]
    queue,          \* of <<index, depth>>
    out,            \* rowids found
    queries         \* traversals begun so far

vars == <<rows, graph, bfs_visited, bfs_gen, query, queue, out, queries>>

Idle == [phase |-> "idle"]

Init ==
    /\ rows \in EdgeTables
    /\ graph = Load(Entities, rows)
    /\ bfs_visited = [i \in 0 .. EntityCount(graph) - 1 |-> 0]
    /\ bfs_gen = 0
    /\ query = Idle /\ queue = <<>> /\ out = <<>> /\ queries = 0

\* Fault: the generation is the one of the traversal before.
NextGenSame == IF bfs_gen = 0 THEN 1 ELSE bfs_gen

NextGen == (bfs_gen + 1) % GenMod

\* traverse_bfs up to the loop; an unknown start finds nothing.
Begin(start, depth, filter, limit) ==
    /\ query.phase # "run" /\ queries < MaxQueries
    /\ queries' = queries + 1
    /\ bfs_gen' = NextGen
    /\ query' = [phase |-> "run", start |-> start, depth |-> depth,
                 filter |-> filter, limit |-> limit]
    /\ IF start \in Entities
       THEN LET i == EntityIndex(graph.rowids)[start]
            IN  /\ bfs_visited' = [bfs_visited EXCEPT ![i] = NextGen]
                /\ queue' = <<<<i, 0>>>> /\ out' = <<start>>
       ELSE queue' = <<>> /\ out' = <<>> /\ UNCHANGED bfs_visited
    /\ UNCHANGED <<rows, graph>>

\* Fault: the index of the target is reported, not its rowid.
VisitIndex(acc, e, depth, filter) ==
    IF ~ Passes(e, filter) \/ acc.visited[e.end] = bfs_gen THEN acc
    ELSE [visited |-> [acc.visited EXCEPT ![e.end] = bfs_gen],
          queue |-> Append(acc.queue, <<e.end, depth + 1>>),
          out |-> Append(acc.out, e.end)]

\* The state of the loop over the edges of one row after edge e: a target not
\* marked with this generation is marked, queued and reported.
Visit(acc, e, depth, filter) ==
    IF ~ Passes(e, filter) \/ acc.visited[e.end] = bfs_gen THEN acc
    ELSE [visited |-> [acc.visited EXCEPT ![e.end] = bfs_gen],
          queue |-> Append(acc.queue, <<e.end, depth + 1>>),
          out |-> Append(acc.out, Rowid(graph, e.end))]

\* The loop over the edges of one row.
VisitAll(acc, row, depth, filter) ==
    LET loop[k \in 0 .. Len(row)] ==
            IF k = 0 THEN acc ELSE Visit(loop[k - 1], row[k], depth, filter)
    IN  loop[Len(row)]

\* Fault: entities at the depth asked for are expanded too.
TooDeepLate(depth) == depth > query.depth

TooDeep(depth) == depth >= query.depth

\* One turn of the outer loop.
Expand ==
    /\ query.phase = "run" /\ queue # <<>>
    /\ LET i == Head(queue)[1]
           depth == Head(queue)[2]
           acc == [visited |-> bfs_visited, queue |-> Tail(queue), out |-> out]
           new == IF TooDeep(depth) THEN acc
                  ELSE VisitAll(acc, Row(graph.out, i), depth, query.filter)
       IN  bfs_visited' = new.visited /\ queue' = new.queue /\ out' = new.out
    /\ UNCHANGED <<rows, graph, bfs_gen, query, queries>>

Shorter(s, limit) == IF Len(s) <= limit THEN s ELSE SubSeq(s, 1, limit)

\* Pipeline::traverse_bfs truncates what was found.
Return ==
    /\ query.phase = "run" /\ queue = <<>>
    /\ query' = [query EXCEPT !.phase = "done"]
    /\ out' = Shorter(out, query.limit)
    /\ UNCHANGED <<rows, graph, bfs_visited, bfs_gen, queue, queries>>

Next ==
    \/ \E s \in Starts, d \in Depths, f \in Filters, l \in Limits : Begin(s, d, f, l)
    \/ Expand
    \/ Return

Spec == Init /\ [][Next]_vars

-----------------------------------------------------------------------------
Indices == 0 .. EntityCount(graph) - 1

TypeOK ==
    /\ bfs_visited \in [Indices -> 0 .. GenMod - 1] /\ bfs_gen \in 0 .. GenMod - 1
    /\ queue \in Seq(Indices \X (IF query.phase = "run" THEN 0 .. query.depth ELSE {}))
    /\ out \in Seq(Entities)
    /\ queries \in 0 .. MaxQueries
    /\ query \in {Idle} \cup [phase : {"run", "done"}, start : Starts, depth : Depths,
                               filter : Filters, limit : Limits]

\* The edges between known entities, as a filter sees them: a label is known
\* by its low 16 bits, under which others pass for it and a larger one is lost.
Known ==
    {[e EXCEPT !.label = @ % LabelMod] :
        e \in {e \in rows : {e.source, e.target} \subseteq Entities}}

\* The rows of both directions hold each edge between known entities once, and
\* no other (build_csr and its offsets, empty rows and the last one included).
CsrFaithful == \A r \in Entities :
    LET i == EntityIndex(graph.rowids)[r]
        holds(row, edges) == /\ Len(row) = Cardinality(edges)
                             /\ {e.id : e \in ToSet(row)} = {e.id : e \in edges}
    IN  /\ holds(Row(graph.out, i), {e \in Known : e.source = r})
        /\ holds(Row(graph.in, i), {e \in Known : e.target = r})

\* get_edges answers with edges of the entity that pass the filter, at most
\* limit in both directions together, and with all it may if nothing is filtered.
EdgesWithinLimit == \A r \in Starts, f \in Filters, l \in Limits :
    LET outgoing == {e \in Known : e.source = r}
        incoming == {e \in Known : e.target = r}
        answer == GetEdges(graph, r, "Both", f, l)
        degree == Cardinality(outgoing) + Cardinality(incoming)
    IN  /\ Len(answer) <= l
        /\ ToSet(answer) \subseteq {e.id : e \in {e \in outgoing \cup incoming : Passes(e, f)}}
        /\ f = {} => Len(answer) = IF degree < l THEN degree ELSE l

\* The reference: what lies within k edges that pass the filter.
Within(start, filter) ==
    LET ball[k \in Nat] ==
            IF k = 0 THEN {start} \cap Entities
            ELSE ball[k - 1] \cup {e.target :
                     e \in {e \in Known : e.source \in ball[k - 1] /\ Passes(e, filter)}}
    IN  ball

\* A traversal returns entities within its depth, each once, as many as there
\* are up to the limit, and leaves out none that is nearer than one it returns.
NearestWithinDepth == query.phase = "done" =>
    LET ball == Within(query.start, query.filter)
        all == ball[query.depth]
    IN  /\ Cardinality(ToSet(out)) = Len(out)
        /\ Len(out) = IF Cardinality(all) < query.limit THEN Cardinality(all) ELSE query.limit
        /\ ToSet(out) \subseteq all
        /\ \A k \in 0 .. query.depth : \/ ToSet(out) \subseteq ball[k]
                                       \/ ball[k] \subseteq ToSet(out)

\* While a traversal runs, the marks of its generation are the entities it
\* reported: nothing an earlier traversal left counts as visited.
MarksAreOut == query.phase = "run" =>
    {Rowid(graph, i) : i \in {i \in Indices : bfs_visited[i] = bfs_gen}} = ToSet(out)
=============================================================================
