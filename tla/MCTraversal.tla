------------------------------ MODULE MCTraversal ------------------------------
(* Traversal on all small graphs made of a few kinds of edges: a chain, a    *)
(* short cut, a cycle, a loop, and an edge to an entity that does not exist;  *)
(* both labels are too wide: 2 is stored as 0, and 3 as 1.                    *)
EXTENDS Traversal

MCEdges ==
    {[id |-> 100 * p[1] + 10 * p[2] + l, source |-> p[1], target |-> p[2], label |-> l] :
        p \in {<<1, 3>>, <<1, 4>>, <<3, 4>>, <<4, 1>>, <<3, 3>>, <<3, 9>>}, l \in {2, 3}}

MCEdgeTables == UNION {kSubset(k, MCEdges) : k \in 0 .. 3}
=============================================================================
