----------------------------- MODULE MCPipeline -----------------------------
(* Pipeline on a small instance. *)
EXTENDS Pipeline, TLC

CONSTANTS e1, e2, bare, orphan

MCEntities == {e1, e2, bare}
MCPositioned == {e1, e2, orphan}
\* Callers of Pipeline::get_entity, and the HTTP server, which asks for
\* indexed entities only.
MCRequestSets == {{e1, orphan}, {bare, orphan}, Entities}
MCAnyRequests == {{e1, orphan}}
\* Of another database, where orphan is an entity.
MCOldListings == {{e1, orphan}}
=============================================================================
