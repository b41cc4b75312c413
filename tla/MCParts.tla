------------------------------- MODULE MCParts -------------------------------
(***************************************************************************)
(* Four parts that share nothing, on small instances: a behaviour is one   *)
(* of the spin lock, of the tile batch codec, of the download of a blob or *)
(* of the warm tier file.  PointerWord has no state; its assumption is     *)
(* evaluated here.                                                         *)
(***************************************************************************)
EXTENDS SpinLock, TileBatch, Blob, WarmTier, PointerWord, TLC

CONSTANTS p, q

MCCoordinates == 0 .. 4
MCCounts == {0, 2}
MCPayloads == {<<>>, <<p, q>>}

VARIABLE part

vars == <<part, lock_vars, tile_vars, blob_vars, warm_vars>>

Init ==
    /\ part \in {"lock", "tile", "blob", "warm"}
    /\ IF part = "lock" THEN LockInit
       ELSE LockInit /\ held = [t \in Threads |-> IF t = Owner THEN 1 ELSE 0]
    /\ TileInit
    /\ IF part = "blob" THEN BlobInit
       ELSE BlobInit /\ stored = 0 /\ size_bytes = 0
    /\ IF part = "warm" THEN WarmInit ELSE WarmInit /\ file_len = 0

Next ==
    \/ part = "lock" /\ LockNext /\ UNCHANGED <<part, tile_vars, blob_vars, warm_vars>>
    \/ part = "tile" /\ TileNext /\ UNCHANGED <<part, lock_vars, blob_vars, warm_vars>>
    \/ part = "blob" /\ BlobNext /\ UNCHANGED <<part, lock_vars, tile_vars, warm_vars>>
    \/ part = "warm" /\ WarmNext /\ UNCHANGED <<part, lock_vars, tile_vars, blob_vars>>

Spec == Init /\ [][Next]_vars /\ LockFair

\* The types of all but the warm tier, which has WarmTypeOK.
TypeOK == LockTypeOK /\ TileTypeOK /\ BlobTypeOK
=============================================================================
