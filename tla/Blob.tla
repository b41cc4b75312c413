--------------------------------- MODULE Blob ---------------------------------
(***************************************************************************)
(* GraphClient::get_blob over dispatch_get_blob: the client asks for a     *)
(* blob from an offset until it has as many bytes as the server says there *)
(* are; the server answers each request with all chunks from that offset,  *)
(* and the client keeps the last chunk of an answer.                       *)
(*                                                                         *)
(* Abstractions.  A request and its answer are one step (Session has what  *)
(* happens in between): the calls are made one after the other and the     *)
(* database does not change.  The bytes of the blob are 1 .. stored.       *)
(***************************************************************************)
EXTENDS Integers, Sequences

CONSTANTS
    Chunk,          \* CHUNK_SIZE
    MaxBlob         \* bound: length of a blob

ASSUME BlobSizes == Chunk \in Nat \ {0} /\ MaxBlob \in Nat

VARIABLES
    stored,         \* length of blob_store.data
    size_bytes,     \* the length blob_store records
    data,           \* get_blob's buffer
    outcome         \* how get_blob ended

blob_vars == <<stored, size_bytes, data, outcome>>

\* Fault: a chunk is a whole buffer, however little was read into it.
LoadBlobDataPadded(offset) == [i \in 1 .. Chunk |-> offset + i]

\* load_blob_data: substr, clipped to the blob.
LoadBlobData(offset) ==
    LET last == IF offset + Chunk < stored THEN offset + Chunk ELSE stored
    IN  [i \in 1 .. last - offset |-> offset + i]

\* Chunks go out from `offset` on until one reaches the recorded length, or
\* there is none.
Reaches(at) == at + Len(LoadBlobData(at)) >= size_bytes
Starts(offset) ==
    {at \in offset .. stored - 1 :
        /\ (at - offset) % Chunk = 0
        /\ \A before \in offset .. at - 1 :
              (before - offset) % Chunk = 0 => ~Reaches(before)}

LastChunk(offset) ==
    LoadBlobData(CHOOSE at \in Starts(offset) : \A s \in Starts(offset) : at >= s)

BlobTypeOK ==
    /\ stored \in 0 .. MaxBlob /\ size_bytes \in 0 .. MaxBlob
    /\ data \in Seq(1 .. MaxBlob)
    /\ outcome \in {"loading", "ok", "no chunk", "failed"}

BlobInit ==
    /\ stored \in 0 .. MaxBlob /\ size_bytes \in 0 .. MaxBlob
    /\ data = <<>> /\ outcome = "loading"

\* The first chunk is asked for whatever the size; others while bytes miss.
Fetch ==
    /\ outcome = "loading" /\ Starts(Len(data)) # {}
    /\ data' = data \o LastChunk(Len(data))
    /\ outcome' = IF Len(data') < size_bytes THEN "loading" ELSE "ok"
    /\ UNCHANGED <<stored, size_bytes>>

\* An answer without chunks.
NoChunk ==
    /\ outcome = "loading" /\ Starts(Len(data)) = {}
    /\ outcome' = "no chunk"
    /\ UNCHANGED <<stored, size_bytes, data>>

\* The call fails: server error, lost connection, timeout.
FetchFails ==
    /\ outcome = "loading" /\ outcome' = "failed"
    /\ UNCHANGED <<stored, size_bytes, data>>

BlobNext == Fetch \/ NoChunk \/ FetchFails

BlobSpec == BlobInit /\ [][BlobNext]_blob_vars

-----------------------------------------------------------------------------
\* get_blob collects chunks until it has total_size bytes: what it returns of
\* a blob whose length is recorded right is that blob, byte for byte.
BlobReturned ==
    outcome = "ok" /\ size_bytes = stored => data = [i \in 1 .. stored |-> i]
=============================================================================
