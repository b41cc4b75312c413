-------------------------------- MODULE MCBlob --------------------------------
(* Blob on a small instance: chunks of 2 bytes, blobs of up to 5. *)
EXTENDS Blob
=============================================================================
