CONSTANTS
    Chunk = 2
    MaxBlob = 5
SPECIFICATION BlobSpec
INVARIANT BlobReturned
\* A download ends.
CHECK_DEADLOCK FALSE
