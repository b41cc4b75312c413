------------------------------- MODULE WarmTier -------------------------------
(***************************************************************************)
(* waw_server's WarmTier: a circular cache file with an index in memory.   *)
(*                                                                         *)
(* The file is a function from offsets to cells.  A cell is four bytes of  *)
(* the code, except that has_position, one byte, has a cell too: the       *)
(* record is rowid (2 cells, little-endian), payload_len (1), has_position *)
(* (1), x and y (1 each, if there is a position), last_access (2, always 0 *)
(* since access_clock never advances).  Overlaps, gaps and misread headers *)
(* are those of the code, in cells.  I/O errors are left out.              *)
(***************************************************************************)
EXTENDS Integers, Sequences

CONSTANTS
    Rows,           \* rowids put in the cache, small numbers
    Positioned,     \* those with a position
    Capacity,       \* cells of the file
    Restarts        \* bound: how often the process restarts on the same file

ASSUME RowsOK == Rows \subseteq 1 .. 9 /\ Positioned \subseteq Rows
ASSUME RoomForOne == Capacity \in Nat /\ Capacity >= 10 /\ Restarts \in Nat

RowidLen == 2
HeaderLen == RowidLen + 1

VARIABLES
    file,           \* its cells; those from file_len on are not there yet
    file_len, index, write_offset,
    restarts        \* restarts so far

warm_vars == <<file, file_len, index, write_offset, restarts>>

Offsets == 0 .. Capacity - 1
CacheEntry == [offset : Nat, len : Nat]

\* EntityMeta without the clock; a position is its two coordinates.
X(r) == 10 + r
Y(r) == 20 + r
Meta(r) == IF r \in Positioned THEN <<X(r), Y(r)>> ELSE <<>>

WarmTypeOK ==
    /\ file \in [Offsets -> Nat]
    /\ file_len \in 0 .. Capacity
    /\ \A r \in DOMAIN index : index[r] \in CacheEntry
    /\ write_offset \in Nat
    /\ restarts = 0 => write_offset <= Capacity
    /\ restarts \in 0 .. Restarts

\* WarmTier::create makes a file of `capacity` zero bytes, WarmTier::open of a
\* path where there is none an empty file.
WarmInit ==
    /\ file = [o \in Offsets |-> 0]
    /\ file_len \in {0, Capacity}
    /\ index = <<>>
    /\ write_offset = 0
    /\ restarts = 0

-----------------------------------------------------------------------------
\* put

Payload(r) == IF r \in Positioned THEN <<1, X(r), Y(r), 0, 0>> ELSE <<0, 0, 0>>
Record(r) == <<r, 0, Len(Payload(r))>> \o Payload(r)

Total(r) == Len(Record(r))          \* total_len: what is written

\* Fault: the offset advances by the payload only.
EntryLenPayload(r) == Total(r) - HeaderLen

\* entry_len counts the rowid twice, which leaves a gap after each record.
EntryLen(r) == RowidLen + Total(r)

\* Fault: the buffer is not circular.
PlaceOnward(r) == write_offset

\* Where the next record of r goes: back to 0 if it does not fit.
Place(r) == IF write_offset + EntryLen(r) > Capacity THEN 0 ELSE write_offset

\* Fault: the old entry at this location stays in the index.
KeptAll(o) == DOMAIN index

\* The index entries that survive a write at offset o.
Kept(o) == {q \in DOMAIN index : index[q].offset # o}

Put(r) ==
    LET at == Place(r)
        kept == Kept(at)
    IN  /\ file' = [o \in Offsets |->
              IF o \in at .. at + Total(r) - 1 THEN Record(r)[o - at + 1] ELSE file[o]]
        /\ file_len' = IF at + Total(r) > file_len THEN at + Total(r) ELSE file_len
        /\ index' = [q \in kept \cup {r} |->
              IF q = r THEN [offset |-> at, len |-> Total(r)] ELSE index[q]]
        /\ write_offset' = at + EntryLen(r)
        /\ UNCHANGED restarts

RemoveEntry(r) ==
    /\ r \in DOMAIN index
    /\ index' = [q \in DOMAIN index \ {r} |-> index[q]]
    /\ UNCHANGED <<file, file_len, write_offset, restarts>>

-----------------------------------------------------------------------------
\* get: the buffer has entry.len cells; reading past it panics.

\* Results other than an entity, told apart from it by their length.
Absent == <<0>>
Panic == <<-1>>
Error == <<-2>>

\* has_position stands right after the header; fault: one cell earlier.
FlagAtLen == RowidLen
FlagAt == HeaderLen

DecodeRecord(buf) ==
    IF FlagAt \notin DOMAIN buf THEN Panic
    ELSE LET clock == FlagAt + 1 + (IF buf[FlagAt] # 0 THEN 2 ELSE 0)
         IN  IF clock + 1 \notin DOMAIN buf THEN Panic
             ELSE IF buf[FlagAt] # 0 THEN <<buf[FlagAt + 1], buf[FlagAt + 2]>>
             ELSE <<>>

Get(r) ==
    IF r \notin DOMAIN index THEN Absent
    ELSE LET e == index[r]
         IN  IF e.offset + e.len > file_len THEN Error
             ELSE DecodeRecord([k \in 0 .. e.len - 1 |-> file[e.offset + k]])

-----------------------------------------------------------------------------
\* open: the process restarts on the file it left, and rebuild_index scans it.

RowidAt(o) == file[o] + 100 * file[o + 1]
PayloadLenAt(o) == file[o + RowidLen]

\* What the scan finds from offset o on: an index, and the offset it ends at.
\* Of two records of a rowid the later one counts.
Scan[o \in Nat] ==
    IF o + HeaderLen > file_len THEN [index |-> <<>>, offset |-> o]
    ELSE IF RowidAt(o) = 0 /\ PayloadLenAt(o) = 0 THEN Scan[o + HeaderLen]
    ELSE LET rest == Scan[o + HeaderLen + PayloadLenAt(o)]
         IN  [index |-> [q \in DOMAIN rest.index \cup {RowidAt(o)} |->
                  IF q \in DOMAIN rest.index THEN rest.index[q]
                  ELSE [offset |-> o + RowidLen, len |-> PayloadLenAt(o)]],
              offset |-> rest.offset]

Reopen ==
    /\ restarts < Restarts
    /\ restarts' = restarts + 1
    /\ LET scan == Scan[0]
       IN  index' = scan.index /\ write_offset' = scan.offset
    /\ UNCHANGED <<file, file_len>>

-----------------------------------------------------------------------------
WarmNext == \E r \in Rows : Put(r) \/ RemoveEntry(r)

\* One process on a file of its own.
WarmSpec == WarmInit /\ [][WarmNext]_warm_vars

\* Processes one after the other on one file: Pipeline::load opens the file at
\* the path it is given.
WarmSpecReopen == WarmInit /\ [][WarmNext \/ Reopen]_warm_vars

-----------------------------------------------------------------------------
\* An entity the index lists is read back as it was put: no later record
\* was written over a part of it, and no reopening misread it.
ReadsBack == \A r \in Rows \cap DOMAIN index : Get(r) = Meta(r)

\* The records the index lists do not share a cell of the file.
RecordsApart == \A p, q \in DOMAIN index : p # q =>
    \/ index[p].offset + index[p].len <= index[q].offset
    \/ index[q].offset + index[q].len <= index[p].offset

Cache == INSTANCE LossyCache WITH
    Keys <- Rows,
    Values <- {Meta(r) : r \in Rows},
    entries <- [r \in Rows |-> Get(r)]

\* The file and its index implement the lossy cache Pipeline assumes: a put
\* may push others out, and changes what no other rowid reads.
Lossy == Cache!Spec
=============================================================================
