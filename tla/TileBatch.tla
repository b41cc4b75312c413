------------------------------ MODULE TileBatch ------------------------------
(***************************************************************************)
(* waw_proto's tile batch frame: encode_tile_batch, a transport that may   *)
(* cut the frame short, decode_tile_batch.                                 *)
(*                                                                         *)
(* Abstractions.  A frame is a sequence of cells: the header, one cell per *)
(* tile entry, one per payload byte; an entry read as payload shows as the *)
(* entry it is.  tx stands for both coordinates and node_count for both    *)
(* counters; magic, version, request id, lod, layer and codec are copied.  *)
(* Coordinates are below 2^31, where the casts to i32 change nothing.      *)
(***************************************************************************)
EXTENDS Integers, SequencesExt

CONSTANTS
    Coordinates, Counts,    \* inputs: tx, node_count
    Payloads,               \* inputs: sequences of bytes
    MaxTiles,               \* bound: tiles in a batch
    CountMax,               \* u8::MAX: the tile count of the header
    DeltaMax,               \* i8::MAX: the offset of a tile from the base
    BaseMod,                \* 2^16: the base
    CounterMax              \* u16::MAX: the counters of an entry

ASSUME TileInputs == Coordinates \subseteq Nat /\ Counts \subseteq Nat
ASSUME TileWidths ==
    /\ MaxTiles \in Nat /\ CountMax \in Nat /\ DeltaMax \in Nat
    /\ BaseMod \in Nat \ {0} /\ CounterMax \in Nat
ASSUME TilePayloads == \A payload \in Payloads : payload \in Seq(Range(payload))

VARIABLES
    batch,      \* the tiles the sender puts in one frame
    frame,      \* the encoded frame, as far as it has come
    decoded,    \* what decode_tile_batch returns: None or Some of the tiles
    stage       \* of the frame

tile_vars == <<batch, frame, decoded, stage>>

Tiles == [tx : Coordinates, nodes : Counts, payload : Payloads]
None == <<>>
Some(tiles) == <<tiles>>

Least(a, b) == IF a < b THEN a ELSE b

TxOf(b) == {b[i].tx : i \in DOMAIN b}
Base(b) == IF b = <<>> THEN 0 ELSE CHOOSE x \in TxOf(b) : \A y \in TxOf(b) : x <= y

\* Fault: an offset counts the entries before it.
OffsetOfEntries(b, i) == i - 1

\* payload_offset: the sizes of the payloads before.
Offset(b, i) == Len(FlattenSeq([j \in 1 .. i - 1 |-> b[j].payload]))

Entry(b, i) ==
    [delta |-> Least(b[i].tx - Base(b), DeltaMax),
     nodes |-> Least(b[i].nodes, CounterMax),
     offset |-> Offset(b, i), size |-> Len(b[i].payload)]

Header(b) == [base |-> Base(b) % BaseMod, count |-> Least(Len(b), CountMax)]

Encode(b) ==
    <<Header(b)>> \o [i \in DOMAIN b |-> Entry(b, i)]
        \o FlattenSeq([i \in DOMAIN b |-> b[i].payload])

EntriesEnd(f) == 1 + f[1].count

\* Complete as far as decode_tile_batch looks: header, entries, payloads.
WellFormed(f) ==
    /\ f # <<>> /\ Len(f) >= EntriesEnd(f)
    /\ \A i \in 2 .. EntriesEnd(f) : EntriesEnd(f) + f[i].offset + f[i].size <= Len(f)

DecodeEntry(f, e) ==
    LET start == EntriesEnd(f) + e.offset
    IN  [tx |-> f[1].base + e.delta, nodes |-> e.nodes,
         payload |-> SubSeq(f, start + 1, start + e.size)]

Decode(f) ==
    IF WellFormed(f)
    THEN Some([i \in 1 .. f[1].count |-> DecodeEntry(f, f[i + 1])])
    ELSE None

-----------------------------------------------------------------------------
TileTypeOK ==
    /\ batch \in Seq(Tiles) /\ Len(batch) <= MaxTiles
    /\ frame = <<>> \/ frame[1].count <= CountMax
    /\ decoded = None \/ \E n \in 0 .. CountMax : DOMAIN decoded[1] = 1 .. n
    /\ stage \in {"built", "sent", "received"}

TileInit == batch = <<>> /\ frame = <<>> /\ decoded = None /\ stage = "built"

Add == \E t \in Tiles :
    /\ stage = "built" /\ Len(batch) < MaxTiles
    /\ batch' = Append(batch, t)
    /\ UNCHANGED <<frame, decoded, stage>>

SendFrame ==
    /\ stage = "built" /\ stage' = "sent"
    /\ frame' = Encode(batch)
    /\ UNCHANGED <<batch, decoded>>

\* The receiver gets the frame, or the start of it.
ReceiveFrame == \E n \in 0 .. Len(frame) :
    /\ stage = "sent" /\ stage' = "received"
    /\ frame' = SubSeq(frame, 1, n)
    /\ decoded' = Decode(frame')
    /\ UNCHANGED batch

TileNext == Add \/ SendFrame \/ ReceiveFrame

TileSpec == TileInit /\ [][TileNext]_tile_vars

-----------------------------------------------------------------------------
\* A batch within the widths of the frame: as many tiles as a byte counts,
\* no farther apart than a signed byte reaches, from a base of 16 bits.
Fits(b) ==
    /\ Len(b) <= CountMax
    /\ \A x \in TxOf(b) : x - Base(b) <= DeltaMax
    /\ Base(b) < BaseMod

Saturated(b) ==
    [i \in DOMAIN b |-> [b[i] EXCEPT !.nodes = Least(@, CounterMax)]]

\* A whole frame decodes to the batch, with large counters saturated, if the
\* batch fits, and to something else if it does not, since the encoder cuts
\* silently; the start of a frame is rejected rather than decoded in part.
TileRoundTrip == stage = "received" =>
    IF frame = Encode(batch)
    THEN decoded = Some(Saturated(batch)) <=> Fits(batch)
    ELSE Len(batch) <= CountMax => decoded = None
=============================================================================
