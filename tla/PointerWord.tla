----------------------------- MODULE PointerWord -----------------------------
(***************************************************************************)
(* waw_core's PointerData: index, epoch and storage id in one word.  The   *)
(* module Storage takes it for a record; this is what that rests on.       *)
(* A field of n bits is a number below 2^n, given here by its modulus; a   *)
(* shift multiplies, and the parts are added, not or-ed, so that a value   *)
(* too large for its field carries into the next.                          *)
(***************************************************************************)
EXTENDS Integers

CONSTANTS
    IndexMod,       \* 2^40; 2^20 on 32-bit targets
    EpochMod,       \* 2^16; 2^8
    StorageMod      \* 2^8; 2^4

ASSUME FieldWidths ==
    IndexMod \in Nat \ {0} /\ EpochMod \in Nat \ {0} /\ StorageMod \in Nat \ {0}

PackedWord(index, epoch, storage) ==
    index + IndexMod * (epoch + EpochMod * storage)

GetIndex(word) == word % IndexMod
GetEpoch(word) == (word \div IndexMod) % EpochMod
GetStorageId(word) == ((word \div IndexMod) \div EpochMod) % StorageMod

WithEpoch(word, epoch) == word - IndexMod * GetEpoch(word) + IndexMod * epoch
=============================================================================
