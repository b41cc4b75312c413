------------------------------ MODULE LossyCache ------------------------------
(***************************************************************************)
(* What Pipeline relies on of the warm tier: a map that may forget, but    *)
(* never answers with anything other than what was put last.               *)
(***************************************************************************)
CONSTANTS Keys, Values, Absent

VARIABLE entries    \* [Keys -> Values \cup {Absent}]

Init == entries = [k \in Keys |-> Absent]

\* Any other entries may be lost to make room.
Put(k, v) == \E lost \in SUBSET (Keys \ {k}) :
    entries' = [j \in Keys |->
        IF j = k THEN v ELSE IF j \in lost THEN Absent ELSE entries[j]]

Forget(k) == entries' = [entries EXCEPT ![k] = Absent]

Next == \E k \in Keys : Forget(k) \/ \E v \in Values : Put(k, v)

\* A step may only put one value and lose others.
Spec == Init /\ [][Next]_entries
=============================================================================
