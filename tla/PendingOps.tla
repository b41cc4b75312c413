------------------------------ MODULE PendingOps ------------------------------
(***************************************************************************)
(* What the operations on `pending` are to the threads that call them:     *)
(* each takes effect at one instant between its call and its return.  The  *)
(* module Storage is written in these terms.  One slot, with the component *)
(* of its first epoch.                                                     *)
(***************************************************************************)
EXTENDS Integers

CONSTANTS Callers

VARIABLES
    adds, subs,     \* buffered changes of the slot's count
    count,          \* its count as of the last sync
    age,            \* its epoch
    wanted,         \* what each caller has called and has not taken effect
    owned           \* Pointers each caller holds

op_vars == <<adds, subs, count, age, wanted, owned>>

Kinds == {"clone", "drop", "upgrade", "sync"}

OpInit ==
    /\ adds = 0 /\ subs = 0 /\ count = 1 /\ age = 0
    /\ wanted = [t \in Callers |-> "none"]
    /\ \E h \in Callers : owned = [t \in Callers |-> IF t = h THEN 1 ELSE 0]

Call(t) == \E k \in Kinds :
    /\ wanted[t] = "none" /\ wanted' = [wanted EXCEPT ![t] = k]
    /\ UNCHANGED <<adds, subs, count, age, owned>>

Done(t, k) == wanted[t] = k /\ wanted' = [wanted EXCEPT ![t] = "none"]

Gain(t) ==
    /\ adds' = adds + 1
    /\ owned' = [owned EXCEPT ![t] = @ + 1]
    /\ UNCHANGED <<subs, count, age>>

Clone(t) == Done(t, "clone") /\ Gain(t)

Drop(t) ==
    /\ Done(t, "drop")
    /\ subs' = subs + 1
    /\ owned' = [owned EXCEPT ![t] = @ - 1]
    /\ UNCHANGED <<adds, count, age>>

\* Ok, as long as no sync has found the component without a Pointer.
Upgrade(t) ==
    /\ Done(t, "upgrade")
    /\ IF age = 0 THEN Gain(t) ELSE UNCHANGED <<adds, subs, count, age, owned>>

\* The count of all that was buffered, and the end of an epoch if that
\* leaves no Pointer.
Sync(t) ==
    /\ Done(t, "sync")
    /\ count' = count + adds - subs
    /\ adds' = 0 /\ subs' = 0
    /\ age' = IF subs > 0 /\ count + adds - subs = 0 THEN age + 1 ELSE age
    /\ UNCHANGED owned

Effect(t) == Clone(t) \/ Drop(t) \/ Upgrade(t) \/ Sync(t)

OpNext == \E t \in Callers : Call(t) \/ Effect(t)

OpSpec == OpInit /\ [][OpNext]_op_vars /\ \A t \in Callers : WF_op_vars(Effect(t))
=============================================================================
