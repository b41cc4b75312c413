----------------------------- MODULE Components -----------------------------
(***************************************************************************)
(* What waw_core's Storage promises its users, without counts, epochs, a   *)
(* free list or buffered updates.  A component lives in a slot from its    *)
(* creation until some sync finds no strong reference to it; a strong      *)
(* reference is only ever made to a living component; a slot is given to   *)
(* a new component only after its last one was reclaimed.                  *)
(***************************************************************************)
EXTENDS Integers

CONSTANTS Slots, Comps, Loaded, Handles, Weaks, NoRef

VARIABLES
    created,    \* every <<slot, component>> ever created
    living,     \* the <<slot, component>> pairs create must not overwrite
    loaded,     \* slots from_iter filled and nobody referenced yet
    strong,     \* strong references, NoRef or a pair
    weak        \* weak references, NoRef or a pair

vars == <<created, living, loaded, strong, weak>>

SlotsOf(pairs) == {p[1] : p \in pairs}

Referenced == {strong[h] : h \in Handles} \ {NoRef}

Init ==
    /\ living = Loaded \X {0}
    /\ created = living
    /\ loaded = Loaded
    /\ strong = [h \in Handles |-> NoRef]
    /\ weak = [w \in Weaks |-> NoRef]

\* A component no one ever created, in a slot no living component is in.
Create(h) == \E i \in Slots \ SlotsOf(living) : \E c \in Comps :
    /\ strong[h] = NoRef
    /\ <<i, c>> \notin created
    /\ created' = created \cup {<<i, c>>}
    /\ living' = living \cup {<<i, c>>}
    /\ strong' = [strong EXCEPT ![h] = <<i, c>>]
    /\ UNCHANGED <<loaded, weak>>

\* Clone, pin or upgrade.
Acquire(h) == \E p \in living :
    /\ strong[h] = NoRef
    /\ strong' = [strong EXCEPT ![h] = p]
    /\ loaded' = loaded \ {p[1]}
    /\ UNCHANGED <<created, living, weak>>

Release(h) ==
    /\ strong' = [strong EXCEPT ![h] = NoRef]
    /\ UNCHANGED <<created, living, loaded, weak>>

Downgrade(h, w) ==
    /\ strong[h] # NoRef
    /\ weak' = [weak EXCEPT ![w] = strong[h]]
    /\ UNCHANGED <<created, living, loaded, strong>>

\* Exactly the components nobody references are reclaimed.
Sync ==
    /\ living' = {p \in living : p \in Referenced \/ p[1] \in loaded}
    /\ UNCHANGED <<created, loaded, strong, weak>>

Next ==
    \/ Sync
    \/ \E h \in Handles :
        \/ Create(h) \/ Acquire(h) \/ Release(h)
        \/ \E w \in Weaks : Downgrade(h, w)

Spec == Init /\ [][Next]_vars
=============================================================================
