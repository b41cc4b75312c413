------------------------------- MODULE SpinLock -------------------------------
(***************************************************************************)
(* waw_core's Mutex, a spin lock, around the operations on `pending` of    *)
(* one slot: Pointer::clone and drop, WeakPointer::upgrade and             *)
(* Storage::sync_pending, by several threads.  A critical section takes    *)
(* several steps, in which another thread that got in would read half of   *)
(* it: a push reads the list and then writes it, an upgrade compares the   *)
(* epoch before it pushes, a sync drains one list and then the other.      *)
(*                                                                         *)
(* Abstractions.  A list is its length: the pushes on one slot are alike.  *)
(* The slot holds the component its first owner created, every thread has  *)
(* a WeakPointer to it, and the storage is one thread's (&mut self).       *)
(* Memory is sequentially consistent: the Acquire of the exchange and the  *)
(* Release of the store order the sections.                                *)
(***************************************************************************)
EXTENDS Integers

CONSTANTS
    Threads,
    Owner,          \* the thread that has the storage
    MaxOps          \* bound: operations per thread

ASSUME OwnerThread == Owner \in Threads
ASSUME MaxOpsNat == MaxOps \in Nat

VARIABLES
    lock,               \* Mutex.lock
    add_ref, sub_ref,   \* Pending.add_ref, Pending.sub_ref of the slot
    epoch,              \* Pending.epoch of the slot
    meta,               \* StorageInner.meta of the slot, the owner's
    pc, op,             \* each thread's place, and the operation it is in
    seen,               \* the length of the list a thread is pushing on
    held,               \* Pointers each thread holds
    ops_left            \* operations each thread may still start

pending == <<add_ref, sub_ref, epoch, meta>>
lock_vars == <<lock, pending, pc, op, seen, held, ops_left>>

Places == {"out", "try", "spin", "in", "push", "drain", "unlock"}

LockTypeOK ==
    /\ lock \in BOOLEAN
    /\ add_ref \in Nat /\ sub_ref \in Nat /\ epoch \in Nat /\ meta \in Int
    /\ pc \in [Threads -> Places]
    /\ op \in [Threads -> {"none", "clone", "drop", "upgrade", "sync", "fmt"}]
    /\ seen \in [Threads -> Nat]
    /\ held \in [Threads -> Int]
    /\ ops_left \in [Threads -> 0 .. MaxOps]

\* create has returned the Pointer to one of the threads.
LockInit ==
    /\ lock = FALSE
    /\ add_ref = 0 /\ sub_ref = 0 /\ epoch = 0 /\ meta = 1
    /\ pc = [t \in Threads |-> "out"] /\ op = [t \in Threads |-> "none"]
    /\ seen = [t \in Threads |-> 0]
    /\ \E h \in Threads : held = [t \in Threads |-> IF t = h THEN 1 ELSE 0]
    /\ ops_left = [t \in Threads |-> MaxOps]

Move(t, from, to) == pc[t] = from /\ pc' = [pc EXCEPT ![t] = to]

\* A clone and a drop need a Pointer, a sync the storage.
May(t, k) ==
    /\ k \in {"clone", "drop"} => held[t] > 0
    /\ k = "sync" => t = Owner

Enter(t, k) ==
    /\ ops_left[t] > 0 /\ ops_left' = [ops_left EXCEPT ![t] = @ - 1]
    /\ May(t, k)
    /\ Move(t, "out", "try")
    /\ op' = [op EXCEPT ![t] = k]
    /\ UNCHANGED <<lock, pending, seen, held>>

\* obtain_lock: compare_exchange; while it fails, load until it reads false.
CompareExchange(t) ==
    /\ IF lock THEN Move(t, "try", "spin") ELSE Move(t, "try", "in")
    /\ lock' = TRUE
    /\ UNCHANGED <<pending, op, seen, held, ops_left>>

Spin(t) ==
    /\ ~lock /\ Move(t, "spin", "try")
    /\ UNCHANGED <<lock, pending, op, seen, held, ops_left>>

\* Debug prints what is behind the lock if try_lock gets it at once.
Fmt(t) ==
    /\ ops_left[t] > 0 /\ ops_left' = [ops_left EXCEPT ![t] = @ - 1]
    /\ ~lock /\ lock' = TRUE
    /\ Move(t, "out", "unlock")
    /\ op' = [op EXCEPT ![t] = "fmt"]
    /\ UNCHANGED <<pending, seen, held>>

\* The guard is dropped: a store.
Unlock(t) ==
    /\ Move(t, "unlock", "out") /\ lock' = FALSE
    /\ op' = [op EXCEPT ![t] = "none"]
    /\ UNCHANGED <<pending, seen, held, ops_left>>

-----------------------------------------------------------------------------
\* The critical sections

\* A push starts: the length is read.
ReadLength(t) ==
    /\ op[t] \in {"clone", "drop"} \/ (op[t] = "upgrade" /\ epoch = 0)
    /\ Move(t, "in", "push")
    /\ seen' = [seen EXCEPT ![t] = IF op[t] = "drop" THEN sub_ref ELSE add_ref]
    /\ UNCHANGED <<lock, pending, op, held, ops_left>>

\* The item and the new length are written.
Push(t) ==
    /\ Move(t, "push", "unlock")
    /\ IF op[t] = "drop"
       THEN /\ sub_ref' = seen[t] + 1 /\ UNCHANGED add_ref
            /\ held' = [held EXCEPT ![t] = @ - 1]
       ELSE /\ add_ref' = seen[t] + 1 /\ UNCHANGED sub_ref
            /\ held' = [held EXCEPT ![t] = @ + 1]
    /\ UNCHANGED <<lock, epoch, meta, op, seen, ops_left>>

\* upgrade: DeadComponentError.
Dead(t) ==
    /\ op[t] = "upgrade" /\ epoch # 0
    /\ Move(t, "in", "unlock")
    /\ UNCHANGED <<lock, pending, op, seen, held, ops_left>>

\* Fault: the two loops of sync_pending lock one after the other.
DrainAddsUnlock(t) ==
    /\ op[t] = "sync" /\ Move(t, "in", "drain")
    /\ meta' = meta + add_ref /\ add_ref' = 0
    /\ lock' = FALSE
    /\ UNCHANGED <<sub_ref, epoch, op, seen, held, ops_left>>

DrainAdds(t) ==
    /\ op[t] = "sync" /\ Move(t, "in", "drain")
    /\ meta' = meta + add_ref /\ add_ref' = 0
    /\ UNCHANGED <<lock, sub_ref, epoch, op, seen, held, ops_left>>

\* Decrements stop at 0 once, at the last of them, if at all.
Drained == meta - sub_ref
Renewed == IF sub_ref > 0 /\ Drained = 0 THEN epoch + 1 ELSE epoch

DrainSubs(t) ==
    /\ Move(t, "drain", "unlock")
    /\ meta' = Drained /\ epoch' = Renewed /\ sub_ref' = 0
    /\ UNCHANGED <<lock, add_ref, op, seen, held, ops_left>>

LockStep(t) ==
    \/ CompareExchange(t) \/ Spin(t) \/ Unlock(t)
    \/ ReadLength(t) \/ Push(t) \/ Dead(t)
    \/ DrainAdds(t) \/ DrainSubs(t)

LockNext == \E t \in Threads :
    LockStep(t) \/ Fmt(t) \/ \E k \in {"clone", "drop", "upgrade", "sync"} : Enter(t, k)

\* Every thread inside an operation is scheduled again and again.
LockFair == \A t \in Threads : WF_lock_vars(LockStep(t))

LockSpec == LockInit /\ [][LockNext]_lock_vars /\ LockFair

-----------------------------------------------------------------------------
\* Properties

\* One thread at a time is inside, and the flag says whether there is one.
Inside(t) == pc[t] \in {"in", "push", "drain", "unlock"}
Exclusion == \A t \in Threads :
    /\ Inside(t) => lock
    /\ \A u \in Threads : Inside(t) /\ Inside(u) => t = u

\* Every operation on `pending` takes effect at one instant and, with
\* boundedly many operations of others to lose the lock to, does so.  A sync
\* takes effect with its first loop: who reads the lists next finds them as
\* its second loop leaves them.
Draining == \E t \in Threads : pc[t] = "drain"

Ops == INSTANCE PendingOps WITH
    Callers <- Threads,
    adds <- add_ref,
    subs <- IF Draining THEN 0 ELSE sub_ref,
    count <- IF Draining THEN Drained ELSE meta,
    age <- IF Draining THEN Renewed ELSE epoch,
    wanted <- [t \in Threads |->
        IF pc[t] \in {"try", "spin", "in", "push"} THEN op[t] ELSE "none"],
    owned <- held

Linearized == Ops!OpSpec
=============================================================================
