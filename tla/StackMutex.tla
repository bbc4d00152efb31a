----------------------------- MODULE StackMutex -----------------------------
(***************************************************************************)
(* What TryLockStack promises (docker/compose/stack_lock.go): "serializes  *)
(* every Dockman Compose action for one host/file".  At most one action    *)
(* holds a key, and the table of lock objects behind it is not visible.    *)
(***************************************************************************)
CONSTANTS Actors, StackKeys
VARIABLE holders   \* pairs of an actor and the key it holds

MutexInit == holders = {}

Acquire(p, k) ==
    /\ \A q \in Actors : <<q, k>> \notin holders
    /\ holders' = holders \cup {<<p, k>>}

Release(p, k) ==
    /\ <<p, k>> \in holders
    /\ holders' = holders \ {<<p, k>>}

MutexNext == \E p \in Actors, k \in StackKeys : Acquire(p, k) \/ Release(p, k)

MutexSpec == MutexInit /\ [][MutexNext]_holders
=============================================================================
