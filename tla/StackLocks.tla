----------------------------- MODULE StackLocks -----------------------------
(***************************************************************************)
(* The table of stack locks (docker/compose/stack_lock.go): one lock       *)
(* object per host and file, created by the first that asks and deleted by *)
(* the last that leaves.  The table has a mutex of its own; between its    *)
(* critical sections the actors interleave, so an object may be deleted,   *)
(* and another one created for the same key, while somebody still refers   *)
(* to the first.                                                           *)
(*                                                                         *)
(* The theorem behind the design is that the objects are invisible: the    *)
(* table implements one mutex per key (StackMutex).                        *)
(***************************************************************************)
EXTENDS Naturals, FiniteSets

CONSTANTS
    Actors,     \* requests and background jobs that act on stacks
    StackKeys,  \* host and file
    LockIds     \* identities of lock objects, reused once they are garbage

ASSUME StackLocksAssumption ==
    /\ IsFiniteSet(Actors) /\ IsFiniteSet(LockIds) /\ 0 \notin LockIds
    /\ Cardinality(LockIds) > Cardinality(Actors)

VARIABLES
    lkEntries,  \* the table: the lock object of a key, 0 for none
    lkUsers,    \* the counter of each object
    lkTaken,    \* the objects whose mutex is locked
    lkPc,       \* where each actor is in TryLockStack
    lkMine,     \* the object each actor refers to
    lkKey       \* and the key it asked for

lockVars == <<lkEntries, lkUsers, lkTaken, lkPc, lkMine, lkKey>>

LockInit ==
    /\ lkEntries = [k \in StackKeys |-> 0]
    /\ lkUsers = [i \in LockIds |-> 0]
    /\ lkTaken = {}
    /\ lkPc = [p \in Actors |-> "idle"]
    /\ lkMine = [p \in Actors |-> 0]
    /\ lkKey \in [Actors -> StackKeys]

Garbage == {i \in LockIds : (\A k \in StackKeys : lkEntries[k] # i) /\
                            (\A p \in Actors : lkMine[p] # i)}

(* The first critical section: the entry is found or created, and counted. *)
Lookup(p, k) ==
    /\ lkPc[p] = "idle"
    /\ \E i \in IF lkEntries[k] # 0 THEN {lkEntries[k]} ELSE Garbage :
         /\ lkEntries' = [lkEntries EXCEPT ![k] = i]
         /\ lkUsers' = [lkUsers EXCEPT ![i] = @ + 1]
         /\ lkMine' = [lkMine EXCEPT ![p] = i]
    /\ lkKey' = [lkKey EXCEPT ![p] = k]
    /\ lkPc' = [lkPc EXCEPT ![p] = "try"]
    /\ UNCHANGED lkTaken

(* lock.mu.TryLock, outside the table's mutex.                             *)
TryLock(p) ==
    /\ lkPc[p] = "try"
    /\ IF lkMine[p] \in lkTaken
         THEN lkPc' = [lkPc EXCEPT ![p] = "leave"] /\ UNCHANGED lkTaken
         ELSE lkPc' = [lkPc EXCEPT ![p] = "held"] /\ lkTaken' = lkTaken \cup {lkMine[p]}
    /\ UNCHANGED <<lkEntries, lkUsers, lkMine, lkKey>>

(* The function TryLockStack returned: the mutex first, the table after.   *)
Unlock(p) ==
    /\ lkPc[p] = "held"
    /\ lkTaken' = lkTaken \ {lkMine[p]}
    /\ lkPc' = [lkPc EXCEPT ![p] = "leave"]
    /\ UNCHANGED <<lkEntries, lkUsers, lkMine, lkKey>>

(* Mutant of LastUser: the entry is deleted by whoever leaves.             *)
AnyUser(p) == TRUE

LastUser(p) == lkUsers[lkMine[p]] = 1

(* The last critical section, of a refused actor and of one that is done.  *)
Leave(p) ==
    /\ lkPc[p] = "leave"
    /\ lkUsers' = [lkUsers EXCEPT ![lkMine[p]] = @ - 1]
    /\ lkEntries' = IF LastUser(p) THEN [lkEntries EXCEPT ![lkKey[p]] = 0] ELSE lkEntries
    /\ lkMine' = [lkMine EXCEPT ![p] = 0]
    /\ lkPc' = [lkPc EXCEPT ![p] = "idle"]
    /\ UNCHANGED <<lkTaken, lkKey>>

LockNext ==
    \E p \in Actors : \/ \E k \in StackKeys : Lookup(p, k)
                      \/ TryLock(p) \/ Unlock(p) \/ Leave(p)

LockSpec == LockInit /\ [][LockNext]_lockVars
-----------------------------------------------------------------------------
LockTypeOK ==
    /\ lkEntries \in [StackKeys -> LockIds \cup {0}] /\ lkUsers \in [LockIds -> Nat]
    /\ lkTaken \subseteq LockIds /\ lkMine \in [Actors -> LockIds \cup {0}]
    /\ lkPc \in [Actors -> {"idle", "try", "held", "leave"}] /\ lkKey \in [Actors -> StackKeys]

Mutex == INSTANCE StackMutex
         WITH holders <- {<<p, lkKey[p]>> : p \in {q \in Actors : lkPc[q] = "held"}}

(* The table of objects implements one mutex per key: whoever is told that *)
(* it holds a stack is alone with it, also while objects for the same key  *)
(* come and go (stack_lock.go, TryLockStack "serializes every Dockman      *)
(* Compose action for one host/file").                                     *)
SerializesActions == Mutex!MutexSpec
=============================================================================
