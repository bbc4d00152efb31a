----------------------------- MODULE StackProofs -----------------------------
(***************************************************************************)
(* Proofs about what is done to a stack: its lock (StackLocks), the        *)
(* actions it serializes (ComposeActions), image builds (BuildJobs),       *)
(* secrets (StackSecrets) and the editor's files (EditorFiles).  Each part *)
(* is about one module and uses nothing of the others.                     *)
(***************************************************************************)
EXTENDS StackLocks, ComposeActions, BuildJobs, StackSecrets, EditorFiles,
        FiniteSetTheorems, SequenceTheorems, TLAPS

-----------------------------------------------------------------------------
(***************************************************************************)
(* Proofs about StackLocks: type correctness, and that the table of lock   *)
(* objects implements one mutex per key, for any number of actors and keys *)
(* (docker/compose/stack_lock.go).                                         *)
(*                                                                         *)
(* The mutex of an object excludes those who refer to that object only.    *)
(* That two actors that ask for the same key refer to the same object is   *)
(* what the counter is for: the entry outlives everybody who refers to it. *)
(***************************************************************************)

UsersOf(i) == {p \in Actors : lkMine[p] = i}

(* An actor under way refers to the object the table has for its key.      *)
RefsInTable ==
    \A p \in Actors :
      /\ lkPc[p] = "idle" <=> lkMine[p] = 0
      /\ lkPc[p] # "idle" => lkEntries[lkKey[p]] = lkMine[p]

(* The counter of an object is the number of actors that refer to it.      *)
Counted == \A i \in LockIds : lkUsers[i] = Cardinality(UsersOf(i))

(* Different keys have different objects.                                  *)
LocksDistinct ==
    \A k, l \in StackKeys : lkEntries[k] # 0 /\ lkEntries[k] = lkEntries[l] => k = l

(* An object whose holder is there is locked, and has one holder.          *)
LocksTaken ==
    /\ \A p \in Actors : lkPc[p] = "held" => lkMine[p] \in lkTaken
    /\ \A p, q \in Actors :
         lkPc[p] = "held" /\ lkPc[q] = "held" /\ lkMine[p] = lkMine[q] => p = q

LockInv == LockTypeOK /\ RefsInTable /\ Counted /\ LocksDistinct /\ LocksTaken

Holders == {<<p, lkKey[p]>> : p \in {q \in Actors : lkPc[q] = "held"}}
-----------------------------------------------------------------------------
(* The users of an object are finitely many.                               *)
LEMMA UsersFinite ==
    ASSUME NEW i
    PROVE  IsFiniteSet(UsersOf(i)) /\ Cardinality(UsersOf(i)) \in Nat
<1>1. UsersOf(i) \subseteq Actors
  BY DEF UsersOf
<1> QED
  BY <1>1, FS_Subset, FS_CardinalityType, StackLocksAssumption DEF StackLocksAssumption

(* An actor leaves the table's entry to the other users of its object: if  *)
(* the counter says that it is the last, nobody else refers to it.         *)
LEMMA LastIsAlone ==
    ASSUME Counted, NEW p \in Actors, NEW q \in Actors, lkMine[p] \in LockIds,
           LastUser(p), lkMine[q] = lkMine[p]
    PROVE  q = p
<1> DEFINE U == UsersOf(lkMine[p])
<1>1. Cardinality(U) = 1 /\ p \in U /\ q \in U
  BY DEF Counted, LastUser, UsersOf
<1>2. \E x : U = {x}
  BY <1>1, UsersFinite, FS_Singleton
<1> QED
  BY <1>1, <1>2

LEMMA InitLockInv == LockInit => LockInv
<1> SUFFICES ASSUME LockInit PROVE LockInv
  OBVIOUS
<1> USE StackLocksAssumption DEF StackLocksAssumption
<1>1. LockTypeOK
  BY DEF LockInit, LockTypeOK
<1>2. Counted
  <2> SUFFICES ASSUME NEW i \in LockIds PROVE lkUsers[i] = Cardinality(UsersOf(i))
    BY DEF Counted
  <2>1. UsersOf(i) = {}
    BY DEF UsersOf, LockInit
  <2> QED
    BY <2>1, FS_EmptySet DEF LockInit
<1>3. RefsInTable /\ LocksDistinct /\ LocksTaken
  BY DEF LockInit, RefsInTable, LocksDistinct, LocksTaken
<1> QED
  BY <1>1, <1>2, <1>3 DEF LockInv
-----------------------------------------------------------------------------
(* The first critical section.                                             *)
LEMMA LookupKeepsInv ==
    ASSUME LockInv, NEW p \in Actors, NEW k \in StackKeys, Lookup(p, k)
    PROVE  LockInv'
<1> USE StackLocksAssumption DEF StackLocksAssumption
<1>1. PICK i \in IF lkEntries[k] # 0 THEN {lkEntries[k]} ELSE Garbage :
        /\ lkEntries' = [lkEntries EXCEPT ![k] = i]
        /\ lkUsers' = [lkUsers EXCEPT ![i] = @ + 1]
        /\ lkMine' = [lkMine EXCEPT ![p] = i]
  BY DEF Lookup
<1>2. /\ i \in LockIds /\ i # 0
      /\ lkEntries[k] \in {0, i}
      /\ lkEntries[k] = 0 => i \in Garbage
  BY <1>1 DEF LockInv, LockTypeOK, Garbage
<1>3. /\ lkPc[p] = "idle" /\ lkMine[p] = 0
      /\ lkKey' = [lkKey EXCEPT ![p] = k]
      /\ lkPc' = [lkPc EXCEPT ![p] = "try"]
      /\ lkTaken' = lkTaken
  BY DEF Lookup, LockInv, RefsInTable
<1>4. LockTypeOK'
  BY <1>1, <1>2, <1>3 DEF LockInv, LockTypeOK
<1>5. ASSUME NEW q \in Actors, q # p
      PROVE  lkMine'[q] = lkMine[q] /\ lkPc'[q] = lkPc[q] /\ lkKey'[q] = lkKey[q]
  BY <1>1, <1>3, <1>5 DEF LockInv, LockTypeOK
<1>6. lkMine'[p] = i /\ lkPc'[p] = "try" /\ lkKey'[p] = k
  BY <1>1, <1>3 DEF LockInv, LockTypeOK
<1>7. ASSUME NEW l \in StackKeys
      PROVE  lkEntries'[l] = IF l = k THEN i ELSE lkEntries[l]
  BY <1>1 DEF LockInv, LockTypeOK
<1>8. RefsInTable'
  <2> SUFFICES ASSUME NEW q \in Actors
               PROVE  /\ lkPc'[q] = "idle" <=> lkMine'[q] = 0
                      /\ lkPc'[q] # "idle" => lkEntries'[lkKey'[q]] = lkMine'[q]
    BY DEF RefsInTable
  <2>1. CASE q = p
    BY <2>1, <1>6, <1>7, <1>2
  <2>2. CASE q # p
    <3>1. lkKey[q] \in StackKeys
      BY DEF LockInv, LockTypeOK
    <3>2. lkPc[q] # "idle" => lkEntries[lkKey[q]] = lkMine[q] /\ lkMine[q] # 0
      BY DEF LockInv, RefsInTable
    <3>3. lkPc[q] # "idle" /\ lkKey[q] = k => lkEntries[k] = i
      BY <3>2, <1>2
    <3> QED
      BY <2>2, <3>1, <3>2, <3>3, <1>5, <1>7 DEF LockInv, RefsInTable
  <2> QED
    BY <2>1, <2>2
<1>9. Counted'
  <2> SUFFICES ASSUME NEW j \in LockIds PROVE lkUsers'[j] = Cardinality(UsersOf(j)')
    BY DEF Counted
  <2>1. CASE j = i
    <3>1. UsersOf(i)' = UsersOf(i) \cup {p} /\ p \notin UsersOf(i)
      BY <1>2, <1>3, <1>5, <1>6 DEF UsersOf
    <3>2. Cardinality(UsersOf(i) \cup {p}) = Cardinality(UsersOf(i)) + 1
      BY <3>1, UsersFinite, FS_AddElement
    <3>3. lkUsers'[i] = lkUsers[i] + 1
      BY <1>1, <1>2 DEF LockInv, LockTypeOK
    <3> QED
      BY <2>1, <3>1, <3>2, <3>3 DEF LockInv, Counted
  <2>2. CASE j # i
    <3>1. UsersOf(j)' = UsersOf(j)
      BY <2>2, <1>3, <1>5, <1>6 DEF UsersOf
    <3>2. lkUsers'[j] = lkUsers[j]
      BY <2>2, <1>1 DEF LockInv, LockTypeOK
    <3> QED
      BY <3>1, <3>2 DEF LockInv, Counted
  <2> QED
    BY <2>1, <2>2
<1>10. LocksDistinct'
  <2>1. ASSUME NEW l \in StackKeys, l # k, lkEntries[l] = i PROVE FALSE
    <3>1. lkEntries[k] = i
      BY <2>1, <1>2 DEF Garbage
    <3> QED
      BY <2>1, <3>1, <1>2 DEF LockInv, LocksDistinct
  <2>2. ASSUME NEW l \in StackKeys, NEW m \in StackKeys,
               lkEntries'[l] # 0, lkEntries'[l] = lkEntries'[m]
        PROVE  l = m
    BY <2>1, <2>2, <1>7 DEF LockInv, LocksDistinct
  <2> QED
    BY <2>2 DEF LocksDistinct
<1>11. LocksTaken'
  BY <1>3, <1>5, <1>6 DEF LockInv, LocksTaken
<1> QED
  BY <1>4, <1>8, <1>9, <1>10, <1>11 DEF LockInv

(* The lock of the object itself.                                          *)
LEMMA TryLockKeepsInv ==
    ASSUME LockInv, NEW p \in Actors, TryLock(p)
    PROVE  LockInv'
<1> USE StackLocksAssumption DEF StackLocksAssumption
<1>1. /\ lkPc[p] = "try" /\ lkMine[p] \in LockIds
      /\ UNCHANGED <<lkEntries, lkUsers, lkMine, lkKey>>
  BY DEF TryLock, LockInv, LockTypeOK, RefsInTable
<1>2. ASSUME NEW q \in Actors, q # p PROVE lkPc'[q] = lkPc[q]
  BY <1>2 DEF TryLock, LockInv, LockTypeOK
<1>3. LockTypeOK'
  BY <1>1 DEF TryLock, LockInv, LockTypeOK
<1>4. RefsInTable' /\ Counted' /\ LocksDistinct'
  <2>1. lkPc'[p] # "idle"
    BY DEF TryLock, LockInv, LockTypeOK
  <2>2. RefsInTable'
    BY <1>1, <1>2, <2>1 DEF LockInv, RefsInTable
  <2>3. Counted'
    BY <1>1 DEF LockInv, Counted, UsersOf
  <2>4. LocksDistinct'
    BY <1>1 DEF LockInv, LocksDistinct
  <2> QED
    BY <2>2, <2>3, <2>4
<1>5. LocksTaken'
  <2>1. CASE lkMine[p] \in lkTaken
    <3>1. lkPc'[p] # "held" /\ lkTaken' = lkTaken
      BY <2>1 DEF TryLock, LockInv, LockTypeOK
    <3> QED
      BY <3>1, <1>1, <1>2 DEF LockInv, LocksTaken
  <2>2. CASE lkMine[p] \notin lkTaken
    <3>1. lkPc'[p] = "held" /\ lkTaken' = lkTaken \cup {lkMine[p]}
      BY <2>2 DEF TryLock, LockInv, LockTypeOK
    <3>2. ASSUME NEW q \in Actors, q # p, lkPc'[q] = "held" PROVE lkMine[q] # lkMine[p]
      BY <2>2, <3>2, <1>2 DEF LockInv, LocksTaken
    <3> QED
      BY <3>1, <3>2, <1>1, <1>2 DEF LockInv, LocksTaken
  <2> QED
    BY <2>1, <2>2
<1> QED
  BY <1>3, <1>4, <1>5 DEF LockInv

LEMMA UnlockKeepsInv ==
    ASSUME LockInv, NEW p \in Actors, Unlock(p)
    PROVE  LockInv'
<1>1. /\ lkPc[p] = "held" /\ lkPc'[p] = "leave"
      /\ lkTaken' = lkTaken \ {lkMine[p]}
      /\ UNCHANGED <<lkEntries, lkUsers, lkMine, lkKey>>
  BY DEF Unlock, LockInv, LockTypeOK
<1>2. ASSUME NEW q \in Actors, q # p PROVE lkPc'[q] = lkPc[q]
  BY <1>2 DEF Unlock, LockInv, LockTypeOK
<1>3. LockTypeOK'
  BY DEF Unlock, LockInv, LockTypeOK
<1>4. RefsInTable'
  BY <1>1, <1>2 DEF LockInv, RefsInTable
<1>5. Counted'
  BY <1>1 DEF LockInv, Counted, UsersOf
<1>6. LocksDistinct'
  BY <1>1 DEF LockInv, LocksDistinct
<1>7. LocksTaken'
  BY <1>1, <1>2 DEF LockInv, LocksTaken
<1> QED
  BY <1>3, <1>4, <1>5, <1>6, <1>7 DEF LockInv

(* The last critical section.                                              *)
LEMMA LeaveKeepsInv ==
    ASSUME LockInv, NEW p \in Actors, Leave(p)
    PROVE  LockInv'
<1> USE StackLocksAssumption DEF StackLocksAssumption
<1> DEFINE i == lkMine[p]
<1>1. /\ lkPc[p] = "leave" /\ i \in LockIds /\ i # 0
      /\ lkKey[p] \in StackKeys /\ lkEntries[lkKey[p]] = i
  BY DEF Leave, LockInv, LockTypeOK, RefsInTable
<1>2. /\ lkMine'[p] = 0 /\ lkPc'[p] = "idle" /\ lkTaken' = lkTaken /\ lkKey' = lkKey
      /\ lkUsers' = [lkUsers EXCEPT ![i] = @ - 1]
      /\ lkMine' = [lkMine EXCEPT ![p] = 0]
      /\ lkPc' = [lkPc EXCEPT ![p] = "idle"]
  BY DEF Leave, LockInv, LockTypeOK
<1>3. ASSUME NEW q \in Actors, q # p
      PROVE  lkMine'[q] = lkMine[q] /\ lkPc'[q] = lkPc[q]
  BY <1>2, <1>3 DEF LockInv, LockTypeOK
<1>4. ASSUME NEW l \in StackKeys
      PROVE  lkEntries'[l] = IF l = lkKey[p] /\ LastUser(p) THEN 0 ELSE lkEntries[l]
  <2>1. lkEntries' = IF LastUser(p) THEN [lkEntries EXCEPT ![lkKey[p]] = 0] ELSE lkEntries
    BY DEF Leave
  <2>2. lkEntries \in [StackKeys -> LockIds \cup {0}]
    BY DEF LockInv, LockTypeOK
  <2> QED
    BY <2>1, <2>2, <1>1
<1>5. Counted'
  <2> SUFFICES ASSUME NEW j \in LockIds PROVE lkUsers'[j] = Cardinality(UsersOf(j)')
    BY DEF Counted
  <2>1. CASE j = i
    <3>1. UsersOf(j)' = UsersOf(j) \ {p} /\ p \in UsersOf(j)
      BY <2>1, <1>1, <1>2, <1>3 DEF UsersOf
    <3>2. Cardinality(UsersOf(j) \ {p}) = Cardinality(UsersOf(j)) - 1
      BY <3>1, UsersFinite, FS_RemoveElement
    <3>3. lkUsers'[j] = lkUsers[j] - 1
      BY <2>1, <1>1, <1>2 DEF LockInv, LockTypeOK
    <3> QED
      BY <3>1, <3>2, <3>3 DEF LockInv, Counted
  <2>2. CASE j # i
    <3>1. UsersOf(j)' = UsersOf(j)
      BY <2>2, <1>1, <1>2, <1>3 DEF UsersOf
    <3>2. lkUsers'[j] = lkUsers[j]
      BY <2>2, <1>2 DEF LockInv, LockTypeOK
    <3> QED
      BY <3>1, <3>2 DEF LockInv, Counted
  <2> QED
    BY <2>1, <2>2
<1>6. LockTypeOK'
  <2>1. ASSUME NEW j \in LockIds PROVE lkUsers'[j] \in Nat
    <3>1. IsFiniteSet(UsersOf(j)') /\ Cardinality(UsersOf(j)') \in Nat
      <4>1. UsersOf(j)' \subseteq Actors
        BY DEF UsersOf
      <4> QED
        BY <4>1, FS_Subset, FS_CardinalityType
    <3> QED
      BY <3>1, <1>5 DEF Counted
  <2>2. lkUsers' \in [LockIds -> Nat]
    BY <2>1, <1>2 DEF LockInv, LockTypeOK
  <2>3. lkEntries' \in [StackKeys -> LockIds \cup {0}]
    BY DEF Leave, LockInv, LockTypeOK
  <2> QED
    BY <2>2, <2>3, <1>2 DEF LockInv, LockTypeOK
<1>7. RefsInTable'
  <2> SUFFICES ASSUME NEW q \in Actors
               PROVE  /\ lkPc'[q] = "idle" <=> lkMine'[q] = 0
                      /\ lkPc'[q] # "idle" => lkEntries'[lkKey'[q]] = lkMine'[q]
    BY DEF RefsInTable
  <2>1. CASE q = p
    BY <2>1, <1>2
  <2>2. CASE q # p
    <3>1. lkKey[q] \in StackKeys
      BY DEF LockInv, LockTypeOK
    <3>2. ASSUME lkPc[q] # "idle", lkKey[q] = lkKey[p], LastUser(p) PROVE FALSE
      <4>1. lkMine[q] = lkMine[p]
        BY <3>2, <1>1 DEF LockInv, RefsInTable
      <4> QED
        BY <4>1, <3>2, <2>2, <1>1, LastIsAlone DEF LockInv
    <3> QED
      BY <2>2, <3>1, <3>2, <1>2, <1>3, <1>4 DEF LockInv, RefsInTable
  <2> QED
    BY <2>1, <2>2
<1>8. LocksDistinct'
  BY <1>4 DEF LockInv, LocksDistinct
<1>9. LocksTaken'
  BY <1>2, <1>3 DEF LockInv, LocksTaken
<1> QED
  BY <1>5, <1>6, <1>7, <1>8, <1>9 DEF LockInv

LEMMA NextLockInv == LockInv /\ [LockNext]_lockVars => LockInv'
<1> SUFFICES ASSUME LockInv, [LockNext]_lockVars PROVE LockInv'
  OBVIOUS
<1>1. CASE UNCHANGED lockVars
  BY <1>1 DEF lockVars, LockInv, LockTypeOK, RefsInTable, Counted, UsersOf, LocksDistinct, LocksTaken
<1>2. ASSUME NEW p \in Actors, NEW k \in StackKeys, Lookup(p, k) PROVE LockInv'
  BY <1>2, LookupKeepsInv
<1>3. ASSUME NEW p \in Actors, TryLock(p) PROVE LockInv'
  BY <1>3, TryLockKeepsInv
<1>4. ASSUME NEW p \in Actors, Unlock(p) PROVE LockInv'
  BY <1>4, UnlockKeepsInv
<1>5. ASSUME NEW p \in Actors, Leave(p) PROVE LockInv'
  BY <1>5, LeaveKeepsInv
<1> QED
  BY <1>1, <1>2, <1>3, <1>4, <1>5 DEF LockNext

LEMMA LockInvariant == LockSpec => []LockInv
  BY InitLockInv, NextLockInv, PTL DEF LockSpec

(* Every variable of the table keeps its type (stack_lock.go,              *)
(* TryLockStack).                                                          *)
THEOREM LocksTypeCorrect == LockSpec => []LockTypeOK
<1>1. LockInv => LockTypeOK
  BY DEF LockInv
<1> QED
  BY <1>1, LockInvariant, PTL
-----------------------------------------------------------------------------
(* Every step of the table is a step of the mutex of its key, or none.     *)
LEMMA StepRefines ==
    ASSUME LockInv, [LockNext]_lockVars
    PROVE  [Mutex!MutexNext]_Holders
<1> USE DEF Holders
<1>1. CASE UNCHANGED lockVars
  BY <1>1 DEF lockVars
<1>2. ASSUME NEW p \in Actors, NEW k \in StackKeys, Lookup(p, k) PROVE Holders' = Holders
  <2>1. lkPc[p] = "idle" /\ lkPc'[p] = "try"
    BY <1>2 DEF Lookup, LockInv, LockTypeOK
  <2>2. ASSUME NEW q \in Actors, q # p PROVE lkPc'[q] = lkPc[q] /\ lkKey'[q] = lkKey[q]
    BY <1>2, <2>2 DEF Lookup, LockInv, LockTypeOK
  <2> QED
    BY <2>1, <2>2
<1>3. ASSUME NEW p \in Actors, TryLock(p) PROVE [Mutex!MutexNext]_Holders
  <2>1. ASSUME NEW q \in Actors, q # p PROVE lkPc'[q] = lkPc[q]
    BY <1>3, <2>1 DEF TryLock, LockInv, LockTypeOK
  <2>2. lkPc[p] = "try" /\ lkKey' = lkKey /\ lkKey[p] \in StackKeys
    BY <1>3 DEF TryLock, LockInv, LockTypeOK
  <2>3. CASE lkMine[p] \in lkTaken
    <3>1. lkPc'[p] = "leave"
      BY <2>3, <1>3 DEF TryLock, LockInv, LockTypeOK
    <3> QED
      BY <3>1, <2>1, <2>2
  <2>4. CASE lkMine[p] \notin lkTaken
    <3>1. lkPc'[p] = "held"
      BY <2>4, <1>3 DEF TryLock, LockInv, LockTypeOK
    <3>2. ASSUME NEW q \in Actors, lkPc[q] = "held", lkKey[q] = lkKey[p] PROVE FALSE
      <4>1. lkMine[q] = lkMine[p]
        BY <3>2, <2>2 DEF LockInv, RefsInTable
      <4>2. lkMine[q] \in lkTaken
        BY <3>2 DEF LockInv, LocksTaken
      <4> QED
        BY <4>1, <4>2, <2>4
    <3>3. \A q \in Actors : <<q, lkKey[p]>> \notin Holders
      BY <3>2
    <3>4. Holders' = Holders \cup {<<p, lkKey[p]>>}
      BY <3>1, <2>1, <2>2
    <3>5. Mutex!MutexNext
      BY <2>2, <3>3, <3>4 DEF Mutex!MutexNext, Mutex!Acquire
    <3> QED
      BY <3>5
  <2> QED
    BY <2>3, <2>4
<1>4. ASSUME NEW p \in Actors, Unlock(p) PROVE [Mutex!MutexNext]_Holders
  <2>1. ASSUME NEW q \in Actors, q # p PROVE lkPc'[q] = lkPc[q]
    BY <1>4, <2>1 DEF Unlock, LockInv, LockTypeOK
  <2>2. lkPc[p] = "held" /\ lkPc'[p] = "leave" /\ lkKey' = lkKey /\ lkKey[p] \in StackKeys
    BY <1>4 DEF Unlock, LockInv, LockTypeOK
  <2>3. <<p, lkKey[p]>> \in Holders
    BY <2>2
  <2>4. Holders' = Holders \ {<<p, lkKey[p]>>}
    BY <2>1, <2>2
  <2>5. Mutex!MutexNext
    BY <2>2, <2>3, <2>4 DEF Mutex!MutexNext, Mutex!Release
  <2> QED
    BY <2>5
<1>5. ASSUME NEW p \in Actors, Leave(p) PROVE Holders' = Holders
  <2>1. lkPc[p] = "leave" /\ lkPc'[p] = "idle" /\ lkKey' = lkKey
    BY <1>5 DEF Leave, LockInv, LockTypeOK
  <2>2. ASSUME NEW q \in Actors, q # p PROVE lkPc'[q] = lkPc[q]
    BY <1>5, <2>2 DEF Leave, LockInv, LockTypeOK
  <2> QED
    BY <2>1, <2>2
<1> QED
  BY <1>1, <1>2, <1>3, <1>4, <1>5 DEF LockNext

(* The counted table of lock objects implements one mutex per key          *)
(* (stack_lock.go, TryLockStack "serializes every Dockman Compose action   *)
(* for one host/file").                                                    *)
THEOREM StackLocksRefine == LockSpec => SerializesActions
<1>1. LockInit => Mutex!MutexInit
  BY DEF LockInit, Mutex!MutexInit
<1>2. LockInv /\ [LockNext]_lockVars => [Mutex!MutexNext]_Holders
  BY StepRefines
<1> QED
  BY <1>1, <1>2, LockInvariant, PTL DEF LockSpec, SerializesActions, Mutex!MutexSpec, Holders

-----------------------------------------------------------------------------
(***************************************************************************)
(* What an update reports is what the stack runs (ComposeActions): the     *)
(* selective update answers for every service it was asked about, and the  *)
(* protected-update helper's last line is so.                              *)
(*                                                                         *)
(* The invariant follows the work of the update: every service with a      *)
(* declaration in the manifest that was read is in one of the two groups,  *)
(* and what is done, in either, has the image of its tag and runs as that  *)
(* manifest declares, or did until it exited by itself.                    *)
(***************************************************************************)

ContainerRecords == [st : {"none", "run", "exit", "quit"}, hash : 0..2, img : 0..2,
                     born : 0..MaxComposeSteps]
ContainerShape(b) == b \in ContainerRecords /\ (b.st # "none" => b.img \in 1..2)

Plans == [compose : SUBSET Services, images : SUBSET Services, orphans : SUBSET Services]
RequestRecords ==
    [op : {"none", "up", "redeploy", "start", "restart", "stop", "down", "update"},
     at : {"none", "run", "plan", "up", "pull", "replace", "end"}, sel : SUBSET Services,
     plan : Plans, left : SUBSET Services, want : [Services -> 0..2], ok : BOOLEAN,
     alone : BOOLEAN]
RequestShape(r) ==
    /\ r \in RequestRecords
    /\ r.at = "run" => r.op \notin {"none", "update"}
    /\ r.at = "plan" => r.left = {}

HelperRecords ==
    [at : {"none", "pull", "recreate", "wait", "completed", "restore", "again", "verify",
           "restored"},
     s : Services \cup {"none"}, img : 0..2, alone : BOOLEAN]
HelperShape(h) ==
    h \in HelperRecords /\ (h.at # "none" => h.s \in Services /\ h.img \in 1..2)

BoxShapes(box) == box \in [Services -> ContainerRecords] /\ \A s \in Services : ContainerShape(box[s])
ComposeShapes ==
    /\ cMan \in [Services -> 0..2] /\ cLocal \in [Services -> 1..2] /\ cRemote \in [Services -> 1..2]
    /\ BoxShapes(cBox) /\ RequestShape(cReq) /\ HelperShape(cHelper)
    /\ cMark \in 0..MaxComposeSteps /\ cSteps \in 0..MaxComposeSteps

-----------------------------------------------------------------------------
(* The work of a selective update.  The manifest is edited to 2 or to      *)
(* nothing, so a service read at 2 cannot be declared otherwise later.     *)
Planned == {"up", "pull", "replace", "end"}
AskedServices(r) == IF r.sel = {} THEN Services ELSE r.sel
Sound(r, man, b, s) == (r.want[s] = 2 \/ man[s] = r.want[s]) => b.hash = r.want[s]
Lively == {"run", "quit"}
Runs(r, man, b, img, s) == r.want[s] # 0 => b.st \in Lively /\ b.img = img /\ Sound(r, man, b, s)
Fine(r, man, b, s) == b.st = "none" \/ (b.st \in Lively /\ Sound(r, man, b, s))

PlanCovers(r) ==
    /\ \A s \in AskedServices(r) : r.want[s] # 0 => s \in r.plan.compose \cup r.plan.images
    /\ \A s \in r.plan.images : s \notin r.plan.compose /\ r.want[s] # 0
WantKept(r, man) == \A s \in Services : r.want[s] = 2 => man[s] \in {0, 2}
AllRun(r, man, box, tag, group) == \A s \in group : Runs(r, man, box[s], tag[s], s)
AllFine(r, man, box, group) == \A s \in group : Fine(r, man, box[s], s)

WorkDone(r, man, box, tag) ==
    CASE r.at \in {"up", "pull"} ->
           /\ r.left = r.plan.images /\ AllFine(r, man, box, r.plan.images)
           /\ r.at = "pull" /\ r.plan.images # {} /\ r.ok => AllRun(r, man, box, tag, r.plan.compose)
      [] r.at = "replace" ->
           /\ r.left \subseteq r.plan.images /\ AllFine(r, man, box, r.left)
           /\ r.ok => AllRun(r, man, box, tag, r.plan.compose \cup (r.plan.images \ r.left))
      [] r.at = "end" -> r.ok => AllRun(r, man, box, tag, r.plan.compose \cup r.plan.images)
      [] OTHER -> TRUE

UpdateWork(r, man, box, tag) ==
    r.at \in Planned =>
      /\ PlanCovers(r) /\ WantKept(r, man)
      /\ r.alone => WorkDone(r, man, box, tag)

(* The helper: what it recreates has the image its tag names, and the tag  *)
(* it gives back names the previous one.                                   *)
HelperWork(h, box, tag) ==
    h.alone =>
      /\ h.at \in {"wait", "completed"} => box[h.s].img = tag[h.s]
      /\ h.at = "completed" => box[h.s].st \in Lively
      /\ h.at = "again" => tag[h.s] = h.img
      /\ h.at \in {"verify", "restored"} => box[h.s].img = h.img
      /\ h.at = "restored" => box[h.s].st \in Lively

ComposeInv ==
    ComposeShapes /\ UpdateWork(cReq, cMan, cBox, cLocal) /\ HelperWork(cHelper, cBox, cLocal)

-----------------------------------------------------------------------------
(* A request or a helper that is disturbed is not alone any more, and      *)
(* nothing is claimed for it.                                              *)
LEMMA DisturbedRequest ==
    ASSUME RequestShape(cReq), UpdateWork(cReq, cMan, cBox, cLocal), NEW box, NEW tag
    PROVE  RequestShape(ReqDisturbed) /\ UpdateWork(ReqDisturbed, cMan, box, tag)
<1>1. CASE cReq.at = "none"
  BY <1>1 DEF ReqDisturbed, UpdateWork, Planned
<1>2. CASE cReq.at # "none"
  <2> DEFINE r == [cReq EXCEPT !.alone = FALSE]
  <2>1. /\ r \in RequestRecords /\ r.op = cReq.op /\ r.at = cReq.at /\ r.sel = cReq.sel
        /\ r.plan = cReq.plan /\ r.left = cReq.left /\ r.want = cReq.want /\ r.alone = FALSE
    BY DEF RequestShape, RequestRecords
  <2>2. ReqDisturbed = r BY <1>2 DEF ReqDisturbed
  <2> HIDE DEF r
  <2> QED BY <2>1, <2>2 DEF RequestShape, UpdateWork, PlanCovers, AskedServices, WantKept
<1> QED BY <1>1, <1>2

LEMMA DisturbedHelper ==
    ASSUME HelperShape(cHelper), NEW box, NEW tag
    PROVE  HelperShape(HelperDisturbed) /\ HelperWork(HelperDisturbed, box, tag)
<1>1. CASE cHelper.at = "none"
  BY <1>1 DEF HelperDisturbed, HelperWork
<1>2. CASE cHelper.at # "none"
  <2> DEFINE h == [cHelper EXCEPT !.alone = FALSE]
  <2>1. /\ h \in HelperRecords /\ h.at = cHelper.at /\ h.s = cHelper.s /\ h.img = cHelper.img
        /\ h.alone = FALSE
    BY DEF HelperShape, HelperRecords
  <2>2. HelperDisturbed = h BY <1>2 DEF HelperDisturbed
  <2> HIDE DEF h
  <2> QED BY <2>1, <2>2 DEF HelperShape, HelperWork
<1> QED BY <1>1, <1>2

LEMMA NoActionIdle ==
    ASSUME NEW man, NEW box, NEW tag
    PROVE  RequestShape(NoAction) /\ UpdateWork(NoAction, man, box, tag)
BY DEF NoAction, NoPlan, RequestShape, RequestRecords, Plans, UpdateWork, Planned

LEMMA NoHelperIdle ==
    ASSUME NEW box, NEW tag
    PROVE  HelperShape(NoHelper) /\ HelperWork(NoHelper, box, tag)
BY DEF NoHelper, HelperShape, HelperRecords, HelperWork

-----------------------------------------------------------------------------
(* Compose leaves containers, and what it was asked to bring up runs as    *)
(* the manifest declares now.                                              *)
LEMMA FreshBox ==
    ASSUME ComposeShapes, NEW s \in Services, NEW b, b = Fresh(s, cLocal)
    PROVE  /\ ContainerShape(b) /\ b.st = "run" /\ b.hash = cMan[s] /\ b.img = cLocal[s]
BY DEF Fresh, ContainerShape, ContainerRecords, ComposeShapes

LEMMA StatusBox ==
    ASSUME ComposeShapes, NEW s \in Services, cBox[s].st # "none",
           NEW st \in {"run", "exit", "quit"}, NEW b, b = [cBox[s] EXCEPT !.st = st]
    PROVE  ContainerShape(b) /\ b.st = st /\ b.hash = cBox[s].hash /\ b.img = cBox[s].img
BY DEF ContainerShape, ContainerRecords, ComposeShapes, BoxShapes

LEMMA ConvergedBox ==
    ASSUME ComposeShapes, NEW s \in Services, NEW b, b = Converged(s)
    PROVE  ContainerShape(b) /\ b.st = "run" /\ b.hash = cMan[s] /\ b.img = cLocal[s]
<1>1. CASE cBox[s].st # "none" /\ cBox[s].hash = cMan[s] /\ cBox[s].img = cLocal[s]
  <2>1. b = [cBox[s] EXCEPT !.st = "run"] BY <1>1 DEF Converged
  <2> QED BY <1>1, <2>1, StatusBox
<1>2. CASE ~(cBox[s].st # "none" /\ cBox[s].hash = cMan[s] /\ cBox[s].img = cLocal[s])
  <2>1. b = Fresh(s, cLocal) BY <1>2 DEF Converged
  <2> QED BY <2>1, FreshBox
<1> QED BY <1>1, <1>2

Replaced(b, img, born) == [b EXCEPT !.img = img, !.born = born]
LEMMA ReplacedBox ==
    ASSUME NEW b, ContainerShape(b), NEW img \in 1..2, NEW born \in 0..MaxComposeSteps
    PROVE  /\ ContainerShape(Replaced(b, img, born)) /\ Replaced(b, img, born).st = b.st
           /\ Replaced(b, img, born).hash = b.hash /\ Replaced(b, img, born).img = img
<1>1. b \in ContainerRecords BY DEF ContainerShape
<1>2. Replaced(b, img, born) \in ContainerRecords
  <2> DEFINE I == 0..2
             B == 0..MaxComposeSteps
             c == [b EXCEPT !.img = img, !.born = born]
  <2>1. b \in [st : {"none", "run", "exit", "quit"}, hash : I, img : I, born : B]
        /\ img \in I /\ born \in B
    BY <1>1 DEF ContainerRecords
  <2> HIDE DEF I, B
  <2>2. c \in [st : {"none", "run", "exit", "quit"}, hash : I, img : I, born : B]
    BY <2>1
  <2> QED BY <2>2 DEF Replaced, ContainerRecords, I, B
<1>3. /\ Replaced(b, img, born).st = b.st /\ Replaced(b, img, born).hash = b.hash
      /\ Replaced(b, img, born).img = img
  BY <1>1 DEF ContainerRecords, Replaced
<1> QED BY <1>2, <1>3 DEF ContainerShape

LEMMA NoBoxShape == ContainerShape(NoBox) /\ NoBox.st = "none"
BY ComposeActionsAssumption DEF NoBox, ContainerShape, ContainerRecords

LEMMA UpBoxes ==
    ASSUME ComposeShapes, NEW sel \in SUBSET Services, NEW done \in SUBSET Services,
           NEW force \in BOOLEAN
    PROVE  /\ BoxShapes(composeUp(sel, done, force))
           /\ \A s \in Services :
                \/ composeUp(sel, done, force)[s] = cBox[s] /\
                     (s \notin done \/ (cMan[s] # 0 /\ s \notin Chosen(sel)))
                \/ composeUp(sel, done, force)[s] = NoBox /\ cMan[s] = 0
                \/ composeUp(sel, done, force)[s].st = "run" /\
                     composeUp(sel, done, force)[s].hash = cMan[s] /\ cMan[s] # 0 /\
                     composeUp(sel, done, force)[s].img = cLocal[s]
<1> DEFINE up == composeUp(sel, done, force)
<1>1. ASSUME NEW s \in Services
      PROVE  /\ ContainerShape(up[s])
             /\ \/ up[s] = cBox[s] /\ (s \notin done \/ (cMan[s] # 0 /\ s \notin Chosen(sel)))
                \/ up[s] = NoBox /\ cMan[s] = 0
                \/ /\ up[s].st = "run" /\ up[s].hash = cMan[s] /\ cMan[s] # 0
                   /\ up[s].img = cLocal[s]
  <2>1. CASE s \notin done \/ (cMan[s] # 0 /\ s \notin Chosen(sel))
    <3>1. up[s] = cBox[s] BY <2>1 DEF composeUp
    <3> QED BY <2>1, <3>1 DEF ComposeShapes, BoxShapes
  <2>2. CASE s \in done /\ cMan[s] = 0
    <3>1. up[s] = NoBox BY <2>2 DEF composeUp
    <3> QED BY <2>2, <3>1, NoBoxShape
  <2>3. CASE s \in done /\ cMan[s] # 0 /\ s \in Chosen(sel)
    <3>1. up[s] = Fresh(s, cLocal) \/ up[s] = Converged(s) BY <2>3 DEF composeUp
    <3> QED BY <2>3, <3>1, FreshBox, ConvergedBox
  <2> QED BY <2>1, <2>2, <2>3
<1>2. up = [s \in Services |-> up[s]] BY DEF composeUp
<1> HIDE DEF up
<1>3. BoxShapes(up) BY <1>1, <1>2 DEF BoxShapes, ContainerShape
<1> QED BY <1>1, <1>3 DEF up

LEMMA CommandBoxes ==
    ASSUME ComposeInv, cReq.at = "run", NEW done \in SUBSET Services
    PROVE  BoxShapes(Command(done))
<1>1. /\ ComposeShapes /\ cReq.sel \in SUBSET Services
      /\ cReq.op \in {"up", "redeploy", "start", "restart", "stop", "down"}
  BY DEF ComposeInv, ComposeShapes, RequestShape, RequestRecords
<1>2. CASE cReq.op \in {"up", "redeploy"}
  <2>1. PICK force \in BOOLEAN : Command(done) = composeUp(cReq.sel, done, force)
    BY <1>2 DEF Command
  <2> QED BY <1>1, <2>1, UpBoxes
<1>3. CASE cReq.op \in {"start", "restart", "stop", "down"}
  <2> DEFINE box == Command(done)
  <2>1. ASSUME NEW s \in Services
        PROVE  \/ box[s] = cBox[s] \/ box[s] = NoBox
               \/ \E st \in {"run", "exit"} : cBox[s].st # "none" /\ box[s] = [cBox[s] EXCEPT !.st = st]
    BY <1>3 DEF Command, composeStart, composeStop, composeDown
  <2>2. box = [s \in Services |-> box[s]]
    BY <1>3 DEF Command, composeStart, composeStop, composeDown
  <2> HIDE DEF box
  <2>3. ASSUME NEW s \in Services PROVE ContainerShape(box[s])
    <3>1. CASE box[s] = cBox[s] \/ box[s] = NoBox
      BY <1>1, <3>1, NoBoxShape DEF ComposeShapes, BoxShapes
    <3>2. ASSUME NEW st \in {"run", "exit"}, cBox[s].st # "none",
                 box[s] = [cBox[s] EXCEPT !.st = st]
          PROVE  ContainerShape(box[s])
      BY <1>1, <3>2, StatusBox
    <3> QED BY <2>1, <3>1, <3>2
  <2>4. BoxShapes(box) BY <2>2, <2>3 DEF BoxShapes, ContainerShape
  <2> QED BY <2>4 DEF box
<1> QED BY <1>1, <1>2, <1>3


-----------------------------------------------------------------------------
(* The actions that take, follow or end a request.                         *)
LEMMA LockStep ==
    ASSUME ComposeInv,
           NEW op \in {"up", "redeploy", "start", "restart", "stop", "down", "update"},
           NEW sel \in SUBSET Services, withComposeActionLock(op, sel)
    PROVE  ComposeInv'
<1> DEFINE at == IF op = "update" THEN "plan" ELSE "run"
           r == [NoAction EXCEPT !.op = op, !.at = at, !.sel = sel]
<1>0. at \in {"plan", "run"} /\ (at = "run" => op # "update") OBVIOUS
<1> HIDE DEF at
<1>1. RequestShape(r) /\ r.at \notin Planned
  <2>1. r.op = op /\ r.at = at /\ r.left = {}
    BY DEF NoAction
  <2>2. r \in RequestRecords
    <3>1. NoAction \in RequestRecords BY NoActionIdle DEF RequestShape
    <3> QED BY <1>0, <3>1 DEF RequestRecords
  <2> HIDE DEF r
  <2> QED BY <1>0, <2>1, <2>2 DEF RequestShape, Planned
<1>2. /\ cReq' = r /\ cSteps' \in 0..MaxComposeSteps /\ cMark' \in 0..MaxComposeSteps
      /\ UNCHANGED <<cMan, cBox, cLocal, cRemote, cHelper>>
  BY ComposeActionsAssumption
  DEF withComposeActionLock, ComposeAct, ComposeInv, ComposeShapes, at
<1> HIDE DEF r
<1> QED BY <1>1, <1>2 DEF ComposeInv, ComposeShapes, UpdateWork

LEMMA CommandStep ==
    ASSUME ComposeInv, NEW done \in SUBSET Services, runCompose(done)
    PROVE  ComposeInv'
<1>1. BoxShapes(cBox') BY CommandBoxes DEF runCompose
<1>2. /\ cReq' = NoAction /\ cHelper' = HelperDisturbed /\ cMark' \in 0..MaxComposeSteps
      /\ UNCHANGED <<cMan, cLocal, cRemote, cSteps>>
  BY DEF runCompose, ComposeInv, ComposeShapes
<1>3. HelperShape(cHelper) BY DEF ComposeInv, ComposeShapes
<1> QED BY <1>1, <1>2, <1>3, NoActionIdle, DisturbedHelper
        DEF ComposeInv, ComposeShapes

LEMMA AnswerStep == ASSUME ComposeInv, ComposeAnswer PROVE ComposeInv'
BY NoActionIdle DEF ComposeAnswer, ComposeInv, ComposeShapes

(* The plan: a service that runs as declared and is one pulled container   *)
(* is replaced by Dockman, every other declared one is Compose's.          *)
LEMMA PlanStep ==
    ASSUME ComposeInv, NEW readable \in BOOLEAN, planComposeUpdate(readable)
    PROVE  ComposeInv'
<1> DEFINE expected == ProjectPlan(cMan)
           plan == classifyComposeUpdate(expected, cReq.sel)
<1>1. /\ RequestShape(cReq) /\ cReq \in RequestRecords /\ cReq.sel \in SUBSET Services
      /\ cMan \in [Services -> 0..2] /\ BoxShapes(cBox)
      /\ cReq.ok \in BOOLEAN /\ cReq.alone \in BOOLEAN /\ cReq.at = "plan"
  BY DEF ComposeInv, ComposeShapes, RequestShape, RequestRecords, planComposeUpdate
<1>2. /\ UNCHANGED <<cMan, cBox, cLocal, cRemote, cHelper, cMark, cSteps>>
      /\ HelperWork(cHelper, cBox, cLocal)
  BY DEF planComposeUpdate, ComposeInv
<1>3. RequestShape(cReq') /\ UpdateWork(cReq', cMan, cBox, cLocal)
  <2>1. CASE ~readable
    <3> DEFINE group == Chosen(cReq.sel)
               r == [cReq EXCEPT !.at = "pull", !.want = cMan,
                                 !.plan = [NoPlan EXCEPT !.compose = group]]
    <3>1. group \in SUBSET Services /\ \A s \in AskedServices(cReq) : cMan[s] # 0 => s \in group
      BY <1>1 DEF Chosen, Declared, AskedServices
    <3> HIDE DEF group
    <3>2. /\ r \in RequestRecords /\ r.at = "pull" /\ r.op = cReq.op /\ r.sel = cReq.sel
          /\ r.want = cMan /\ r.plan.compose = group /\ r.plan.images = {}
          /\ r.left = cReq.left
      BY <1>1, <3>1 DEF RequestRecords, Plans, NoPlan
    <3>3. cReq' = r BY <2>1 DEF planComposeUpdate, group
    <3> HIDE DEF r
    <3>4. PlanCovers(r) /\ WantKept(r, cMan)
      BY <1>1, <3>1, <3>2 DEF PlanCovers, WantKept, AskedServices
    <3>5. cReq.left = {} BY <1>1 DEF RequestShape
    <3> QED BY <3>2, <3>3, <3>4, <3>5 DEF RequestShape, UpdateWork, WorkDone, AllFine, Planned
  <2>2. CASE readable
    <3> DEFINE at == IF plan = NoPlan THEN "end"
                     ELSE IF plan.compose \cup plan.orphans # {} THEN "up" ELSE "pull"
               r == [cReq EXCEPT !.want = cMan, !.plan = plan, !.left = plan.images, !.at = at]
    <3>1. /\ plan \in Plans /\ DOMAIN expected = Declared
          /\ plan.compose \cup plan.images = (IF cReq.sel = {} THEN Declared
                                              ELSE cReq.sel \cap Declared)
          /\ plan.compose \cap plan.images = {}
          /\ \A s \in plan.images : s \in Declared /\ cBox[s].st = "run" /\ cBox[s].hash = cMan[s]
      BY <1>1 DEF classifyComposeUpdate, ProjectPlan, Declared, Plans
    <3>2. /\ plan = NoPlan => plan.compose = {} /\ plan.images = {}
          /\ at \in {"end", "up", "pull"}
          /\ at = "end" => plan = NoPlan
          /\ at = "pull" => plan.compose = {}
      BY DEF NoPlan
    <3>3. cReq' = r BY <2>2 DEF planComposeUpdate
    <3> HIDE DEF plan, at, expected
    <3>4. /\ r \in RequestRecords /\ r.at = at /\ r.op = cReq.op /\ r.sel = cReq.sel
          /\ r.want = cMan /\ r.plan = plan /\ r.left = plan.images /\ r.ok = cReq.ok
      BY <1>1, <3>1, <3>2 DEF RequestRecords, Plans
    <3> HIDE DEF r
    <3>5. PlanCovers(r) /\ WantKept(r, cMan)
      BY <1>1, <3>1, <3>4 DEF PlanCovers, WantKept, AskedServices, Declared
    <3>6. AllFine(r, cMan, cBox, plan.images) BY <1>1, <3>1, <3>4 DEF AllFine, Fine, Sound, Lively
    <3>7. WorkDone(r, cMan, cBox, cLocal)
      BY <3>2, <3>4, <3>6 DEF WorkDone, AllRun
    <3> QED BY <3>2, <3>3, <3>4, <3>5, <3>7 DEF RequestShape, UpdateWork
  <2> QED BY <2>1, <2>2
<1> QED BY <1>1, <1>2, <1>3 DEF ComposeInv, ComposeShapes

(* Compose's part: what it brought up runs, and what Dockman is to replace *)
(* still does, or is gone with its declaration.                            *)
LEMMA SelectiveStep ==
    ASSUME ComposeInv, NEW done \in SUBSET Services, ComposeSelectiveUpdate(done)
    PROVE  ComposeInv'
<1> DEFINE group == cReq.plan.compose
           box == composeUp(group, done, FALSE)
           at == IF cReq.plan.images = {} THEN "end" ELSE "pull"
           good == cReq.ok /\ done = Services /\ group \subseteq Declared
           r == [cReq EXCEPT !.ok = good, !.at = at]
<1>1. /\ ComposeShapes /\ RequestShape(cReq) /\ cReq \in RequestRecords
      /\ group \in SUBSET Services /\ cReq.plan.images \in SUBSET Services /\ cReq.at = "up"
      /\ cMan \in [Services -> 0..2] /\ cReq.want \in [Services -> 0..2] /\ HelperShape(cHelper)
  BY DEF ComposeInv, ComposeShapes, RequestShape, RequestRecords, Plans, ComposeSelectiveUpdate
<1>2. /\ PlanCovers(cReq) /\ WantKept(cReq, cMan)
      /\ cReq.alone => cReq.left = cReq.plan.images /\ AllFine(cReq, cMan, cBox, cReq.plan.images)
  BY <1>1 DEF ComposeInv, UpdateWork, WorkDone, Planned
<1>3. /\ cBox' = box /\ cReq' = r /\ cHelper' = HelperDisturbed
      /\ UNCHANGED <<cMan, cLocal, cRemote, cMark, cSteps>>
  BY DEF ComposeSelectiveUpdate
<1>4. /\ BoxShapes(box)
      /\ \A s \in Services :
           \/ box[s] = cBox[s] /\ (s \notin done \/ (cMan[s] # 0 /\ s \notin Chosen(group)))
           \/ box[s] = NoBox /\ cMan[s] = 0
           \/ /\ box[s].st = "run" /\ box[s].hash = cMan[s] /\ cMan[s] # 0
              /\ box[s].img = cLocal[s]
  BY <1>1, UpBoxes
<1> HIDE DEF box
<1>5. /\ r \in RequestRecords /\ r.at = at /\ r.op = cReq.op /\ r.sel = cReq.sel
      /\ r.want = cReq.want /\ r.plan = cReq.plan /\ r.left = cReq.left /\ r.alone = cReq.alone
      /\ r.ok = good /\ at \in {"end", "pull"} /\ (at = "end" <=> cReq.plan.images = {})
  BY <1>1 DEF RequestRecords
<1> HIDE DEF r, at
<1>6. RequestShape(r) /\ PlanCovers(r) /\ WantKept(r, cMan)
  BY <1>1, <1>2, <1>5 DEF RequestShape, PlanCovers, WantKept, AskedServices
<1>7. AllFine(cReq, cMan, cBox, cReq.plan.images) => AllFine(r, cMan, box, cReq.plan.images)
  <2> SUFFICES ASSUME AllFine(cReq, cMan, cBox, cReq.plan.images), NEW s \in cReq.plan.images
               PROVE  Fine(r, cMan, box[s], s)
    BY DEF AllFine
  <2>1. s \in Services /\ Fine(cReq, cMan, cBox[s], s) /\ cReq.want[s] # 0
        /\ (cReq.want[s] = 2 => cMan[s] \in {0, 2}) /\ cReq.want[s] \in 0..2 /\ cMan[s] \in 0..2
    BY <1>1, <1>2 DEF AllFine, PlanCovers, WantKept
  <2>2. CASE box[s] = cBox[s] BY <1>5, <2>1, <2>2 DEF Fine, Sound
  <2>3. CASE box[s] = NoBox BY <2>3, NoBoxShape DEF Fine
  <2>4. CASE box[s].st = "run" /\ box[s].hash = cMan[s] /\ cMan[s] # 0
    BY <1>5, <2>1, <2>4 DEF Fine, Sound, Lively
  <2> QED BY <1>4, <2>1, <2>2, <2>3, <2>4
<1>8. good => AllRun(r, cMan, box, cLocal, group)
  <2> SUFFICES ASSUME good, NEW s \in group, cReq.want[s] # 0
               PROVE  /\ box[s].st \in Lively /\ box[s].img = cLocal[s]
                      /\ Sound(r, cMan, box[s], s)
    BY <1>5 DEF AllRun, Runs
  <2>1. /\ s \in Services /\ cMan[s] # 0 /\ s \in Chosen(group) /\ s \in done
        /\ (cReq.want[s] = 2 => cMan[s] \in {0, 2}) /\ cReq.want[s] \in 0..2 /\ cMan[s] \in 0..2
    BY <1>1, <1>2 DEF Declared, Chosen, WantKept
  <2>2. box[s].st = "run" /\ box[s].hash = cMan[s] /\ box[s].img = cLocal[s] BY <1>4, <2>1
  <2> QED BY <1>5, <2>1, <2>2 DEF Sound, Lively
<1>9. r.alone => WorkDone(r, cMan, box, cLocal)
  BY <1>2, <1>5, <1>7, <1>8 DEF WorkDone, AllRun
<1>10. UpdateWork(r, cMan, box, cLocal) BY <1>6, <1>9 DEF UpdateWork
<1>11. HelperShape(cHelper') /\ HelperWork(cHelper', cBox', cLocal') BY <1>1, <1>3, DisturbedHelper
<1> QED BY <1>1, <1>3, <1>4, <1>6, <1>10, <1>11 DEF ComposeInv, ComposeShapes

(* The pull changes what the tags name, and nothing that runs.             *)
LEMMA PullStep ==
    ASSUME ComposeInv, NEW got \in SUBSET Services, runComposeImageUpdates(got)
    PROVE  ComposeInv'
<1>1. /\ ComposeShapes /\ RequestShape(cReq) /\ cReq \in RequestRecords /\ cReq.at = "pull"
      /\ HelperShape(cHelper)
  BY DEF ComposeInv, ComposeShapes, RequestShape, runComposeImageUpdates
<1>2. PlanCovers(cReq) /\ WantKept(cReq, cMan) /\ (cReq.alone => WorkDone(cReq, cMan, cBox, cLocal))
  BY <1>1 DEF ComposeInv, UpdateWork, Planned
<1>3. cLocal' \in [Services -> 1..2]
  BY <1>1 DEF runComposeImageUpdates, composePull, ComposeShapes
<1>4. cHelper' = HelperDisturbed /\ UNCHANGED <<cMan, cBox, cRemote, cMark, cSteps>>
  BY DEF runComposeImageUpdates
<1>5. RequestShape(cReq') /\ UpdateWork(cReq', cMan, cBox, cLocal')
  <2>1. CASE cReq' = [cReq EXCEPT !.at = IF cReq.plan.images # {} THEN "replace" ELSE "up"]
    <3> DEFINE at == IF cReq.plan.images # {} THEN "replace" ELSE "up"
               r == [cReq EXCEPT !.at = at]
    <3>1. cReq' = r BY <2>1
    <3>2. /\ r \in RequestRecords /\ r.at = at /\ r.op = cReq.op /\ r.sel = cReq.sel
          /\ r.want = cReq.want /\ r.plan = cReq.plan /\ r.left = cReq.left
          /\ r.alone = cReq.alone /\ r.ok = cReq.ok /\ at \in {"replace", "up"}
          /\ (at = "up" <=> cReq.plan.images = {})
      BY <1>1 DEF RequestRecords
    <3> HIDE DEF r, at
    <3>3. RequestShape(r) /\ PlanCovers(r) /\ WantKept(r, cMan)
      BY <1>1, <1>2, <3>2 DEF RequestShape, PlanCovers, WantKept, AskedServices
    <3>4. r.alone => WorkDone(r, cMan, cBox, cLocal')
      <4> SUFFICES ASSUME r.alone PROVE WorkDone(r, cMan, cBox, cLocal') OBVIOUS
      <4>1. /\ r.left = r.plan.images /\ AllFine(r, cMan, cBox, r.plan.images)
            /\ r.plan.images # {} /\ r.ok => AllRun(cReq, cMan, cBox, cLocal, r.plan.compose)
        BY <1>1, <1>2, <3>2 DEF WorkDone, AllFine, Fine, Sound
      <4>2. CASE at = "up" BY <3>2, <4>1, <4>2 DEF WorkDone
      <4>3. CASE at = "replace"
        <5>1. \A s \in r.plan.compose : s \in Services /\ s \notin r.plan.images
          BY <1>1, <3>2, <3>3 DEF RequestRecords, Plans, PlanCovers
        <5>2. r.plan.images # {} BY <3>2, <4>3
        <5>3. \A s \in r.plan.compose : cLocal'[s] = cLocal[s]
          BY <3>2, <5>1, <5>2 DEF runComposeImageUpdates, composePull
        <5>4. ASSUME r.ok PROVE AllRun(r, cMan, cBox, cLocal', r.plan.compose)
          BY <3>2, <4>1, <5>2, <5>3, <5>4 DEF AllRun, Runs, Sound
        <5>5. r.plan.compose \cup (r.plan.images \ r.left) = r.plan.compose BY <4>1
        <5>6. r.left \subseteq r.plan.images /\ AllFine(r, cMan, cBox, r.left) BY <4>1
        <5> QED BY <3>2, <4>3, <5>4, <5>5, <5>6 DEF WorkDone
      <4> QED BY <3>2, <4>2, <4>3
    <3> QED BY <3>1, <3>3, <3>4 DEF UpdateWork
  <2>2. CASE cReq' = [cReq EXCEPT !.at = "end", !.ok = FALSE]
    <3> DEFINE r == [cReq EXCEPT !.at = "end", !.ok = FALSE]
    <3>2. /\ r \in RequestRecords /\ r.at = "end" /\ r.op = cReq.op /\ r.sel = cReq.sel
          /\ r.want = cReq.want /\ r.plan = cReq.plan /\ r.ok = FALSE
      BY <1>1 DEF RequestRecords
    <3> HIDE DEF r
    <3>3. RequestShape(r) /\ PlanCovers(r) /\ WantKept(r, cMan)
      BY <1>1, <1>2, <3>2 DEF RequestShape, PlanCovers, WantKept, AskedServices
    <3>4. WorkDone(r, cMan, cBox, cLocal') BY <3>2 DEF WorkDone
    <3>5. cReq' = r BY <2>2 DEF r
    <3> QED BY <3>3, <3>4, <3>5 DEF UpdateWork
  <2> QED BY <2>1, <2>2 DEF runComposeImageUpdates
<1> QED BY <1>1, <1>3, <1>4, <1>5, DisturbedHelper DEF ComposeInv, ComposeShapes

(* The verified replacement keeps the configuration: a service that was as *)
(* declared still is, with the new image or with the old one.              *)
LEMMA ForceStep ==
    ASSUME ComposeInv, NEW s \in Services, NEW st \in {"updated", "rolled_back", "failed"},
           ForceUpdateContainer(s, st)
    PROVE  ComposeInv'
<1> DEFINE b == cBox[s]
           newer == b.st # "none" /\ b.img # cLocal[s]
           nb == IF ~newer THEN b
                 ELSE IF st = "updated" THEN [b EXCEPT !.img = cLocal[s], !.born = cSteps]
                 ELSE IF st = "rolled_back" \/ b.st # "run" THEN b
                 ELSE [b EXCEPT !.st = "exit"]
           left == cReq.left \ {s}
           at == IF cReq.left = {s} THEN "end" ELSE cReq.at
           good == cReq.ok /\ b.st # "none" /\ (newer => st = "updated")
           r == [cReq EXCEPT !.left = left, !.at = at, !.ok = good]
<1>1. /\ ComposeShapes /\ RequestShape(cReq) /\ cReq \in RequestRecords /\ cReq.at = "replace"
      /\ HelperShape(cHelper) /\ s \in cReq.left /\ cBox \in [Services -> ContainerRecords]
      /\ cReq.left \in SUBSET Services /\ ContainerShape(b) /\ cLocal[s] \in 1..2
      /\ cSteps \in 0..MaxComposeSteps
  BY DEF ComposeInv, ComposeShapes, BoxShapes, RequestShape, RequestRecords, ForceUpdateContainer
<1>2. PlanCovers(cReq) /\ WantKept(cReq, cMan) /\ (cReq.alone => WorkDone(cReq, cMan, cBox, cLocal))
  BY <1>1 DEF ComposeInv, UpdateWork, Planned
<1>3. /\ cBox' = [cBox EXCEPT ![s] = nb] /\ cReq' = r /\ cHelper' = HelperDisturbed
      /\ UNCHANGED <<cMan, cLocal, cRemote, cMark, cSteps>>
  <2>1. cReq' = r /\ cHelper' = HelperDisturbed /\ UNCHANGED <<cMan, cLocal, cRemote, cMark, cSteps>>
    BY DEF ForceUpdateContainer
  <2>2. CASE ~newer
    <3>1. cBox' = cBox BY <2>2 DEF ForceUpdateContainer
    <3> QED BY <1>1, <2>1, <2>2, <3>1
  <2>3. CASE newer BY <2>1, <2>3 DEF ForceUpdateContainer
  <2> QED BY <2>2, <2>3
<1>4. /\ ContainerShape(nb) /\ nb.hash = b.hash
      /\ good => nb.st = b.st /\ nb.st # "none" /\ nb.img = cLocal[s]
  <2>1. CASE ~newer BY <1>1, <2>1
  <2>2. CASE newer /\ st = "updated"
    <3>1. nb = Replaced(b, cLocal[s], cSteps) BY <2>2 DEF Replaced
    <3> HIDE DEF nb, newer
    <3>0. ContainerShape(b) /\ cLocal[s] \in 1..2 /\ cSteps \in 0..MaxComposeSteps BY <1>1
    <3> HIDE DEF b
    <3>2. /\ nb.st = b.st /\ nb.hash = b.hash /\ nb.img = cLocal[s] /\ ContainerShape(nb)
      BY <3>0, <3>1, ReplacedBox
    <3> QED BY <3>2
  <2>3. CASE newer /\ st # "updated"
    <3>1. nb = b \/ (b.st = "run" /\ nb = [b EXCEPT !.st = "exit"]) BY <2>3
    <3>2. nb \in ContainerRecords /\ nb.img = b.img /\ nb.hash = b.hash
      BY <1>1, <3>1 DEF ContainerShape, ContainerRecords
    <3>3. nb.st # "none" => b.st # "none" BY <3>1
    <3> QED BY <1>1, <2>3, <3>2, <3>3 DEF ContainerShape
  <2> QED BY <2>1, <2>2, <2>3
<1>5. at \in {"replace", "end"} /\ (at = "replace" <=> left # {}) /\ (at = "end" <=> left = {})
  BY <1>1
<1>6. good \in BOOLEAN /\ left \in SUBSET Services /\ (good => cReq.ok /\ b.st # "none")
  BY <1>1 DEF RequestRecords
<1> HIDE DEF nb, newer, at, good, left
<1>7. /\ r \in RequestRecords /\ r.at = at /\ r.op = cReq.op /\ r.sel = cReq.sel
      /\ r.want = cReq.want /\ r.plan = cReq.plan /\ r.left = left /\ r.alone = cReq.alone
      /\ r.ok = good
  BY <1>1, <1>5, <1>6 DEF RequestRecords
<1> HIDE DEF r
<1>8. RequestShape(r) /\ PlanCovers(r) /\ WantKept(r, cMan)
  BY <1>1, <1>2, <1>5, <1>7 DEF RequestShape, PlanCovers, WantKept, AskedServices
<1>9. BoxShapes(cBox') /\ cBox'[s] = nb /\ \A x \in Services : x # s => cBox'[x] = cBox[x]
  BY <1>1, <1>3, <1>4 DEF BoxShapes, ContainerShape, ComposeShapes
<1>10. r.alone => WorkDone(r, cMan, cBox', cLocal')
  <2> SUFFICES ASSUME r.alone PROVE WorkDone(r, cMan, cBox', cLocal') OBVIOUS
  <2>1. /\ cReq.left \subseteq cReq.plan.images /\ AllFine(cReq, cMan, cBox, cReq.left)
        /\ cReq.ok => AllRun(cReq, cMan, cBox, cLocal,
                             cReq.plan.compose \cup (cReq.plan.images \ cReq.left))
    BY <1>1, <1>2, <1>7 DEF WorkDone
  <2>2. left \subseteq cReq.plan.images /\ left \subseteq Services /\ s \notin left BY <1>1, <2>1 DEF left
  <2>3. AllFine(r, cMan, cBox', left)
    BY <1>7, <1>9, <2>1, <2>2 DEF AllFine, Fine, Sound, left
  <2>4. ASSUME good
        PROVE  AllRun(r, cMan, cBox', cLocal', cReq.plan.compose \cup (cReq.plan.images \ left))
    <3> SUFFICES ASSUME NEW x \in cReq.plan.compose \cup (cReq.plan.images \ left),
                        cReq.want[x] # 0
                 PROVE  /\ cBox'[x].st \in Lively /\ cBox'[x].img = cLocal'[x]
                        /\ Sound(r, cMan, cBox'[x], x)
      BY <1>7 DEF AllRun, Runs
    <3>1. x \in Services BY <1>1 DEF RequestRecords, Plans
    <3>2. CASE x = s
      <4>1. Fine(cReq, cMan, b, s) /\ b.st # "none" BY <1>1, <1>6, <2>1, <2>4 DEF AllFine
      <4>2. b.st \in Lively /\ Sound(cReq, cMan, b, s) BY <4>1 DEF Fine
      <4> QED BY <1>3, <1>4, <1>7, <1>9, <2>4, <3>2, <4>2 DEF Sound
    <3>3. CASE x # s
      <4>1. Runs(cReq, cMan, cBox[x], cLocal[x], x) BY <1>6, <2>1, <2>4, <3>3 DEF AllRun, left
      <4> QED BY <1>3, <1>7, <1>9, <3>1, <3>3, <4>1 DEF Runs, Sound
    <3> QED BY <3>2, <3>3
  <2>5. CASE at = "replace"
    BY <1>7, <2>2, <2>3, <2>4, <2>5 DEF WorkDone
  <2>6. CASE at = "end"
    <3>1. cReq.plan.images \ left = cReq.plan.images BY <1>5, <2>6
    <3> QED BY <1>7, <2>4, <2>6, <3>1 DEF WorkDone
  <2> QED BY <1>5, <2>5, <2>6
<1>11. UpdateWork(r, cMan, cBox', cLocal') BY <1>8, <1>10 DEF UpdateWork
<1>12. HelperShape(cHelper') /\ HelperWork(cHelper', cBox', cLocal') BY <1>1, <1>3, DisturbedHelper
<1> QED BY <1>1, <1>3, <1>8, <1>9, <1>11, <1>12 DEF ComposeInv, ComposeShapes

-----------------------------------------------------------------------------
(* The protected update.                                                   *)
LEMMA HelperPlace ==
    ASSUME HelperShape(cHelper), cHelper.at # "none", NEW h,
           NEW at \in {"none", "pull", "recreate", "wait", "completed", "restore", "again",
                       "verify", "restored"}, h = [cHelper EXCEPT !.at = at]
    PROVE  /\ HelperShape(h) /\ h.at = at /\ h.s = cHelper.s /\ h.img = cHelper.img
           /\ h.alone = cHelper.alone
BY DEF HelperShape, HelperRecords

LEMMA LaunchStep ==
    ASSUME ComposeInv, NEW s \in Services, ProtectedContainerUpdate(s)
    PROVE  ComposeInv'
<1> DEFINE h == [at |-> "pull", s |-> s, img |-> cBox[s].img, alone |-> TRUE]
<1>1. cBox[s].img \in 1..2
  BY DEF ProtectedContainerUpdate, ComposeInv, ComposeShapes, BoxShapes, ContainerShape
<1>2. HelperShape(h) /\ HelperWork(h, cBox, cLocal)
  BY <1>1 DEF HelperShape, HelperRecords, HelperWork
<1>3. /\ cHelper' = h /\ cSteps' \in 0..MaxComposeSteps
      /\ UNCHANGED <<cMan, cBox, cLocal, cRemote, cReq, cMark>>
  BY ComposeActionsAssumption
  DEF ProtectedContainerUpdate, ComposeAct, ComposeInv, ComposeShapes
<1> HIDE DEF h
<1> QED BY <1>2, <1>3 DEF ComposeInv, ComposeShapes

(* The tag: pulled, or given back to the previous image.                   *)
LEMMA HelperTagStep ==
    ASSUME ComposeInv, HelperPull \/ HelperRestore
    PROVE  ComposeInv'
<1>1. /\ ComposeShapes /\ HelperShape(cHelper) /\ cHelper.at \in {"pull", "restore"}
      /\ cReq' = ReqDisturbed /\ UNCHANGED <<cMan, cBox, cRemote, cMark, cSteps>>
  BY DEF HelperPull, HelperRestore, ComposeInv, ComposeShapes
<1>2. cHelper.s \in Services /\ cHelper.img \in 1..2 BY <1>1 DEF HelperShape
<1>3. RequestShape(cReq') /\ UpdateWork(cReq', cMan, cBox, cLocal')
  BY <1>1, DisturbedRequest DEF ComposeInv, ComposeShapes
<1>4. cLocal' \in [Services -> 1..2] /\ HelperShape(cHelper') /\ HelperWork(cHelper', cBox, cLocal')
  <2>1. CASE cHelper' = NoHelper /\ UNCHANGED cLocal
    BY <1>1, <2>1, NoHelperIdle DEF ComposeShapes
  <2>2. CASE HelperPull /\ cHelper' = [cHelper EXCEPT !.at = "recreate"]
                /\ cLocal' = [cLocal EXCEPT ![cHelper.s] = cRemote[cHelper.s]]
    <3>1. HelperShape(cHelper') /\ cHelper'.at = "recreate" BY <1>1, <2>2, HelperPlace
    <3> QED BY <1>1, <1>2, <2>2, <3>1 DEF ComposeShapes, HelperWork
  <2>3. CASE HelperRestore /\ cHelper' = [cHelper EXCEPT !.at = "again"] /\ cLocal' = RestoreTag
    <3>1. /\ HelperShape(cHelper') /\ cHelper'.at = "again" /\ cHelper'.s = cHelper.s
          /\ cHelper'.img = cHelper.img
      BY <1>1, <2>3, HelperPlace
    <3>2. cLocal' \in [Services -> 1..2] /\ cLocal'[cHelper.s] = cHelper.img
      BY <1>1, <1>2, <2>3 DEF RestoreTag, ComposeShapes
    <3> QED BY <3>1, <3>2 DEF HelperWork
  <2> QED BY <2>1, <2>2, <2>3 DEF HelperPull, HelperRestore
<1> QED BY <1>1, <1>3, <1>4 DEF ComposeInv, ComposeShapes

LEMMA HelperRecreateStep ==
    ASSUME ComposeInv, NEW at, NEW next, HelperRecreate(at, next),
           <<at, next>> = <<"recreate", "wait">> \/ <<at, next>> = <<"again", "verify">>
    PROVE  ComposeInv'
<1>1. /\ ComposeShapes /\ HelperShape(cHelper) /\ cHelper.at = at
      /\ (at = "recreate" /\ next = "wait") \/ (at = "again" /\ next = "verify")
      /\ UNCHANGED <<cMan, cLocal, cRemote, cMark, cSteps>>
  BY DEF HelperRecreate, ComposeInv, ComposeShapes
<1>2. cHelper.s \in Services /\ at # "none" /\ cBox \in [Services -> ContainerRecords]
  BY <1>1 DEF HelperShape, ComposeShapes, BoxShapes
<1>3. PICK b, place :
        /\ HelperBox(b, place)
        /\ \/ place = next /\ \E st \in {"run", "exit"} : b = [Fresh(cHelper.s, cLocal) EXCEPT !.st = st]
           \/ place \in {"restore", "none"} /\ b \in {cBox[cHelper.s], NoBox}
  <2>1. CASE HelperBox(Fresh(cHelper.s, cLocal), next)
    <3>1. Fresh(cHelper.s, cLocal) = [Fresh(cHelper.s, cLocal) EXCEPT !.st = "run"] BY DEF Fresh
    <3> QED BY <2>1, <3>1
  <2>2. CASE HelperBox([Fresh(cHelper.s, cLocal) EXCEPT !.st = "exit"], next)
    BY <2>2
  <2>3. CASE \E b \in {cBox[cHelper.s], NoBox} :
               HelperBox(b, IF at = "recreate" THEN "restore" ELSE "none")
    BY <2>3
  <2> QED BY <2>1, <2>2, <2>3 DEF HelperRecreate
<1>4. ContainerShape(b) /\ (place = next => b.img = cLocal[cHelper.s])
  <2>1. ASSUME NEW st \in {"run", "exit"}, b = [Fresh(cHelper.s, cLocal) EXCEPT !.st = st]
        PROVE  ContainerShape(b) /\ b.img = cLocal[cHelper.s]
    BY <1>1, <1>2, <2>1 DEF Fresh, ContainerShape, ContainerRecords, ComposeShapes
  <2>2. CASE place \in {"restore", "none"} /\ b \in {cBox[cHelper.s], NoBox}
    BY <1>1, <1>2, <2>2, NoBoxShape DEF ComposeShapes, BoxShapes
  <2> QED BY <1>3, <2>1, <2>2
<1>5. /\ place \in {"wait", "verify", "restore", "none"} /\ (place = "wait" => at = "recreate" /\ next = place)
      /\ (place = "verify" => at = "again" /\ next = place)
  BY <1>1, <1>3
<1>6. /\ cBox' = [cBox EXCEPT ![cHelper.s] = b] /\ cHelper' = [cHelper EXCEPT !.at = place]
      /\ cReq' = ReqDisturbed
  BY <1>3 DEF HelperBox
<1>7. BoxShapes(cBox') /\ cBox'[cHelper.s] = b
  BY <1>1, <1>2, <1>4, <1>6 DEF BoxShapes, ContainerShape, ComposeShapes
<1>8. /\ HelperShape(cHelper') /\ cHelper'.at = place /\ cHelper'.s = cHelper.s
      /\ cHelper'.img = cHelper.img /\ cHelper'.alone = cHelper.alone
  BY <1>1, <1>2, <1>5, <1>6, HelperPlace
<1>9. HelperWork(cHelper', cBox', cLocal)
  BY <1>1, <1>4, <1>5, <1>7, <1>8 DEF HelperWork, ComposeInv
<1>10. RequestShape(cReq') /\ UpdateWork(cReq', cMan, cBox', cLocal')
  BY <1>1, <1>6, DisturbedRequest DEF ComposeInv, ComposeShapes
<1> QED BY <1>1, <1>7, <1>8, <1>9, <1>10 DEF ComposeInv, ComposeShapes

(* What the helper finds ready is ready.                                   *)
LEMMA HelperCheckStep ==
    ASSUME ComposeInv, HelperWait \/ HelperVerify \/ HelperExit
    PROVE  ComposeInv'
<1>1. /\ HelperShape(cHelper) /\ HelperWork(cHelper, cBox, cLocal)
      /\ UNCHANGED <<cMan, cBox, cLocal, cRemote, cReq, cMark, cSteps>>
  BY DEF HelperWait, HelperVerify, HelperExit, ComposeInv, ComposeShapes
<1>2. HelperShape(cHelper') /\ HelperWork(cHelper', cBox, cLocal)
  <2>1. CASE cHelper' = NoHelper BY <2>1, NoHelperIdle
  <2>2. CASE HelperWait /\ cBox[cHelper.s].st = "run" /\ cHelper' = [cHelper EXCEPT !.at = "completed"]
    <3>1. cHelper.at = "wait" BY <2>2 DEF HelperWait
    <3>2. /\ HelperShape(cHelper') /\ cHelper'.at = "completed" /\ cHelper'.s = cHelper.s
          /\ cHelper'.img = cHelper.img /\ cHelper'.alone = cHelper.alone
      BY <1>1, <2>2, <3>1, HelperPlace
    <3> QED BY <1>1, <2>2, <3>1, <3>2 DEF HelperWork, Lively
  <2>3. CASE HelperWait /\ cHelper' = [cHelper EXCEPT !.at = "restore"]
    <3>1. cHelper.at = "wait" BY <2>3 DEF HelperWait
    <3>2. HelperShape(cHelper') /\ cHelper'.at = "restore"
      BY <1>1, <2>3, <3>1, HelperPlace
    <3> QED BY <3>2 DEF HelperWork
  <2>4. CASE HelperVerify /\ cBox[cHelper.s].st = "run" /\ cHelper' = [cHelper EXCEPT !.at = "restored"]
    <3>1. cHelper.at = "verify" BY <2>4 DEF HelperVerify
    <3>2. /\ HelperShape(cHelper') /\ cHelper'.at = "restored" /\ cHelper'.s = cHelper.s
          /\ cHelper'.img = cHelper.img /\ cHelper'.alone = cHelper.alone
      BY <1>1, <2>4, <3>1, HelperPlace
    <3> QED BY <1>1, <2>4, <3>1, <3>2 DEF HelperWork, Lively
  <2> QED BY <2>1, <2>2, <2>3, <2>4 DEF HelperWait, HelperVerify, HelperExit
<1> QED BY <1>1, <1>2 DEF ComposeInv, ComposeShapes

-----------------------------------------------------------------------------
(* Outside the lock.                                                       *)
LEMMA ManifestStep ==
    ASSUME ComposeInv, NEW s \in Services, EditManifest(s)
    PROVE  ComposeInv'
<1>1. PICK h \in {0, 2} : cMan[s] # h /\ cMan' = [cMan EXCEPT ![s] = h] BY DEF EditManifest
<1>2. /\ ComposeShapes /\ cMan \in [Services -> 0..2] /\ cReq \in RequestRecords
      /\ cSteps' \in 0..MaxComposeSteps /\ UNCHANGED <<cBox, cLocal, cRemote, cReq, cHelper, cMark>>
  BY ComposeActionsAssumption
  DEF EditManifest, ComposeAct, ComposeInv, ComposeShapes, RequestShape
<1>3. /\ cMan' \in [Services -> 0..2] /\ cMan'[s] = h
      /\ \A x \in Services : x # s => cMan'[x] = cMan[x]
  BY <1>1, <1>2
<1>4. UpdateWork(cReq, cMan', cBox, cLocal)
  <2> SUFFICES ASSUME cReq.at \in Planned
               PROVE  /\ PlanCovers(cReq) /\ WantKept(cReq, cMan')
                      /\ cReq.alone => WorkDone(cReq, cMan', cBox, cLocal)
    BY DEF UpdateWork
  <2>1. PlanCovers(cReq) /\ WantKept(cReq, cMan) /\ (cReq.alone => WorkDone(cReq, cMan, cBox, cLocal))
    BY DEF ComposeInv, UpdateWork
  <2>2. WantKept(cReq, cMan') BY <1>3, <2>1 DEF WantKept
  <2>3. ASSUME NEW x \in Services, cReq.want[x] # 0, Sound(cReq, cMan, cBox[x], x)
        PROVE  Sound(cReq, cMan', cBox[x], x)
    <3>1. CASE x # s BY <1>3, <2>3, <3>1 DEF Sound
    <3>2. CASE x = s
      <4>1. CASE cReq.want[s] = 2 BY <2>3, <3>2, <4>1 DEF Sound
      <4>2. CASE cReq.want[s] # 2 BY <1>3, <2>3, <3>2, <4>2 DEF Sound
      <4> QED BY <4>1, <4>2
    <3> QED BY <3>1, <3>2
  <2>4. \A group \in SUBSET Services :
          AllRun(cReq, cMan, cBox, cLocal, group) => AllRun(cReq, cMan', cBox, cLocal, group)
    BY <2>3 DEF AllRun, Runs
  <2>5. \A group \in SUBSET cReq.plan.images :
          AllFine(cReq, cMan, cBox, group) => AllFine(cReq, cMan', cBox, group)
    <3>1. \A x \in cReq.plan.images : x \in Services /\ cReq.want[x] # 0
      BY <1>2, <2>1 DEF PlanCovers, RequestRecords, Plans
    <3> QED BY <2>3, <3>1 DEF AllFine, Fine
  <2>6. /\ cReq.plan.compose \in SUBSET Services /\ cReq.plan.images \in SUBSET Services
    BY <1>2 DEF RequestRecords, Plans
  <2>7. ASSUME WorkDone(cReq, cMan, cBox, cLocal) PROVE WorkDone(cReq, cMan', cBox, cLocal)
    <3>1. CASE cReq.at \in {"up", "pull"} BY <2>4, <2>5, <2>6, <2>7, <3>1 DEF WorkDone
    <3>2. CASE cReq.at = "replace"
      <4>1. /\ cReq.left \subseteq cReq.plan.images
            /\ cReq.plan.compose \cup (cReq.plan.images \ cReq.left) \in SUBSET Services
        BY <2>6, <2>7, <3>2 DEF WorkDone
      <4> QED BY <2>4, <2>5, <2>7, <3>2, <4>1 DEF WorkDone
    <3>3. CASE cReq.at = "end"
      <4>1. cReq.plan.compose \cup cReq.plan.images \in SUBSET Services BY <2>6
      <4> QED BY <2>4, <2>7, <3>3, <4>1 DEF WorkDone
    <3> QED BY <3>1, <3>2, <3>3 DEF Planned
  <2> QED BY <2>1, <2>2, <2>7
<1> QED BY <1>2, <1>3, <1>4 DEF ComposeInv, ComposeShapes

LEMMA AroundStep ==
    ASSUME ComposeInv, NEW s \in Services,
           PushImage(s) \/ ContainerStop(s) \/ ContainerExits(s) \/ ComposeFileStatus
    PROVE  ComposeInv'
<1>1. CASE PushImage(s)
  <2>1. /\ cRemote' \in [Services -> 1..2] /\ cSteps' \in 0..MaxComposeSteps
        /\ UNCHANGED <<cMan, cBox, cLocal, cReq, cHelper, cMark>>
    BY <1>1, ComposeActionsAssumption DEF PushImage, ComposeAct, ComposeInv, ComposeShapes
  <2> QED BY <2>1 DEF ComposeInv, ComposeShapes
<1>2. CASE ContainerStop(s)
  <2> DEFINE b == [cBox[s] EXCEPT !.st = "exit"]
  <2>1. /\ ComposeShapes /\ HelperShape(cHelper) /\ cBox' = [cBox EXCEPT ![s] = b]
        /\ cReq' = ReqDisturbed /\ cHelper' = HelperDisturbed
        /\ cSteps' \in 0..MaxComposeSteps /\ UNCHANGED <<cMan, cLocal, cRemote, cMark>>
    BY <1>2, ComposeActionsAssumption DEF ContainerStop, ComposeAct, ComposeInv, ComposeShapes
  <2>2. ContainerShape(b) BY <1>2, <2>1, StatusBox DEF ContainerStop
  <2> HIDE DEF b
  <2>3. BoxShapes(cBox')
    BY <2>1, <2>2 DEF BoxShapes, ContainerShape, ComposeShapes
  <2>4. RequestShape(cReq') /\ UpdateWork(cReq', cMan, cBox', cLocal')
    BY <2>1, DisturbedRequest DEF ComposeInv, ComposeShapes
  <2>5. HelperShape(cHelper') /\ HelperWork(cHelper', cBox', cLocal) BY <2>1, DisturbedHelper
  <2> QED BY <2>1, <2>3, <2>4, <2>5 DEF ComposeInv, ComposeShapes
<1>3. CASE ComposeFileStatus
  <2>1. /\ cMark' \in 0..MaxComposeSteps
        /\ UNCHANGED <<cMan, cBox, cLocal, cRemote, cReq, cHelper, cSteps>>
    BY <1>3, ComposeActionsAssumption DEF ComposeFileStatus
  <2> QED BY <2>1 DEF ComposeInv, ComposeShapes
<1>4. CASE ContainerExits(s)
  <2> DEFINE b == [cBox[s] EXCEPT !.st = "quit"]
  <2>1. /\ ComposeShapes /\ cBox' = [cBox EXCEPT ![s] = b] /\ cBox[s].st = "run"
        /\ cSteps' \in 0..MaxComposeSteps /\ UNCHANGED <<cMan, cLocal, cRemote, cReq, cHelper, cMark>>
    BY <1>4, ComposeActionsAssumption DEF ContainerExits, ComposeAct, ComposeInv, ComposeShapes
  <2>2. ContainerShape(b) /\ b.st = "quit" /\ b.hash = cBox[s].hash /\ b.img = cBox[s].img
    BY <2>1, StatusBox
  <2> HIDE DEF b
  <2>3. BoxShapes(cBox') /\ cBox'[s] = b /\ \A x \in Services : x # s => cBox'[x] = cBox[x]
    BY <2>1, <2>2 DEF BoxShapes, ContainerShape, ComposeShapes
  <2>4. \A x \in Services : /\ cBox'[x].hash = cBox[x].hash /\ cBox'[x].img = cBox[x].img
                            /\ cBox[x].st \in Lively => cBox'[x].st \in Lively
                            /\ cBox[x].st = "none" => cBox'[x].st = "none"
    BY <2>1, <2>2, <2>3 DEF Lively
  <2>5. HelperWork(cHelper', cBox', cLocal')
    BY <2>1, <2>4 DEF HelperWork, ComposeInv, HelperShape, ComposeShapes
  <2>6. \A group \in SUBSET Services :
          /\ AllRun(cReq, cMan, cBox, cLocal, group) => AllRun(cReq, cMan, cBox', cLocal, group)
          /\ AllFine(cReq, cMan, cBox, group) => AllFine(cReq, cMan, cBox', group)
    BY <2>4 DEF AllRun, AllFine, Runs, Fine, Sound
  <2>7. /\ cReq.plan.compose \in SUBSET Services /\ cReq.plan.images \in SUBSET Services
        /\ cReq.left \in SUBSET Services
    BY <2>1 DEF ComposeShapes, RequestShape, RequestRecords, Plans
  <2>8. /\ cReq.plan.compose \cup cReq.plan.images \in SUBSET Services
        /\ cReq.plan.compose \cup (cReq.plan.images \ cReq.left) \in SUBSET Services
    BY <2>7
  <2>9. WorkDone(cReq, cMan, cBox, cLocal) => WorkDone(cReq, cMan, cBox', cLocal)
    BY <2>6, <2>7, <2>8 DEF WorkDone
  <2>10. UpdateWork(cReq', cMan', cBox', cLocal')
    BY <2>1, <2>9 DEF UpdateWork, ComposeInv
  <2> QED BY <2>1, <2>3, <2>5, <2>10 DEF ComposeInv, ComposeShapes
<1> QED BY <1>1, <1>2, <1>3, <1>4

LEMMA ComposeStarts == ComposeInit => ComposeInv
<1> SUFFICES ASSUME ComposeInit PROVE ComposeInv OBVIOUS
<1>1. BoxShapes(cBox)
  BY ComposeActionsAssumption
  DEF ComposeInit, BoxShapes, ContainerShape, ContainerRecords
<1>2. /\ RequestShape(cReq) /\ UpdateWork(cReq, cMan, cBox, cLocal)
      /\ HelperShape(cHelper) /\ HelperWork(cHelper, cBox, cLocal)
  BY NoActionIdle, NoHelperIdle DEF ComposeInit
<1>3. /\ cMan \in [Services -> 0..2] /\ cLocal \in [Services -> 1..2]
      /\ cRemote \in [Services -> 1..2]
      /\ cMark \in 0..MaxComposeSteps /\ cSteps \in 0..MaxComposeSteps
  BY ComposeActionsAssumption DEF ComposeInit
<1> QED BY <1>1, <1>2, <1>3 DEF ComposeInv, ComposeShapes

LEMMA ComposeNextKeeps == ComposeInv /\ [ComposeNext]_composeVars => ComposeInv'
<1> SUFFICES ASSUME ComposeInv, [ComposeNext]_composeVars PROVE ComposeInv' OBVIOUS
<1>1. CASE UNCHANGED composeVars
  BY <1>1 DEF composeVars, ComposeInv, ComposeShapes
<1>2. ASSUME NEW op \in {"up", "redeploy", "start", "restart", "stop", "down", "update"},
             NEW sel \in SUBSET Services, withComposeActionLock(op, sel)
      PROVE  ComposeInv'
  BY <1>2, LockStep
<1>3. ASSUME NEW done \in SUBSET Services,
             runCompose(done) \/ ComposeSelectiveUpdate(done) \/ runComposeImageUpdates(done)
      PROVE  ComposeInv'
  BY <1>3, CommandStep, SelectiveStep, PullStep
<1>4. CASE ComposeFileStatus
  <2>1. cMark' \in 0..MaxComposeSteps /\ UNCHANGED <<cMan, cBox, cLocal, cRemote, cReq, cHelper, cSteps>>
    BY <1>4, ComposeActionsAssumption DEF ComposeFileStatus
  <2> QED BY <2>1 DEF ComposeInv, ComposeShapes
<1>5. ASSUME NEW readable \in BOOLEAN, planComposeUpdate(readable) PROVE ComposeInv'
  BY <1>5, PlanStep
<1>6. ASSUME NEW s \in Services, NEW st \in {"updated", "rolled_back", "failed"},
             ForceUpdateContainer(s, st)
      PROVE  ComposeInv'
  BY <1>6, ForceStep
<1>7. CASE ComposeAnswer BY <1>7, AnswerStep
<1>8. ASSUME NEW s \in Services,
             \/ ProtectedContainerUpdate(s) \/ EditManifest(s) \/ PushImage(s)
             \/ ContainerStop(s) \/ ContainerExits(s)
      PROVE  ComposeInv'
  BY <1>8, LaunchStep, ManifestStep, AroundStep
<1>9. CASE HelperPull \/ HelperRestore BY <1>9, HelperTagStep
<1>10. CASE HelperRecreate("recreate", "wait") \/ HelperRecreate("again", "verify")
  BY <1>10, HelperRecreateStep
<1>11. CASE HelperWait \/ HelperVerify \/ HelperExit BY <1>11, HelperCheckStep
<1> QED
  BY <1>1, <1>2, <1>3, <1>4, <1>5, <1>6, <1>7, <1>8, <1>9, <1>10, <1>11 DEF ComposeNext

-----------------------------------------------------------------------------
LEMMA ComposeInvHonest == ComposeInv => ComposeHonest
<1> SUFFICES ASSUME ComposeInv PROVE ComposeHonest OBVIOUS
<1>1. HelperHonest BY DEF ComposeInv, HelperWork, HelperHonest, Lively
<1>2. UpdateReconciles
  <2> SUFFICES ASSUME cReq.at = "end", cReq.ok, cReq.alone, NEW s \in AskedServices(cReq),
                      cReq.want[s] # 0, cMan[s] = cReq.want[s]
               PROVE  /\ cBox[s].st \in Lively /\ cBox[s].hash = cMan[s]
                      /\ cBox[s].img = cLocal[s]
    BY DEF UpdateReconciles, Lively, AskedServices
  <2>1. PlanCovers(cReq) /\ WorkDone(cReq, cMan, cBox, cLocal)
    BY DEF ComposeInv, UpdateWork, Planned
  <2>2. s \in cReq.plan.compose \cup cReq.plan.images BY <2>1 DEF PlanCovers
  <2>3. Runs(cReq, cMan, cBox[s], cLocal[s], s) BY <2>1, <2>2 DEF WorkDone, AllRun
  <2> QED BY <2>3 DEF Runs, Sound
<1> QED BY <1>1, <1>2 DEF ComposeHonest

(* What an update reports is what the stack runs: a selective update that  *)
(* reports success leaves every service it was asked about with the image  *)
(* of its tag and the configuration that the manifest it read declares,    *)
(* running unless it exited by itself, and the protected-update helper's   *)
(* last line is so, unless somebody else acted on the containers meanwhile *)
(* (update_compose.go: ComposeSelectiveUpdate; protected_update.go).       *)
THEOREM ComposeIsHonest == ComposeSpec => []ComposeHonest
<1>1. ComposeInit => ComposeInv BY ComposeStarts
<1>2. ComposeInv /\ [ComposeNext]_composeVars => ComposeInv' BY ComposeNextKeeps
<1>3. ComposeInv => ComposeHonest BY ComposeInvHonest
<1> QED BY <1>1, <1>2, <1>3, PTL DEF ComposeSpec

(* The manifest, the containers, the images and the request keep their     *)
(* shapes (update_compose.go: composeUpdatePlan; protected_update.go).     *)
THEOREM ComposeTyped == ComposeSpec => []ComposeTypeOK
<1>1. ComposeInit => ComposeInv BY ComposeStarts
<1>2. ComposeInv /\ [ComposeNext]_composeVars => ComposeInv' BY ComposeNextKeeps
<1>3. ComposeInv => ComposeTypeOK
  BY DEF ComposeInv, ComposeShapes, BoxShapes, ContainerRecords, RequestShape, RequestRecords,
         ComposeTypeOK
<1> QED BY <1>1, <1>2, <1>3, PTL DEF ComposeSpec

-----------------------------------------------------------------------------
(***************************************************************************)
(* Image builds.  The log a job keeps is a contiguous part of its output   *)
(* that ends where the output ends; the job that has the turn is at one of *)
(* three places, and between removing the builder and creating it there is *)
(* none, unless the removal left one.                                      *)
(***************************************************************************)
BuildStatuses == {"none", "gone", "queued", "running", "succeeded", "failed", "canceled"}
BuildPlaces == {"none", "slot", "turn", "clean", "create", "build"}
BuildRecords == [status : BuildStatuses, at : BuildPlaces, log : Seq(Nat), base : Nat, total : Nat,
                 ended : BOOLEAN, caps : Nat]

LogPart(log, base, total) ==
    /\ base <= total /\ Len(log) = total - base /\ Len(log) <= LogLimit
    /\ \A x \in 1..Len(log) : log[x] = base + x - 1

LogKept(j) == LogPart(j.log, j.base, j.total)

JobSound(j) == j \in BuildRecords /\ LogKept(j) /\ (j.at # "none" => Pending(j))

JobsSound == bJob \in [BuildIds -> BuildRecords] /\ \A i \in BuildIds : JobSound(bJob[i])

TurnHeld ==
    /\ bCaps \in BuildCaps /\ bTurn \in BuildIds \cup {0} /\ bBuilder \in BuildCaps \cup {0}
    /\ bLeft \in BOOLEAN
    /\ \A i \in BuildIds :
         /\ bJob[i].at \in {"clean", "create"} => bTurn = i
         /\ bTurn = i => bJob[i].at \in {"clean", "create", "build"}
         /\ bJob[i].at = "create" /\ ~bLeft => bBuilder = 0
         /\ bTurn = i /\ bJob[i].at = "build" /\ ~bLeft => bBuilder = bJob[i].caps

ReaderFollows ==
    /\ bReader \in [id : BuildIds \cup {0}, next : Nat, gap : BOOLEAN] /\ ~bReader.gap
    /\ bReader.id = 0 => bReader.next = 0
    /\ bReader.id # 0 => /\ bJob[bReader.id].status # "none"
                         /\ bJob[bReader.id].status # "gone" =>
                              bReader.next <= bJob[bReader.id].total

BuildInv == JobsSound /\ TurnHeld /\ ReaderFollows /\ bSteps \in 0..MaxBuildSteps

LEMMA NoJobSound ==
    /\ JobSound(NoJob) /\ NoJob.status = "none" /\ NoJob.at = "none"
    /\ JobSound(Removed) /\ Removed.status = "gone" /\ Removed.at = "none"
<1>1. NoJob \in BuildRecords /\ Removed \in BuildRecords
  <2>1. <<>> \in Seq(Nat) OBVIOUS
  <2>2. NoJob \in BuildRecords BY <2>1 DEF NoJob, BuildRecords, BuildStatuses, BuildPlaces
  <2> QED BY <2>2 DEF Removed, BuildRecords, BuildStatuses
<1>2. /\ NoJob.log = <<>> /\ NoJob.base = 0 /\ NoJob.total = 0 /\ NoJob.at = "none"
      /\ NoJob.status = "none"
  BY DEF NoJob
<1>3. /\ Removed.log = <<>> /\ Removed.base = 0 /\ Removed.total = 0 /\ Removed.at = "none"
      /\ Removed.status = "gone"
  BY DEF NoJob, Removed
<1>4. LogPart(<<>>, 0, 0) BY BuildJobsAssumption DEF LogPart
<1>5. LogKept(NoJob) /\ LogKept(Removed) BY <1>2, <1>3, <1>4 DEF LogKept
<1> QED BY <1>1, <1>2, <1>3, <1>5 DEF JobSound

LEMMA BuildStarts == BuildInit => BuildInv
<1> SUFFICES ASSUME BuildInit PROVE BuildInv OBVIOUS
<1>1. JobsSound /\ \A i \in BuildIds : bJob[i] = NoJob
  BY NoJobSound DEF BuildInit, JobsSound, JobSound
<1>2. TurnHeld BY <1>1, NoJobSound, BuildJobsAssumption DEF BuildInit, TurnHeld
<1>3. ReaderFollows BY DEF BuildInit, ReaderFollows, NoReader
<1> QED BY <1>1, <1>2, <1>3, BuildJobsAssumption DEF BuildInv, BuildInit
-----------------------------------------------------------------------------
(* The log.                                                                *)

(* A write of more than the log keeps.                                     *)
LEMMA NewLog ==
    ASSUME NEW total \in Nat, NEW n \in Nat, n >= LogLimit,
           NEW log, log = [x \in 1..LogLimit |-> total + n - LogLimit + x - 1]
    PROVE  log \in Seq(Nat) /\ LogPart(log, total + n - LogLimit, total + n)
<1>1. LogLimit \in Nat \ {0} BY BuildJobsAssumption
<1> DEFINE base == total + n - LogLimit
<1>2. base \in Nat /\ base <= total + n /\ total + n - base = LogLimit BY <1>1
<1>3. log = [x \in 1..LogLimit |-> base + x - 1] OBVIOUS
<1> HIDE DEF base
<1>4. \A x \in 1..LogLimit : base + x - 1 \in Nat BY <1>1, <1>2
<1>5. log \in Seq(Nat) /\ Len(log) = LogLimit BY <1>1, <1>3, <1>4
<1>6. LogPart(log, base, total + n) BY <1>1, <1>2, <1>3, <1>5 DEF LogPart
<1> QED BY <1>5, <1>6 DEF base

(* The rest of a sequence after its first k elements.                      *)
LEMMA RestOfSequence ==
    ASSUME NEW s \in Seq(Nat), NEW k \in Nat, k <= Len(s),
           NEW t, t = SubSeq(s, k + 1, Len(s))
    PROVE  /\ t \in Seq(Nat) /\ Len(t) = Len(s) - k
           /\ \A x \in 1..Len(s) - k : t[x] = s[k + x]
<1> DEFINE m == k + 1  l == Len(s)
<1>1. l \in Nat /\ m \in Int /\ l \in Int OBVIOUS
<1>2. \A i \in m..l : s[i] \in Nat BY <1>1
<1>3. t = SubSeq(s, m, l) OBVIOUS
<1>4. k <= l OBVIOUS
<1>5. m = k + 1 OBVIOUS
<1> HIDE DEF m, l
<1>6. /\ t \in Seq(Nat) /\ Len(t) = IF m <= l THEN l - m + 1 ELSE 0
      /\ \A x \in 1..l - m + 1 : t[x] = s[m + x - 1]
  <2>1. /\ SubSeq(s, m, l) \in Seq(Nat)
        /\ Len(SubSeq(s, m, l)) = IF m <= l THEN l - m + 1 ELSE 0
        /\ \A x \in 1..l - m + 1 : SubSeq(s, m, l)[x] = s[m + x - 1]
    BY <1>1, <1>2, SubSeqProperties
  <2> QED BY <1>3, <2>1
<1>7. Len(t) = l - k BY <1>1, <1>4, <1>5, <1>6
<1>8. ASSUME NEW x \in 1..l - k PROVE t[x] = s[k + x]
  <2>1. x \in 1..l - m + 1 /\ m + x - 1 = k + x BY <1>1, <1>5
  <2> QED BY <1>6, <2>1
<1> QED BY <1>6, <1>7, <1>8 DEF l

(* A write of less: the oldest bytes make room.                            *)
LEMMA MovedLog ==
    ASSUME NEW old \in Seq(Nat), NEW base \in Nat, NEW total \in Nat, LogPart(old, base, total),
           NEW n \in Nat, NEW over \in Nat, over <= Len(old), Len(old) - over + n <= LogLimit,
           NEW log, log = SubSeq(old, over + 1, Len(old)) \o [x \in 1..n |-> total + x - 1]
    PROVE  log \in Seq(Nat) /\ LogPart(log, base + over, total + n)
<1> DEFINE kept == SubSeq(old, over + 1, Len(old))
           more == [x \in 1..n |-> total + x - 1]
           k == Len(old) - over
<1>1. LogLimit \in Nat \ {0} /\ Len(old) \in Nat /\ Len(old) = total - base /\ base <= total
  BY BuildJobsAssumption DEF LogPart
<1>2. k \in Nat /\ (Len(old) - (over + 1)) + 1 = k BY <1>1
<1>3. /\ kept \in Seq(Nat) /\ Len(kept) = k
      /\ \A x \in 1..k : kept[x] = old[over + x]
  BY RestOfSequence
<1>4. \A x \in 1..n : more[x] = total + x - 1 /\ total + x - 1 \in Nat OBVIOUS
<1>5. more \in Seq(Nat) /\ Len(more) = n BY <1>4
<1>6. log = kept \o more OBVIOUS
<1> HIDE DEF kept, more, k
<1>7. /\ log \in Seq(Nat) /\ Len(log) = k + n
      /\ \A x \in 1..k + n : log[x] = IF x <= k THEN kept[x] ELSE more[x - k]
  <2>1. kept \in Seq(Nat) /\ more \in Seq(Nat) BY <1>3, <1>5
  <2>2. /\ kept \o more \in Seq(Nat) /\ Len(kept \o more) = Len(kept) + Len(more)
        /\ \A x \in 1..Len(kept) + Len(more) : (kept \o more)[x] =
             IF x <= Len(kept) THEN kept[x] ELSE more[x - Len(kept)]
    BY <2>1, ConcatProperties
  <2> QED BY <1>3, <1>5, <1>6, <2>2
<1>8. ASSUME NEW x \in 1..Len(log) PROVE log[x] = (base + over) + x - 1
  <2>1. x \in 1..k + n BY <1>7
  <2>2. CASE x <= k
    <3>1. log[x] = old[over + x] /\ over + x \in 1..Len(old)
      <4>1. x \in 1..k BY <1>2, <2>1, <2>2
      <4>2. log[x] = kept[x] BY <1>7, <2>1, <2>2
      <4> QED BY <1>1, <1>3, <4>1, <4>2 DEF k
    <3>2. old[over + x] = base + (over + x) - 1 BY <3>1 DEF LogPart
    <3> QED BY <1>2, <2>1, <3>1, <3>2
  <2>3. CASE ~(x <= k)
    <3>1. x - k \in 1..n BY <1>2, <2>1, <2>3
    <3>2. log[x] = more[x - k] BY <1>7, <2>1, <2>3
    <3>3. log[x] = total + (x - k) - 1 BY <1>4, <3>1, <3>2
    <3>4. total - k = base + over BY <1>1 DEF k
    <3> QED BY <1>2, <2>1, <3>3, <3>4
  <2> QED BY <2>2, <2>3
<1>9. base + over <= total + n /\ Len(log) = (total + n) - (base + over) /\ Len(log) <= LogLimit
  BY <1>1, <1>7 DEF k
<1> QED BY <1>7, <1>8, <1>9 DEF LogPart

(* A write keeps the log contiguous and touches nothing else of the job.   *)
LEMMA WriteKeepsLog ==
    ASSUME NEW j \in BuildRecords, LogKept(j), NEW n \in Nat,
           NEW w, w = dockerBuildJobWrite(j, n)
    PROVE  /\ w \in BuildRecords /\ LogKept(w) /\ w.total >= j.total
           /\ w.status = j.status /\ w.at = j.at /\ w.ended = j.ended /\ w.caps = j.caps
<1>1. LogLimit \in Nat \ {0} /\ j.total \in Nat /\ j.base \in Nat /\ j.log \in Seq(Nat)
      /\ Len(j.log) \in Nat
  BY BuildJobsAssumption DEF BuildRecords
<1>2. j.total + n \in Nat /\ j.total + n >= j.total BY <1>1
<1>3. ASSUME NEW log \in Seq(Nat), NEW base \in Nat, LogPart(log, base, j.total + n),
             w = [j EXCEPT !.total = j.total + n, !.base = base, !.log = log]
      PROVE  /\ w \in BuildRecords /\ LogKept(w) /\ w.total >= j.total
             /\ w.status = j.status /\ w.at = j.at /\ w.ended = j.ended /\ w.caps = j.caps
  <2> DEFINE t == j.total + n
  <2>1. t \in Nat /\ w = [j EXCEPT !.total = t, !.base = base, !.log = log] BY <1>2, <1>3
  <2>2. LogPart(log, base, t) /\ t >= j.total BY <1>2, <1>3
  <2> HIDE DEF t
  <2>3. /\ w \in BuildRecords /\ w.total = t /\ w.base = base /\ w.log = log
        /\ w.status = j.status /\ w.at = j.at /\ w.ended = j.ended /\ w.caps = j.caps
    BY <2>1 DEF BuildRecords
  <2> QED BY <2>2, <2>3 DEF LogKept
<1>4. CASE n >= LogLimit
  <2> DEFINE log == [x \in 1..LogLimit |-> j.total + n - LogLimit + x - 1]
             base == j.total + n - LogLimit
  <2>1. log \in Seq(Nat) /\ LogPart(log, base, j.total + n) BY <1>1, <1>4, NewLog
  <2>2. w = [j EXCEPT !.total = j.total + n, !.base = base, !.log = log]
    BY <1>4 DEF dockerBuildJobWrite
  <2>3. base \in Nat BY <1>1, <1>4
  <2> HIDE DEF log, base
  <2> QED BY <1>3, <2>1, <2>2, <2>3
<1>5. CASE ~(n >= LogLimit)
  <2> DEFINE over == IF Len(j.log) + n > LogLimit THEN Len(j.log) + n - LogLimit ELSE 0
             log == SubSeq(j.log, over + 1, Len(j.log)) \o [x \in 1..n |-> j.total + x - 1]
  <2>1. over \in Nat /\ over <= Len(j.log) /\ Len(j.log) - over + n <= LogLimit
    BY <1>1, <1>5
  <2>2. w = [j EXCEPT !.total = j.total + n, !.base = j.base + over, !.log = log]
    BY <1>5 DEF dockerBuildJobWrite
  <2> HIDE DEF over
  <2>3. log \in Seq(Nat) /\ LogPart(log, j.base + over, j.total + n)
    BY <1>1, <2>1, MovedLog DEF LogKept
  <2>4. j.base + over \in Nat BY <1>1, <2>1
  <2> HIDE DEF log
  <2> QED BY <1>3, <2>2, <2>3, <2>4
<1> QED BY <1>4, <1>5

FirstOffset(log, total) == IF log = <<>> THEN total ELSE Head(log)

(* A log read from an offset it still has begins there.                    *)
LEMMA ReadLog ==
    ASSUME NEW old \in Seq(Nat), NEW base \in Nat, NEW total \in Nat, LogPart(old, base, total),
           NEW after \in base..total
    PROVE  FirstOffset(SubSeq(old, after - base + 1, Len(old)), total) = after
<1> DEFINE skip == after - base  log == SubSeq(old, after - base + 1, Len(old))
<1>1. Len(old) \in Nat /\ Len(old) = total - base /\ base <= total BY DEF LogPart
<1>2. skip \in Nat /\ skip <= Len(old) /\ base + skip = after BY <1>1
<1>3. log = SubSeq(old, skip + 1, Len(old)) OBVIOUS
<1>0. FirstOffset(SubSeq(old, after - base + 1, Len(old)), total) = FirstOffset(log, total)
  OBVIOUS
<1> HIDE DEF skip, log
<1>4. /\ log \in Seq(Nat) /\ Len(log) = Len(old) - skip
      /\ \A x \in 1..Len(old) - skip : log[x] = old[skip + x]
  BY <1>2, <1>3, RestOfSequence
<1>5. ASSUME skip = Len(old) PROVE FirstOffset(log, total) = after
  <2>1. after = total BY <1>1, <1>2, <1>5
  <2>2. Len(log) = 0 BY <1>1, <1>4, <1>5
  <2>3. log = <<>> BY <1>4, <2>2, EmptySeq
  <2> QED BY <2>1, <2>3 DEF FirstOffset
<1>6. ASSUME skip # Len(old) PROVE FirstOffset(log, total) = after
  <2>1. skip + 1 \in 1..Len(old) /\ Len(log) > 0 /\ 1 \in 1..Len(old) - skip
    BY <1>1, <1>2, <1>4, <1>6
  <2>2. log # <<>>
    <3>1. CASE log = <<>>
      <4>1. Len(log) = 0 BY <3>1, EmptySeq
      <4> QED BY <2>1, <4>1
    <3> QED BY <3>1
  <2>3. Head(log) = log[1] BY <1>4, <2>2
  <2>4. log[1] = old[skip + 1] BY <1>4, <2>1
  <2>5. old[skip + 1] = base + (skip + 1) - 1 BY <2>1 DEF LogPart
  <2>6. base + (skip + 1) - 1 = after BY <1>2
  <2>7. Head(log) = after BY <2>3, <2>4, <2>5, <2>6
  <2> QED BY <2>2, <2>7 DEF FirstOffset
<1> QED BY <1>0, <1>5, <1>6

LEMMA SnapshotIs ==
    ASSUME NEW j \in BuildRecords, LogKept(j), NEW after \in Nat, after <= j.total,
           NEW got, got = snapshot(j, after)
    PROVE  /\ got.next = j.total /\ got.truncated = (after < j.base)
           /\ ~(after < j.base) => FirstOffset(got.log, got.next) = after
<1>1. j.total \in Nat /\ j.base \in Nat /\ j.log \in Seq(Nat) BY DEF BuildRecords
<1>2. LogPart(j.log, j.base, j.total) BY DEF LogKept
<1>3. got.next = j.total /\ got.truncated = (after < j.base) BY DEF snapshot
<1>4. ASSUME ~(after < j.base)
      PROVE  FirstOffset(got.log, got.next) = after
  <2>1. after \in j.base..j.total BY <1>1, <1>4
  <2>2. ~(after > j.total) BY <1>1
  <2>3. got.log = SubSeq(j.log, after - j.base + 1, Len(j.log)) BY <1>4, <2>2 DEF snapshot
  <2>4. FirstOffset(got.log, j.total) = after
    <3> DEFINE old == j.log  base == j.base  total == j.total  log == got.log
    <3>1. old \in Seq(Nat) /\ base \in Nat /\ total \in Nat /\ LogPart(old, base, total)
          /\ after \in base..total /\ log = SubSeq(old, after - base + 1, Len(old))
      BY <1>1, <1>2, <2>1, <2>3
    <3> HIDE DEF old, base, total, log
    <3>2. FirstOffset(SubSeq(old, after - base + 1, Len(old)), total) = after BY <3>1, ReadLog
    <3> QED BY <3>1, <3>2 DEF log, total
  <2> QED BY <1>3, <2>4
<1> QED BY <1>3, <1>4

-----------------------------------------------------------------------------
(* One job changes.                                                        *)
LEMMA JobChanges ==
    ASSUME JobsSound, NEW i \in BuildIds, NEW j, JobSound(j), bJob' = [bJob EXCEPT ![i] = j]
    PROVE  /\ JobsSound' /\ bJob'[i] = j
           /\ \A k \in BuildIds : k # i => bJob'[k] = bJob[k]
BY DEF JobsSound, JobSound

(* A browser keeps its offset while the jobs go on.                        *)
LEMMA ReaderStays ==
    ASSUME JobsSound, JobsSound', ReaderFollows, UNCHANGED bReader,
           \A k \in BuildIds : bJob[k].status # "none" =>
             /\ bJob'[k].status # "none"
             /\ bJob'[k].status # "gone" => /\ bJob[k].status # "gone"
                                            /\ bJob'[k].total >= bJob[k].total
    PROVE  ReaderFollows'
<1>1. \A k \in BuildIds : bJob[k].total \in Nat /\ bJob'[k].total \in Nat
  BY DEF JobsSound, BuildRecords
<1>2. bReader.next \in Nat /\ bReader.id \in BuildIds \cup {0} BY DEF ReaderFollows
<1>3. ASSUME bReader.id # 0
      PROVE  /\ bJob'[bReader.id].status # "none"
             /\ bJob'[bReader.id].status # "gone" => bReader.next <= bJob'[bReader.id].total
  <2>1. bReader.id \in BuildIds /\ bJob[bReader.id].status # "none"
    BY <1>2, <1>3 DEF ReaderFollows
  <2>2. ASSUME bJob'[bReader.id].status # "gone"
        PROVE  bReader.next <= bJob'[bReader.id].total
    <3>1. /\ bReader.next <= bJob[bReader.id].total
          /\ bJob'[bReader.id].total >= bJob[bReader.id].total
      BY <1>3, <2>1, <2>2 DEF ReaderFollows
    <3> QED BY <1>1, <1>2, <2>1, <3>1
  <2> QED BY <2>1, <2>2
<1> QED BY <1>3 DEF ReaderFollows

(* What one job may do to itself without disturbing a browser.             *)
GoesOn(j, k) == k.status \notin {"none", "gone"} /\ k.total >= j.total

LEMMA OneJobGoesOn ==
    ASSUME JobsSound, ReaderFollows, UNCHANGED bReader, NEW i \in BuildIds, NEW j, JobSound(j),
           bJob[i].status # "gone",
           GoesOn(bJob[i], j), bJob' = [bJob EXCEPT ![i] = j]
    PROVE  /\ JobsSound' /\ ReaderFollows' /\ bJob'[i] = j
           /\ \A k \in BuildIds : k # i => bJob'[k] = bJob[k]
<1>1. JobsSound' /\ bJob'[i] = j /\ \A k \in BuildIds : k # i => bJob'[k] = bJob[k]
  BY JobChanges
<1>2. \A k \in BuildIds : bJob[k].total \in Nat BY DEF JobsSound, BuildRecords
<1>3. \A k \in BuildIds : bJob[k].status # "none" =>
             /\ bJob'[k].status # "none"
             /\ bJob'[k].status # "gone" => /\ bJob[k].status # "gone"
                                            /\ bJob'[k].total >= bJob[k].total
  <2> SUFFICES ASSUME NEW k \in BuildIds, bJob[k].status # "none"
               PROVE  /\ bJob'[k].status # "none"
                      /\ bJob'[k].status # "gone" => /\ bJob[k].status # "gone"
                                                     /\ bJob'[k].total >= bJob[k].total
    OBVIOUS
  <2>1. CASE k = i BY <1>1, <2>1 DEF GoesOn
  <2>2. CASE k # i BY <1>1, <1>2, <2>2
  <2> QED BY <2>1, <2>2
<1> QED BY <1>1, <1>3, ReaderStays

(* A job in progress is in the table, and a step of its fields leaves its  *)
(* log as it is.                                                           *)
LEMMA InProgress ==
    ASSUME JobsSound, NEW i \in BuildIds, bJob[i].at # "none"
    PROVE  /\ bJob[i] \in BuildRecords /\ LogKept(bJob[i]) /\ bJob[i].total \in Nat
           /\ bJob[i].status \in {"queued", "running"}
BY DEF JobsSound, JobSound, Pending, BuildRecords

LEMMA CompleteIs ==
    ASSUME JobsSound, NEW i \in BuildIds, bJob[i].at # "none",
           NEW status \in {"succeeded", "failed", "canceled"},
           NEW j, j = [dockerBuildJobWrite(bJob[i], 1) EXCEPT !.status = status, !.at = "none"]
    PROVE  JobSound(j) /\ GoesOn(bJob[i], j) /\ j.at = "none"
<1> DEFINE w == dockerBuildJobWrite(bJob[i], 1)
<1>1. w \in BuildRecords /\ LogKept(w) /\ w.total >= bJob[i].total
  BY InProgress, WriteKeepsLog
<1>2. j = [w EXCEPT !.status = status, !.at = "none"] OBVIOUS
<1> HIDE DEF w
<1>3. /\ j \in BuildRecords /\ j.status = status /\ j.at = "none" /\ j.log = w.log
      /\ j.base = w.base /\ j.total = w.total
  BY <1>1, <1>2 DEF BuildRecords, BuildStatuses, BuildPlaces
<1> QED BY <1>1, <1>3 DEF JobSound, LogKept, GoesOn

LEMMA CompleteStep ==
    ASSUME JobsSound, ReaderFollows, UNCHANGED bReader, NEW i \in BuildIds, bJob[i].at # "none",
           NEW status \in {"succeeded", "failed", "canceled"}, complete(i, status)
    PROVE  /\ JobsSound' /\ ReaderFollows' /\ bJob'[i].at = "none"
           /\ \A k \in BuildIds : k # i => bJob'[k] = bJob[k]
<1> DEFINE j == [dockerBuildJobWrite(bJob[i], 1) EXCEPT !.status = status, !.at = "none"]
<1>1. JobSound(j) /\ GoesOn(bJob[i], j) /\ j.at = "none" BY CompleteIs
<1>2. bJob' = [bJob EXCEPT ![i] = j] BY DEF complete, JobsSound
<1> HIDE DEF j
<1> QED BY <1>1, <1>2, InProgress, OneJobGoesOn

LEMMA PlaceStep ==
    ASSUME JobsSound, ReaderFollows, UNCHANGED bReader, NEW i \in BuildIds, bJob[i].at # "none",
           NEW at \in BuildPlaces, NEW caps \in Nat, NEW status \in {"queued", "running"},
           bJob' = [bJob EXCEPT ![i] = [bJob[i] EXCEPT !.at = at, !.caps = caps,
                                                       !.status = status]]
    PROVE  /\ JobsSound' /\ ReaderFollows' /\ bJob'[i].at = at /\ bJob'[i].caps = caps
           /\ \A k \in BuildIds : k # i => bJob'[k] = bJob[k]
<1> DEFINE j == [bJob[i] EXCEPT !.at = at, !.caps = caps, !.status = status]
<1>1. /\ j \in BuildRecords /\ j.at = at /\ j.caps = caps /\ j.status = status
      /\ j.log = bJob[i].log /\ j.base = bJob[i].base /\ j.total = bJob[i].total
  BY InProgress DEF BuildRecords, BuildStatuses
<1>2. bJob' = [bJob EXCEPT ![i] = j] OBVIOUS
<1> HIDE DEF j
<1>3. LogKept(j) BY <1>1, InProgress DEF LogKept
<1>4. JobSound(j) /\ GoesOn(bJob[i], j)
  BY <1>1, <1>3, InProgress DEF JobSound, GoesOn, Pending
<1> QED BY <1>1, <1>2, <1>4, InProgress, OneJobGoesOn

-----------------------------------------------------------------------------
(* The actions.                                                            *)
LEMMA BuildStartStep ==
    ASSUME BuildInv, NEW i \in BuildIds, BuildStart(i)
    PROVE  BuildInv'
<1> DEFINE pruned == pruneJobs(bJob)
           new == [NoJob EXCEPT !.status = "queued", !.at = "slot"]
<1>1. JobsSound /\ TurnHeld /\ ReaderFollows BY DEF BuildInv
<1>2. /\ bJob[i].status = "none" /\ bJob' = [pruned EXCEPT ![i] = new]
      /\ bSteps' \in 0..MaxBuildSteps /\ UNCHANGED <<bCaps, bTurn, bBuilder, bLeft, bReader>>
  BY BuildJobsAssumption DEF BuildStart, BuildAct, BuildInv
<1>3. \A k \in BuildIds : pruned[k] = bJob[k] \/ (pruned[k] = Removed /\ ~Pending(bJob[k]) /\
                                                  bJob[k].status # "none")
  BY DEF pruneJobs, InTable
<1>4. /\ JobSound(new) /\ new.status = "queued" /\ new.at = "slot" /\ new \in BuildRecords
      /\ new.total = 0
  <2>1. NoJob \in BuildRecords /\ LogKept(NoJob) BY NoJobSound DEF JobSound
  <2>2. /\ new \in BuildRecords /\ new.status = "queued" /\ new.at = "slot"
        /\ new.log = NoJob.log /\ new.base = NoJob.base /\ new.total = NoJob.total
        /\ NoJob.total = 0
    BY <2>1 DEF BuildRecords, BuildStatuses, BuildPlaces, NoJob
  <2> HIDE DEF new
  <2> QED BY <2>1, <2>2 DEF JobSound, LogKept, Pending
<1>5. DOMAIN pruned = BuildIds /\ pruned = [k \in BuildIds |-> pruned[k]] BY DEF pruneJobs
<1> HIDE DEF new, pruned
<1>6. /\ bJob' \in [BuildIds -> BuildRecords] /\ bJob'[i] = new
      /\ \A k \in BuildIds : k # i =>
           bJob'[k] = bJob[k] \/ (bJob'[k] = Removed /\ ~Pending(bJob[k]) /\
                                  bJob[k].status # "none")
  <2>1. pruned \in [BuildIds -> BuildRecords]
    BY <1>1, <1>3, <1>5, NoJobSound DEF JobsSound, JobSound
  <2> QED BY <1>2, <1>3, <1>4, <2>1
<1>7. JobsSound' BY <1>1, <1>4, <1>6, NoJobSound DEF JobsSound
<1>8. TurnHeld'
  <2>1. \A k \in BuildIds : bJob[k].at # "none" => Pending(bJob[k])
    BY <1>1 DEF JobsSound, JobSound
  <2>2. bJob[i].at = "none" BY <1>2, <2>1 DEF Pending
  <2>3. \A k \in BuildIds : \/ bJob'[k] = bJob[k]
                            \/ bJob[k].at = "none" /\ bJob'[k].at \in {"none", "slot"}
    BY <1>4, <1>6, <2>1, <2>2, NoJobSound
  <2> QED BY <1>1, <1>2, <2>3 DEF TurnHeld
<1>9. ReaderFollows'
  <2>1. \A k \in BuildIds : bJob[k].total \in Nat BY <1>1 DEF JobsSound, BuildRecords
  <2>2. \A k \in BuildIds : bJob[k].status # "none" =>
             /\ bJob'[k].status # "none"
             /\ bJob'[k].status # "gone" => /\ bJob[k].status # "gone"
                                            /\ bJob'[k].total >= bJob[k].total
    <3> SUFFICES ASSUME NEW k \in BuildIds, bJob[k].status # "none"
                 PROVE  /\ bJob'[k].status # "none"
                        /\ bJob'[k].status # "gone" => /\ bJob[k].status # "gone"
                                                       /\ bJob'[k].total >= bJob[k].total
      OBVIOUS
    <3>1. k # i BY <1>2
    <3>2. CASE bJob'[k] = bJob[k] BY <2>1, <3>2
    <3>3. CASE bJob'[k] = Removed BY <3>3, NoJobSound
    <3> QED BY <1>6, <3>1, <3>2, <3>3
  <2> QED BY <1>1, <1>2, <1>7, <2>2, ReaderStays
<1> QED BY <1>2, <1>7, <1>8, <1>9 DEF BuildInv

LEMMA BuildAsideStep ==
    ASSUME BuildInv, NEW i \in BuildIds, Expire(i) \/ BuildCancel(i)
    PROVE  BuildInv'
<1>1. JobsSound /\ TurnHeld /\ ReaderFollows BY DEF BuildInv
<1>2. bSteps' \in 0..MaxBuildSteps /\ UNCHANGED <<bCaps, bTurn, bBuilder, bLeft, bReader>>
  BY BuildJobsAssumption DEF Expire, BuildCancel, BuildAct, BuildInv
<1>3. bJob[i] \in BuildRecords /\ LogKept(bJob[i]) /\ (bJob[i].at # "none" => Pending(bJob[i]))
  BY <1>1 DEF JobsSound, JobSound
<1>4. CASE Expire(i)
  <2>1. bJob' = [bJob EXCEPT ![i] = Removed] /\ ~Pending(bJob[i]) /\ bJob[i].status # "none"
    BY <1>4 DEF Expire, Known, InTable
  <2>2. JobsSound' /\ bJob'[i] = Removed /\ \A k \in BuildIds : k # i => bJob'[k] = bJob[k]
    BY <1>1, <2>1, NoJobSound, JobChanges
  <2>3. bJob[i].at = "none" BY <1>3, <2>1
  <2>4. TurnHeld' BY <1>1, <1>2, <2>2, <2>3, NoJobSound DEF TurnHeld
  <2>5. \A k \in BuildIds : bJob[k].total \in Nat BY <1>1 DEF JobsSound, BuildRecords
  <2>6. ReaderFollows'
    <3>1. ASSUME NEW k \in BuildIds, bJob[k].status # "none"
          PROVE  /\ bJob'[k].status # "none"
                 /\ bJob'[k].status # "gone" => /\ bJob[k].status # "gone"
                                                /\ bJob'[k].total >= bJob[k].total
      <4>1. CASE k = i BY <2>2, <4>1, NoJobSound
      <4>2. CASE k # i BY <2>2, <2>5, <3>1, <4>2
      <4> QED BY <4>1, <4>2
    <3> QED BY <1>1, <1>2, <2>2, <3>1, ReaderStays
  <2> QED BY <1>2, <2>2, <2>4, <2>6 DEF BuildInv
<1>5. CASE BuildCancel(i)
  <2> DEFINE j == [bJob[i] EXCEPT !.ended = TRUE]
  <2>1. bJob' = [bJob EXCEPT ![i] = j] /\ Pending(bJob[i]) BY <1>5 DEF BuildCancel
  <2>2. /\ j \in BuildRecords /\ j.log = bJob[i].log /\ j.base = bJob[i].base
        /\ j.total = bJob[i].total /\ j.at = bJob[i].at /\ j.status = bJob[i].status
        /\ j.caps = bJob[i].caps /\ bJob[i].total \in Nat
    BY <1>3 DEF BuildRecords
  <2> HIDE DEF j
  <2>3. JobSound(j) /\ GoesOn(bJob[i], j) /\ bJob[i].status # "gone"
    BY <1>3, <2>1, <2>2 DEF JobSound, LogKept, Pending, GoesOn
  <2>4. JobsSound' /\ ReaderFollows' /\ bJob'[i] = j
        /\ \A k \in BuildIds : k # i => bJob'[k] = bJob[k]
    BY <1>1, <1>2, <2>1, <2>3, OneJobGoesOn
  <2>5. \A k \in BuildIds : bJob'[k].at = bJob[k].at /\ bJob'[k].caps = bJob[k].caps
    BY <2>2, <2>4
  <2>6. TurnHeld' BY <1>1, <1>2, <2>5 DEF TurnHeld
  <2> QED BY <1>2, <2>4, <2>6 DEF BuildInv
<1> QED BY <1>4, <1>5

LEMMA BuildPlaces1 ==
    ASSUME BuildInv, NEW i \in BuildIds,
           \/ BuildRun(i) \/ acquireLimitedBuild(i) \/ withLimitedBuilder(i)
           \/ \E failed \in BOOLEAN : RemoveStale(i, failed)
    PROVE  BuildInv'
<1>1. JobsSound /\ TurnHeld /\ ReaderFollows BY DEF BuildInv
<1>2. UNCHANGED <<bCaps, bReader, bSteps>> /\ bSteps' \in 0..MaxBuildSteps
      /\ bJob[i].at \in {"slot", "turn", "clean", "create"}
  BY DEF BuildRun, acquireLimitedBuild, RemoveStale, withLimitedBuilder, BuildInv
<1>3. bJob[i] \in BuildRecords /\ bJob[i].caps \in Nat /\ bCaps \in Nat
      /\ bJob[i].status \in {"queued", "running"} /\ bCaps \in BuildCaps
      /\ bJob[i].at # "none" /\ i # 0 /\ 0 \notin BuildIds
  BY <1>1, <1>2, InProgress, BuildJobsAssumption DEF BuildRecords, TurnHeld
<1>4. ASSUME NEW status \in {"succeeded", "failed", "canceled"}, complete(i, status),
             bTurn' = (IF bTurn = i THEN 0 ELSE bTurn), UNCHANGED bLeft,
             bBuilder' \in BuildCaps \cup {0},
             UNCHANGED bBuilder \/ bTurn = i
      PROVE  BuildInv'
  <2>1. /\ JobsSound' /\ ReaderFollows' /\ bJob'[i].at = "none"
        /\ \A k \in BuildIds : k # i => bJob'[k] = bJob[k]
    BY <1>1, <1>2, <1>3, <1>4, CompleteStep
  <2>2. TurnHeld' BY <1>1, <1>2, <1>3, <1>4, <2>1 DEF TurnHeld
  <2> QED BY <1>2, <2>1, <2>2 DEF BuildInv
<1>5. CASE BuildRun(i)
  <2>1. bJob[i].at = "slot" /\ UNCHANGED <<bTurn, bBuilder, bLeft>> /\ bTurn # i
    BY <1>1, <1>5 DEF BuildRun, TurnHeld
  <2>2. CASE bJob' = [bJob EXCEPT ![i].status = "running",
                                  ![i].at = IF bCaps = 0 THEN "build" ELSE "turn"]
    <3> DEFINE at == IF bCaps = 0 THEN "build" ELSE "turn"
    <3>1. bJob' = [bJob EXCEPT ![i] = [bJob[i] EXCEPT !.at = at, !.caps = bJob[i].caps,
                                                      !.status = "running"]]
      BY <1>1, <1>3, <2>2 DEF JobsSound, BuildRecords
    <3>2. at \in {"build", "turn"} OBVIOUS
    <3> HIDE DEF at
    <3>3. /\ JobsSound' /\ ReaderFollows' /\ bJob'[i].at = at
          /\ \A k \in BuildIds : k # i => bJob'[k] = bJob[k]
      BY <1>1, <1>2, <1>3, <3>1, <3>2, PlaceStep DEF BuildPlaces
    <3>4. TurnHeld' BY <1>1, <1>2, <2>1, <3>2, <3>3 DEF TurnHeld
    <3> QED BY <1>2, <3>3, <3>4 DEF BuildInv
  <2>3. CASE complete(i, "canceled") BY <1>1, <1>4, <2>1, <2>3 DEF TurnHeld
  <2> QED BY <1>5, <2>2, <2>3 DEF BuildRun
<1>6. CASE acquireLimitedBuild(i)
  <2>1. bJob[i].at = "turn" /\ UNCHANGED <<bBuilder, bLeft>> /\ bTurn # i
    BY <1>1, <1>6 DEF acquireLimitedBuild, TurnHeld
  <2>2. CASE bTurn = 0 /\ bTurn' = i /\ bJob' = [bJob EXCEPT ![i].at = "clean"]
    <3>1. bJob' = [bJob EXCEPT ![i] = [bJob[i] EXCEPT !.at = "clean", !.caps = bJob[i].caps,
                                                      !.status = bJob[i].status]]
      BY <1>1, <1>3, <2>2 DEF JobsSound, BuildRecords
    <3>2. /\ JobsSound' /\ ReaderFollows' /\ bJob'[i].at = "clean"
          /\ \A k \in BuildIds : k # i => bJob'[k] = bJob[k]
      BY <1>1, <1>2, <1>3, <3>1, PlaceStep DEF BuildPlaces
    <3>3. TurnHeld' BY <1>1, <1>2, <1>3, <2>1, <2>2, <3>2 DEF TurnHeld
    <3> QED BY <1>2, <3>2, <3>3 DEF BuildInv
  <2>3. CASE complete(i, "canceled") /\ UNCHANGED bTurn
    BY <1>1, <1>4, <2>1, <2>3 DEF TurnHeld
  <2> QED BY <1>6, <2>2, <2>3 DEF acquireLimitedBuild
<1>7. ASSUME NEW failed \in BOOLEAN, RemoveStale(i, failed) PROVE BuildInv'
  <2>1. /\ bJob[i].at = "clean" /\ bTurn = i /\ UNCHANGED bTurn
        /\ bBuilder' \in {0, bBuilder} /\ bLeft' \in BOOLEAN /\ (~bLeft' => bBuilder' = 0)
        /\ bJob' = [bJob EXCEPT ![i].at = "create"]
    BY <1>1, <1>7 DEF RemoveStale, removeLimitedBuilder, TurnHeld
  <2>2. bJob' = [bJob EXCEPT ![i] = [bJob[i] EXCEPT !.at = "create", !.caps = bJob[i].caps,
                                                    !.status = bJob[i].status]]
    BY <1>1, <1>3, <2>1 DEF JobsSound, BuildRecords
  <2>3. /\ JobsSound' /\ ReaderFollows' /\ bJob'[i].at = "create"
        /\ \A k \in BuildIds : k # i => bJob'[k] = bJob[k]
    BY <1>1, <1>2, <1>3, <2>2, PlaceStep DEF BuildPlaces
  <2>4. TurnHeld' BY <1>1, <1>2, <2>1, <2>3 DEF TurnHeld
  <2> QED BY <1>2, <2>3, <2>4 DEF BuildInv
<1>8. CASE withLimitedBuilder(i)
  <2>1. /\ bJob[i].at = "create" /\ bTurn = i /\ (~bLeft => bBuilder = 0) /\ UNCHANGED bLeft
        /\ (~bLeft => Created = bCaps) /\ Created \in BuildCaps \cup {0}
    BY <1>1, <1>8 DEF withLimitedBuilder, TurnHeld, Created
  <2>2. CASE /\ bBuilder' = Created
             /\ bJob' = [bJob EXCEPT ![i].at = "build", ![i].caps = bCaps]
             /\ UNCHANGED bTurn
    <3>1. bJob' = [bJob EXCEPT ![i] = [bJob[i] EXCEPT !.at = "build", !.caps = bCaps,
                                                      !.status = bJob[i].status]]
      BY <1>1, <1>3, <2>2 DEF JobsSound, BuildRecords
    <3>2. /\ JobsSound' /\ ReaderFollows' /\ bJob'[i].at = "build" /\ bJob'[i].caps = bCaps
          /\ \A k \in BuildIds : k # i => bJob'[k] = bJob[k]
      BY <1>1, <1>2, <1>3, <3>1, PlaceStep DEF BuildPlaces
    <3>3. TurnHeld' BY <1>1, <1>2, <1>3, <2>1, <2>2, <3>2 DEF TurnHeld
    <3> QED BY <1>2, <3>2, <3>3 DEF BuildInv
  <2>3. CASE /\ complete(i, IF bJob[i].ended THEN "canceled" ELSE "failed")
             /\ bTurn' = 0 /\ bBuilder' \in {bBuilder, Created}
    <3>1. (IF bJob[i].ended THEN "canceled" ELSE "failed") \in {"succeeded", "failed", "canceled"}
      OBVIOUS
    <3> QED BY <1>1, <1>4, <2>1, <2>3, <3>1 DEF TurnHeld
  <2> QED BY <1>8, <2>2, <2>3 DEF withLimitedBuilder
<1> QED BY <1>5, <1>6, <1>7, <1>8

LEMMA BuildWorks ==
    ASSUME BuildInv, NEW i \in BuildIds,
           \/ \E n \in 1..MaxOutput : BuildOutput(i, n)
           \/ \E ok, failed \in BOOLEAN : BuildEnd(i, ok, failed)
    PROVE  BuildInv'
<1>1. JobsSound /\ TurnHeld /\ ReaderFollows BY DEF BuildInv
<1>2. UNCHANGED <<bCaps, bReader, bSteps>> /\ bSteps' \in 0..MaxBuildSteps
      /\ bJob[i].at = "build"
  BY DEF BuildOutput, BuildEnd, BuildInv
<1>3. bJob[i] \in BuildRecords /\ LogKept(bJob[i]) /\ bJob[i].status \in {"queued", "running"}
  BY <1>1, <1>2, InProgress
<1>4. ASSUME NEW n \in 1..MaxOutput, BuildOutput(i, n) PROVE BuildInv'
  <2> DEFINE w == dockerBuildJobWrite(bJob[i], n)
  <2>1. n \in Nat BY BuildJobsAssumption
  <2>2. /\ w \in BuildRecords /\ LogKept(w) /\ w.total >= bJob[i].total
        /\ w.status = bJob[i].status /\ w.at = bJob[i].at /\ w.caps = bJob[i].caps
    BY <1>3, <2>1, WriteKeepsLog
  <2>3. bJob' = [bJob EXCEPT ![i] = w] BY <1>4 DEF BuildOutput
  <2> HIDE DEF w
  <2>4. JobSound(w) /\ GoesOn(bJob[i], w) BY <1>3, <2>2 DEF JobSound, Pending, GoesOn
  <2>5. JobsSound' /\ ReaderFollows' /\ bJob'[i] = w
        /\ \A k \in BuildIds : k # i => bJob'[k] = bJob[k]
    BY <1>1, <1>2, <1>3, <2>3, <2>4, OneJobGoesOn
  <2>6. \A k \in BuildIds : bJob'[k].at = bJob[k].at /\ bJob'[k].caps = bJob[k].caps
    BY <2>2, <2>5
  <2>7. UNCHANGED <<bTurn, bBuilder, bLeft>> BY <1>4 DEF BuildOutput
  <2>8. TurnHeld' BY <1>1, <1>2, <2>6, <2>7 DEF TurnHeld
  <2> QED BY <1>2, <2>5, <2>8 DEF BuildInv
<1>5. ASSUME NEW ok \in BOOLEAN, NEW failed \in BOOLEAN, BuildEnd(i, ok, failed) PROVE BuildInv'
  <2> DEFINE status == IF ok THEN "succeeded" ELSE IF bJob[i].ended THEN "canceled" ELSE "failed"
  <2>1. status \in {"succeeded", "failed", "canceled"} OBVIOUS
  <2>2. complete(i, status) BY <1>5 DEF BuildEnd
  <2> HIDE DEF status
  <2>3. /\ JobsSound' /\ ReaderFollows' /\ bJob'[i].at = "none"
        /\ \A k \in BuildIds : k # i => bJob'[k] = bJob[k]
    BY <1>1, <1>2, <2>1, <2>2, CompleteStep
  <2>4. /\ UNCHANGED bLeft
        /\ \/ bTurn = i /\ bBuilder' \in {0, bBuilder} /\ bTurn' = 0
           \/ bTurn # i /\ UNCHANGED <<bBuilder, bTurn>>
    BY <1>5 DEF BuildEnd, removeLimitedBuilder
  <2>5. 0 \notin BuildIds BY BuildJobsAssumption
  <2>6. TurnHeld' BY <1>1, <1>2, <2>3, <2>4, <2>5 DEF TurnHeld
  <2> QED BY <1>2, <2>3, <2>6 DEF BuildInv
<1> QED BY <1>4, <1>5

LEMMA BuildGetStep ==
    ASSUME BuildInv, NEW i \in BuildIds, BuildGet(i)
    PROVE  BuildInv'
<1>1. JobsSound /\ TurnHeld /\ ReaderFollows BY DEF BuildInv
<1>2. /\ bJob[i].status \notin {"none", "gone"} /\ bReader.id \in {0, i}
      /\ UNCHANGED <<bJob, bCaps, bTurn, bBuilder, bLeft, bSteps>> /\ i # 0
  BY BuildJobsAssumption DEF BuildGet, Known, InTable
<1>3. bJob[i] \in BuildRecords /\ LogKept(bJob[i]) /\ bJob[i].total \in Nat
  BY <1>1 DEF JobsSound, JobSound, BuildRecords
<1>4. bReader.next \in Nat /\ bReader.next <= bJob[i].total
  BY <1>1, <1>2, <1>3 DEF ReaderFollows
<1> DEFINE got == snapshot(bJob[i], bReader.next)
           first == IF got.log = <<>> THEN got.next ELSE Head(got.log)
           new == [id |-> i, next |-> got.next, gap |-> first # bReader.next /\ ~got.truncated]
<1>5. bReader' = new BY DEF BuildGet
<1>6. /\ got.next = bJob[i].total /\ got.truncated = (bReader.next < bJob[i].base)
      /\ ~(bReader.next < bJob[i].base) => FirstOffset(got.log, got.next) = bReader.next
  BY <1>3, <1>4, SnapshotIs
<1>7. first = FirstOffset(got.log, got.next) BY DEF FirstOffset
<1> HIDE DEF got, first
<1>8. ~(first # bReader.next /\ ~got.truncated) BY <1>6, <1>7
<1>9. new.id = i /\ new.next = bJob[i].total /\ new.gap = FALSE BY <1>6, <1>8
<1>10. new \in [id : BuildIds \cup {0}, next : Nat, gap : BOOLEAN] BY <1>3, <1>6, <1>8
<1> HIDE DEF new
<1>11. ReaderFollows' BY <1>2, <1>3, <1>5, <1>9, <1>10 DEF ReaderFollows
<1>12. JobsSound' /\ TurnHeld' BY <1>1, <1>2 DEF JobsSound, TurnHeld
<1> QED BY <1>2, <1>11, <1>12 DEF BuildInv

LEMMA BuildCrashStep == BuildInv /\ BuildCrash => BuildInv'
<1> SUFFICES ASSUME BuildInv, BuildCrash PROVE BuildInv' OBVIOUS
<1>1. bSteps' \in 0..MaxBuildSteps BY BuildJobsAssumption DEF BuildCrash, BuildAct, BuildInv
<1>2. bJob' = [k \in BuildIds |-> NoJob] /\ bTurn' = 0 /\ bReader' = NoReader
      /\ UNCHANGED <<bCaps, bBuilder, bLeft>>
  BY DEF BuildCrash
<1>3. JobsSound' /\ \A k \in BuildIds : bJob'[k] = NoJob
  BY <1>2, NoJobSound DEF JobsSound, JobSound
<1>4. 0 \notin BuildIds BY BuildJobsAssumption
<1>5. TurnHeld' BY <1>2, <1>3, <1>4, NoJobSound DEF BuildInv, TurnHeld
<1>6. ReaderFollows' BY <1>2 DEF ReaderFollows, NoReader
<1> QED BY <1>1, <1>3, <1>5, <1>6 DEF BuildInv

LEMMA BuildStep == BuildInv /\ [BuildNext]_buildVars => BuildInv'
<1> SUFFICES ASSUME BuildInv, [BuildNext]_buildVars PROVE BuildInv' OBVIOUS
<1>1. CASE UNCHANGED buildVars
  BY <1>1 DEF buildVars, BuildInv, JobsSound, TurnHeld, ReaderFollows
<1>2. CASE \E c \in BuildCaps : SetBuildLimits(c)
  BY <1>2, BuildJobsAssumption
     DEF SetBuildLimits, BuildAct, BuildInv, JobsSound, TurnHeld, ReaderFollows
<1>3. CASE \E i \in BuildIds :
         \/ BuildStart(i) \/ Expire(i) \/ BuildCancel(i) \/ BuildRun(i) \/ acquireLimitedBuild(i)
         \/ withLimitedBuilder(i) \/ BuildGet(i)
         \/ \E n \in 1..MaxOutput : BuildOutput(i, n)
         \/ \E failed \in BOOLEAN : \/ RemoveStale(i, failed)
                                    \/ \E ok \in BOOLEAN : BuildEnd(i, ok, failed)
  BY <1>3, BuildStartStep, BuildAsideStep, BuildPlaces1, BuildWorks, BuildGetStep
<1> QED BY <1>1, <1>2, <1>3, BuildCrashStep DEF BuildNext

(* A capped build runs in a builder with the limits of its creation,       *)
(* unless an earlier one could not be removed when its turn began, and a   *)
(* browser that polls a job's log never skips bytes without being told     *)
(* (build_limits.go, withLimitedBuilder; build_jobs.go, snapshot).         *)
THEOREM BuildsAreHonest == BuildSpec => []BuildHonest
<1>1. BuildInv => BuildHonest BY DEF BuildInv, TurnHeld, ReaderFollows, BuildHonest
<1> QED BY BuildStarts, BuildStep, <1>1, PTL DEF BuildSpec

(* The log kept of a job never exceeds its limit (build_jobs.go, Write).   *)
THEOREM BuildsTyped == BuildSpec => []BuildTypeOK
<1>1. BuildInv => BuildTypeOK
  BY DEF BuildInv, JobsSound, JobSound, LogKept, LogPart, BuildRecords, BuildStatuses, TurnHeld,
         BuildTypeOK
<1> QED BY BuildStarts, BuildStep, <1>1, PTL DEF BuildSpec

-----------------------------------------------------------------------------
(***************************************************************************)
(* Proofs about the secrets of stacks (StackSecrets).                      *)
(***************************************************************************)

SecretValues == [SecretNames -> 0..2]
Histories == {h \in Seq(0..2) : Len(h) <= HistoryLimit}
Keepers == [SecretNames -> SUBSET SReqs]
StackRows == [there : BOOLEAN, marker : BOOLEAN, script : BOOLEAN,
              cipher : SecretValues \cup {NoSource}, disk : SecretValues,
              hist : [SecretNames -> Histories], mounted : BOOLEAN, tmp : SecretValues,
              kept : Keepers]

(* A value somebody has backed up is the newest version while it is there. *)
Covered(disk, hist, kept) ==
    \A n \in SecretNames :
        kept[n] # {} /\ disk[n] # 0 => hist[n] # <<>> /\ Head(hist[n]) = disk[n]

StackFiles == {t \in StackRows : Covered(t.disk, t.hist, t.kept)}
SecOps == {"none", "plain", "inline", "compose", "enable", "export", "disable", "rm",
           "mat", "assign"}
SecPoints == {"none", "write", "replace", "lock", "encrypt", "sync", "await", "export",
              "activate", "purge", "mark", "release", "released", "materialize", "values",
              "unmark", "rmdir", "prepare", "assign", "rollback", "assigned", "undone"}
SecRequest == [op : SecOps, at : SecPoints, s : SStacks, n : SecretNames \cup {"none"},
               v : 0..2, vals : SecretValues, before : [SStacks -> SecretValues],
               k : Nat, vol : BOOLEAN, stranded : SUBSET SStacks, failed : SUBSET SStacks]

SecShapes ==
    /\ sStack \in [SStacks -> StackFiles] /\ sReq \in [SReqs -> SecRequest]
    /\ sLock \in {0} \cup SReqs /\ sPending \subseteq SStacks

(* A directory that is not mounted holds nothing.                          *)
SecMounts == \A s \in SStacks : ~sStack[s].mounted => sStack[s].tmp = Nothing

(* Where a request of each kind can be.                                    *)
SecWhere(q) ==
    /\ q.op \in {"plain", "inline", "assign"} => q.n \in SecretNames
    /\ q.op = "none" <=> q.at = "none"
    /\ q.at \in {"write", "replace"} => q.op = "plain"
    /\ q.at \in {"lock", "encrypt"} => q.op = "inline"
    /\ q.at \in {"sync", "await"} => q.op \in {"inline", "compose"}
    /\ q.at = "export" => q.op \in {"enable", "export"}
    /\ q.at \in {"activate", "purge", "mark"} => q.op = "enable"
    /\ q.at \in {"release", "released"} => q.op \in {"disable", "rm"}
    /\ q.at = "rmdir" => q.op = "rm"
    /\ q.at \in {"prepare", "assign", "rollback", "assigned", "undone"} => q.op = "assign"
    /\ q.op = "plain" => q.at \in {"write", "replace"}

(* The stacks an assignment has come past when it is at number k.          *)
Passed(s, k) == \E i \in 1..Len(StackOrder) : i <= k /\ StackOrder[i] = s

(* What an assignment has made of the source of stack s.                   *)
AssignState(q, s, source) ==
    LET new == [q.before[s] EXCEPT ![q.n] = q.v]
    IN source # NoSource =>
         /\ q.at = "assign" => source = IF Passed(s, q.k - 1) THEN new ELSE q.before[s]
         /\ q.at = "rollback" =>
              /\ source \in {new, q.before[s]}
              /\ source = q.before[s] \/ s \in q.stranded \cup q.failed \/ Passed(s, q.k)
         /\ q.at = "assigned" => source = new
         /\ q.at = "undone" => source = q.before[s] \/ s \in q.stranded \cup q.failed

(* The request with the mutex: nobody else has touched the sources it read.*)
Holding == {"encrypt", "assign", "rollback", "assigned", "undone"}
HeldBy(r, q, stack, lock) ==
    q.at \in Holding =>
        /\ lock = r
        /\ q.at = "encrypt" => stack[q.s].cipher \in {NoSource, q.vals}
        /\ q.at = "assign" => q.k \in 1..Len(StackOrder)
        /\ q.at = "rollback" => q.k \in 0..Len(StackOrder)
        /\ \A s \in SStacks : AssignState(q, s, stack[s].cipher)

SecWheres == \A r \in SReqs : SecWhere(sReq[r])
SecHeld == \A r \in SReqs : HeldBy(r, sReq[r], sStack, sLock)
SecInv == SecShapes /\ SecMounts /\ SecWheres /\ SecHeld
-----------------------------------------------------------------------------
LEMMA StacksOrdered ==
    /\ Len(StackOrder) \in Nat \ {0}
    /\ \A i \in 1..Len(StackOrder) : StackOrder[i] \in SStacks
    /\ \A s \in SStacks : \E i \in 1..Len(StackOrder) : StackOrder[i] = s
    /\ StackOrder[1] \in SStacks
<1> DEFINE R == Range(StackOrder)
<1>1. StackOrder \in Seq(R) /\ StackOrder # <<>> BY StackSecretsAssumption
<1>2. R = {StackOrder[x] : x \in DOMAIN StackOrder} BY DEF Range
<1>3. SStacks = R BY DEF SStacks
<1> HIDE DEF R
<1>4. DOMAIN StackOrder = 1..Len(StackOrder) /\ Len(StackOrder) \in Nat \ {0}
  BY <1>1
<1> QED BY <1>2, <1>3, <1>4

LEMMA ValueShapes ==
    /\ Nothing \in SecretValues
    /\ \A n \in SecretNames : NoSource[n] = 9 /\ Nothing[n] = 0
    /\ \A x \in SecretValues, n \in SecretNames, v \in 0..2 :
         [x EXCEPT ![n] = v] \in SecretValues
BY DEF Nothing, NoSource, SecretValues

LEMMA NobodyKeeps ==
    LET none == [n \in SecretNames |-> {}]
    IN none \in Keepers /\ \A disk, hist : Covered(disk, hist, none)
BY DEF Keepers, Covered

LEMMA EmptyHistories == [n \in SecretNames |-> <<>>] \in [SecretNames -> Histories]
<1>1. <<>> \in Seq(0..2) /\ Len(<<>>) = 0 OBVIOUS
<1>2. <<>> \in Histories BY <1>1, StackSecretsAssumption DEF Histories
<1> QED BY <1>2

LEMMA IdleShape ==
    /\ SecIdle \in SecRequest /\ SecIdle.op = "none" /\ SecIdle.at = "none"
    /\ SecIdle.k = 0 /\ SecIdle.stranded = {} /\ SecIdle.failed = {} /\ SecWhere(SecIdle)
<1>1. SecIdle \in SecRequest
  BY StacksOrdered, ValueShapes DEF SecIdle, SecRequest, SecOps, SecPoints
<1> QED BY <1>1 DEF SecIdle, SecWhere

LEMMA StackShape ==
    ASSUME NEW marker \in BOOLEAN, NEW cipher \in SecretValues \cup {NoSource},
           NEW disk \in SecretValues, NEW mounted \in BOOLEAN, NEW tmp \in SecretValues
    PROVE  LET t == Stack(marker, cipher, disk, mounted, tmp)
           IN t \in StackFiles /\ t.mounted = mounted /\ t.tmp = tmp
<1> DEFINE none == [n \in SecretNames |-> {}]
           past == [n \in SecretNames |-> <<>>]
           t == Stack(marker, cipher, disk, mounted, tmp)
<1>1. none \in Keepers /\ Covered(disk, past, none) BY NobodyKeeps
<1>2. past \in [SecretNames -> Histories] BY EmptyHistories
<1>3. t = [there |-> TRUE, marker |-> marker, script |-> marker, cipher |-> cipher,
           disk |-> disk, hist |-> past, mounted |-> mounted, tmp |-> tmp, kept |-> none]
  BY DEF Stack
<1> HIDE DEF none, past, t
<1>4. t \in StackFiles BY <1>1, <1>2, <1>3 DEF StackFiles, StackRows
<1> QED BY <1>3, <1>4 DEF t

LEMMA GoneFiles ==
    /\ Gone \in StackFiles /\ Gone.cipher = NoSource /\ Gone.disk = Nothing
    /\ Gone.tmp = Nothing
<1> DEFINE g == Stack(FALSE, NoSource, Nothing, FALSE, Nothing)
<1>0. /\ FALSE \in BOOLEAN /\ Nothing \in SecretValues
      /\ NoSource \in SecretValues \cup {NoSource}
  BY ValueShapes
<1>1. g \in StackFiles /\ g.tmp = Nothing BY <1>0, StackShape, Zenon
<1>3. g.cipher = NoSource /\ g.disk = Nothing BY DEF Stack
<1>2. Gone = [g EXCEPT !.there = FALSE] BY DEF Gone
<1> HIDE DEF g
<1> QED BY <1>1, <1>2, <1>3 DEF StackFiles, StackRows

LEMMA GoneShape ==
    ASSUME NEW there \in BOOLEAN, NEW mounted \in BOOLEAN
    PROVE  LET t == [Gone EXCEPT !.there = there, !.mounted = mounted]
           IN /\ t \in StackFiles /\ t.cipher = NoSource /\ t.disk = Nothing
              /\ t.tmp = Nothing /\ t.mounted = mounted /\ t.there = there
BY GoneFiles DEF StackFiles, StackRows

-----------------------------------------------------------------------------
(* What the step of a request does to the files.                           *)
StacksSound == sStack' \in [SStacks -> StackFiles] /\ SecMounts'
OnlyDropped == \A s \in SStacks : sStack'[s].cipher \in {sStack[s].cipher, NoSource}
FilesKept == \A s \in SStacks : /\ sStack'[s].cipher = sStack[s].cipher
                                /\ sStack'[s].disk = sStack[s].disk

LEMMA SameStacks ==
    ASSUME SecInv, UNCHANGED sStack PROVE StacksSound /\ OnlyDropped /\ FilesKept
BY DEF SecInv, SecShapes, SecMounts, StacksSound, OnlyDropped, FilesKept

LEMMA SetStack ==
    ASSUME SecInv, NEW s \in SStacks, NEW t \in StackFiles, ~t.mounted => t.tmp = Nothing,
           sStack' = [sStack EXCEPT ![s] = t]
    PROVE  /\ StacksSound /\ sStack'[s] = t
           /\ \A x \in SStacks : x # s => sStack'[x] = sStack[x]
           /\ t.cipher \in {sStack[s].cipher, NoSource} => OnlyDropped
           /\ t.cipher = sStack[s].cipher /\ t.disk = sStack[s].disk => FilesKept
<1>1. sStack \in [SStacks -> StackFiles] BY DEF SecInv, SecShapes
<1>2. /\ sStack' \in [SStacks -> StackFiles] /\ sStack'[s] = t
      /\ \A x \in SStacks : x # s => sStack'[x] = sStack[x]
  BY <1>1
<1>3. SecMounts' BY <1>2 DEF SecInv, SecMounts
<1> QED BY <1>2, <1>3 DEF StacksSound, OnlyDropped, FilesKept

(* Change: a directory that is gone stays as it is.                        *)
LEMMA StackChanged ==
    ASSUME SecInv, NEW r \in SReqs, NEW t \in StackFiles, ~t.mounted => t.tmp = Nothing,
           Change(r, t)
    PROVE  /\ StacksSound
           /\ \A x \in SStacks : \/ sStack'[x] = sStack[x]
                                 \/ x = sReq[r].s /\ sStack'[x] = t
           /\ t.cipher \in {S(r).cipher, NoSource} => OnlyDropped
           /\ t.cipher = S(r).cipher /\ t.disk = S(r).disk => FilesKept
<1> DEFINE s == sReq[r].s
<1>1. s \in SStacks BY DEF SecInv, SecShapes, SecRequest
<1>2. S(r) = sStack[s] BY DEF S
<1>3. CASE S(r).there
  <2>1. sStack' = [sStack EXCEPT ![s] = t] BY <1>3 DEF Change
  <2> HIDE DEF s
  <2>2. /\ StacksSound /\ sStack'[s] = t
        /\ \A x \in SStacks : x # s => sStack'[x] = sStack[x]
        /\ t.cipher \in {sStack[s].cipher, NoSource} => OnlyDropped
        /\ t.cipher = sStack[s].cipher /\ t.disk = sStack[s].disk => FilesKept
    BY <1>1, <2>1, SetStack
  <2> QED BY <1>2, <2>2 DEF s
<1>4. CASE ~S(r).there
  <2>1. UNCHANGED sStack BY <1>4 DEF Change
  <2> QED BY <2>1, SameStacks
<1> QED BY <1>3, <1>4

(* The step of request r.                                                  *)
LEMMA SecStep ==
    ASSUME SecInv, NEW r \in SReqs, NEW q \in SecRequest, sReq' = [sReq EXCEPT ![r] = q],
           SecWhere(q), StacksSound, sPending' \subseteq SStacks, sLock' \in {0} \cup SReqs,
           HeldBy(r, q, sStack', sLock'),
           sLock \in {0, r} \/ (sLock' = sLock /\ OnlyDropped)
    PROVE  SecInv'
<1>1. sReq \in [SReqs -> SecRequest] BY DEF SecInv, SecShapes
<1>2. /\ sReq' \in [SReqs -> SecRequest] /\ sReq'[r] = q
      /\ \A p \in SReqs : p # r => sReq'[p] = sReq[p]
  BY <1>1
<1>3. SecShapes' BY <1>2 DEF SecShapes, StacksSound
<1>4. SecMounts' BY DEF StacksSound
<1>5. SecWheres'
  <2>1. ASSUME NEW p \in SReqs PROVE SecWhere(sReq'[p])
    <3>1. CASE p = r BY <3>1, <1>2
    <3>2. CASE p # r BY <3>2, <1>2 DEF SecInv, SecWheres
    <3> QED BY <3>1, <3>2
  <2> QED BY <2>1 DEF SecWheres
<1>6. SecHeld'
  <2>1. ASSUME NEW p \in SReqs, p # r PROVE HeldBy(p, sReq[p], sStack', sLock')
    <3> DEFINE o == sReq[p]
    <3>1. HeldBy(p, o, sStack, sLock) BY DEF SecInv, SecHeld
    <3>2. o.s \in SStacks BY <1>1 DEF SecRequest
    <3>3. p # 0 BY DEF SReqs
    <3> SUFFICES HeldBy(p, o, sStack', sLock') OBVIOUS
    <3> HIDE DEF o
    <3>4. CASE o.at \notin Holding BY <3>4 DEF HeldBy
    <3>5. CASE o.at \in Holding
      <4>1. sLock = p BY <3>1, <3>5 DEF HeldBy
      <4>2. sLock' = sLock /\ OnlyDropped BY <4>1, <2>1, <3>3
      <4>3. ASSUME NEW x \in SStacks PROVE AssignState(o, x, sStack'[x].cipher)
        <5>1. AssignState(o, x, sStack[x].cipher) BY <3>1, <3>5 DEF HeldBy
        <5>2. sStack'[x].cipher \in {sStack[x].cipher, NoSource} BY <4>2 DEF OnlyDropped
        <5>3. AssignState(o, x, NoSource) BY DEF AssignState
        <5> QED BY <5>1, <5>2, <5>3
      <4>4. o.at = "encrypt" => sStack'[o.s].cipher \in {NoSource, o.vals}
        BY <3>1, <3>2, <3>5, <4>2 DEF HeldBy, OnlyDropped
      <4> QED BY <3>1, <3>5, <4>1, <4>2, <4>3, <4>4 DEF HeldBy
    <3> QED BY <3>4, <3>5
  <2>2. ASSUME NEW p \in SReqs PROVE HeldBy(p, sReq'[p], sStack', sLock')
    <3>1. CASE p = r BY <3>1, <1>2
    <3>2. CASE p # r BY <3>2, <1>2, <2>1
    <3> QED BY <3>1, <3>2
  <2> QED BY <2>2 DEF SecHeld
<1> QED BY <1>3, <1>4, <1>5, <1>6 DEF SecInv

LEMMA Answered ==
    ASSUME SecInv, NEW r \in SReqs, Answer(r), StacksSound, sPending' \subseteq SStacks,
           sLock \in {0, r} \/ OnlyDropped, sReq[r].at # "none"
    PROVE  SecInv' /\ sReq'[r] # sReq[r]
<1>1. sReq' = [sReq EXCEPT ![r] = SecIdle] /\ sLock' = IF sLock = r THEN 0 ELSE sLock
  BY DEF Answer, GiveBack
<1>2. sReq \in [SReqs -> SecRequest] /\ sLock \in {0} \cup SReqs
  BY DEF SecInv, SecShapes
<1>3. HeldBy(r, SecIdle, sStack', sLock') BY IdleShape DEF HeldBy, Holding
<1>4. sLock' \in {0} \cup SReqs BY <1>1, <1>2
<1>5. sLock \in {0, r} \/ (sLock' = sLock /\ OnlyDropped) BY <1>1
<1>6. SecInv' BY <1>1, <1>3, <1>4, <1>5, IdleShape, SecStep
<1>7. sReq'[r] = SecIdle BY <1>1, <1>2
<1> QED BY <1>6, <1>7, IdleShape

LEMMA Moved ==
    ASSUME SecInv, NEW r \in SReqs, NEW at \in SecPoints \ Holding, at # sReq[r].at,
           ToStep(r, at), SecWhere([sReq[r] EXCEPT !.at = at]),
           StacksSound, sPending' \subseteq SStacks,
           sLock' \in {0} \cup SReqs, sLock \in {0, r} \/ (sLock' = sLock /\ OnlyDropped)
    PROVE  SecInv' /\ sReq'[r] # sReq[r]
<1> DEFINE q == [sReq[r] EXCEPT !.at = at]
<1>1. sReq \in [SReqs -> SecRequest] BY DEF SecInv, SecShapes
<1>2. sReq[r] \in SecRequest BY <1>1
<1>3. q \in SecRequest /\ q.at = at BY <1>2 DEF SecRequest
<1>4. sReq' = [sReq EXCEPT ![r] = q] BY DEF ToStep
<1>5. SecWhere(q) OBVIOUS
<1> HIDE DEF q
<1>6. HeldBy(r, q, sStack', sLock') BY <1>3 DEF HeldBy
<1>7. SecInv' BY <1>3, <1>4, <1>5, <1>6, SecStep
<1>8. sReq'[r] = q BY <1>1, <1>4
<1> QED BY <1>3, <1>7, <1>8

-----------------------------------------------------------------------------
(* Requests begin.                                                         *)
LEMMA Started ==
    ASSUME SecInv, NEW r \in SReqs, NEW q \in SecRequest, q.at \notin Holding, SecWhere(q),
           sReq' = [sReq EXCEPT ![r] = q], UNCHANGED <<sStack, sLock, sPending>>
    PROVE  SecInv' /\ FilesKept
<1>1. StacksSound /\ OnlyDropped /\ FilesKept BY SameStacks
<1>2. HeldBy(r, q, sStack', sLock') BY DEF HeldBy
<1>3. sLock' \in {0} \cup SReqs /\ sPending' \subseteq SStacks BY DEF SecInv, SecShapes
<1> QED BY <1>1, <1>2, <1>3, SecStep

LEMMA Begun ==
    ASSUME SecInv, NEW r \in SReqs, NEW op \in SecOps, NEW at \in SecPoints \ Holding,
           NEW s \in SStacks, NEW n \in SecretNames \cup {"none"}, NEW v \in 0..2,
           \A q \in SecRequest : q.op = op /\ q.at = at /\ q.n = n => SecWhere(q),
           Begin(r, op, at, s, n, v)
    PROVE  SecInv' /\ FilesKept
<1> DEFINE q == [SecIdle EXCEPT !.op = op, !.at = at, !.s = s, !.n = n, !.v = v]
<1>1. q \in SecRequest /\ q.op = op /\ q.at = at /\ q.n = n
  BY IdleShape DEF SecRequest
<1>2. sReq' = [sReq EXCEPT ![r] = q] /\ UNCHANGED <<sStack, sLock, sPending>> BY DEF Begin
<1> HIDE DEF q
<1> QED BY <1>1, <1>2, Started

LEMMA WriteManagedStep ==
    ASSUME SecInv, NEW r \in SReqs, NEW s \in SStacks, NEW n \in SecretNames,
           NEW v \in {0, 2}, WriteManaged(r, s, n, v)
    PROVE  SecInv' /\ FilesKept
<1>1. CASE Begin(r, "inline", "lock", s, n, v)
  <2>1. \A q \in SecRequest : q.op = "inline" /\ q.at = "lock" /\ q.n = n => SecWhere(q)
    BY DEF SecWhere
  <2> QED BY <1>1, <2>1, Begun DEF SecOps, SecPoints, Holding
<1>2. CASE Begin(r, "plain", "write", s, n, v)
  <2>1. \A q \in SecRequest : q.op = "plain" /\ q.at = "write" /\ q.n = n => SecWhere(q)
    BY DEF SecWhere
  <2> QED BY <1>2, <2>1, Begun DEF SecOps, SecPoints, Holding
<1> QED BY <1>1, <1>2 DEF WriteManaged

LEMMA RestoreStep ==
    ASSUME SecInv, NEW r \in SReqs, NEW s \in SStacks, NEW n \in SecretNames, Restore(r, s, n)
    PROVE  SecInv' /\ FilesKept
<1>1. PICK v \in Range(sStack[s].hist[n]) : Begin(r, "plain", "write", s, n, v)
  BY DEF Restore
<1>2. sStack[s].hist[n] \in Seq(0..2)
  BY DEF SecInv, SecShapes, StackFiles, StackRows, Histories
<1>3. v \in 0..2 BY <1>2 DEF Range
<1>4. \A q \in SecRequest : q.op = "plain" /\ q.at = "write" /\ q.n = n => SecWhere(q)
  BY DEF SecWhere
<1> QED BY <1>1, <1>3, <1>4, Begun DEF SecOps, SecPoints, Holding

LEMMA ComposeEnvironmentStep ==
    ASSUME SecInv, NEW r \in SReqs, NEW s \in SStacks, ComposeEnvironment(r, s)
    PROVE  SecInv' /\ FilesKept
<1> DEFINE q == [SecIdle EXCEPT !.op = "compose", !.at = "sync", !.s = s,
                                !.vals = sStack[s].cipher]
<1>1. sStack[s].cipher \in SecretValues
  BY DEF ComposeEnvironment, SecInv, SecShapes, StackFiles, StackRows
<1>2. q \in SecRequest /\ q.op = "compose" /\ q.at = "sync"
  BY <1>1, IdleShape DEF SecRequest, SecOps, SecPoints
<1>3. sReq' = [sReq EXCEPT ![r] = q] /\ UNCHANGED <<sStack, sLock, sPending>>
  BY DEF ComposeEnvironment
<1> HIDE DEF q
<1>4. SecWhere(q) /\ q.at \notin Holding BY <1>2 DEF SecWhere, Holding
<1> QED BY <1>2, <1>3, <1>4, Started

LEMMA DisableInlineStep ==
    ASSUME SecInv, NEW r \in SReqs, NEW s \in SStacks, DisableInline(r, s)
    PROVE  SecInv' /\ FilesKept
<1> DEFINE vol == volatileRuntimeAvailable(s)
           at == IF vol THEN "release" ELSE "materialize"
           q == [SecIdle EXCEPT !.op = "disable", !.s = s, !.vol = vol, !.at = at]
<1>1. vol \in BOOLEAN BY DEF volatileRuntimeAvailable, SecInv, SecShapes, StackFiles, StackRows
<1>2. at \in {"release", "materialize"} OBVIOUS
<1>3. sReq' = [sReq EXCEPT ![r] = q] /\ UNCHANGED <<sStack, sLock, sPending>>
  BY DEF DisableInline
<1> HIDE DEF vol, at
<1>4. q \in SecRequest /\ q.op = "disable" /\ q.at = at
  BY <1>1, <1>2, IdleShape DEF SecRequest, SecOps, SecPoints
<1> HIDE DEF q
<1>5. SecWhere(q) /\ q.at \notin Holding BY <1>2, <1>4 DEF SecWhere, Holding
<1> QED BY <1>3, <1>4, <1>5, Started

LEMMA OperatorSteps ==
    ASSUME SecInv, NEW r \in SReqs, NEW s \in SStacks,
           \/ EnableInline(r, s) \/ ExportSOPS(r, s)
           \/ MaterializeSOPS(r, s) \/ GuardSecretDeletion(r, s)
    PROVE  SecInv' /\ FilesKept
<1>1. CASE EnableInline(r, s)
  <2>1. \A q \in SecRequest : q.op = "enable" /\ q.at = "export" /\ q.n = "none" => SecWhere(q)
    BY DEF SecWhere
  <2> QED BY <1>1, <2>1, Begun DEF EnableInline, SecOps, SecPoints, Holding
<1>2. CASE ExportSOPS(r, s)
  <2>1. \A q \in SecRequest : q.op = "export" /\ q.at = "export" /\ q.n = "none" => SecWhere(q)
    BY DEF SecWhere
  <2> QED BY <1>2, <2>1, Begun DEF ExportSOPS, SecOps, SecPoints, Holding
<1>3. CASE MaterializeSOPS(r, s)
  <2>1. \A q \in SecRequest : q.op = "mat" /\ q.at = "materialize" /\ q.n = "none" => SecWhere(q)
    BY DEF SecWhere
  <2> QED BY <1>3, <2>1, Begun DEF MaterializeSOPS, SecOps, SecPoints, Holding
<1>4. CASE GuardSecretDeletion(r, s)
  <2>1. ASSUME NEW at \in {"release", "rmdir"}, Begin(r, "rm", at, s, "none", 0)
        PROVE  SecInv' /\ FilesKept
    <3>1. \A q \in SecRequest : q.op = "rm" /\ q.at = at /\ q.n = "none" => SecWhere(q)
      BY DEF SecWhere
    <3> QED BY <2>1, <3>1, Begun DEF SecOps, SecPoints, Holding
  <2> QED BY <1>4, <2>1 DEF GuardSecretDeletion
<1> QED BY <1>1, <1>2, <1>3, <1>4

LEMMA AssignEncryptedStep ==
    ASSUME SecInv, NEW r \in SReqs, NEW n \in SecretNames, AssignEncrypted(r, n, 2)
    PROVE  SecInv' /\ FilesKept
<1>1. \A q \in SecRequest : q.op = "assign" /\ q.at = "prepare" /\ q.n = n => SecWhere(q)
  BY DEF SecWhere
<1>2. StackOrder[1] \in SStacks BY StacksOrdered
<1> QED BY <1>1, <1>2, Begun DEF AssignEncrypted, SecOps, SecPoints, Holding

-----------------------------------------------------------------------------
(* What a step may not lose: the action of NoLostSecret.                   *)
NothingLost == \A s \in SStacks, n \in SecretNames : OthersKept(s, n) /\ ReplacedIsNewest(s, n)

(* The files w replace t: a plain value that goes is the newest version if *)
(* request r has backed it up.                                             *)
Versioned(r, t, w) ==
    \A n \in SecretNames : \/ t.disk[n] \in {0, w.disk[n]}
                           \/ w.hist[n] # <<>> /\ Head(w.hist[n]) = t.disk[n]
                           \/ r \notin t.kept[n]

LEMMA KeptIsNotLost == ASSUME FilesKept PROVE NothingLost
<1>1. ASSUME NEW s \in SStacks, NEW n \in SecretNames
      PROVE  OthersKept(s, n) /\ ReplacedIsNewest(s, n)
  <2>1. sStack'[s].cipher = sStack[s].cipher /\ sStack'[s].disk = sStack[s].disk
    BY DEF FilesKept
  <2> QED BY <2>1 DEF OthersKept, ReplacedIsNewest
<1> QED BY <1>1 DEF NothingLost

LEMMA VersionedIsNotLost ==
    ASSUME NEW r \in SReqs, NEW t, t.cipher = S(r).cipher, Versioned(r, S(r), t),
           sReq'[r] # sReq[r], sReq[r].at \in {"replace", "values"},
           \A x \in SStacks : \/ sStack'[x] = sStack[x]
                              \/ x = sReq[r].s /\ sStack'[x] = t
    PROVE  NothingLost
<1>1. ASSUME NEW s \in SStacks, NEW n \in SecretNames
      PROVE  OthersKept(s, n) /\ ReplacedIsNewest(s, n)
  <2>1. CASE sStack'[s] = sStack[s] BY <2>1 DEF OthersKept, ReplacedIsNewest
  <2>2. CASE s = sReq[r].s /\ sStack'[s] = t
    <3>1. S(r) = sStack[s] BY <2>2 DEF S
    <3>2. sStack'[s].cipher = sStack[s].cipher BY <2>2, <3>1
    <3>3. Versioned(r, sStack[s], sStack'[s]) BY <2>2, <3>1
    <3> QED BY <3>2, <3>3 DEF OthersKept, ReplacedIsNewest, Versioned
  <2> QED BY <2>1, <2>2
<1> QED BY <1>1 DEF NothingLost

LEMMA Pruned ==
    ASSUME NEW x \in 0..2, NEW h \in Histories
    PROVE  LET b == pruneHistory(<<x>> \o h)
           IN b \in Histories /\ b # <<>> /\ Head(b) = x
<1> DEFINE g == <<x>> \o h
           m == IF Len(g) < HistoryLimit THEN Len(g) ELSE HistoryLimit
<1>1. g \in Seq(0..2) /\ g[1] = x /\ Len(g) >= 1 BY DEF Histories
<1>2. m \in Nat /\ m >= 1 /\ m <= Len(g) /\ m <= HistoryLimit
  BY <1>1, StackSecretsAssumption
<1>3. pruneHistory(g) = SubSeq(g, 1, m) BY DEF pruneHistory
<1> HIDE DEF g, m
<1>4. /\ SubSeq(g, 1, m) \in Seq(0..2) /\ Len(SubSeq(g, 1, m)) = m
      /\ SubSeq(g, 1, m)[1] = g[1]
  BY <1>1, <1>2
<1>5. SubSeq(g, 1, m) # <<>> BY <1>2, <1>4
<1>6. Head(SubSeq(g, 1, m)) = x BY <1>1, <1>4, <1>5
<1>7. SubSeq(g, 1, m) \in Histories BY <1>2, <1>4 DEF Histories
<1> QED BY <1>3, <1>5, <1>6, <1>7 DEF g

LEMMA BackedUp ==
    ASSUME NEW t \in StackFiles, NEW n \in SecretNames, NEW v
    PROVE  LET b == backupExisting(t, n, v)
           IN /\ b \in Histories
              /\ t.disk[n] # 0 => b # <<>> /\ Head(b) = t.disk[n]
<1>1. t.disk[n] \in 0..2 /\ t.hist[n] \in Histories BY DEF StackFiles, StackRows, SecretValues
<1>2. CASE t.disk[n] = 0 BY <1>1, <1>2 DEF backupExisting
<1>3. CASE t.disk[n] # 0
  <2>1. backupExisting(t, n, v) = pruneHistory(<<t.disk[n]>> \o t.hist[n])
    BY <1>3 DEF backupExisting
  <2> QED BY <1>1, <2>1, Pruned
<1> QED BY <1>2, <1>3

LEMMA StoreBackedUp ==
    ASSUME NEW r \in SReqs, NEW t \in StackFiles, NEW names, NEW vals
    PROVE  LET w == storeBackup(r, t, names, vals)
           IN /\ w \in StackFiles /\ w.cipher = t.cipher /\ w.disk = t.disk
              /\ w.mounted = t.mounted /\ w.tmp = t.tmp
<1>1. CASE t.mounted BY <1>1 DEF storeBackup
<1>2. CASE ~t.mounted
  <2> DEFINE h == [n \in SecretNames |->
                     IF n \in names THEN backupExisting(t, n, vals[n]) ELSE t.hist[n]]
             k == [n \in SecretNames |-> IF n \in names THEN t.kept[n] \cup {r} ELSE t.kept[n]]
             w == [t EXCEPT !.hist = h, !.kept = k]
  <2>1. storeBackup(r, t, names, vals) = w BY <1>2 DEF storeBackup
  <2>2. t \in StackRows /\ Covered(t.disk, t.hist, t.kept) BY DEF StackFiles
  <2>3. t.kept \in Keepers /\ t.hist \in [SecretNames -> Histories] BY <2>2 DEF StackRows
  <2>4. k \in Keepers BY <2>3 DEF Keepers
  <2>5. ASSUME NEW n \in SecretNames
        PROVE  /\ h[n] \in Histories
               /\ k[n] # {} /\ t.disk[n] # 0 => h[n] # <<>> /\ Head(h[n]) = t.disk[n]
    <3>1. CASE n \in names
      <4>1. h[n] = backupExisting(t, n, vals[n]) BY <3>1
      <4> HIDE DEF h, k
      <4> QED BY <4>1, BackedUp
    <3>2. CASE n \notin names
      <4>1. h[n] = t.hist[n] /\ k[n] = t.kept[n] BY <3>2
      <4> HIDE DEF h, k
      <4> QED BY <2>2, <2>3, <4>1 DEF Covered
    <3> QED BY <3>1, <3>2
  <2>6. h \in [SecretNames -> Histories] BY <2>5
  <2> HIDE DEF h, k
  <2>7. Covered(t.disk, h, k) BY <2>5 DEF Covered
  <2>8. /\ w \in StackRows /\ w.cipher = t.cipher /\ w.disk = t.disk /\ w.hist = h
        /\ w.mounted = t.mounted /\ w.tmp = t.tmp /\ w.kept = k
    BY <2>2, <2>4, <2>6 DEF StackRows
  <2> HIDE DEF w
  <2> QED BY <2>1, <2>7, <2>8 DEF StackFiles
<1> QED BY <1>1, <1>2

LEMMA StoreWritten ==
    ASSUME NEW r \in SReqs, NEW t \in StackFiles, ~t.mounted => t.tmp = Nothing,
           NEW names, NEW vals, \A n \in names : vals[n] \in 0..2
    PROVE  LET w == storeWrite(t, names, vals)
           IN /\ w \in StackFiles /\ w.cipher = t.cipher /\ Versioned(r, t, w)
              /\ ~w.mounted => w.tmp = Nothing
<1>0. t \in StackRows /\ Covered(t.disk, t.hist, t.kept) BY DEF StackFiles
<1>1. CASE t.mounted
  <2> DEFINE x == [n \in SecretNames |-> IF n \in names THEN vals[n] ELSE t.tmp[n]]
             w == [t EXCEPT !.tmp = x]
  <2>1. x \in SecretValues BY <1>0 DEF StackRows, SecretValues
  <2>2. storeWrite(t, names, vals) = w BY <1>1 DEF storeWrite
  <2> HIDE DEF x
  <2>3. /\ w \in StackRows /\ w.cipher = t.cipher /\ w.disk = t.disk /\ w.mounted = t.mounted
        /\ w.hist = t.hist /\ w.kept = t.kept
    BY <1>0, <2>1 DEF StackRows
  <2> HIDE DEF w
  <2>4. Versioned(r, t, w) BY <2>3 DEF Versioned
  <2>5. w \in StackFiles BY <1>0, <2>3 DEF StackFiles
  <2> QED BY <1>1, <2>2, <2>3, <2>4, <2>5
<1>2. CASE ~t.mounted
  <2> DEFINE d == [n \in SecretNames |-> IF n \in names THEN vals[n] ELSE t.disk[n]]
             k == [n \in SecretNames |-> IF n \in names THEN {} ELSE t.kept[n]]
             w == [t EXCEPT !.disk = d, !.kept = k]
  <2>1. storeWrite(t, names, vals) = w BY <1>2 DEF storeWrite
  <2>2. d \in SecretValues BY <1>0 DEF StackRows, SecretValues
  <2>3. t.kept \in Keepers BY <1>0 DEF StackRows
  <2>4. k \in Keepers BY <2>3 DEF Keepers
  <2>5. ASSUME NEW n \in SecretNames
        PROVE  /\ n \notin names => d[n] = t.disk[n] /\ k[n] = t.kept[n]
               /\ n \in names => k[n] = {}
    OBVIOUS
  <2> HIDE DEF d, k
  <2>6. Covered(d, t.hist, k) BY <1>0, <2>5 DEF Covered
  <2>7. /\ w \in StackRows /\ w.cipher = t.cipher /\ w.disk = d /\ w.hist = t.hist
        /\ w.mounted = t.mounted /\ w.tmp = t.tmp /\ w.kept = k
    BY <1>0, <2>2, <2>4 DEF StackRows
  <2> HIDE DEF w
  <2>8. ASSUME NEW n \in SecretNames
        PROVE  \/ t.disk[n] \in {0, w.disk[n]}
               \/ w.hist[n] # <<>> /\ Head(w.hist[n]) = t.disk[n]
               \/ r \notin t.kept[n]
    <3>1. r \in t.kept[n] => t.kept[n] # {} OBVIOUS
    <3> QED BY <1>0, <2>5, <2>7, <3>1 DEF Covered
  <2>9. Versioned(r, t, w) BY <2>8 DEF Versioned
  <2>10. w \in StackFiles BY <2>6, <2>7 DEF StackFiles
  <2> QED BY <2>1, <2>7, <2>9, <2>10
<1> QED BY <1>1, <1>2

-----------------------------------------------------------------------------
LEMMA Requester ==
    ASSUME SecInv, NEW r \in SReqs
    PROVE  /\ sReq[r] \in SecRequest /\ sReq[r].s \in SStacks /\ SecWhere(sReq[r])
           /\ S(r) = sStack[sReq[r].s] /\ S(r) \in StackFiles
           /\ ~S(r).mounted => S(r).tmp = Nothing
           /\ sLock \in {0} \cup SReqs /\ sPending \subseteq SStacks
           /\ HeldBy(r, sReq[r], sStack, sLock) /\ r # 0
<1>1. sReq[r] \in SecRequest BY DEF SecInv, SecShapes
<1>2. sReq[r].s \in SStacks BY <1>1 DEF SecRequest
<1>3. sStack[sReq[r].s] \in StackFiles BY <1>2 DEF SecInv, SecShapes
<1>4. r # 0 BY DEF SReqs
<1> QED BY <1>1, <1>2, <1>3, <1>4 DEF S, SecInv, SecShapes, SecMounts, SecWheres, SecHeld

LEMMA MovedShape ==
    ASSUME NEW q \in SecRequest, NEW at \in SecPoints
    PROVE  LET w == [q EXCEPT !.at = at]
           IN w \in SecRequest /\ w.op = q.op /\ w.n = q.n /\ w.at = at
BY DEF SecRequest

(* One field of a stack's files changes.                                   *)
LEMMA FieldShapes ==
    ASSUME NEW t \in StackFiles
    PROVE  /\ \A x \in SecretValues : LET w == [t EXCEPT !.tmp = x]
                IN /\ w \in StackFiles /\ w.tmp = x /\ w.mounted = t.mounted
                   /\ w.cipher = t.cipher /\ w.disk = t.disk /\ w.hist = t.hist
           /\ \A x \in SecretValues \cup {NoSource} : LET w == [t EXCEPT !.cipher = x]
                IN /\ w \in StackFiles /\ w.tmp = t.tmp /\ w.mounted = t.mounted
                   /\ w.cipher = x /\ w.disk = t.disk /\ w.hist = t.hist
           /\ \A x \in BOOLEAN : LET w == [t EXCEPT !.marker = x]
                IN /\ w \in StackFiles /\ w.tmp = t.tmp /\ w.mounted = t.mounted
                   /\ w.cipher = t.cipher /\ w.disk = t.disk /\ w.hist = t.hist
           /\ \A x \in BOOLEAN : LET w == [t EXCEPT !.script = x]
                IN /\ w \in StackFiles /\ w.tmp = t.tmp /\ w.mounted = t.mounted
                   /\ w.cipher = t.cipher /\ w.disk = t.disk /\ w.hist = t.hist
BY DEF StackFiles, StackRows

LEMMA AskedForIsNotLost ==
    ASSUME NEW r \in SReqs, sReq'[r] # sReq[r], sReq[r].op \in {"enable", "rm"}
    PROVE  NothingLost
BY DEF NothingLost, OthersKept, ReplacedIsNewest

LEMMA SourceIsNotLost ==
    ASSUME NEW r \in SReqs, NEW s \in SStacks, NEW t, sReq'[r] # sReq[r],
           \A x \in SStacks : sStack'[x] = sStack[x] \/ (x = s /\ sStack'[x] = t),
           t.disk = sStack[s].disk,
           \A n \in SecretNames : \/ sStack[s].cipher[n] \in {NoSource[n], t.cipher[n]}
                                  \/ sReq[r].n = n \/ sReq[r].op \in {"enable", "export"}
    PROVE  NothingLost
<1>1. ASSUME NEW x \in SStacks, NEW n \in SecretNames
      PROVE  OthersKept(x, n) /\ ReplacedIsNewest(x, n)
  <2>1. CASE sStack'[x] = sStack[x] BY <2>1 DEF OthersKept, ReplacedIsNewest
  <2>2. CASE x = s /\ sStack'[x] = t
    <3>1. sStack'[x].disk = sStack[x].disk /\ sStack'[x].cipher = t.cipher BY <2>2
    <3>2. \/ sStack[x].cipher[n] \in {NoSource[n], sStack'[x].cipher[n]}
          \/ sReq[r].n = n \/ sReq[r].op \in {"enable", "export"}
      BY <2>2, <3>1
    <3> QED BY <3>1, <3>2 DEF OthersKept, ReplacedIsNewest
  <2> QED BY <2>1, <2>2
<1> QED BY <1>1 DEF NothingLost

(* An answer, or a move, that leaves every file alone.                     *)
LEMMA OnlyAnswered ==
    ASSUME SecInv, NEW r \in SReqs, sReq[r].at # "none", Answer(r), UNCHANGED sStack,
           sPending' \subseteq SStacks
    PROVE  SecInv' /\ NothingLost
BY SameStacks, Answered, KeptIsNotLost

LEMMA OnlyMoved ==
    ASSUME SecInv, NEW r \in SReqs, NEW at \in SecPoints \ Holding, at # sReq[r].at,
           ToStep(r, at), \A q \in SecRequest : q.op = sReq[r].op /\ q.n = sReq[r].n
                                                /\ q.at = at => SecWhere(q),
           StacksSound, FilesKept, sPending' \subseteq SStacks,
           UNCHANGED sLock \/ (sLock = 0 /\ sLock' = r)
    PROVE  SecInv' /\ NothingLost
<1>1. sReq[r] \in SecRequest /\ sLock \in {0} \cup SReqs BY Requester
<1>2. SecWhere([sReq[r] EXCEPT !.at = at]) BY <1>1, MovedShape
<1>3. OnlyDropped BY DEF FilesKept, OnlyDropped
<1> QED BY <1>1, <1>2, <1>3, Moved, KeptIsNotLost

LEMMA PlainBackupStep ==
    ASSUME SecInv, NEW r \in SReqs, PlainBackup(r) PROVE SecInv' /\ NothingLost
<1> DEFINE q == sReq[r]
           t == storeBackup(r, S(r), {q.n}, Wanted(r))
<1>1. q.at = "write" /\ UNCHANGED sPending BY DEF PlainBackup, AtS
<1>2. q \in SecRequest /\ SecWhere(q) /\ sPending' \subseteq SStacks BY <1>1, Requester
<1>3. CASE Answer(r) /\ UNCHANGED sStack BY <1>1, <1>2, <1>3, OnlyAnswered
<1>4. CASE Change(r, t) /\ ToStep(r, "replace") /\ UNCHANGED sLock
  <2>1. /\ t \in StackFiles /\ t.cipher = S(r).cipher /\ t.disk = S(r).disk
        /\ t.mounted = S(r).mounted /\ t.tmp = S(r).tmp
    BY Requester, StoreBackedUp
  <2> HIDE DEF t
  <2>2. StacksSound /\ FilesKept BY <1>4, <2>1, Requester, StackChanged
  <2>3. \A x \in SecRequest : x.op = sReq[r].op /\ x.n = sReq[r].n /\ x.at = "replace"
                                => SecWhere(x)
    BY <1>1, <1>2 DEF SecWhere
  <2>4. "replace" \in SecPoints \ Holding /\ "replace" # sReq[r].at
    BY <1>1 DEF SecPoints, Holding
  <2> QED BY <1>2, <1>4, <2>2, <2>3, <2>4, OnlyMoved
<1> QED BY <1>3, <1>4 DEF PlainBackup

LEMMA PlainWriteStep ==
    ASSUME SecInv, NEW r \in SReqs, PlainWrite(r) PROVE SecInv' /\ NothingLost
<1> DEFINE q == sReq[r]
           t == storeWrite(S(r), {q.n}, Wanted(r))
<1>1. q.at = "replace" /\ Answer(r) /\ UNCHANGED sPending BY DEF PlainWrite, AtS
<1>2. q \in SecRequest /\ SecWhere(q) /\ sPending' \subseteq SStacks BY <1>1, Requester
<1>3. q.n \in SecretNames /\ q.v \in 0..2 BY <1>1, <1>2 DEF SecWhere, SecRequest
<1>4. CASE UNCHANGED sStack BY <1>1, <1>2, <1>4, OnlyAnswered
<1>5. CASE Change(r, t)
  <2>1. \A n \in {q.n} : Wanted(r)[n] \in 0..2 BY <1>3 DEF Wanted
  <2>2. t \in StackFiles /\ t.cipher = S(r).cipher /\ Versioned(r, S(r), t)
        /\ (~t.mounted => t.tmp = Nothing)
    BY <2>1, Requester, StoreWritten
  <2> HIDE DEF t
  <2>3. /\ StacksSound /\ OnlyDropped
        /\ \A x \in SStacks : sStack'[x] = sStack[x] \/ (x = sReq[r].s /\ sStack'[x] = t)
    BY <1>5, <2>2, StackChanged
  <2>4. SecInv' /\ sReq'[r] # sReq[r] BY <1>1, <1>2, <2>3, Answered
  <2>5. NothingLost BY <1>1, <2>2, <2>3, <2>4, VersionedIsNotLost
  <2> QED BY <2>4, <2>5
<1> QED BY <1>4, <1>5 DEF PlainWrite

LEMMA inlineValuesStep ==
    ASSUME SecInv, NEW r \in SReqs, inlineValues(r) PROVE SecInv' /\ NothingLost
<1> DEFINE q == [sReq[r] EXCEPT !.at = "encrypt", !.vals = S(r).cipher]
<1>1. sReq[r].op = "inline" /\ sReq[r].at = "lock" /\ UNCHANGED <<sStack, sPending>>
  BY DEF inlineValues, AtS
<1>2. CASE Answer(r) BY <1>1, <1>2, Requester, OnlyAnswered
<1>3. CASE /\ S(r).cipher # NoSource /\ Lock(r) /\ sReq' = [sReq EXCEPT ![r] = q]
  <2>1. S(r).cipher \in SecretValues BY <1>3, Requester DEF StackFiles, StackRows
  <2>2. sReq[r] \in SecRequest /\ SecWhere(sReq[r]) BY Requester
  <2>3. /\ q \in SecRequest /\ q.op = "inline" /\ q.at = "encrypt" /\ q.n = sReq[r].n
        /\ q.vals = S(r).cipher /\ q.s = sReq[r].s
    BY <1>1, <2>1, <2>2 DEF SecRequest, SecPoints
  <2> HIDE DEF q
  <2>4. SecWhere(q) BY <1>1, <2>2, <2>3 DEF SecWhere
  <2>5. sLock = 0 /\ sLock' = r BY <1>3 DEF Lock
  <2>6. \A s \in SStacks : AssignState(q, s, sStack'[s].cipher) BY <2>3 DEF AssignState
  <2>7. sStack'[q.s].cipher = q.vals BY <1>1, <2>3 DEF S
  <2>8. HeldBy(r, q, sStack', sLock') BY <2>3, <2>5, <2>6, <2>7 DEF HeldBy
  <2>9. SecInv' BY <1>1, <1>3, <2>3, <2>4, <2>5, <2>8, Requester, SameStacks, SecStep
  <2> QED BY <1>1, <2>9, SameStacks, KeptIsNotLost
<1> QED BY <1>2, <1>3 DEF inlineValues

LEMMA writeValuesStep ==
    ASSUME SecInv, NEW r \in SReqs, writeValues(r) PROVE SecInv' /\ NothingLost
<1> DEFINE q == sReq[r]
           vals == [q.vals EXCEPT ![q.n] = q.v]
           w == [q EXCEPT !.at = "sync", !.vals = vals]
           t == [S(r) EXCEPT !.cipher = vals]
<1>1. q.at = "encrypt" /\ UNCHANGED sPending BY DEF writeValues, AtS
<1>2. q \in SecRequest /\ SecWhere(q) /\ HeldBy(r, q, sStack, sLock) /\ sPending' \subseteq SStacks
  BY <1>1, Requester
<1>3. q.op = "inline" /\ q.n \in SecretNames BY <1>1, <1>2 DEF SecWhere
<1>4. sLock = r /\ sStack[q.s].cipher \in {NoSource, q.vals}
  BY <1>1, <1>2 DEF HeldBy, Holding
<1>5. CASE Answer(r) /\ UNCHANGED sStack BY <1>1, <1>2, <1>5, OnlyAnswered
<1>6. CASE Change(r, t) /\ (Answer(r) \/ (UNCHANGED sLock /\ sReq' = [sReq EXCEPT ![r] = w]))
  <2>1. vals \in SecretValues /\ \A m \in SecretNames : m # q.n => vals[m] = q.vals[m]
    BY <1>2, <1>3 DEF SecRequest, SecretValues
  <2> HIDE DEF vals
  <2>2. /\ t \in StackFiles /\ t.tmp = S(r).tmp /\ t.mounted = S(r).mounted
        /\ t.cipher = vals /\ t.disk = S(r).disk
    BY <2>1, Requester, FieldShapes
  <2>3. w \in SecRequest /\ w.op = "inline" /\ w.at = "sync" /\ w.n = q.n
    BY <1>2, <1>3, <2>1 DEF SecRequest, SecPoints
  <2>4. UNCHANGED sLock /\ sReq' = [sReq EXCEPT ![r] = w] => sReq'[r] = w
    BY DEF SecInv, SecShapes
  <2> HIDE DEF t, w, q
  <2>5. SecWhere(w) /\ HeldBy(r, w, sStack', sLock')
    BY <1>3, <2>3 DEF SecWhere, HeldBy, Holding
  <2>6. ~t.mounted => t.tmp = Nothing BY <2>2, Requester
  <2>7. /\ StacksSound
        /\ \A x \in SStacks : sStack'[x] = sStack[x] \/ (x = sReq[r].s /\ sStack'[x] = t)
    BY <1>6, <2>2, <2>6, StackChanged
  <2>8. SecInv' /\ sReq'[r] # sReq[r]
    <3>1. CASE Answer(r) BY <1>1, <1>2, <1>4, <2>7, <3>1, Answered DEF q
    <3>2. CASE UNCHANGED sLock /\ sReq' = [sReq EXCEPT ![r] = w]
      <4>1. SecInv' BY <1>2, <1>4, <3>2, <2>3, <2>5, <2>7, Requester, SecStep
      <4> QED BY <1>1, <2>3, <2>4, <3>2, <4>1 DEF q
    <3> QED BY <1>6, <3>1, <3>2
  <2>9. NothingLost
    <3>1. sReq'[r] # sReq[r] BY <2>8
    <3>2. t.disk = sStack[q.s].disk /\ q.s \in SStacks /\ sReq[r].s = q.s
      BY <2>2, Requester DEF q
    <3>3. ASSUME NEW m \in SecretNames
          PROVE sStack[q.s].cipher[m] \in {NoSource[m], t.cipher[m]} \/ sReq[r].n = m
      <4>1. CASE sStack[q.s].cipher = NoSource BY <4>1
      <4>2. CASE sStack[q.s].cipher = q.vals BY <4>2, <2>1, <2>2 DEF q
      <4> QED BY <1>4, <4>1, <4>2
    <3> QED BY <2>7, <3>1, <3>2, <3>3, SourceIsNotLost
  <2> QED BY <2>8, <2>9
<1> QED BY <1>5, <1>6 DEF writeValues

(* The files of the stack change, its source and its plain values do not.  *)
LEMMA AnsweredTouching ==
    ASSUME SecInv, NEW r \in SReqs, NEW t \in StackFiles, sReq[r].at # "none",
           ~t.mounted => t.tmp = Nothing, t.cipher = S(r).cipher, t.disk = S(r).disk,
           Change(r, t), Answer(r), sPending' \subseteq SStacks
    PROVE  SecInv' /\ NothingLost
<1>1. StacksSound /\ OnlyDropped /\ FilesKept BY StackChanged
<1> QED BY <1>1, Answered, KeptIsNotLost

LEMMA syncVolatileRuntimeStep ==
    ASSUME SecInv, NEW r \in SReqs, syncVolatileRuntime(r) PROVE SecInv' /\ NothingLost
<1> DEFINE t == [S(r) EXCEPT !.tmp = sReq[r].vals]
<1>1. sReq[r].at = "sync" BY DEF syncVolatileRuntime, AtS
<1>2. sReq[r] \in SecRequest /\ SecWhere(sReq[r]) /\ sPending \subseteq SStacks BY Requester
<1>3. CASE S(r).mounted /\ Change(r, t) /\ Answer(r) /\ UNCHANGED sPending
  <2>1. sReq[r].vals \in SecretValues BY <1>2 DEF SecRequest
  <2>2. t \in StackFiles /\ t.mounted = S(r).mounted /\ t.cipher = S(r).cipher
        /\ t.disk = S(r).disk
    BY <2>1, Requester, FieldShapes
  <2> HIDE DEF t
  <2> QED BY <1>1, <1>2, <1>3, <2>2, AnsweredTouching
<1>4. CASE Answer(r) /\ UNCHANGED sStack /\ sPending' \in {sPending, SStacks}
  BY <1>1, <1>2, <1>4, OnlyAnswered
<1>5. CASE ToStep(r, "await") /\ UNCHANGED <<sStack, sLock>> /\ sPending' = SStacks
  <2>1. \A q \in SecRequest : q.op = sReq[r].op /\ q.n = sReq[r].n /\ q.at = "await" => SecWhere(q)
    BY <1>1, <1>2 DEF SecWhere
  <2>2. "await" \in SecPoints \ Holding /\ "await" # sReq[r].at
    BY <1>1 DEF SecPoints, Holding
  <2> QED BY <1>5, <2>1, <2>2, SameStacks, OnlyMoved
<1> QED BY <1>3, <1>4, <1>5 DEF syncVolatileRuntime

LEMMA waitForVolatileRuntimeStep ==
    ASSUME SecInv, NEW r \in SReqs, waitForVolatileRuntime(r) PROVE SecInv' /\ NothingLost
<1>1. sReq[r].at = "await" /\ UNCHANGED <<sStack, sPending>>
  BY DEF waitForVolatileRuntime, AtS
<1>2. SecWhere(sReq[r]) /\ sPending' \subseteq SStacks BY <1>1, Requester
<1>3. CASE Answer(r) BY <1>1, <1>2, <1>3, OnlyAnswered
<1>4. CASE ToStep(r, "sync") /\ UNCHANGED sLock
  <2>1. \A q \in SecRequest : q.op = sReq[r].op /\ q.n = sReq[r].n /\ q.at = "sync" => SecWhere(q)
    BY <1>1, <1>2 DEF SecWhere
  <2>2. "sync" \in SecPoints \ Holding /\ "sync" # sReq[r].at
    BY <1>1 DEF SecPoints, Holding
  <2> QED BY <1>1, <1>2, <1>4, <2>1, <2>2, SameStacks, OnlyMoved
<1> QED BY <1>3, <1>4 DEF waitForVolatileRuntime

LEMMA ExportStep ==
    ASSUME SecInv, NEW r \in SReqs, Export(r) PROVE SecInv' /\ NothingLost
<1> DEFINE items == runtimeList(S(r))
           c == IF items # Nothing THEN items
                ELSE IF S(r).cipher = NoSource THEN Nothing ELSE S(r).cipher
           t == [S(r) EXCEPT !.cipher = c]
<1>1. sReq[r].at = "export" /\ sLock = 0 /\ UNCHANGED sPending BY DEF Export, AtS
<1>2. sReq[r] \in SecRequest /\ SecWhere(sReq[r]) /\ sPending' \subseteq SStacks BY <1>1, Requester
<1>3. sReq[r].op \in {"enable", "export"} BY <1>1, <1>2 DEF SecWhere
<1>4. CASE Answer(r) /\ UNCHANGED sStack BY <1>1, <1>2, <1>4, OnlyAnswered
<1>5. ASSUME Change(r, t),
             \/ Answer(r)
             \/ ToStep(r, "activate") /\ UNCHANGED sLock /\ sReq[r].op = "enable"
      PROVE  SecInv' /\ NothingLost
  <2>1. c \in SecretValues
    BY Requester, ValueShapes DEF runtimeList, StackFiles, StackRows
  <2> HIDE DEF c
  <2>2. /\ t \in StackFiles /\ t.tmp = S(r).tmp /\ t.mounted = S(r).mounted
        /\ t.disk = S(r).disk
    BY <2>1, Requester, FieldShapes
  <2> HIDE DEF t
  <2>3. /\ StacksSound
        /\ \A x \in SStacks : sStack'[x] = sStack[x] \/ (x = sReq[r].s /\ sStack'[x] = t)
    BY <1>5, <2>2, Requester, StackChanged
  <2>4. SecInv' /\ sReq'[r] # sReq[r]
    <3>1. CASE Answer(r) BY <1>1, <1>2, <2>3, <3>1, Answered
    <3>2. CASE ToStep(r, "activate") /\ UNCHANGED sLock /\ sReq[r].op = "enable"
      <4>1. SecWhere([sReq[r] EXCEPT !.at = "activate"])
        <5> DEFINE w == [sReq[r] EXCEPT !.at = "activate"]
        <5>1. w.op = "enable" /\ w.at = "activate"
          BY <1>2, <3>2, MovedShape DEF SecPoints
        <5> HIDE DEF w
        <5>2. SecWhere(w) BY <5>1 DEF SecWhere
        <5> QED BY <5>2 DEF w
      <4>2. "activate" \in SecPoints \ Holding /\ "activate" # sReq[r].at
        BY <1>1 DEF SecPoints, Holding
      <4> QED BY <1>1, <1>2, <2>3, <3>2, <4>1, <4>2, Moved
    <3> QED BY <1>5, <3>1, <3>2
  <2>5. t.disk = sStack[sReq[r].s].disk /\ sReq[r].s \in SStacks BY <2>2, Requester
  <2>6. NothingLost BY <1>3, <2>3, <2>4, <2>5, SourceIsNotLost
  <2> QED BY <2>4, <2>6
<1> QED BY <1>4, <1>5 DEF Export

LEMMA ActivateInlineStep ==
    ASSUME SecInv, NEW r \in SReqs, ActivateInline(r) PROVE SecInv' /\ NothingLost
<1> DEFINE t == [S(r) EXCEPT !.script = TRUE]
<1>1. sReq[r].at = "activate" /\ sLock = 0 /\ UNCHANGED sPending BY DEF ActivateInline, AtS
<1>2. SecWhere(sReq[r]) /\ sPending' \subseteq SStacks BY <1>1, Requester
<1>3. CASE Answer(r) /\ UNCHANGED sStack BY <1>1, <1>2, <1>3, OnlyAnswered
<1>4. CASE Lock(r) /\ Change(r, t) /\ ToStep(r, "purge")
  <2>1. /\ t \in StackFiles /\ t.tmp = S(r).tmp /\ t.mounted = S(r).mounted
        /\ t.cipher = S(r).cipher /\ t.disk = S(r).disk
    BY Requester, FieldShapes
  <2> HIDE DEF t
  <2>2. StacksSound /\ FilesKept BY <1>4, <2>1, Requester, StackChanged
  <2>3. \A q \in SecRequest : q.op = sReq[r].op /\ q.n = sReq[r].n /\ q.at = "purge" => SecWhere(q)
    BY <1>1, <1>2 DEF SecWhere
  <2>4. "purge" \in SecPoints \ Holding /\ "purge" # sReq[r].at
    BY <1>1 DEF SecPoints, Holding
  <2> QED BY <1>1, <1>2, <1>4, <2>2, <2>3, <2>4, OnlyMoved DEF Lock
<1> QED BY <1>3, <1>4 DEF ActivateInline

LEMMA PurgePlaintextStep ==
    ASSUME SecInv, NEW r \in SReqs, PurgePlaintext(r) PROVE SecInv' /\ NothingLost
<1> DEFINE t == [S(r) EXCEPT !.tmp = Nothing]
           u == [S(r) EXCEPT !.disk = Nothing, !.hist = Gone.hist, !.kept = Gone.kept]
<1>1. sReq[r].at = "purge" /\ UNCHANGED sPending BY DEF PurgePlaintext, AtS
<1>2. SecWhere(sReq[r]) /\ sPending' \subseteq SStacks BY <1>1, Requester
<1>3. sReq[r].op = "enable" BY <1>1, <1>2 DEF SecWhere
<1>4. CASE S(r).mounted /\ Change(r, t) /\ Answer(r)
  <2>1. /\ t \in StackFiles /\ t.tmp = Nothing /\ t.cipher = S(r).cipher /\ t.disk = S(r).disk
    BY Requester, FieldShapes, ValueShapes
  <2> HIDE DEF t
  <2> QED BY <1>1, <1>2, <1>4, <2>1, AnsweredTouching
<1>5. CASE Change(r, u) /\ ToStep(r, "mark") /\ UNCHANGED sLock
  <2>1. /\ Gone.hist \in [SecretNames -> Histories] /\ Gone.kept \in Keepers
        /\ Covered(Nothing, Gone.hist, Gone.kept)
    BY GoneFiles DEF StackFiles, StackRows
  <2>2. u \in StackFiles /\ u.tmp = S(r).tmp /\ u.mounted = S(r).mounted
        /\ u.cipher = S(r).cipher
    BY <2>1, Requester, ValueShapes DEF StackFiles, StackRows
  <2> HIDE DEF u
  <2>3. StacksSound /\ OnlyDropped BY <1>5, <2>2, Requester, StackChanged
  <2>4. SecWhere([sReq[r] EXCEPT !.at = "mark"])
    <3> DEFINE w == [sReq[r] EXCEPT !.at = "mark"]
    <3>1. w.op = "enable" /\ w.at = "mark" BY <1>3, Requester, MovedShape DEF SecPoints
    <3> HIDE DEF w
    <3>2. SecWhere(w) BY <3>1 DEF SecWhere
    <3> QED BY <3>2 DEF w
  <2>5. "mark" \in SecPoints \ Holding /\ "mark" # sReq[r].at
    BY <1>1 DEF SecPoints, Holding
  <2>6. SecInv' /\ sReq'[r] # sReq[r]
    BY <1>2, <1>5, <2>3, <2>4, <2>5, Requester, Moved
  <2> QED BY <1>3, <2>6, AskedForIsNotLost
<1> QED BY <1>4, <1>5 DEF PurgePlaintext

LEMMA MarkInlineStep ==
    ASSUME SecInv, NEW r \in SReqs, MarkInline(r) PROVE SecInv' /\ NothingLost
<1> DEFINE t == [S(r) EXCEPT !.marker = TRUE]
<1>1. sReq[r].at = "mark" /\ Answer(r) BY DEF MarkInline, AtS
<1>2. CASE UNCHANGED <<sStack, sPending>> BY <1>1, <1>2, Requester, OnlyAnswered
<1>3. CASE Change(r, t) /\ sPending' = SStacks
  <2>1. /\ t \in StackFiles /\ t.tmp = S(r).tmp /\ t.mounted = S(r).mounted
        /\ t.cipher = S(r).cipher /\ t.disk = S(r).disk
    BY Requester, FieldShapes
  <2> HIDE DEF t
  <2> QED BY <1>1, <1>3, <2>1, Requester, AnsweredTouching
<1> QED BY <1>2, <1>3 DEF MarkInline

LEMMA releaseVolatileRuntimeStep ==
    ASSUME SecInv, NEW r \in SReqs, releaseVolatileRuntime(r) PROVE SecInv' /\ NothingLost
<1> DEFINE t == [S(r) EXCEPT !.marker = FALSE]
<1>1. sReq[r].at = "release" BY DEF releaseVolatileRuntime, AtS
<1>2. SecWhere(sReq[r]) /\ sPending \subseteq SStacks BY Requester
<1>3. CASE Answer(r) /\ UNCHANGED <<sStack, sPending>> BY <1>1, <1>2, <1>3, OnlyAnswered
<1>4. CASE Change(r, t) /\ sPending' = SStacks /\ ToStep(r, "released") /\ UNCHANGED sLock
  <2>1. /\ t \in StackFiles /\ t.tmp = S(r).tmp /\ t.mounted = S(r).mounted
        /\ t.cipher = S(r).cipher /\ t.disk = S(r).disk
    BY Requester, FieldShapes
  <2> HIDE DEF t
  <2>2. StacksSound /\ FilesKept BY <1>4, <2>1, Requester, StackChanged
  <2>3. \A q \in SecRequest : q.op = sReq[r].op /\ q.n = sReq[r].n /\ q.at = "released"
                                => SecWhere(q)
    BY <1>1, <1>2 DEF SecWhere
  <2>4. "released" \in SecPoints \ Holding /\ "released" # sReq[r].at
    BY <1>1 DEF SecPoints, Holding
  <2> QED BY <1>4, <2>2, <2>3, <2>4, OnlyMoved
<1> QED BY <1>3, <1>4 DEF releaseVolatileRuntime

LEMMA waitForVolatileRuntimeReleaseStep ==
    ASSUME SecInv, NEW r \in SReqs, waitForVolatileRuntimeRelease(r)
    PROVE  SecInv' /\ NothingLost
<1> DEFINE t == [S(r) EXCEPT !.marker = TRUE]
           at == IF sReq[r].op = "rm" THEN "rmdir" ELSE "materialize"
<1>1. sReq[r].at = "released" /\ UNCHANGED sPending
  BY DEF waitForVolatileRuntimeRelease, AtS
<1>2. SecWhere(sReq[r]) /\ sPending' \subseteq SStacks BY <1>1, Requester
<1>3. CASE Change(r, t) /\ Answer(r)
  <2>1. /\ t \in StackFiles /\ t.tmp = S(r).tmp /\ t.mounted = S(r).mounted
        /\ t.cipher = S(r).cipher /\ t.disk = S(r).disk
    BY Requester, FieldShapes
  <2> HIDE DEF t
  <2> QED BY <1>1, <1>2, <1>3, <2>1, Requester, AnsweredTouching
<1>4. CASE ToStep(r, at) /\ UNCHANGED <<sStack, sLock>>
  <2>1. (at = "rmdir" /\ sReq[r].op = "rm") \/ at = "materialize" OBVIOUS
  <2> HIDE DEF at
  <2>2. \A q \in SecRequest : q.op = sReq[r].op /\ q.n = sReq[r].n /\ q.at = at => SecWhere(q)
    BY <1>1, <1>2, <2>1 DEF SecWhere
  <2>3. at \in SecPoints \ Holding /\ at # sReq[r].at
    BY <1>1, <2>1 DEF SecPoints, Holding
  <2> QED BY <1>2, <1>4, <2>2, <2>3, SameStacks, OnlyMoved
<1> QED BY <1>3, <1>4 DEF waitForVolatileRuntimeRelease

LEMMA MaterializeFailed ==
    ASSUME SecInv, NEW r \in SReqs, sReq[r].at # "none",
           Change(r, [S(r) EXCEPT !.marker = @ \/ sReq[r].vol]), Answer(r), UNCHANGED sPending
    PROVE  SecInv' /\ NothingLost
<1> DEFINE x == [S(r) EXCEPT !.marker = S(r).marker \/ sReq[r].vol]
<1>1. (S(r).marker \/ sReq[r].vol) \in BOOLEAN
  BY Requester DEF StackFiles, StackRows, SecRequest
<1>2. /\ x \in StackFiles /\ x.tmp = S(r).tmp /\ x.mounted = S(r).mounted
      /\ x.cipher = S(r).cipher /\ x.disk = S(r).disk
  BY <1>1, Requester, FieldShapes
<1>3. Change(r, x) OBVIOUS
<1> HIDE DEF x
<1> QED BY <1>2, <1>3, Requester, AnsweredTouching

LEMMA MaterializeStep ==
    ASSUME SecInv, NEW r \in SReqs, Materialize(r) PROVE SecInv' /\ NothingLost
<1> DEFINE names == {n \in SecretNames : S(r).cipher[n] # 0}
           t == storeBackup(r, S(r), names, S(r).cipher)
           q == [sReq[r] EXCEPT !.at = "values", !.vals = S(r).cipher]
<1>1. sReq[r].at = "materialize" /\ sLock = 0 /\ UNCHANGED sPending BY DEF Materialize, AtS
<1>2. SecWhere(sReq[r]) /\ sPending' \subseteq SStacks /\ sReq[r] \in SecRequest
  BY <1>1, Requester
<1>3. CASE Change(r, [S(r) EXCEPT !.marker = @ \/ sReq[r].vol]) /\ Answer(r)
  BY <1>1, <1>3, MaterializeFailed
<1>4. CASE /\ S(r).cipher # NoSource /\ Lock(r) /\ Change(r, t)
           /\ sReq' = [sReq EXCEPT ![r] = q]
  <2>1. S(r).cipher \in SecretValues BY <1>4, Requester DEF StackFiles, StackRows
  <2>2. /\ t \in StackFiles /\ t.cipher = S(r).cipher /\ t.disk = S(r).disk
        /\ t.mounted = S(r).mounted /\ t.tmp = S(r).tmp
    BY Requester, StoreBackedUp
  <2> HIDE DEF t
  <2>3. StacksSound /\ FilesKept BY <1>4, <2>2, Requester, StackChanged
  <2>4. /\ q \in SecRequest /\ q.op = sReq[r].op /\ q.at = "values" /\ q.n = sReq[r].n
    BY <1>2, <2>1 DEF SecRequest, SecPoints
  <2> HIDE DEF q
  <2>5. SecWhere(q) /\ HeldBy(r, q, sStack', sLock')
    BY <1>1, <1>2, <2>4 DEF SecWhere, HeldBy, Holding
  <2>6. sLock' = r BY <1>4 DEF Lock
  <2>7. SecInv' BY <1>1, <1>2, <1>4, <2>3, <2>4, <2>5, <2>6, SecStep
  <2> QED BY <2>3, <2>7, KeptIsNotLost
<1> QED BY <1>3, <1>4 DEF Materialize

LEMMA MaterializeValuesStep ==
    ASSUME SecInv, NEW r \in SReqs, MaterializeValues(r) PROVE SecInv' /\ NothingLost
<1> DEFINE names == {n \in SecretNames : sReq[r].vals[n] # 0}
           t == storeWrite(S(r), names, sReq[r].vals)
<1>1. sReq[r].at = "values" /\ UNCHANGED sPending BY DEF MaterializeValues, AtS
<1>2. SecWhere(sReq[r]) /\ sPending' \subseteq SStacks /\ sReq[r] \in SecRequest
  BY <1>1, Requester
<1>n. \A n \in names : sReq[r].vals[n] \in 0..2 BY <1>2 DEF SecRequest, SecretValues
<1>3. ASSUME NEW done \in SUBSET names, Answer(r),
             Change(r, [storeWrite(S(r), done, sReq[r].vals) EXCEPT !.marker = @ \/ sReq[r].vol])
      PROVE  SecInv' /\ NothingLost
  <2> DEFINE u == storeWrite(S(r), done, sReq[r].vals)
             on == u.marker \/ sReq[r].vol
             x == [u EXCEPT !.marker = on]
  <2>1. u \in StackFiles /\ u.cipher = S(r).cipher /\ Versioned(r, S(r), u)
        /\ (~u.mounted => u.tmp = Nothing)
    BY <1>n, Requester, StoreWritten
  <2>2. Change(r, x) BY <1>3
  <2> HIDE DEF u
  <2>3. on \in BOOLEAN BY <1>2, <2>1 DEF StackFiles, StackRows, SecRequest
  <2> HIDE DEF on
  <2>4. /\ x \in StackFiles /\ x.cipher = u.cipher /\ x.disk = u.disk /\ x.hist = u.hist
        /\ x.mounted = u.mounted /\ x.tmp = u.tmp
    BY <2>1, <2>3, FieldShapes
  <2> HIDE DEF x
  <2>5. Versioned(r, S(r), x) BY <2>1, <2>4 DEF Versioned
  <2>6. /\ StacksSound /\ OnlyDropped
        /\ \A y \in SStacks : sStack'[y] = sStack[y] \/ (y = sReq[r].s /\ sStack'[y] = x)
    BY <2>1, <2>2, <2>4, StackChanged
  <2>7. SecInv' /\ sReq'[r] # sReq[r] BY <1>1, <1>2, <1>3, <2>6, Answered
  <2>8. NothingLost BY <1>1, <2>1, <2>4, <2>5, <2>6, <2>7, VersionedIsNotLost
  <2> QED BY <2>7, <2>8
<1>4. CASE Change(r, t) /\ (Answer(r) \/ (ToStep(r, "unmark") /\ GiveBack(r)))
  <2>1. \A n \in names : sReq[r].vals[n] \in 0..2 BY <1>n
  <2> HIDE DEF names
  <2>2. t \in StackFiles /\ t.cipher = S(r).cipher /\ Versioned(r, S(r), t)
        /\ (~t.mounted => t.tmp = Nothing)
    BY <2>1, Requester, StoreWritten
  <2> HIDE DEF t
  <2>3. /\ StacksSound /\ OnlyDropped
        /\ \A x \in SStacks : sStack'[x] = sStack[x] \/ (x = sReq[r].s /\ sStack'[x] = t)
    BY <1>4, <2>2, StackChanged
  <2>4. SecInv' /\ sReq'[r] # sReq[r]
    <3>1. CASE Answer(r) BY <1>1, <1>2, <2>3, <3>1, Answered
    <3>2. CASE ToStep(r, "unmark") /\ GiveBack(r)
      <4> DEFINE q == [sReq[r] EXCEPT !.at = "unmark"]
      <4>1. q.op = sReq[r].op /\ q.n = sReq[r].n /\ q.at = "unmark"
        BY <1>2, MovedShape DEF SecPoints
      <4> HIDE DEF q
      <4>2. SecWhere(q) BY <1>1, <1>2, <4>1 DEF SecWhere
      <4>3. SecWhere([sReq[r] EXCEPT !.at = "unmark"]) BY <4>2 DEF q
      <4>4. "unmark" \in SecPoints \ Holding /\ "unmark" # sReq[r].at
        BY <1>1 DEF SecPoints, Holding
      <4>5. sLock' \in {0} \cup SReqs /\ (sLock = r \/ sLock' = sLock)
        BY <3>2, Requester DEF GiveBack
      <4> QED BY <1>1, <1>2, <2>3, <3>2, <4>3, <4>4, <4>5, Moved
    <3> QED BY <1>4, <3>1, <3>2
  <2>5. NothingLost BY <1>1, <2>2, <2>3, <2>4, VersionedIsNotLost
  <2> QED BY <2>4, <2>5
<1> QED BY <1>3, <1>4 DEF MaterializeValues

LEMMA UnmarkInlineStep ==
    ASSUME SecInv, NEW r \in SReqs, UnmarkInline(r) PROVE SecInv' /\ NothingLost
<1> DEFINE t == [S(r) EXCEPT !.marker = FALSE, !.script = FALSE]
<1>1. /\ sReq[r].at = "unmark" /\ UNCHANGED sPending /\ Answer(r) /\ Change(r, t)
  BY DEF UnmarkInline, AtS
<1>2. /\ t \in StackFiles /\ t.tmp = S(r).tmp /\ t.mounted = S(r).mounted
      /\ t.cipher = S(r).cipher /\ t.disk = S(r).disk
  BY Requester DEF StackFiles, StackRows
<1> HIDE DEF t
<1> QED BY <1>1, <1>2, Requester, AnsweredTouching

LEMMA RemoveStackDirectoryStep ==
    ASSUME SecInv, NEW r \in SReqs, RemoveStackDirectory(r) PROVE SecInv' /\ NothingLost
<1> DEFINE t == [Gone EXCEPT !.there = S(r).mounted, !.mounted = S(r).mounted]
<1>1. /\ sReq[r].at = "rmdir" /\ UNCHANGED sPending /\ Answer(r) /\ Change(r, t)
  BY DEF RemoveStackDirectory, AtS
<1>2. S(r).mounted \in BOOLEAN BY Requester DEF StackFiles, StackRows
<1>3. t \in StackFiles /\ t.cipher = NoSource /\ t.tmp = Nothing BY <1>2, GoneShape
<1> HIDE DEF t
<1>4. StacksSound /\ OnlyDropped BY <1>1, <1>3, StackChanged
<1>5. SecInv' /\ sReq'[r] # sReq[r] BY <1>1, <1>4, Requester, Answered
<1>6. sReq[r].op = "rm" BY <1>1, Requester DEF SecWhere
<1> QED BY <1>5, <1>6, AskedForIsNotLost

-----------------------------------------------------------------------------
(* One value for many stacks.                                              *)
LEMMA PrepareAssignStep ==
    ASSUME SecInv, NEW r \in SReqs, PrepareAssign(r) PROVE SecInv' /\ NothingLost
<1> DEFINE b == [s \in SStacks |-> sStack[s].cipher]
           q == [sReq[r] EXCEPT !.at = "assign", !.k = 1, !.before = b]
<1>1. sReq[r].at = "prepare" /\ UNCHANGED <<sStack, sPending>> BY DEF PrepareAssign, AtS
<1>2. sReq[r] \in SecRequest /\ SecWhere(sReq[r]) BY Requester
<1>3. CASE Answer(r) BY <1>1, <1>3, Requester, OnlyAnswered
<1>4. CASE /\ \A s \in SStacks : sStack[s].cipher # NoSource
           /\ Lock(r) /\ sReq' = [sReq EXCEPT ![r] = q]
  <2>1. b \in [SStacks -> SecretValues] BY <1>4 DEF SecInv, SecShapes, StackFiles, StackRows
  <2>2. \A s \in SStacks : b[s] = sStack[s].cipher OBVIOUS
  <2> HIDE DEF b
  <2>3. /\ q \in SecRequest /\ q.op = sReq[r].op /\ q.n = sReq[r].n /\ q.at = "assign"
        /\ q.k = 1 /\ q.before = b
    BY <1>2, <2>1 DEF SecRequest, SecPoints
  <2> HIDE DEF q
  <2>4. SecWhere(q) BY <1>1, <1>2, <2>3 DEF SecWhere
  <2>5. sLock = 0 /\ sLock' = r BY <1>4 DEF Lock
  <2>6. ASSUME NEW s \in SStacks PROVE AssignState(q, s, sStack'[s].cipher)
    <3>1. sStack'[s].cipher = q.before[s] BY <1>1, <2>2, <2>3
    <3>2. ~Passed(s, q.k - 1) BY <2>3 DEF Passed
    <3> QED BY <2>3, <3>1, <3>2 DEF AssignState
  <2>7. HeldBy(r, q, sStack', sLock') BY <2>3, <2>5, <2>6, StacksOrdered DEF HeldBy
  <2>8. SecInv' BY <1>1, <1>4, <2>3, <2>4, <2>5, <2>7, Requester, SameStacks, SecStep
  <2> QED BY <1>1, <2>8, SameStacks, KeptIsNotLost
<1> QED BY <1>3, <1>4 DEF PrepareAssign

(* The source of stack s is written by the request that assigns.           *)
LEMMA SourceWritten ==
    ASSUME SecInv, NEW r \in SReqs, NEW s \in SStacks, NEW c \in SecretValues,
           NEW q \in SecRequest, q # sReq[r],
           q.op = sReq[r].op, q.n = sReq[r].n, q.before = sReq[r].before, q.v = sReq[r].v,
           SecWhere(q), sReq[r].at \in Holding,
           sStack' = [sStack EXCEPT ![s].cipher = c], sReq' = [sReq EXCEPT ![r] = q],
           UNCHANGED <<sLock, sPending>>, HeldBy(r, q, sStack', sLock'),
           sStack[s].cipher # NoSource =>
               sStack[s].cipher = c
               \/ sStack[s].cipher = [c EXCEPT ![q.n] = sStack[s].cipher[q.n]]
    PROVE  SecInv' /\ NothingLost
<1> DEFINE t == [sStack[s] EXCEPT !.cipher = c]
<1>1. sStack[s] \in StackFiles /\ (~sStack[s].mounted => sStack[s].tmp = Nothing)
  BY DEF SecInv, SecShapes, SecMounts
<1>2. /\ t \in StackFiles /\ t.tmp = sStack[s].tmp /\ t.mounted = sStack[s].mounted
      /\ t.cipher = c /\ t.disk = sStack[s].disk
  BY <1>1, FieldShapes
<1>3. sStack' = [sStack EXCEPT ![s] = t] OBVIOUS
<1> HIDE DEF t
<1>4. /\ StacksSound /\ sStack'[s] = t
      /\ \A x \in SStacks : x # s => sStack'[x] = sStack[x]
  <2>1. ~t.mounted => t.tmp = Nothing BY <1>1, <1>2
  <2> QED BY <1>2, <1>3, <2>1, SetStack
<1>5. sLock = r BY Requester DEF HeldBy
<1>6. SecInv' BY <1>4, <1>5, Requester, SecStep
<1>7. sReq'[r] # sReq[r] BY DEF SecInv, SecShapes
<1>8. ASSUME NEW n \in SecretNames
      PROVE  sStack[s].cipher[n] \in {NoSource[n], t.cipher[n]} \/ sReq[r].n = n
  <2>1. CASE sStack[s].cipher = NoSource BY <2>1
  <2>2. CASE sStack[s].cipher = c BY <1>2, <2>2
  <2>3. CASE sStack[s].cipher = [c EXCEPT ![q.n] = sStack[s].cipher[q.n]]
    <3>1. n # q.n => sStack[s].cipher[n] = c[n] BY <2>3 DEF SecretValues
    <3> QED BY <1>2, <3>1
  <2> QED BY <2>1, <2>2, <2>3
<1>9. NothingLost
  <2>1. \A x \in SStacks : sStack'[x] = sStack[x] \/ (x = s /\ sStack'[x] = t) BY <1>4
  <2> QED BY <1>2, <1>7, <1>8, <2>1, SourceIsNotLost
<1> QED BY <1>6, <1>9

LEMMA PassedNext ==
    ASSUME NEW s, NEW k \in 1..Len(StackOrder)
    PROVE  Passed(s, k) <=> Passed(s, k - 1) \/ s = StackOrder[k]
BY StacksOrdered DEF Passed

LEMMA AssignOneStep ==
    ASSUME SecInv, NEW r \in SReqs, AssignOne(r) PROVE SecInv' /\ NothingLost
<1> DEFINE q == sReq[r]
           s == StackOrder[q.k]
           new == [q.before[s] EXCEPT ![q.n] = q.v]
<1>1. q.at = "assign" /\ UNCHANGED <<sLock, sPending>> BY DEF AssignOne, AtS
<1>2. q \in SecRequest /\ SecWhere(q) /\ HeldBy(r, q, sStack, sLock) BY Requester
<1>3. /\ sLock = r /\ q.k \in 1..Len(StackOrder)
      /\ \A x \in SStacks : AssignState(q, x, sStack[x].cipher)
  BY <1>1, <1>2 DEF HeldBy, Holding
<1>4. q.op = "assign" /\ q.n \in SecretNames BY <1>1, <1>2 DEF SecWhere
<1>5. s \in SStacks BY <1>3, StacksOrdered
<1>6. \A x \in SStacks : /\ q.before[x] \in SecretValues
                         /\ [q.before[x] EXCEPT ![q.n] = q.v] \in SecretValues
  BY <1>2, <1>4, ValueShapes DEF SecRequest
<1>7. \A x \in SStacks : sStack[x].cipher # NoSource =>
         sStack[x].cipher = IF Passed(x, q.k - 1) THEN [q.before[x] EXCEPT ![q.n] = q.v]
                                                  ELSE q.before[x]
  BY <1>1, <1>3 DEF AssignState
<1>10. ASSUME s \in SStacks, new \in SecretValues
       PROVE  sStack[s].cipher # NoSource =>
                 sStack[s].cipher = new
                 \/ sStack[s].cipher = [new EXCEPT ![q.n] = sStack[s].cipher[q.n]]
  <2> DEFINE b == q.before[s]
  <2>1. sStack[s].cipher # NoSource => sStack[s].cipher \in {new, b} BY <1>5, <1>7
  <2>2. b \in SecretValues BY <1>5, <1>6
  <2>3. new = [b EXCEPT ![q.n] = q.v] OBVIOUS
  <2> HIDE DEF b, new, s, q
  <2>4. b = [new EXCEPT ![q.n] = b[q.n]] BY <1>4, <2>2, <2>3 DEF SecretValues
  <2> QED BY <2>1, <2>4
<1>8. CASE /\ sReq' = [sReq EXCEPT ![r].k = @ - 1, ![r].at = "rollback", ![r].failed = {s}]
           /\ UNCHANGED sStack \/ sStack' = [sStack EXCEPT ![s].cipher = new]
  <2> DEFINE k == q.k - 1
             w == [q EXCEPT !.k = k, !.at = "rollback", !.failed = {s}]
  <2>1. sReq' = [sReq EXCEPT ![r] = w] BY <1>8
  <2>2. k \in 0..Len(StackOrder) /\ k \in Nat /\ k = q.k - 1 BY <1>3, StacksOrdered
  <2> HIDE DEF k
  <2>3. /\ w \in SecRequest /\ w.op = q.op /\ w.n = q.n /\ w.v = q.v /\ w.before = q.before
        /\ w.k = k /\ w.at = "rollback" /\ w.stranded = q.stranded /\ w.failed = {s}
    BY <1>2, <1>5, <2>2 DEF SecRequest, SecPoints
  <2>q. /\ sReq[r] = q /\ new = [q.before[s] EXCEPT ![q.n] = q.v]
        /\ new \in SecretValues /\ w # q
    BY <1>1, <1>5, <1>6, <2>3
  <2>n. sStack[s].cipher # NoSource =>
            sStack[s].cipher = new
            \/ sStack[s].cipher = [new EXCEPT ![q.n] = sStack[s].cipher[q.n]]
    BY <1>5, <2>q, <1>10
  <2>a. UNCHANGED sStack \/ sStack' = [sStack EXCEPT ![s].cipher = new] BY <1>8
  <2> HIDE DEF w, q, new, s
  <2>4. SecWhere(w) BY <1>4, <2>3 DEF SecWhere
  <2>5. ASSUME NEW x \in SStacks PROVE AssignState(w, x, sStack'[x].cipher)
    <3> DEFINE nx == [w.before[x] EXCEPT ![w.n] = w.v]
    <3>1. sStack[x].cipher # NoSource =>
             sStack[x].cipher = IF Passed(x, w.k) THEN nx ELSE w.before[x]
      BY <1>7, <2>2, <2>3
    <3>2. sStack'[x].cipher \in {sStack[x].cipher, nx}
          /\ (x # s => sStack'[x].cipher = sStack[x].cipher)
      <4>1. CASE UNCHANGED sStack BY <4>1
      <4>2. CASE x = s /\ sStack' = [sStack EXCEPT ![s].cipher = new]
        <5>1. sStack'[x].cipher = new
          BY <1>5, <4>2 DEF SecInv, SecShapes, StackFiles, StackRows
        <5> QED BY <2>3, <2>q, <4>2, <5>1
      <4>3. CASE x # s /\ sStack' = [sStack EXCEPT ![s].cipher = new]
        BY <4>3 DEF SecInv, SecShapes
      <4> QED BY <2>a, <4>1, <4>2, <4>3
    <3>3. x = s => x \in w.failed BY <2>3
    <3> HIDE DEF nx
    <3>4. sStack'[x].cipher # NoSource =>
            /\ sStack'[x].cipher \in {nx, w.before[x]}
            /\ sStack'[x].cipher = w.before[x] \/ x \in w.stranded \cup w.failed \/ Passed(x, w.k)
      BY <3>1, <3>2, <3>3
    <3> QED BY <2>3, <3>4 DEF AssignState, nx
  <2>6. HeldBy(r, w, sStack', sLock') BY <1>1, <1>3, <2>2, <2>3, <2>5 DEF HeldBy
  <2>7. CASE UNCHANGED sStack
    <3>1. SecInv'
      BY <1>1, <1>3, <2>1, <2>3, <2>4, <2>6, <2>7, Requester, SameStacks, SecStep
    <3> QED BY <2>7, <3>1, SameStacks, KeptIsNotLost
  <2>8. CASE sStack' = [sStack EXCEPT ![s].cipher = new]
    BY <1>1, <1>2, <1>5, <2>1, <2>3, <2>4, <2>6, <2>8, <2>q, <2>n,
       SourceWritten, ZenonT(60) DEF Holding
  <2> QED BY <2>a, <2>7, <2>8
<1>9. CASE /\ sStack' = [sStack EXCEPT ![s].cipher = new]
           /\ sReq' = [sReq EXCEPT ![r].k = @ + 1,
                         ![r].at = IF q.k = Len(StackOrder) THEN "assigned" ELSE @]
  <2> DEFINE at == IF q.k = Len(StackOrder) THEN "assigned" ELSE "assign"
             w == [q EXCEPT !.k = q.k + 1, !.at = at]
  <2>1. sReq' = [sReq EXCEPT ![r] = w] BY <1>1, <1>9
  <2>2. q.k + 1 \in Nat /\ at \in {"assigned", "assign"}
        /\ (at = "assign" => q.k + 1 \in 1..Len(StackOrder))
        /\ (at = "assigned" => q.k = Len(StackOrder))
    BY <1>3, StacksOrdered
  <2>3. sStack' = [sStack EXCEPT ![s].cipher = new] BY <1>9
  <2>4. new \in SecretValues /\ new = [q.before[s] EXCEPT ![q.n] = q.v] BY <1>5, <1>6
  <2> HIDE DEF at
  <2>5. /\ w \in SecRequest /\ w.op = q.op /\ w.n = q.n /\ w.v = q.v /\ w.before = q.before
        /\ w.k = q.k + 1 /\ w.at = at
    BY <1>2, <2>2 DEF SecRequest, SecPoints
  <2>6. w # q
    <3>1. q.k \in Nat BY <1>2 DEF SecRequest
    <3>2. w.k # q.k BY <2>5, <3>1
    <3> QED BY <3>2
  <2>q. sReq[r] = q OBVIOUS
  <2>s. s = StackOrder[q.k] OBVIOUS
  <2> HIDE DEF w, q, new, s
  <2>7. SecWhere(w) BY <1>4, <2>2, <2>5 DEF SecWhere
  <2>8. ASSUME NEW x \in SStacks PROVE AssignState(w, x, sStack'[x].cipher)
    <3> DEFINE nx == [w.before[x] EXCEPT ![w.n] = w.v]
    <3>1. w.k - 1 = q.k BY <1>3, <2>5
    <3>2. sStack'[x].cipher # NoSource =>
             sStack'[x].cipher = IF Passed(x, q.k) THEN nx ELSE w.before[x]
      <4>1. Passed(x, q.k) <=> Passed(x, q.k - 1) \/ x = s BY <1>3, <2>s, PassedNext
      <4>2. CASE x = s
        <5>1. sStack'[x].cipher = new BY <2>3, <4>2, <1>5 DEF SecInv, SecShapes, StackFiles, StackRows
        <5> QED BY <2>4, <2>5, <4>1, <4>2, <5>1
      <4>3. CASE x # s
        <5>1. sStack'[x].cipher = sStack[x].cipher BY <2>3, <4>3 DEF SecInv, SecShapes
        <5> QED BY <1>7, <2>5, <4>1, <4>3, <5>1
      <4> QED BY <4>2, <4>3
    <3>3. at = "assigned" => Passed(x, q.k)
      BY <2>2, StacksOrdered DEF Passed
    <3> HIDE DEF nx
    <3>4. CASE at = "assign"
      BY <3>1, <3>2, <3>4, <2>5 DEF AssignState, nx
    <3>5. CASE at = "assigned"
      BY <3>2, <3>3, <3>5, <2>5 DEF AssignState, nx
    <3> QED BY <2>2, <3>4, <3>5
  <2>9. HeldBy(r, w, sStack', sLock') BY <1>1, <1>3, <2>2, <2>5, <2>8 DEF HeldBy
  <2>10. sStack[s].cipher # NoSource =>
            sStack[s].cipher = new
            \/ sStack[s].cipher = [new EXCEPT ![w.n] = sStack[s].cipher[w.n]]
    BY <1>5, <2>4, <2>5, <1>10
  <2> QED BY <1>1, <1>2, <1>5, <2>1, <2>3, <2>4, <2>5, <2>6, <2>7, <2>9, <2>10, <2>q,
             SourceWritten DEF Holding
<1> QED BY <1>8, <1>9 DEF AssignOne

LEMMA RollbackAssignStep ==
    ASSUME SecInv, NEW r \in SReqs, RollbackAssign(r) PROVE SecInv' /\ NothingLost
<1> DEFINE q == sReq[r]
           s == StackOrder[q.k]
           k == q.k - 1
<1>1. q.at = "rollback" /\ UNCHANGED <<sLock, sPending>> BY DEF RollbackAssign, AtS
<1>2. q \in SecRequest /\ SecWhere(q) /\ HeldBy(r, q, sStack, sLock) BY Requester
<1>3. /\ sLock = r /\ q.k \in 0..Len(StackOrder)
      /\ \A x \in SStacks : AssignState(q, x, sStack[x].cipher)
  BY <1>1, <1>2 DEF HeldBy, Holding
<1>4. q.op = "assign" /\ q.n \in SecretNames BY <1>1, <1>2 DEF SecWhere
<1>5. \A x \in SStacks : q.before[x] \in SecretValues BY <1>2 DEF SecRequest
<1>6. \A x \in SStacks : sStack[x].cipher # NoSource =>
         /\ sStack[x].cipher \in {[q.before[x] EXCEPT ![q.n] = q.v], q.before[x]}
         /\ sStack[x].cipher = q.before[x] \/ x \in q.stranded \cup q.failed \/ Passed(x, q.k)
  BY <1>1, <1>3 DEF AssignState
<1>7. q.k > 0 => /\ k \in 0..Len(StackOrder) /\ k \in Nat /\ k # q.k /\ s \in SStacks
                 /\ \A x \in SStacks : Passed(x, q.k) <=> Passed(x, k) \/ x = s
  <2> SUFFICES ASSUME q.k > 0
               PROVE  /\ k \in 0..Len(StackOrder) /\ k \in Nat /\ k # q.k /\ s \in SStacks
                      /\ \A x \in SStacks : Passed(x, q.k) <=> Passed(x, k) \/ x = s
    OBVIOUS
  <2>1. q.k \in 1..Len(StackOrder) /\ Len(StackOrder) \in Nat BY <1>3, StacksOrdered
  <2>2. k \in 0..Len(StackOrder) /\ k \in Nat /\ k # q.k BY <2>1
  <2> QED BY <2>1, <2>2, StacksOrdered, PassedNext
<1>8. CASE q.k = 0 /\ ToStep(r, "undone") /\ UNCHANGED sStack
  <2> DEFINE w == [q EXCEPT !.at = "undone"]
  <2>1. sReq' = [sReq EXCEPT ![r] = w] BY <1>8 DEF ToStep
  <2>2. /\ w \in SecRequest /\ w.op = q.op /\ w.n = q.n /\ w.before = q.before
        /\ w.at = "undone" /\ w.stranded = q.stranded /\ w.failed = q.failed
    BY <1>2 DEF SecRequest, SecPoints
  <2> HIDE DEF w, q
  <2>3. SecWhere(w) BY <1>4, <2>2 DEF SecWhere
  <2>4. ASSUME NEW x \in SStacks PROVE AssignState(w, x, sStack'[x].cipher)
    <3>1. ~Passed(x, q.k) BY <1>8 DEF Passed
    <3> QED BY <1>6, <1>8, <2>2, <3>1 DEF AssignState
  <2>5. HeldBy(r, w, sStack', sLock') BY <1>1, <1>3, <2>2, <2>4 DEF HeldBy
  <2>6. SecInv' BY <1>1, <1>3, <1>8, <2>1, <2>2, <2>3, <2>5, Requester, SameStacks, SecStep
  <2> QED BY <1>8, <2>6, SameStacks, KeptIsNotLost
<1>9. CASE /\ q.k > 0 /\ sReq' = [sReq EXCEPT ![r].k = @ - 1, ![r].stranded = @ \cup {s}]
           /\ UNCHANGED sStack
  <2> DEFINE d == q.stranded \cup {s}
             w == [q EXCEPT !.k = k, !.stranded = d]
  <2>1. sReq' = [sReq EXCEPT ![r] = w] BY <1>9
  <2>2. d \in SUBSET SStacks /\ q.stranded \subseteq d /\ s \in d
    BY <1>2, <1>7, <1>9 DEF SecRequest
  <2> HIDE DEF d, k
  <2>3. /\ w \in SecRequest /\ w.op = q.op /\ w.n = q.n /\ w.v = q.v /\ w.before = q.before
        /\ w.k = k /\ w.at = "rollback" /\ w.stranded = d /\ w.failed = q.failed
    BY <1>1, <1>2, <1>7, <1>9, <2>2 DEF SecRequest
  <2> HIDE DEF w, q, s
  <2>4. SecWhere(w) BY <1>4, <2>3 DEF SecWhere
  <2>5. ASSUME NEW x \in SStacks PROVE AssignState(w, x, sStack'[x].cipher)
    <3>1. sStack'[x].cipher # NoSource =>
            /\ sStack'[x].cipher \in {[w.before[x] EXCEPT ![w.n] = w.v], w.before[x]}
            /\ sStack'[x].cipher = w.before[x] \/ x \in w.stranded \cup w.failed \/ Passed(x, w.k)
      BY <1>6, <1>7, <1>9, <2>2, <2>3
    <3> QED BY <2>3, <3>1 DEF AssignState
  <2>6. HeldBy(r, w, sStack', sLock') BY <1>1, <1>3, <1>7, <1>9, <2>3, <2>5 DEF HeldBy
  <2>7. SecInv' BY <1>1, <1>3, <1>9, <2>1, <2>3, <2>4, <2>6, Requester, SameStacks, SecStep
  <2> QED BY <1>9, <2>7, SameStacks, KeptIsNotLost
<1>10. ASSUME NEW d \in SUBSET SStacks, q.stranded \subseteq d, q.k > 0,
              sStack' = [sStack EXCEPT ![s].cipher = q.before[s]],
              sReq' = [sReq EXCEPT ![r] = [q EXCEPT !.k = k, !.stranded = d]]
       PROVE  SecInv' /\ NothingLost
  <2> DEFINE w == [q EXCEPT !.k = k, !.stranded = d]
             b == q.before[s]
  <2>1. sReq' = [sReq EXCEPT ![r] = w] BY <1>10
  <2>2. sStack' = [sStack EXCEPT ![s].cipher = b] /\ b \in SecretValues BY <1>5, <1>7, <1>10
  <2> HIDE DEF k
  <2>3. /\ w \in SecRequest /\ w.op = q.op /\ w.n = q.n /\ w.v = q.v /\ w.before = q.before
        /\ w.k = k /\ w.at = "rollback" /\ w.stranded = d /\ w.failed = q.failed
    BY <1>1, <1>2, <1>7, <1>10 DEF SecRequest
  <2>4. w # q BY <1>7, <1>10, <2>3
  <2>q. sReq[r] = q /\ b = q.before[s] OBVIOUS
  <2> HIDE DEF w, q, s, b
  <2>5. SecWhere(w) BY <1>4, <2>3 DEF SecWhere
  <2>6. ASSUME NEW x \in SStacks PROVE AssignState(w, x, sStack'[x].cipher)
    <3>1. sStack'[x].cipher # NoSource =>
            /\ sStack'[x].cipher \in {[w.before[x] EXCEPT ![w.n] = w.v], w.before[x]}
            /\ sStack'[x].cipher = w.before[x] \/ x \in w.stranded \cup w.failed \/ Passed(x, w.k)
      <4>1. CASE x = s
        <5>1. sStack'[x].cipher = b BY <2>2, <4>1 DEF SecInv, SecShapes, StackFiles, StackRows
        <5> QED BY <2>3, <2>q, <4>1, <5>1
      <4>2. CASE x # s
        <5>1. sStack'[x].cipher = sStack[x].cipher BY <2>2, <4>2 DEF SecInv, SecShapes
        <5> QED BY <1>6, <1>7, <1>10, <2>3, <4>2, <5>1
      <4> QED BY <4>1, <4>2
    <3> QED BY <2>3, <3>1 DEF AssignState
  <2>7. HeldBy(r, w, sStack', sLock') BY <1>1, <1>3, <1>7, <1>10, <2>3, <2>6 DEF HeldBy
  <2>8. sStack[s].cipher # NoSource =>
           sStack[s].cipher = b
           \/ sStack[s].cipher = [b EXCEPT ![w.n] = sStack[s].cipher[w.n]]
    <3> DEFINE n == [b EXCEPT ![q.n] = q.v]
    <3>1. sStack[s].cipher # NoSource => sStack[s].cipher \in {n, b}
      BY <1>6, <1>7, <1>10, <2>q
    <3>2. n = [b EXCEPT ![w.n] = n[w.n]] BY <1>4, <2>2, <2>3 DEF SecretValues
    <3> HIDE DEF n
    <3> QED BY <3>1, <3>2
  <2> QED BY <1>1, <1>2, <1>7, <1>10, <2>1, <2>2, <2>3, <2>4, <2>5, <2>7, <2>8, <2>q,
             SourceWritten, ZenonT(60) DEF Holding
<1>11. CASE /\ q.k > 0 /\ sStack' = [sStack EXCEPT ![s].cipher = q.before[s]]
            /\ sReq' = [sReq EXCEPT ![r].k = @ - 1]
  <2>1. q.stranded \in SUBSET SStacks BY <1>2 DEF SecRequest
  <2>2. [q EXCEPT !.k = k, !.stranded = q.stranded] = [q EXCEPT !.k = k]
    BY <1>2 DEF SecRequest
  <2>3. sReq' = [sReq EXCEPT ![r] = [q EXCEPT !.k = k]] BY <1>11
  <2> HIDE DEF q, s, k
  <2> QED BY <1>10, <1>11, <2>1, <2>2, <2>3
<1>12. CASE /\ q.k > 0 /\ sStack' = [sStack EXCEPT ![s].cipher = q.before[s]]
            /\ sReq' = [sReq EXCEPT ![r].k = @ - 1, ![r].stranded = @ \cup {s}]
  <2> DEFINE d == q.stranded \cup {s}
  <2>1. d \in SUBSET SStacks /\ q.stranded \subseteq d
    BY <1>2, <1>7, <1>12 DEF SecRequest
  <2>2. sReq' = [sReq EXCEPT ![r] = [q EXCEPT !.k = k, !.stranded = d]] BY <1>12
  <2> HIDE DEF q, s, k, d
  <2> QED BY <1>10, <1>12, <2>1, <2>2
<1> QED BY <1>8, <1>9, <1>11, <1>12 DEF RollbackAssign

LEMMA AnswerAssignStep ==
    ASSUME SecInv, NEW r \in SReqs, AnswerAssign(r) PROVE SecInv' /\ NothingLost
<1> DEFINE q == sReq[r]
<1>1. q.at \in {"assigned", "undone"} /\ Answer(r) BY DEF AnswerAssign
<1>2. q \in SecRequest /\ SecWhere(q) BY Requester
<1>3. q.n \in SecretNames BY <1>1, <1>2 DEF SecWhere
<1>4. CASE UNCHANGED <<sStack, sPending>> BY <1>1, <1>4, Requester, OnlyAnswered
<1>5. CASE /\ sStack' = [s \in SStacks |->
                IF sStack[s].mounted
                THEN [sStack[s] EXCEPT !.tmp = [q.before[s] EXCEPT ![q.n] = q.v]]
                ELSE sStack[s]]
           /\ sPending' \in {sPending, SStacks}
  <2>1. ASSUME NEW s \in SStacks
        PROVE  /\ sStack'[s] \in StackFiles
               /\ ~sStack'[s].mounted => sStack'[s].tmp = Nothing
               /\ sStack'[s].cipher = sStack[s].cipher /\ sStack'[s].disk = sStack[s].disk
    <3> DEFINE x == [q.before[s] EXCEPT ![q.n] = q.v]
    <3>1. x \in SecretValues BY <1>2, <1>3, ValueShapes DEF SecRequest
    <3>2. sStack[s] \in StackFiles /\ (~sStack[s].mounted => sStack[s].tmp = Nothing)
      BY DEF SecInv, SecShapes, SecMounts
    <3>3. sStack'[s] = IF sStack[s].mounted THEN [sStack[s] EXCEPT !.tmp = x] ELSE sStack[s]
      BY <1>5
    <3> HIDE DEF x
    <3>4. CASE sStack[s].mounted BY <3>1, <3>2, <3>3, <3>4, FieldShapes
    <3>5. CASE ~sStack[s].mounted BY <3>2, <3>3, <3>5
    <3> QED BY <3>4, <3>5
  <2>2. sStack' \in [SStacks -> StackFiles] BY <1>5, <2>1
  <2>3. StacksSound BY <2>1, <2>2 DEF StacksSound, SecMounts
  <2>4. OnlyDropped /\ FilesKept BY <2>1 DEF OnlyDropped, FilesKept
  <2>5. SecInv' BY <1>1, <1>5, <2>3, <2>4, Requester, Answered
  <2> QED BY <2>4, <2>5, KeptIsNotLost
<1> QED BY <1>4, <1>5 DEF AnswerAssign
-----------------------------------------------------------------------------
(* The host unit and the restarts.                                         *)
LEMMA SecretHostShapes ==
    ASSUME NEW t \in StackFiles
    PROVE  /\ t.cipher # NoSource =>
                LET w == materializeEncryptedStack(t)
                IN /\ w \in StackFiles /\ w.mounted = TRUE
                   /\ w.cipher = t.cipher /\ w.disk = t.disk
           /\ LET w == cleanupRuntimeMounts(t)
              IN /\ w \in StackFiles /\ w.tmp = Nothing
                 /\ w.cipher = t.cipher /\ w.disk = t.disk
BY ValueShapes DEF StackFiles, StackRows, materializeEncryptedStack, cleanupRuntimeMounts

LEMMA SecretHostStep ==
    ASSUME SecInv, StacksSound, FilesKept, sPending' \subseteq SStacks, UNCHANGED <<sReq, sLock>>
    PROVE  SecInv'
<1>1. SecShapes' /\ SecMounts' BY DEF SecInv, SecShapes, StacksSound
<1>2. SecWheres' BY DEF SecInv, SecWheres
<1>3. ASSUME NEW r \in SReqs PROVE HeldBy(r, sReq'[r], sStack', sLock')
  <2>1. HeldBy(r, sReq[r], sStack, sLock) /\ sReq[r].s \in SStacks BY Requester
  <2> QED BY <2>1 DEF HeldBy, FilesKept
<1> QED BY <1>1, <1>2, <1>3 DEF SecInv, SecHeld

LEMMA MaterializeHostRuntimeStep ==
    ASSUME SecInv, NEW s \in SStacks, MaterializeHostRuntime(s) PROVE SecInv' /\ NothingLost
<1> DEFINE t == sStack[s]
           m == materializeEncryptedStack(t)
           c == cleanupRuntimeMounts(t)
<1>1. sPending' \subseteq SStacks /\ UNCHANGED <<sReq, sLock>>
  BY DEF MaterializeHostRuntime, SecInv, SecShapes
<1>2. t \in StackFiles BY DEF SecInv, SecShapes
<1>3. StacksSound /\ FilesKept
  <2>1. CASE t.cipher # NoSource /\ sStack' = [sStack EXCEPT ![s] = m]
    <3>1. m \in StackFiles /\ m.mounted = TRUE /\ m.cipher = t.cipher /\ m.disk = t.disk
      BY <1>2, <2>1, SecretHostShapes
    <3> HIDE DEF m
    <3> QED BY <2>1, <3>1, SetStack
  <2>2. CASE sStack' = [sStack EXCEPT ![s] = c]
    <3>1. c \in StackFiles /\ c.tmp = Nothing /\ c.cipher = t.cipher /\ c.disk = t.disk
      BY <1>2, SecretHostShapes
    <3> HIDE DEF c
    <3> QED BY <2>2, <3>1, SetStack
  <2>3. CASE UNCHANGED sStack BY <2>3, SameStacks
  <2> QED BY <2>1, <2>2, <2>3 DEF MaterializeHostRuntime, discoverEncryptedStacks
<1> QED BY <1>1, <1>3, SecretHostStep, KeptIsNotLost

LEMMA SecretsRestarted ==
    ASSUME SecInv, StacksSound, sPending' \subseteq SStacks,
           sReq' = [r \in SReqs |-> SecIdle], sLock' = 0
    PROVE  SecInv'
<1>1. sReq' \in [SReqs -> SecRequest] /\ \A r \in SReqs : sReq'[r] = SecIdle BY IdleShape
<1>2. SecShapes' /\ SecMounts' BY <1>1 DEF SecShapes, StacksSound
<1>3. SecWheres' BY <1>1, IdleShape DEF SecWheres
<1>4. SecHeld' BY <1>1, IdleShape DEF SecHeld, HeldBy, Holding
<1> QED BY <1>2, <1>3, <1>4 DEF SecInv

LEMMA RestartSteps ==
    ASSUME SecInv, RestartHost \/ StopDockman PROVE SecInv' /\ NothingLost
<1>1. CASE RestartHost
  <2>1. ASSUME NEW s \in SStacks
        PROVE  /\ sStack'[s] \in StackFiles /\ sStack'[s].tmp = Nothing
               /\ sStack'[s].cipher = sStack[s].cipher /\ sStack'[s].disk = sStack[s].disk
    <3>1. sStack[s] \in StackFiles /\ sStack'[s] = cleanupRuntimeMounts(sStack[s])
      BY <1>1 DEF RestartHost, SecInv, SecShapes
    <3> QED BY <3>1, SecretHostShapes
  <2>2. sStack' \in [SStacks -> StackFiles] BY <1>1, <2>1 DEF RestartHost
  <2>3. StacksSound /\ FilesKept BY <2>1, <2>2 DEF StacksSound, SecMounts, FilesKept
  <2> QED BY <1>1, <2>3, SecretsRestarted, KeptIsNotLost DEF RestartHost
<1>2. CASE StopDockman
  BY <1>2, SameStacks, SecretsRestarted, KeptIsNotLost DEF StopDockman, SecInv, SecShapes
<1> QED BY <1>1, <1>2

LEMMA SecInitially == ASSUME SecInit PROVE SecInv
<1> DEFINE n0 == CHOOSE n \in SecretNames : TRUE
           one == [Nothing EXCEPT ![n0] = 1]
<1>1. one \in SecretValues
  <2>1. CASE SecretNames = {} BY <2>1 DEF SecretValues, Nothing
  <2>2. CASE SecretNames # {}
    <3>1. n0 \in SecretNames /\ 1 \in 0..2 BY <2>2
    <3> HIDE DEF n0
    <3> QED BY <3>1, ValueShapes DEF SecretValues
  <2> QED BY <2>1, <2>2
<1>2. sStack \in [SStacks -> {Stack(FALSE, NoSource, one, FALSE, Nothing),
                              Stack(TRUE, one, Nothing, TRUE, one),
                              Stack(TRUE, Nothing, Nothing, FALSE, Nothing)}]
  BY DEF SecInit
<1> HIDE DEF one
<1>3. \A t \in {Stack(FALSE, NoSource, one, FALSE, Nothing),
                Stack(TRUE, one, Nothing, TRUE, one),
                Stack(TRUE, Nothing, Nothing, FALSE, Nothing)} :
         t \in StackFiles /\ (~t.mounted => t.tmp = Nothing)
  <2>1. TRUE \in BOOLEAN /\ FALSE \in BOOLEAN /\ Nothing \in SecretValues BY ValueShapes
  <2>2. LET t == Stack(FALSE, NoSource, one, FALSE, Nothing)
        IN t \in StackFiles /\ t.tmp = Nothing
    BY <1>1, <2>1, StackShape, Zenon
  <2>3. LET t == Stack(TRUE, one, Nothing, TRUE, one)
        IN t \in StackFiles /\ t.mounted = TRUE
    BY <1>1, <2>1, StackShape, Zenon
  <2>4. LET t == Stack(TRUE, Nothing, Nothing, FALSE, Nothing)
        IN t \in StackFiles /\ t.tmp = Nothing
    BY <1>1, <2>1, StackShape, Zenon
  <2> QED BY <2>2, <2>3, <2>4
<1>4. sStack \in [SStacks -> StackFiles] /\ SecMounts BY <1>2, <1>3 DEF SecMounts
<1>5. /\ sReq \in [SReqs -> SecRequest] /\ \A r \in SReqs : sReq[r] = SecIdle
      /\ sLock = 0 /\ sPending = {}
  BY IdleShape DEF SecInit
<1>6. SecWheres /\ SecHeld BY <1>5, IdleShape DEF SecWheres, SecHeld, HeldBy, Holding
<1> QED BY <1>4, <1>5, <1>6 DEF SecInv, SecShapes

LEMMA SecStepKeeps == ASSUME SecInv, SecNext PROVE SecInv' /\ NothingLost
<1>1. ASSUME NEW r \in SReqs, NEW s \in SStacks, NEW n \in SecretNames,
             (\E v \in {0, 2} : WriteManaged(r, s, n, v)) \/ Restore(r, s, n)
      PROVE  SecInv' /\ NothingLost
  BY <1>1, WriteManagedStep, RestoreStep, KeptIsNotLost
<1>2. ASSUME NEW r \in SReqs, NEW s \in SStacks,
             \/ ComposeEnvironment(r, s) \/ EnableInline(r, s) \/ ExportSOPS(r, s)
             \/ DisableInline(r, s) \/ MaterializeSOPS(r, s) \/ GuardSecretDeletion(r, s)
      PROVE  SecInv' /\ NothingLost
  BY <1>2, ComposeEnvironmentStep, DisableInlineStep, OperatorSteps, KeptIsNotLost
<1>3. ASSUME NEW r \in SReqs, NEW n \in SecretNames, AssignEncrypted(r, n, 2)
      PROVE  SecInv' /\ NothingLost
  BY <1>3, AssignEncryptedStep, KeptIsNotLost
<1>4. ASSUME NEW r \in SReqs,
             \/ PlainBackup(r) \/ PlainWrite(r) \/ MaterializeValues(r)
             \/ inlineValues(r) \/ writeValues(r) \/ syncVolatileRuntime(r)
             \/ waitForVolatileRuntime(r) \/ Export(r) \/ ActivateInline(r)
             \/ PurgePlaintext(r) \/ MarkInline(r) \/ releaseVolatileRuntime(r)
             \/ waitForVolatileRuntimeRelease(r) \/ Materialize(r) \/ UnmarkInline(r)
             \/ RemoveStackDirectory(r) \/ PrepareAssign(r) \/ AssignOne(r)
             \/ RollbackAssign(r) \/ AnswerAssign(r)
      PROVE  SecInv' /\ NothingLost
  BY <1>4, PlainBackupStep, PlainWriteStep, MaterializeValuesStep, inlineValuesStep,
     writeValuesStep, syncVolatileRuntimeStep,
     waitForVolatileRuntimeStep, ExportStep, ActivateInlineStep, PurgePlaintextStep,
     MarkInlineStep, releaseVolatileRuntimeStep, waitForVolatileRuntimeReleaseStep,
     MaterializeStep, UnmarkInlineStep, RemoveStackDirectoryStep, PrepareAssignStep,
     AssignOneStep, RollbackAssignStep, AnswerAssignStep
<1>5. ASSUME NEW s \in SStacks, MaterializeHostRuntime(s) PROVE SecInv' /\ NothingLost
  BY <1>5, MaterializeHostRuntimeStep
<1>6. CASE RestartHost \/ StopDockman BY <1>6, RestartSteps
<1> QED BY <1>1, <1>2, <1>3, <1>4, <1>5, <1>6 DEF SecNext

LEMMA SecInvariant == SecSpec => []SecInv
<1>1. SecInit => SecInv BY SecInitially
<1>2. SecInv /\ [SecNext]_secVars => SecInv'
  <2> SUFFICES ASSUME SecInv, [SecNext]_secVars PROVE SecInv' OBVIOUS
  <2>1. CASE SecNext BY <2>1, SecStepKeeps
  <2>2. CASE UNCHANGED secVars
    <3>1. StacksSound /\ FilesKept BY <2>2, SameStacks DEF secVars
    <3> QED BY <2>2, <3>1, SecretHostStep DEF secVars, SecInv, SecShapes
  <2> QED BY <2>1, <2>2
<1> QED BY <1>1, <1>2, PTL DEF SecSpec

(* What AssignEncrypted (sops.go) answers is true of every stack that      *)
(* still has a source: all have the value, or all are as before except the *)
(* ones it names, as stranded or as the one that failed, whatever the      *)
(* other requests, the host unit and a deletion do meanwhile, and also     *)
(* when a write took effect before it reported an error; and the files of  *)
(* every stack keep their shape.                                           *)
THEOREM AssignmentsAreHonest == SecSpec => [](SecTypeOK /\ AssignHonest)
<1>1. SecInv => SecTypeOK
  <2> SUFFICES ASSUME SecInv PROVE SecTypeOK OBVIOUS
  <2>1. sLock \in {0} \cup SReqs /\ sPending \subseteq SStacks BY DEF SecInv, SecShapes
  <2>2. ASSUME NEW s \in SStacks
        PROVE LET t == sStack[s]
              IN /\ {t.marker, t.script, t.mounted} \subseteq BOOLEAN
                 /\ t.there \in BOOLEAN /\ {t.disk, t.tmp} \subseteq [SecretNames -> 0..2]
                 /\ t.cipher \in [SecretNames -> 0..2] \cup {NoSource}
                 /\ \A n \in SecretNames : Len(t.hist[n]) <= HistoryLimit
                                            /\ t.kept[n] \subseteq SReqs
                 /\ ~t.mounted => t.tmp = Nothing
    BY DEF SecInv, SecShapes, SecMounts, StackFiles, StackRows, Keepers,
       SecretValues, Histories
  <2> QED BY <2>1, <2>2 DEF SecTypeOK
<1>2. SecInv => AssignHonest
  <2> SUFFICES ASSUME SecInv, NEW r \in SReqs, NEW s \in SStacks,
                      sStack[s].cipher # NoSource
               PROVE  /\ sReq[r].at = "assigned" => sStack[s].cipher[sReq[r].n] = sReq[r].v
                      /\ sReq[r].at = "undone" =>
                           \/ s \in sReq[r].stranded \cup sReq[r].failed
                           \/ sStack[s].cipher = sReq[r].before[s]
    BY DEF AssignHonest, AtS
  <2>1. sReq[r] \in SecRequest /\ SecWhere(sReq[r]) /\ HeldBy(r, sReq[r], sStack, sLock)
    BY Requester
  <2>2. sReq[r].at \in {"assigned", "undone"} =>
           AssignState(sReq[r], s, sStack[s].cipher) /\ sReq[r].n \in SecretNames
    BY <2>1 DEF HeldBy, Holding, SecWhere
  <2>3. sReq[r].before[s] \in SecretValues BY <2>1 DEF SecRequest
  <2> QED BY <2>2, <2>3 DEF AssignState, SecretValues
<1> QED BY <1>1, <1>2, SecInvariant, PTL

(* No step loses a secret nobody asked to drop: the encrypted value of a   *)
(* name changes only by a request about that name, an export or the        *)
(* removal of the stack (inline.go, under the provider's mutex), and a     *)
(* plain value that goes is the newest version of its history, although    *)
(* backups and replacements of several requests interleave (store.go):     *)
(* except one that was put there after the replacing request had made its  *)
(* backup.                                                                 *)
THEOREM SecretsAreKept == SecSpec => NoLostSecret
<1> DEFINE A == sStack' # sStack => NothingLost
<1>1. SecInv /\ [SecNext]_secVars => [A]_secVars
  BY SecStepKeeps
<1>2. NoLostSecret <=> [][A]_secVars BY DEF NoLostSecret, NothingLost
<1> QED BY <1>1, <1>2, SecInvariant, PTL DEF SecSpec

-----------------------------------------------------------------------------
(***************************************************************************)
(* Proofs about the file service (EditorFiles).                            *)
(***************************************************************************)

FileReq == [at : {"none", "write", "reread", "rename"}, p : FilePaths \cup {"none"},
            to : FilePaths \cup {"none"}, rev : Nat, create : BOOLEAN, raced : BOOLEAN]
OpenFile == [p : FilePaths \cup {"none"}, rev : Nat, dirty : BOOLEAN]

FileShapes ==
    /\ fNext \in Nat /\ fSteps \in 0..MaxFileSteps
    /\ fFile \in [FilePaths -> 0..fNext]
    /\ fOpen \in [Editors -> OpenFile]
    /\ fKnown \in [Editors -> SUBSET Nat]
    /\ fLease \in [FilePaths -> Editors \cup {"none"}]

FileStreams ==
    /\ fEvents \in [Editors -> Seq(FilePaths)]
    /\ \A s \in Editors : Len(fEvents[s]) <= EventBuffer

FileRequests ==
    /\ fReq \in [Editors -> FileReq]
    /\ \A s \in Editors : fReq[s].at # "none" => fReq[s].p \in FilePaths
    /\ \A s \in Editors : fReq[s].at = "rename" => fReq[s].to \in FilePaths

(* A session holds a revision it was handed, or none.                      *)
FileHanded ==
    \A s \in Editors : /\ fOpen[s].rev # 0 => fOpen[s].rev \in fKnown[s]
                       /\ fOpen[s].dirty => fOpen[s].p \in FilePaths

(* What a request found at its check is still so unless it was overtaken.  *)
FileChecked ==
    \A s \in Editors : ~fReq[s].raced =>
        /\ fReq[s].at = "write" /\ ~fReq[s].create => fFile[fReq[s].p] \in fKnown[s]
        /\ fReq[s].at = "rename" /\ ~EqualFold(fReq[s].p, fReq[s].to)
             => fFile[fReq[s].to] = 0

FileInv == FileShapes /\ FileStreams /\ FileRequests /\ FileHanded /\ FileChecked
-----------------------------------------------------------------------------
LEMMA NoReqShape == NoReq \in FileReq /\ NoReq.at = "none" /\ NoReq.raced = FALSE
BY DEF NoReq, FileReq

(* Written: the requests of the others on the files it touched are marked. *)
LEMMA Overtaken ==
    ASSUME NEW me, NEW ps, NEW f, NEW req \in [Editors -> FileReq], Written(me, ps, f, req)
    PROVE  /\ fFile' = f /\ fReq' \in [Editors -> FileReq]
           /\ \A s \in Editors :
                /\ fReq'[s].at = req[s].at /\ fReq'[s].p = req[s].p
                /\ fReq'[s].to = req[s].to /\ fReq'[s].create = req[s].create
                /\ ~fReq'[s].raced =>
                     /\ ~req[s].raced
                     /\ \/ s = me \/ req[s].at = "none"
                        \/ req[s].p \notin ps /\ req[s].to \notin ps
<1>1. fFile' = f BY DEF Written
<1>2. ASSUME NEW s \in Editors
      PROVE /\ fReq'[s] \in FileReq
            /\ fReq'[s].at = req[s].at /\ fReq'[s].p = req[s].p /\ fReq'[s].to = req[s].to
            /\ fReq'[s].create = req[s].create
            /\ ~fReq'[s].raced =>
                 /\ ~req[s].raced
                 /\ \/ s = me \/ req[s].at = "none"
                    \/ req[s].p \notin ps /\ req[s].to \notin ps
  <2> DEFINE touched == s # me /\ req[s].at # "none" /\ {req[s].p, req[s].to} \cap ps # {}
  <2>1. fReq'[s] = IF touched THEN [req[s] EXCEPT !.raced = TRUE] ELSE req[s]
    BY DEF Written
  <2>2. CASE touched BY <2>1, <2>2 DEF FileReq
  <2>3. CASE ~touched
    <3>1. fReq'[s] = req[s] BY <2>1, <2>3
    <3>2. \/ s = me \/ req[s].at = "none"
          \/ (req[s].p \notin ps /\ req[s].to \notin ps)
      BY <2>3
    <3> QED BY <3>1, <3>2
  <2> QED BY <2>2, <2>3
<1>3. fReq' \in [Editors -> FileReq] BY <1>2 DEF Written
<1> QED BY <1>1, <1>2, <1>3

LEMMA Published ==
    ASSUME FileStreams, NEW p \in FilePaths, publish(p) PROVE FileStreams'
<1>1. ASSUME NEW s \in Editors
      PROVE fEvents'[s] \in Seq(FilePaths) /\ Len(fEvents'[s]) <= EventBuffer
  BY EditorFilesAssumption DEF publish, FileStreams
<1> QED BY <1>1 DEF publish, FileStreams

LEMMA FileInitInv == FileInit => FileInv
<1> SUFFICES ASSUME FileInit PROVE FileInv OBVIOUS
<1>1. Closed \in OpenFile /\ Closed.rev = 0 /\ Closed.dirty = FALSE BY DEF Closed, OpenFile
<1>2. FileShapes BY <1>1, EditorFilesAssumption DEF FileInit, FileShapes
<1>3. FileStreams BY EditorFilesAssumption DEF FileInit, FileStreams
<1>4. FileRequests BY NoReqShape DEF FileInit, FileRequests
<1>5. FileHanded BY <1>1 DEF FileInit, FileHanded
<1>6. FileChecked BY NoReqShape DEF FileInit, FileChecked
<1> QED BY <1>2, <1>3, <1>4, <1>5, <1>6 DEF FileInv
-----------------------------------------------------------------------------
LEMMA FileLoad ==
    ASSUME FileInv, NEW s \in Editors, NEW p \in FilePaths, loadFile(s, p) PROVE FileInv'
<1> DEFINE o == [p |-> p, rev |-> fFile[p], dirty |-> FALSE]
<1>1. /\ fSteps' \in 0..MaxFileSteps
      /\ fOpen' = [fOpen EXCEPT ![s] = o]
      /\ fKnown' = [fKnown EXCEPT ![s] = fKnown[s] \cup {fFile[p]}]
      /\ UNCHANGED <<fFile, fLease, fEvents, fReq, fNext>>
  BY EditorFilesAssumption DEF loadFile, FileAct, FileInv, FileShapes
<1>2. fFile[p] \in Nat BY DEF FileInv, FileShapes
<1>3. o \in OpenFile /\ o.rev = fFile[p] /\ o.dirty = FALSE /\ o.p = p
  BY <1>2 DEF OpenFile
<1> HIDE DEF o
<1>4. /\ fOpen'[s] = o /\ \A t \in Editors : t # s => fOpen'[t] = fOpen[t]
      /\ fFile[p] \in fKnown'[s] /\ \A t \in Editors : fKnown[t] \subseteq fKnown'[t]
  BY <1>1 DEF FileInv, FileShapes
<1>5. FileShapes' BY <1>1, <1>2, <1>3 DEF FileInv, FileShapes
<1>6. FileStreams' /\ FileRequests' BY <1>1 DEF FileInv, FileStreams, FileRequests
<1>7. FileHanded' BY <1>3, <1>4 DEF FileInv, FileHanded
<1>8. FileChecked' BY <1>1, <1>4 DEF FileInv, FileChecked
<1> QED BY <1>5, <1>6, <1>7, <1>8 DEF FileInv

LEMMA FileLeases ==
    ASSUME FileInv,
           \/ \E s \in Editors : setLease(s) \/ releaseLease(s)
           \/ \E p \in FilePaths : pruneEditorsLocked(p)
    PROVE  FileInv'
<1>1. /\ UNCHANGED <<fFile, fKnown, fEvents, fReq, fNext, fSteps>>
  BY DEF setLease, releaseLease, pruneEditorsLocked
<1>2. fLease' \in [FilePaths -> Editors \cup {"none"}]
  BY DEF setLease, releaseLease, pruneEditorsLocked, FileInv, FileShapes
<1>3. /\ fOpen' \in [Editors -> OpenFile]
      /\ \A s \in Editors : fOpen'[s].rev = fOpen[s].rev
      /\ \A s \in Editors : fOpen'[s].dirty => fOpen'[s].p \in FilePaths
  <2>1. CASE fOpen' = fOpen BY <2>1 DEF FileInv, FileShapes, FileHanded
  <2>2. ASSUME NEW s \in Editors, setLease(s)
        PROVE /\ fOpen' \in [Editors -> OpenFile]
              /\ \A t \in Editors : fOpen'[t].rev = fOpen[t].rev
              /\ \A t \in Editors : fOpen'[t].dirty => fOpen'[t].p \in FilePaths
    <3> DEFINE o == [fOpen[s] EXCEPT !.dirty = TRUE]
    <3>1. fOpen' = [fOpen EXCEPT ![s] = o] /\ fOpen[s].p # "none"
      BY <2>2 DEF setLease, FileInv, FileShapes
    <3>2. fOpen[s] \in OpenFile BY DEF FileInv, FileShapes
    <3>3. o \in OpenFile /\ o.rev = fOpen[s].rev /\ o.p = fOpen[s].p /\ o.p \in FilePaths
      BY <3>1, <3>2 DEF OpenFile
    <3> HIDE DEF o
    <3> QED BY <3>1, <3>3 DEF FileInv, FileShapes, FileHanded
  <2> QED BY <2>1, <2>2 DEF releaseLease, pruneEditorsLocked
<1>4. FileShapes' BY <1>1, <1>2, <1>3 DEF FileInv, FileShapes
<1>5. FileStreams' /\ FileRequests' BY <1>1 DEF FileInv, FileStreams, FileRequests
<1>6. FileHanded' BY <1>1, <1>3 DEF FileInv, FileHanded
<1>7. FileChecked' BY <1>1 DEF FileInv, FileChecked
<1> QED BY <1>4, <1>5, <1>6, <1>7 DEF FileInv

LEMMA FileEvent ==
    ASSUME FileInv, NEW s \in Editors, fileEvents(s) PROVE FileInv'
<1> DEFINE p == Head(fEvents[s])
           reload == p = fOpen[s].p /\ ~fOpen[s].dirty /\ fFile[p] # 0
           o == [fOpen[s] EXCEPT !.rev = fFile[p]]
<1>1. /\ fEvents[s] # << >> /\ fEvents' = [fEvents EXCEPT ![s] = Tail(fEvents[s])]
      /\ fOpen' = IF reload THEN [fOpen EXCEPT ![s] = o] ELSE fOpen
      /\ fKnown' = IF reload THEN [fKnown EXCEPT ![s] = fKnown[s] \cup {fFile[p]}] ELSE fKnown
      /\ UNCHANGED <<fFile, fLease, fReq, fNext, fSteps>>
  BY DEF fileEvents, FileInv, FileStreams, FileShapes
<1>2. p \in FilePaths BY <1>1 DEF FileInv, FileStreams
<1>3. FileStreams'
  <2>1. fEvents[s] \in Seq(FilePaths) /\ Len(fEvents[s]) <= EventBuffer
    BY DEF FileInv, FileStreams
  <2>2. Tail(fEvents[s]) \in Seq(FilePaths) /\ Len(Tail(fEvents[s])) <= EventBuffer
    BY <1>1, <2>1, EditorFilesAssumption
  <2> QED BY <1>1, <2>2 DEF FileInv, FileStreams
<1> HIDE DEF p
<1>4. fFile[p] \in Nat BY <1>2 DEF FileInv, FileShapes
<1>5. FileRequests' BY <1>1 DEF FileInv, FileRequests
<1>6. CASE ~reload
  BY <1>1, <1>3, <1>5, <1>6 DEF FileInv, FileShapes, FileHanded, FileChecked
<1>7. CASE reload
  <2>1. fOpen[s] \in OpenFile BY DEF FileInv, FileShapes
  <2>2. o \in OpenFile /\ o.rev = fFile[p] /\ o.dirty = fOpen[s].dirty /\ o.p = fOpen[s].p
    BY <1>4, <2>1 DEF OpenFile
  <2> HIDE DEF o
  <2>3. /\ fOpen'[s] = o /\ \A t \in Editors : t # s => fOpen'[t] = fOpen[t]
        /\ fFile[p] \in fKnown'[s] /\ \A t \in Editors : fKnown[t] \subseteq fKnown'[t]
    BY <1>1, <1>7 DEF FileInv, FileShapes
  <2>4. FileShapes' BY <1>1, <1>4, <1>7, <2>2 DEF FileInv, FileShapes
  <2>5. FileHanded' BY <2>2, <2>3 DEF FileInv, FileHanded
  <2>6. FileChecked' BY <1>1, <2>3 DEF FileInv, FileChecked
  <2> QED BY <1>3, <1>5, <2>4, <2>5, <2>6 DEF FileInv
<1> QED BY <1>6, <1>7

LEMMA FileCheckSave ==
    ASSUME FileInv, NEW s \in Editors, SaveIfRevision(s) PROVE FileInv'
<1>1. PICK p \in FilePaths, rev \in {0, fOpen[s].rev}, create \in BOOLEAN :
        /\ IF create THEN rev = 0 ELSE fOpen[s].dirty /\ p = fOpen[s].p
        /\ ~editorSaveNeedsRevision(rev, create)
        /\ rev # 0 => fFile[p] = rev
        /\ fReq' = [fReq EXCEPT ![s] = [NoReq EXCEPT !.at = "write", !.p = p, !.rev = rev,
                                                     !.create = create]]
  BY DEF SaveIfRevision
<1> DEFINE q == [NoReq EXCEPT !.at = "write", !.p = p, !.rev = rev, !.create = create]
<1>2. /\ fSteps' \in 0..MaxFileSteps /\ UNCHANGED <<fFile, fOpen, fKnown, fLease, fEvents, fNext>>
  BY EditorFilesAssumption DEF SaveIfRevision, FileAct, FileInv, FileShapes
<1>3. ~create => fFile[p] \in fKnown[s]
  BY <1>1 DEF editorSaveNeedsRevision, FileInv, FileHanded
<1>4. rev \in Nat
  <2>1. fOpen[s].rev \in Nat BY DEF FileInv, FileShapes, OpenFile
  <2> QED BY <1>1, <2>1
<1>5. q \in FileReq /\ q.at = "write" /\ q.p = p /\ q.create = create
  BY <1>4 DEF NoReq, FileReq
<1>6. fReq' = [fReq EXCEPT ![s] = q] BY <1>1
<1> HIDE DEF q
<1>7. fReq'[s] = q /\ \A t \in Editors : t # s => fReq'[t] = fReq[t]
  BY <1>6 DEF FileInv, FileRequests
<1>8. FileShapes' /\ FileStreams' /\ FileHanded'
  BY <1>2 DEF FileInv, FileShapes, FileStreams, FileHanded
<1>9. FileRequests' BY <1>5, <1>6, <1>7 DEF FileInv, FileRequests
<1>10. FileChecked' BY <1>2, <1>3, <1>5, <1>7 DEF FileInv, FileChecked
<1> QED BY <1>8, <1>9, <1>10 DEF FileInv

(* Whoever writes the files ps: the requests that were not overtaken are   *)
(* about other files.                                                      *)
LEMMA FileWritten ==
    ASSUME FileInv, NEW me, NEW ps, NEW f, NEW req \in [Editors -> FileReq],
           Written(me, ps, f, req),
           \A t \in Editors : req[t] = fReq[t] \/ (t = me /\ req[t].at \in {"none", "reread"}),
           \A t \in Editors : req[t].at # "none" => req[t].p \in FilePaths,
           me \notin Editors \/ req[me].at \in {"none", "reread"},
           \A p \in FilePaths \ ps : f[p] = fFile[p],
           \A t \in Editors : fKnown[t] \subseteq fKnown'[t]
    PROVE  FileRequests' /\ FileChecked'
<1>1. /\ fFile' = f /\ fReq' \in [Editors -> FileReq]
      /\ \A t \in Editors :
           /\ fReq'[t].at = req[t].at /\ fReq'[t].p = req[t].p /\ fReq'[t].to = req[t].to
           /\ fReq'[t].create = req[t].create
           /\ ~fReq'[t].raced =>
                /\ ~req[t].raced
                /\ \/ t = me \/ req[t].at = "none"
                   \/ req[t].p \notin ps /\ req[t].to \notin ps
  BY Overtaken
<1>2. FileRequests' BY <1>1 DEF FileInv, FileRequests
<1>3. ASSUME NEW t \in Editors, ~fReq'[t].raced, fReq'[t].at \in {"write", "rename"}
      PROVE /\ req[t] = fReq[t] /\ ~fReq[t].raced
            /\ fReq[t].p \notin ps /\ fReq[t].to \notin ps
            /\ fReq'[t].at = fReq[t].at /\ fReq'[t].p = fReq[t].p /\ fReq'[t].to = fReq[t].to
            /\ fReq'[t].create = fReq[t].create
  <2>1. req[t].at \in {"write", "rename"} BY <1>1, <1>3
  <2>2. t # me BY <2>1
  <2>3. req[t] = fReq[t] BY <2>1, <2>2
  <2> QED BY <1>1, <1>3, <2>1, <2>2, <2>3
<1>4. ASSUME NEW t \in Editors, ~fReq'[t].raced, fReq'[t].at = "write", ~fReq'[t].create
      PROVE fFile'[fReq'[t].p] \in fKnown'[t]
  <2>1. fReq[t].p \in FilePaths \ ps /\ fFile[fReq[t].p] \in fKnown[t]
    BY <1>3, <1>4 DEF FileInv, FileRequests, FileChecked
  <2> QED BY <1>1, <1>3, <1>4, <2>1
<1>5. ASSUME NEW t \in Editors, ~fReq'[t].raced, fReq'[t].at = "rename",
             ~EqualFold(fReq'[t].p, fReq'[t].to)
      PROVE fFile'[fReq'[t].to] = 0
  <2>1. fReq[t].to \in FilePaths \ ps /\ fFile[fReq[t].to] = 0
    BY <1>3, <1>5 DEF FileInv, FileRequests, FileChecked
  <2> QED BY <1>1, <1>3, <1>5, <2>1
<1>6. FileChecked' BY <1>4, <1>5 DEF FileChecked
<1> QED BY <1>2, <1>6

LEMMA FileDoSave ==
    ASSUME FileInv, NEW s \in Editors, FileSave(s) PROVE FileInv'
<1> DEFINE p == fReq[s].p
           f == [fFile EXCEPT ![p] = fNext]
<1>1. PICK whole \in BOOLEAN :
        /\ Written(s, {p}, f,
                   [fReq EXCEPT ![s] = IF whole THEN [@ EXCEPT !.at = "reread"] ELSE NoReq])
        /\ fKnown' = IF whole THEN [fKnown EXCEPT ![s] = @ \cup {fNext}] ELSE fKnown
  BY DEF FileSave
<1> DEFINE q == IF whole THEN [fReq[s] EXCEPT !.at = "reread"] ELSE NoReq
           req == [fReq EXCEPT ![s] = q]
<1>2. /\ fReq[s].at = "write" /\ fNext' = fNext + 1
      /\ UNCHANGED <<fOpen, fLease, fEvents, fSteps>>
  BY DEF FileSave, FileAt
<1>3. Written(s, {p}, f, req) BY <1>1
<1>4. fReq[s] \in FileReq /\ p \in FilePaths /\ fNext \in Nat
  BY <1>2 DEF FileInv, FileRequests, FileShapes
<1>5. /\ q \in FileReq /\ q.at \in {"none", "reread"}
      /\ q.at = "reread" => q.p = p
  <2>1. CASE whole BY <1>4, <2>1 DEF FileReq
  <2>2. CASE ~whole BY <2>2, NoReqShape
  <2> QED BY <2>1, <2>2
<1> HIDE DEF q
<1>6. /\ req \in [Editors -> FileReq] /\ req[s] = q
      /\ \A t \in Editors : t # s => req[t] = fReq[t]
  BY <1>5 DEF FileInv, FileRequests
<1> HIDE DEF req
<1>7. /\ fKnown' \in [Editors -> SUBSET Nat]
      /\ \A t \in Editors : fKnown[t] \subseteq fKnown'[t]
  BY <1>1, <1>4 DEF FileInv, FileShapes
<1>8. f \in [FilePaths -> 0..(fNext + 1)] /\ \A x \in FilePaths \ {p} : f[x] = fFile[x]
  <2>1. fFile \in [FilePaths -> 0..(fNext + 1)] BY <1>4 DEF FileInv, FileShapes
  <2> QED BY <1>4, <2>1
<1>9. \A t \in Editors : req[t].at # "none" => req[t].p \in FilePaths
  BY <1>4, <1>5, <1>6 DEF FileInv, FileRequests
<1> HIDE DEF f, p
<1>10. FileRequests' /\ FileChecked'
  <2>1. \A t \in Editors : req[t] = fReq[t] \/ (t = s /\ req[t].at \in {"none", "reread"})
    BY <1>5, <1>6
  <2>2. req[s].at \in {"none", "reread"} BY <1>5, <1>6
  <2> QED BY <1>3, <1>6, <1>7, <1>8, <1>9, <2>1, <2>2, FileWritten
<1>11. fFile' = f BY <1>3 DEF Written
<1>12. FileShapes' BY <1>2, <1>4, <1>7, <1>8, <1>11 DEF FileInv, FileShapes
<1>13. FileStreams' BY <1>2 DEF FileInv, FileStreams
<1>14. FileHanded' BY <1>2, <1>7 DEF FileInv, FileHanded
<1> QED BY <1>10, <1>12, <1>13, <1>14 DEF FileInv

LEMMA FileReread ==
    ASSUME FileInv, NEW s \in Editors, Revision(s) PROVE FileInv'
<1> DEFINE p == fReq[s].p
           v == RevisionAfter(s)
           o == [fOpen[s] EXCEPT !.rev = v, !.dirty = FALSE]
<1>1. /\ fReq[s].at = "reread"
      /\ fOpen' = [fOpen EXCEPT ![s] = o] \/ fOpen' = fOpen
      /\ fKnown' = [fKnown EXCEPT ![s] = fKnown[s] \cup {v}]
      /\ fLease' = [fLease EXCEPT ![p] = "none"] \/ fLease' = fLease
      /\ fReq' = [fReq EXCEPT ![s] = NoReq] /\ publish(p)
      /\ UNCHANGED <<fFile, fNext, fSteps>>
  BY DEF Revision, FileAt, FileInv, FileShapes
<1>2. p \in FilePaths BY <1>1 DEF FileInv, FileRequests
<1>3. v \in Nat /\ fOpen[s] \in OpenFile
  BY <1>2 DEF FileInv, FileShapes, RevisionAfter
<1> HIDE DEF p, v
<1>4. o \in OpenFile /\ o.rev = v /\ o.dirty = FALSE BY <1>3 DEF OpenFile
<1> HIDE DEF o
<1>5. /\ \A t \in Editors : fOpen'[t] = fOpen[t] \/ (t = s /\ fOpen'[t] = o)
      /\ v \in fKnown'[s] /\ \A t \in Editors : fKnown[t] \subseteq fKnown'[t]
      /\ fReq'[s] = NoReq /\ \A t \in Editors : t # s => fReq'[t] = fReq[t]
  BY <1>1 DEF FileInv, FileShapes, FileRequests
<1>6. FileShapes' BY <1>1, <1>2, <1>3, <1>4 DEF FileInv, FileShapes
<1>7. FileStreams' BY <1>1, <1>2, Published DEF FileInv
<1>8. FileRequests' BY <1>1, <1>5, NoReqShape DEF FileInv, FileRequests
<1>9. FileHanded' BY <1>4, <1>5 DEF FileInv, FileHanded
<1>10. FileChecked' BY <1>1, <1>5, NoReqShape DEF FileInv, FileChecked
<1> QED BY <1>6, <1>7, <1>8, <1>9, <1>10 DEF FileInv

(* The writers that ask no question.                                       *)
LEMMA FileUnasked ==
    ASSUME FileInv, NEW ps \in SUBSET FilePaths, NEW f, Written("none", ps, f, fReq),
           fNext' \in {fNext, fNext + 1}, f \in [FilePaths -> 0..fNext'],
           \A p \in FilePaths \ ps : f[p] = fFile[p],
           fSteps' \in 0..MaxFileSteps, FileStreams', UNCHANGED <<fOpen, fKnown, fLease>>
    PROVE  FileInv'
<1>1. fReq \in [Editors -> FileReq] BY DEF FileInv, FileRequests
<1>2. \A t \in Editors : fReq[t].at # "none" => fReq[t].p \in FilePaths
  BY DEF FileInv, FileRequests
<1>3. FileRequests' /\ FileChecked'
  <2>1. "none" \notin Editors BY EditorFilesAssumption
  <2>2. \A t \in Editors : fKnown[t] \subseteq fKnown'[t] OBVIOUS
  <2> QED BY <1>1, <1>2, <2>1, <2>2, FileWritten
<1>4. fFile' = f BY DEF Written
<1>5. fNext' \in Nat BY DEF FileInv, FileShapes
<1>6. FileShapes' BY <1>4, <1>5 DEF FileInv, FileShapes
<1>7. FileHanded' BY DEF FileInv, FileHanded
<1> QED BY <1>3, <1>6, <1>7 DEF FileInv

LEMMA FileBlind ==
    ASSUME FileInv, NEW ps \in SUBSET FilePaths, Blind(ps) PROVE FileInv'
<1> DEFINE f == [p \in FilePaths |-> IF p \in ps THEN fNext ELSE fFile[p]]
<1>1. /\ Written("none", ps, f, fReq) /\ fNext' = fNext + 1 /\ fSteps' \in 0..MaxFileSteps
      /\ UNCHANGED <<fOpen, fKnown, fLease, fEvents>>
  BY EditorFilesAssumption DEF Blind, FileAct, FileInv, FileShapes
<1>2. FileStreams' BY <1>1 DEF FileInv, FileStreams
<1>3. f \in [FilePaths -> 0..fNext'] /\ \A p \in FilePaths \ ps : f[p] = fFile[p]
  BY <1>1 DEF FileInv, FileShapes
<1> HIDE DEF f
<1> QED BY <1>1, <1>2, <1>3, FileUnasked

LEMMA FileCopy ==
    ASSUME FileInv, NEW p \in FilePaths, NEW to \in FilePaths, Copy(p, to) PROVE FileInv'
<1> DEFINE f == [fFile EXCEPT ![to] = fFile[p]]
<1>1. /\ Written("none", {to}, f, fReq) /\ fSteps' \in 0..MaxFileSteps
      /\ UNCHANGED <<fOpen, fKnown, fLease, fEvents, fNext>>
  BY EditorFilesAssumption DEF Copy, FileAct, FileInv, FileShapes
<1>2. FileStreams' BY <1>1 DEF FileInv, FileStreams
<1>3. f \in [FilePaths -> 0..fNext'] /\ \A x \in FilePaths \ {to} : f[x] = fFile[x]
  BY <1>1 DEF FileInv, FileShapes
<1> HIDE DEF f
<1> QED BY <1>1, <1>2, <1>3, FileUnasked

LEMMA FileRemove ==
    ASSUME FileInv, NEW p \in FilePaths, FileDelete(p) PROVE FileInv'
<1> DEFINE f == [fFile EXCEPT ![p] = 0]
<1>1. /\ Written("none", {p}, f, fReq) /\ fSteps' \in 0..MaxFileSteps
      /\ UNCHANGED <<fOpen, fKnown, fLease, fEvents, fNext>>
  BY EditorFilesAssumption DEF FileDelete, FileAct, FileInv, FileShapes
<1>2. FileStreams' BY <1>1 DEF FileInv, FileStreams
<1>3. f \in [FilePaths -> 0..fNext'] /\ \A x \in FilePaths \ {p} : f[x] = fFile[x]
  BY <1>1 DEF FileInv, FileShapes
<1> HIDE DEF f
<1> QED BY <1>1, <1>2, <1>3, FileUnasked

LEMMA FileImport ==
    ASSUME FileInv, NEW p \in FilePaths, NotifyExternalChange(p) PROVE FileInv'
<1> DEFINE f == [fFile EXCEPT ![p] = fNext]
<1>1. /\ Written("none", {p}, f, fReq) /\ fSteps' \in 0..MaxFileSteps
      /\ fNext' = fNext + 1 /\ publish(p)
      /\ UNCHANGED <<fOpen, fKnown, fLease>>
  BY EditorFilesAssumption DEF NotifyExternalChange, FileAct, FileInv, FileShapes
<1>2. FileStreams' BY <1>1, Published DEF FileInv
<1>3. f \in [FilePaths -> 0..fNext'] /\ \A x \in FilePaths \ {p} : f[x] = fFile[x]
  <2>1. fFile \in [FilePaths -> 0..fNext'] BY <1>1 DEF FileInv, FileShapes
  <2> QED BY <1>1, <2>1 DEF FileInv, FileShapes
<1> HIDE DEF f
<1> QED BY <1>1, <1>2, <1>3, FileUnasked

LEMMA FileRenameBegin ==
    ASSUME FileInv, NEW s \in Editors, NEW p \in FilePaths, NEW to \in FilePaths,
           RenameBegin(s, p, to)
    PROVE  FileInv'
<1> DEFINE q == [NoReq EXCEPT !.at = "rename", !.p = p, !.to = to]
<1>1. /\ fSteps' \in 0..MaxFileSteps /\ (EqualFold(p, to) \/ fFile[to] = 0)
      /\ fReq' = [fReq EXCEPT ![s] = q]
      /\ UNCHANGED <<fFile, fOpen, fKnown, fLease, fEvents, fNext>>
  BY EditorFilesAssumption DEF RenameBegin, DestinationFree, FileAct, FileInv, FileShapes
<1>2. q \in FileReq /\ q.at = "rename" /\ q.p = p /\ q.to = to BY DEF NoReq, FileReq
<1> HIDE DEF q
<1>3. fReq'[s] = q /\ \A t \in Editors : t # s => fReq'[t] = fReq[t]
  BY <1>1 DEF FileInv, FileRequests
<1>4. FileShapes' /\ FileStreams' /\ FileHanded'
  BY <1>1 DEF FileInv, FileShapes, FileStreams, FileHanded
<1>5. FileRequests' BY <1>1, <1>2, <1>3 DEF FileInv, FileRequests
<1>6. FileChecked' BY <1>1, <1>2, <1>3 DEF FileInv, FileChecked
<1> QED BY <1>4, <1>5, <1>6 DEF FileInv

LEMMA FileRename ==
    ASSUME FileInv, NEW s \in Editors, Rename(s) PROVE FileInv'
<1> DEFINE r == fReq[s]
           f == [fFile EXCEPT ![r.to] = fFile[r.p], ![r.p] = 0]
           req == [fReq EXCEPT ![s] = NoReq]
<1>1. /\ r.at = "rename" /\ UNCHANGED <<fOpen, fKnown, fLease, fEvents, fNext, fSteps>>
      /\ IF fFile[r.p] = 0 THEN fReq' = req /\ UNCHANGED fFile
         ELSE Written(s, {r.p, r.to}, f, req)
  BY DEF Rename, FileAt
<1>2. r.p \in FilePaths /\ r.to \in FilePaths BY <1>1 DEF FileInv, FileRequests
<1>3. /\ req \in [Editors -> FileReq] /\ req[s] = NoReq
      /\ \A t \in Editors : t # s => req[t] = fReq[t]
  BY NoReqShape DEF FileInv, FileRequests
<1> HIDE DEF req
<1>4. FileStreams' /\ FileHanded' BY <1>1 DEF FileInv, FileStreams, FileHanded
<1>5. CASE fFile[r.p] = 0
  <2>1. FileShapes' BY <1>1, <1>5 DEF FileInv, FileShapes
  <2>2. FileRequests' BY <1>1, <1>3, <1>5, NoReqShape DEF FileInv, FileRequests
  <2>3. FileChecked' BY <1>1, <1>3, <1>5, NoReqShape DEF FileInv, FileChecked
  <2> QED BY <1>4, <2>1, <2>2, <2>3 DEF FileInv
<1>6. CASE fFile[r.p] # 0
  <2>1. Written(s, {r.p, r.to}, f, req) BY <1>1, <1>6
  <2>2. f \in [FilePaths -> 0..fNext] /\ \A x \in FilePaths \ {r.p, r.to} : f[x] = fFile[x]
    BY <1>2 DEF FileInv, FileShapes
  <2> HIDE DEF f, r
  <2>3. \A t \in Editors : req[t] = fReq[t] \/ (t = s /\ req[t].at \in {"none", "reread"})
    BY <1>3, NoReqShape
  <2>4. \A t \in Editors : req[t].at # "none" => req[t].p \in FilePaths
    BY <1>3, NoReqShape DEF FileInv, FileRequests
  <2>5. req[s].at \in {"none", "reread"} /\ \A t \in Editors : fKnown[t] \subseteq fKnown'[t]
    BY <1>1, <1>3, NoReqShape
  <2>6. FileRequests' /\ FileChecked'
    BY <1>3, <2>1, <2>2, <2>3, <2>4, <2>5, FileWritten
  <2>7. fFile' = f BY <2>1 DEF Written
  <2>8. FileShapes' BY <1>1, <2>2, <2>7 DEF FileInv, FileShapes
  <2> QED BY <1>4, <2>6, <2>8 DEF FileInv
<1> QED BY <1>5, <1>6
-----------------------------------------------------------------------------
LEMMA FileStep == FileInv /\ [FileNext]_fileVars => FileInv'
<1> SUFFICES ASSUME FileInv, [FileNext]_fileVars PROVE FileInv' OBVIOUS
<1>1. CASE UNCHANGED fileVars
  BY <1>1 DEF fileVars, FileInv, FileShapes, FileStreams, FileRequests, FileHanded,
              FileChecked
<1>2. ASSUME NEW s \in Editors,
             \/ setLease(s) \/ releaseLease(s) \/ fileEvents(s)
             \/ SaveIfRevision(s) \/ FileSave(s) \/ Revision(s) \/ Rename(s)
      PROVE FileInv'
  BY <1>2, FileLeases, FileEvent, FileCheckSave, FileDoSave, FileReread, FileRename
<1>3. ASSUME NEW s \in Editors, NEW p \in FilePaths,
             loadFile(s, p) \/ \E to \in FilePaths : RenameBegin(s, p, to)
      PROVE FileInv'
  BY <1>3, FileLoad, FileRenameBegin
<1>4. ASSUME NEW p \in FilePaths,
             \/ pruneEditorsLocked(p) \/ FileDelete(p) \/ NotifyExternalChange(p)
             \/ \E to \in FilePaths : Copy(p, to)
      PROVE FileInv'
  BY <1>4, FileLeases, FileRemove, FileImport, FileCopy
<1>5. ASSUME NEW ps \in SUBSET FilePaths, Blind(ps) PROVE FileInv' BY <1>5, FileBlind
<1>6. ASSUME NEW p \in FilePaths, upload(p) \/ Create(p) PROVE FileInv'
  <2>1. {p} \in SUBSET FilePaths OBVIOUS
  <2> QED BY <1>5, <1>6, <2>1 DEF upload, Create
<1> QED BY <1>1, <1>2, <1>3, <1>4, <1>5, <1>6 DEF FileNext, WriteTemplate

LEMMA FileInvariant == FileSpec => []FileInv
BY FileInitInv, FileStep, PTL DEF FileSpec

(* The files, leases, requests and event streams keep their shape; no      *)
(* stream holds more than its buffer (publish drops what does not fit).    *)
THEOREM EditorFilesTyped == FileSpec => []FileTypeOK
<1>1. FileInv => FileTypeOK
  BY DEF FileInv, FileShapes, FileStreams, FileRequests, FileReq, FileTypeOK
<1> QED BY <1>1, FileInvariant, PTL

(* A save that was checked against a revision replaces only a version its  *)
(* session was handed, and a rename replaces nothing, unless another write *)
(* came between the check and the write, the save says it creates the file *)
(* or the rename changes the case only (saveFile, Rename).                 *)
THEOREM EditorReplacesOnlySeen == FileSpec => NothingReplacedUnseen
<1> DEFINE Kept(s) == /\ FileSave(s) /\ ~fReq[s].create => fFile[fReq[s].p] \in fKnown[s]
                      /\ Rename(s) => \/ fFile[fReq[s].to] = 0
                                      \/ EqualFold(fReq[s].p, fReq[s].to)
<1>1. ASSUME FileInv, NEW s \in Editors, ~fReq[s].raced PROVE Kept(s)
  BY <1>1 DEF FileInv, FileChecked, FileSave, Rename, FileAt
<1>2. FileInv /\ [FileNext]_fileVars =>
        [fFile' # fFile => \A s \in Editors : ~fReq[s].raced => Kept(s)]_fileVars
  BY <1>1
<1>3. NothingReplacedUnseen <=>
        [][fFile' # fFile => \A s \in Editors : ~fReq[s].raced => Kept(s)]_fileVars
  BY DEF NothingReplacedUnseen
<1> QED BY <1>2, <1>3, FileInvariant, PTL DEF FileSpec
=============================================================================
