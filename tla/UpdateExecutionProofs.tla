------------------------ MODULE UpdateExecutionProofs ------------------------
(***************************************************************************)
(* Proofs about the automatic update runs, for every host: any members,    *)
(* stacks, references, policies and any number of digests and containers.  *)
(*                                                                         *)
(* The first part shows that an interrupted execution stops the automation *)
(* until an operator resumes it.  InterruptedPauses is not inductive.  A   *)
(* run that has passed the gate is as dangerous as one that executes; and  *)
(* what keeps a run from passing it changes form: while Dockman is down it *)
(* is the open execution row, from the restart on it is the pause.         *)
(*                                                                         *)
(* The second part shows that the circuit breakers hold and that a stack   *)
(* is updated as one transaction.  Both follow what a run remembers of a   *)
(* container, from its listing to the record of its outcome, against what  *)
(* others do to that container meanwhile.                                  *)
(***************************************************************************)
EXTENDS UpdateExecution, TLAPS

PastGate == {"gather"} \cup Executing

(* Only a running Dockman has a run.                                       *)
Alive == run.pc # "idle" => ~down

(* An interruption nobody has looked at is remembered somewhere.           *)
Remembered == review => control.paused \/ (down /\ open # {})

(* A run that passed the gate has no interruption behind it.               *)
Clear == run.pc \in PastGate => ~review

Shape ==
    /\ "pc" \in DOMAIN run
    /\ control \in [paused : BOOLEAN, groups : GroupLimits]
    /\ review \in BOOLEAN
    /\ down \in BOOLEAN

(* An execution has its open row; an outcome that was lost left one, until *)
(* the retention or the recovery at a start takes it.                      *)
RowsOpen ==
    /\ run.pc \in Executing => "this" \in open
    /\ since \in 0 .. MaxRuns
    /\ since < MaxRuns /\ ~down => "earlier" \in open

PauseInv == Shape /\ Alive /\ Remembered /\ Clear /\ RowsOpen

-----------------------------------------------------------------------------
(***************************************************************************)
(* The steps of a run: it goes on on the side of the gate it is on, or it  *)
(* ends.  Only the gate itself lets it through, when there is no pause.    *)
(***************************************************************************)
Goes ==
    /\ run.pc # "idle"
    /\ "pc" \in DOMAIN run'
    /\ \/ run'.pc = "idle"
       \/ run'.pc \in PastGate /\ (run.pc \in PastGate \/ ~control.paused)
       \/ run'.pc \in {"scan", "gate"}
    /\ RowsOpen'
    /\ UNCHANGED <<control, down, review>>

(* No run is at the idle step.                                             *)
LEMMA NoRunPc == "pc" \in DOMAIN NoRun /\ NoRun.pc = "idle"
  BY DEF NoRun

(* The steps up to the targets.                                            *)
LEMMA EarlySteps ==
  ASSUME PauseInv, Inventory \/ Scan \/ Gate \/ Gather
  PROVE  Goes
<1> USE NoRunPc DEF PauseInv, Shape, Goes, PastGate, Executing, RowsOpen
<1>1. CASE Inventory  BY <1>1 DEF Inventory
<1>2. CASE Scan       BY <1>2 DEF Scan
<1>3. CASE Gate       BY <1>3 DEF Gate
<1>4. CASE Gather     BY <1>4 DEF Gather
<1> QED  BY <1>1, <1>2, <1>3, <1>4

(* Noting an outcome leaves the run where it is.                           *)
LEMMA OutcomePc ==
  ASSUME "pc" \in DOMAIN run, NEW m, NEW state
  PROVE  /\ "pc" \in DOMAIN Outcome(m, state) /\ Outcome(m, state).pc = run.pc
         /\ "pc" \in DOMAIN Attempted(m, state) /\ Attempted(m, state).pc = run.pc
  BY DEF Outcome, Attempted

(* A stack that failed goes on with its restore or its unlock.             *)
LEMMA AbortedPc ==
  ASSUME NEW base, "pc" \in DOMAIN base, NEW m, NEW state
  PROVE  /\ "pc" \in DOMAIN Aborted(base, m, state)
         /\ Aborted(base, m, state).pc \in {"restore", "unlock"}
  BY DEF Aborted, Abort

(* The steps that handle one member.                                       *)
LEMMA MemberSteps ==
  ASSUME PauseInv, NEW m \in Members, ExecuteSingle(m) \/ StackMember(m) \/ Restore(m)
  PROVE  Goes
<1>1. CASE ExecuteSingle(m)
  <2>1. PICK state \in States : run' = Outcome(m, state) \/ run' = Attempted(m, state)
    BY <1>1 DEF ExecuteSingle, States
  <2>2. "pc" \in DOMAIN run' /\ run'.pc = "unit" /\ run.pc = "unit"
    BY <1>1, <2>1, OutcomePc DEF ExecuteSingle, PauseInv, Shape
  <2>3. UNCHANGED <<control, open, since, down, review>>
    BY <1>1 DEF ExecuteSingle
  <2> QED  BY <2>2, <2>3 DEF PauseInv, RowsOpen, Goes, PastGate, Executing
<1>2. CASE StackMember(m)
  <2>1. PICK state \in States :
          \/ run' = Aborted(Outcome(m, state), m, state)
          \/ run' = Aborted(Attempted(m, state), m, state)
          \/ run' = [Outcome(m, state) EXCEPT !.pc = AfterMember(m)]
          \/ run' = [Attempted(m, state) EXCEPT !.pc = AfterMember(m)]
    BY <1>2 DEF StackMember, States
  <2>2. /\ "pc" \in DOMAIN Outcome(m, state)
        /\ "pc" \in DOMAIN Attempted(m, state)
    BY OutcomePc DEF PauseInv, Shape
  <2>3. AfterMember(m) \in {"unlock", "member"}
    BY DEF AfterMember
  <2>4. "pc" \in DOMAIN run' /\ run'.pc \in Executing
    <3>1. CASE \E base \in {Outcome(m, state), Attempted(m, state)} :
                 run' = Aborted(base, m, state)
      BY <2>2, <3>1, AbortedPc DEF Executing
    <3>2. CASE \E base \in {Outcome(m, state), Attempted(m, state)} :
                 run' = [base EXCEPT !.pc = AfterMember(m)]
      BY <2>2, <2>3, <3>2 DEF Executing
    <3> QED  BY <2>1, <3>1, <3>2
  <2>5. run.pc = "member" /\ UNCHANGED <<control, open, since, down, review>>
    BY <1>2 DEF StackMember
  <2> QED  BY <2>4, <2>5 DEF PauseInv, RowsOpen, Goes, PastGate, Executing
<1>3. CASE Restore(m)
  BY <1>3, OutcomePc DEF Restore, PauseInv, Shape, RowsOpen, Goes, PastGate, Executing
<1> QED  BY <1>1, <1>2, <1>3

(* The preflight of a stack.                                               *)
LEMMA StackStep == ASSUME PauseInv, NEW u \in Stacks, StackPreflight(u) PROVE Goes
  BY DEF StackPreflight, PauseInv, Shape, RowsOpen, Goes, PastGate, Executing

(* The unlock of a stack, and the end of the run.                          *)
LEMMA EndSteps == ASSUME PauseInv, Unlock \/ SaveExecution PROVE Goes
<1>1. CASE Unlock
  BY <1>1 DEF Unlock, PauseInv, Shape, RowsOpen, Goes, PastGate, Executing
<1>2. CASE SaveExecution
  <2>1. RowsOpen'
    BY <1>2, NoRunPc, ExecutionAssumption
       DEF SaveExecution, Retained, PauseInv, RowsOpen, Executing, Shape
  <2> QED  BY <1>2, <2>1, NoRunPc DEF SaveExecution, PauseInv, Shape, Goes, PastGate, Executing
<1> QED  BY <1>1, <1>2

(* What a run's own step does to the invariant.                            *)
LEMMA GoesPreserves == ASSUME PauseInv, Goes PROVE PauseInv'
  BY DEF PauseInv, Goes, Shape, Alive, Remembered, Clear, RowsOpen, PastGate, Executing

(* Dockman stops: what is open is a reason to look, and stays open.        *)
LEMMA StopPreserves == ASSUME PauseInv, Stopped PROVE PauseInv'
  BY NoRunPc DEF PauseInv, Stopped, Shape, Alive, Remembered, Clear, RowsOpen, PastGate, Executing

(* A fresh host has no run and no interruption.                            *)
LEMMA PauseInit == Init => PauseInv
<1> SUFFICES ASSUME Init PROVE PauseInv
  OBVIOUS
<1>1. "pc" \in DOMAIN run /\ run.pc = "idle"
  BY NoRunPc DEF Init
<1>4. since = MaxRuns /\ MaxRuns \in Nat
  BY ExecutionAssumption DEF Init
<1>2. control \in [paused : BOOLEAN, groups : GroupLimits]
  BY DEF Init
<1>3. review = FALSE /\ down = FALSE
  BY DEF Init
<1>5. RowsOpen
  BY <1>1, <1>4 DEF RowsOpen, Executing
<1> QED
  BY <1>1, <1>2, <1>3, <1>5 DEF PauseInv, Shape, Alive, Remembered, Clear, PastGate, Executing

(* Every step preserves the invariant.                                     *)
LEMMA PauseStep == PauseInv /\ [Next]_vars => PauseInv'
<1> SUFFICES ASSUME PauseInv, [Next]_vars PROVE PauseInv'
  OBVIOUS
<1>1. ASSUME NEW t \in Triggers, NEW due \in SUBSET Units, Trigger(t, due) PROVE PauseInv'
  BY <1>1, NoRunPc
     DEF Trigger, PauseInv, Shape, Alive, Remembered, Clear, RowsOpen, PastGate, Executing
<1>2. CASE RunStep
  <2>1. CASE Inventory \/ Scan \/ Gate \/ Gather
    BY <2>1, EarlySteps, GoesPreserves
  <2>2. ASSUME NEW m \in Members, ExecuteSingle(m) \/ StackMember(m) \/ Restore(m)
        PROVE  PauseInv'
    BY <2>2, MemberSteps, GoesPreserves
  <2>3. ASSUME NEW u \in Stacks, StackPreflight(u) PROVE PauseInv'
    BY <2>3, StackStep, GoesPreserves
  <2>4. CASE Unlock \/ SaveExecution
    BY <2>4, EndSteps, GoesPreserves
  <2> QED  BY <1>2, <2>1, <2>2, <2>3, <2>4 DEF RunStep
<1>3. CASE Operator
  <2> USE DEF PauseInv, Shape, Alive, Remembered, Clear, RowsOpen
  <2>1. ASSUME NEW p \in BOOLEAN, NEW g \in GroupLimits, SaveControl(p, g) PROVE PauseInv'
    BY <2>1 DEF SaveControl
  <2>2. ASSUME NEW u \in Units, NEW p, SetPolicy(u, p) PROVE PauseInv'
    BY <2>2 DEF SetPolicy
  <2>3. ASSUME NEW m \in Members, NEW i \in ContainerIds, ClearExecutionBlock(m, i)
        PROVE  PauseInv'
    BY <2>3 DEF ClearExecutionBlock
  <2>4. ASSUME NEW u \in Units, ManualBegin(u) PROVE PauseInv'
    BY <2>4 DEF ManualBegin
  <2>5. ASSUME NEW m \in Members, ManualEnd(m) PROVE PauseInv'
    BY <2>5 DEF ManualEnd
  <2> QED  BY <1>3, <2>1, <2>2, <2>3, <2>4, <2>5 DEF Operator
<1>4. ASSUME NEW t \in Tags, PullElsewhere(t) PROVE PauseInv'
  BY <1>4 DEF PullElsewhere, PauseInv, Shape, Alive, Remembered, Clear, RowsOpen
<1>5. ASSUME NEW t \in Tags, NEW d \in Digests, Publish(t, d) PROVE PauseInv'
  BY <1>5 DEF Publish, PauseInv, Shape, Alive, Remembered, Clear, RowsOpen
<1>6. CASE Failure
  BY <1>6, StopPreserves DEF Failure, Crash, CrashWhilePulling, CrashInStack
<1>7. CASE Restart
  <2>1. run.pc = "idle" /\ run' = run /\ since' = MaxRuns /\ MaxRuns \in Nat
    BY <1>7, ExecutionAssumption DEF Restart, PauseInv, Alive
  <2>2. RowsOpen'
    BY <2>1 DEF RowsOpen, Executing
  <2>3. Shape' /\ Alive' /\ Clear'
    BY <1>7, <2>1 DEF Restart, PauseInv, Shape, Alive, Clear, PastGate, Executing
  <2>4. Remembered'
    BY <1>7 DEF Restart, PauseInv, Shape, Remembered
  <2> QED  BY <2>2, <2>3, <2>4 DEF PauseInv
<1>8. CASE UNCHANGED vars
  BY <1>8 DEF vars, PauseInv, Shape, Alive, Remembered, Clear, RowsOpen
<1> QED  BY <1>1, <1>2, <1>3, <1>4, <1>5, <1>6, <1>7, <1>8 DEF Next

(***************************************************************************)
(* RecoverInterruptedExecutions does its work on every host: once an       *)
(* execution was interrupted, or its outcome never recorded before a       *)
(* restart, no run executes until an operator has resumed the automation,  *)
(* unless MaxRuns recorded executions pushed the open row out before.      *)
(***************************************************************************)
THEOREM InterruptedStaysPaused == Spec => []InterruptedPauses
<1>1. PauseInv => InterruptedPauses
  BY DEF PauseInv, Clear, InterruptedPauses, PastGate
<1> QED  BY <1>1, PauseInit, PauseStep, PTL DEF Spec

-----------------------------------------------------------------------------
(***************************************************************************)
(* The breakers.  The breaker of a container is keyed by its id, so a      *)
(* digest that broke a member stays blocked only as long as the id on the  *)
(* row is the id of the member's container.  Three things could part them: *)
(* a replacement (which is another container), the pruning of rows against *)
(* a listing that has aged, and outcomes recorded under an id that is not  *)
(* the one the run left behind.                                            *)
(***************************************************************************)

(* The digest that broke a member is blocked for the container it has now; *)
(* a container made from a bare image id is never offered an update.       *)
Breaker == \A m \in Members :
    broken[m] # 0 /\ cur[m].byTag => block[m][cur[m].id] = broken[m]

(* A listing that has aged misses no container that is broken.             *)
ListedStill == run.pc \in {"inventory", "scan"} => \A m \in Members :
    run.ids[m] \in {0, cur[m].id} \/ broken[m] = 0

(* What the scan found is the container the breaker is about.              *)
FoundStill == run.pc \in {"gate", "gather"} => \A m \in Available :
    (run.ids[m] = cur[m].id /\ cur[m].byTag) \/ broken[m] = 0

(* Targets are updates the scan found, and only targets have outcomes.     *)
TargetsFound ==
    /\ run.pc \in Executing => run.targets \subseteq Available
    /\ \A m \in Members : run.out[m] # "none" => run.pc \in Executing /\ m \in run.targets

(* The container a run left to a member is not ahead of the member's.      *)
LeftBehind == \A m \in Members : run.left[m] <= cur[m].id

(* What the end of the run will record: a member that was replaced after   *)
(* its outcome is not broken any more; one whose update failed and that    *)
(* runs its old image again has a row under the id it has; only a restore  *)
(* moves an outcome to another id.                                         *)
Booked == run.pc \in Executing => \A m \in run.targets :
    /\ run.out[m] \notin {"none", "skipped"} /\ cur[m].id # run.left[m] => broken[m] = 0
    /\ /\ run.out[m] \in {"failed", "rolled_back"}
       /\ cur[m].id = run.left[m] /\ cur[m].byTag
       /\ run.prev[m] \in {0, cur[m].img}
       => cur[m].id \in {run.ids[m], run.outId[m]}
    /\ run.out[m] # "rolled_back" => run.outId[m] = run.ids[m]

(***************************************************************************)
(* The transaction of a stack, from the preflight to the release of its    *)
(* lock, while nobody else changes its members.                            *)
(***************************************************************************)
Locked == {"member", "restore", "unlock"}

StackTargets(u) == MembersOf(u) \cap run.targets

(* Outside its own transaction a stack is untouched or done.               *)
WholeStacks == run.pc \in Executing => \A u \in Stacks :
    \/ StackTargets(u) \subseteq Pending
    \/ StackTargets(u) \cap Pending = {}
    \/ run.pc = "member" /\ run.stack = u

(* A member that was updated runs another image than before, until it is   *)
(* restored; the ones to come are as they were.                            *)
UnderTransaction ==
    run.pc \in Locked =>
      /\ run.stack \in Stacks
      /\ run.pc = "member" => \A m \in StackTargets(run.stack) :
           /\ run.out[m] \in {"none", "updated", "current"}
           /\ run.out[m] = "none" => StillThere(m)
      /\ run.pc \in {"member", "restore"} => \A m \in StackTargets(run.stack) :
           run.out[m] = "updated" =>
             cur[m].id = run.left[m] /\ run.prev[m] \notin {0, cur[m].img}
      /\ run.pc \in {"restore", "unlock"} => \A m \in StackTargets(run.stack) :
           /\ run.out[m] = "rolled_back" => cur[m].img = run.prev[m]
           /\ run.out[m] = "skipped" => StillThere(m)
      /\ /\ run.pc = "unlock" /\ RollbackEnabled
         /\ \E m \in StackTargets(run.stack) : run.out[m] \in {"failed", "rolled_back"}
         => Applied = {}

(* The parts that speak of breakers, and of stacks, do not need to know    *)
(* how the other variables change.                                         *)
BreakerInv ==
    /\ Breaker /\ ListedStill /\ FoundStill /\ TargetsFound /\ LeftBehind /\ Booked
    /\ NoRetryOfBroken /\ NoPartialStack

StackInv == WholeStacks /\ UnderTransaction

ExecutionInv == TypeOK /\ BreakerInv /\ StackInv

-----------------------------------------------------------------------------
(* A member belongs to one unit, a unit has members of the host.           *)
LEMMA UnitFacts ==
  /\ \A u \in Units : MembersOf(u) \subseteq Members
  /\ \A m \in Members : UnitOf(m) \in Units /\ m \in MembersOf(UnitOf(m))
  /\ \A m \in Members, u \in Units : m \in MembersOf(u) => u = UnitOf(m)
<1>1. ASSUME NEW u \in Units PROVE MembersOf(u) \subseteq Members
  <2>1. CASE u \in Stacks
    <3>1. Order[u] \in Seq(Members)  BY <2>1, ExecutionAssumption
    <3>2. \A k \in DOMAIN Order[u] : Order[u][k] \in Members  BY <3>1
    <3> QED  BY <2>1, <3>2 DEF MembersOf
  <2>2. CASE u \notin Stacks
    BY <2>2, ExecutionAssumption DEF MembersOf, Units
  <2> QED  BY <2>1, <2>2
<1>2. ASSUME NEW m \in Members
      PROVE  /\ UnitOf(m) \in Units /\ m \in MembersOf(UnitOf(m))
             /\ \A u \in Units : m \in MembersOf(u) => u = UnitOf(m)
  <2>1. PICK u \in Units : \A v \in Units : m \in MembersOf(v) <=> v = u
    BY ExecutionAssumption
  <2>2. m \in MembersOf(u)
    BY <2>1
  <2>3. UnitOf(m) \in Units /\ m \in MembersOf(UnitOf(m))
    BY <2>2, Zenon DEF UnitOf
  <2> QED  BY <2>1, <2>3
<1> QED  BY <1>1, <1>2

(* The ids of a member's containers.                                       *)
LEMMA IdFacts ==
  /\ \A i \in ContainerIds : i \in Nat \ {0}
  /\ \A m \in Members : \A i \in 1 .. MaxId[m] : i \in ContainerIds
  BY ExecutionAssumption DEF ContainerIds

(* A replacement is a new container with the image it is made from, and is *)
(* not broken.                                                             *)
LEMMA SwapFacts ==
  ASSUME cur \in [Members -> Containers], broken \in [Members -> 0 .. MaxDigest],
         NEW m \in Members, NEW d \in Digests, NEW byTag \in BOOLEAN, Swap(m, d, byTag)
  PROVE  /\ cur' \in [Members -> Containers] /\ broken' \in [Members -> 0 .. MaxDigest]
         /\ cur'[m].id = cur[m].id + 1 /\ cur'[m].img = d /\ cur'[m].byTag = byTag
         /\ broken'[m] = 0
         /\ \A n \in Members \ {m} : cur'[n] = cur[n] /\ broken'[n] = broken[n]
<1>1. cur[m].id \in Nat \ {0} /\ MaxId[m] \in Nat
  BY IdFacts, ExecutionAssumption DEF Containers
<1>2. cur[m].id + 1 \in 1 .. MaxId[m]
  BY <1>1 DEF Swap
<1>3. cur[m].id + 1 \in ContainerIds
  BY <1>2, IdFacts
<1>4. [id |-> cur[m].id + 1, img |-> d, byTag |-> byTag] \in Containers
  BY <1>3 DEF Containers
<1>5. cur' = [cur EXCEPT ![m] = [id |-> cur[m].id + 1, img |-> d, byTag |-> byTag]]
  BY DEF Swap
<1>6. broken' = [broken EXCEPT ![m] = 0] /\ 0 \in 0 .. MaxDigest
  BY ExecutionAssumption DEF Swap
<1> QED  BY <1>4, <1>5, <1>6

(* What a step does to the container of one member, and to no other.       *)
Moved(m) == Kept \/ \E d \in Digests, byTag \in BOOLEAN : Swap(m, d, byTag)

(* The container of a member is the same, or a later one that is not       *)
(* broken.                                                                 *)
LEMMA MovedFacts ==
  ASSUME cur \in [Members -> Containers], broken \in [Members -> 0 .. MaxDigest],
         NEW m \in Members, Moved(m)
  PROVE  /\ cur' \in [Members -> Containers] /\ broken' \in [Members -> 0 .. MaxDigest]
         /\ \/ cur'[m] = cur[m] /\ broken'[m] = broken[m]
            \/ cur'[m].id = cur[m].id + 1 /\ broken'[m] = 0
         /\ \A n \in Members \ {m} : cur'[n] = cur[n] /\ broken'[n] = broken[n]
<1>1. CASE Kept  BY <1>1 DEF Kept
<1>2. ASSUME NEW d \in Digests, NEW byTag \in BOOLEAN, Swap(m, d, byTag)
      PROVE  /\ cur' \in [Members -> Containers] /\ broken' \in [Members -> 0 .. MaxDigest]
             /\ cur'[m].id = cur[m].id + 1 /\ broken'[m] = 0
             /\ \A n \in Members \ {m} : cur'[n] = cur[n] /\ broken'[n] = broken[n]
  BY <1>2, SwapFacts
<1> QED  BY <1>1, <1>2 DEF Moved

(* The fields of a run.                                                    *)
LEMMA RunFields ==
  ASSUME run \in Runs
  PROVE  /\ run.targets \subseteq Members /\ run.rows \in [Units -> Policies]
         /\ run.ids \in [Members -> ContainerIds \cup {0}]
         /\ run.digest \in [Members -> 0 .. MaxDigest]
         /\ run.out \in [Members -> States \cup {"none"}]
         /\ run.outId \in [Members -> ContainerIds \cup {0}]
         /\ run.prev \in [Members -> 0 .. MaxDigest]
         /\ run.left \in [Members -> ContainerIds \cup {0}]
  BY DEF Runs

(* The outcome of a member goes to its place, with the container it has.   *)
LEMMA OutcomeFields ==
  ASSUME run \in Runs, cur' \in [Members -> Containers],
         NEW m \in Members, NEW state \in States
  PROVE  /\ Outcome(m, state) \in Runs
         /\ Outcome(m, state).pc = run.pc /\ Outcome(m, state).stack = run.stack
         /\ Outcome(m, state).rows = run.rows /\ Outcome(m, state).ids = run.ids
         /\ Outcome(m, state).digest = run.digest /\ Outcome(m, state).targets = run.targets
         /\ Outcome(m, state).outId = run.outId /\ Outcome(m, state).prev = run.prev
         /\ Outcome(m, state).out = [run.out EXCEPT ![m] = state]
         /\ Outcome(m, state).left = [run.left EXCEPT ![m] = cur'[m].id]
<1>1. cur'[m].id \in ContainerIds  BY DEF Containers
<1>2. [run.out EXCEPT ![m] = state] \in [Members -> States \cup {"none"}]
  BY RunFields
<1>3. [run.left EXCEPT ![m] = cur'[m].id] \in [Members -> ContainerIds \cup {0}]
  BY <1>1, RunFields
<1>4. Outcome(m, state) = [run EXCEPT !.out = [run.out EXCEPT ![m] = state],
                                      !.left = [run.left EXCEPT ![m] = cur'[m].id]]
  BY DEF Outcome, Runs
<1> DEFINE after == Outcome(m, state)
           out == [run.out EXCEPT ![m] = state]
           left == [run.left EXCEPT ![m] = cur'[m].id]
<1>5. /\ after = [run EXCEPT !.out = out, !.left = left]
      /\ out \in [Members -> States \cup {"none"}]
      /\ left \in [Members -> ContainerIds \cup {0}]
  BY <1>2, <1>3, <1>4
<1> HIDE DEF after, out, left
<1>6. after \in Runs
  BY <1>5 DEF Runs
<1>7. /\ after.pc = run.pc /\ after.stack = run.stack /\ after.rows = run.rows
      /\ after.ids = run.ids /\ after.digest = run.digest /\ after.targets = run.targets
      /\ after.outId = run.outId /\ after.prev = run.prev
      /\ after.out = out /\ after.left = left
  BY <1>5 DEF Runs
<1> QED  BY <1>6, <1>7 DEF after, out, left

(* An attempt remembers the image as well.                                 *)
LEMMA AttemptedFields ==
  ASSUME run \in Runs, cur \in [Members -> Containers], cur' \in [Members -> Containers],
         NEW m \in Members, NEW state \in States
  PROVE  /\ Attempted(m, state) \in Runs
         /\ Attempted(m, state).pc = run.pc /\ Attempted(m, state).stack = run.stack
         /\ Attempted(m, state).rows = run.rows /\ Attempted(m, state).ids = run.ids
         /\ Attempted(m, state).digest = run.digest
         /\ Attempted(m, state).targets = run.targets
         /\ Attempted(m, state).outId = run.outId
         /\ Attempted(m, state).prev = [run.prev EXCEPT ![m] = cur[m].img]
         /\ Attempted(m, state).out = [run.out EXCEPT ![m] = state]
         /\ Attempted(m, state).left = [run.left EXCEPT ![m] = cur'[m].id]
<1> DEFINE base == Outcome(m, state)
<1>1. /\ base \in Runs /\ base.pc = run.pc /\ base.stack = run.stack /\ base.rows = run.rows
      /\ base.ids = run.ids /\ base.digest = run.digest /\ base.targets = run.targets
      /\ base.outId = run.outId /\ base.prev = run.prev
      /\ base.out = [run.out EXCEPT ![m] = state]
      /\ base.left = [run.left EXCEPT ![m] = cur'[m].id]
  BY OutcomeFields
<1>2. cur[m].img \in 0 .. MaxDigest  BY DEF Containers, Digests
<1>3. [run.prev EXCEPT ![m] = cur[m].img] \in [Members -> 0 .. MaxDigest]
  BY <1>2, RunFields
<1> HIDE DEF base
<1>4. Attempted(m, state) = [base EXCEPT !.prev = [base.prev EXCEPT ![m] = cur[m].img]]
  BY <1>1 DEF Attempted, base, Runs
<1> DEFINE after == Attempted(m, state)
           prev == [run.prev EXCEPT ![m] = cur[m].img]
<1>5. after = [base EXCEPT !.prev = prev] /\ prev \in [Members -> 0 .. MaxDigest]
  BY <1>1, <1>3, <1>4
<1> HIDE DEF after, prev
<1>6. after \in Runs
  BY <1>1, <1>5 DEF Runs
<1>7. /\ after.pc = base.pc /\ after.stack = base.stack /\ after.rows = base.rows
      /\ after.ids = base.ids /\ after.digest = base.digest /\ after.targets = base.targets
      /\ after.outId = base.outId /\ after.out = base.out /\ after.left = base.left
      /\ after.prev = prev
  BY <1>1, <1>5 DEF Runs
<1>8. /\ after \in Runs /\ after.pc = run.pc /\ after.stack = run.stack
      /\ after.rows = run.rows /\ after.ids = run.ids /\ after.digest = run.digest
      /\ after.targets = run.targets /\ after.outId = run.outId
      /\ after.prev = prev
      /\ after.out = [run.out EXCEPT ![m] = state]
      /\ after.left = [run.left EXCEPT ![m] = cur'[m].id]
  BY <1>1, <1>6, <1>7
<1> QED  BY <1>8 DEF after, prev

(* What a step reads in the run once a member has its outcome.             *)
SameFields(base) ==
    /\ base.stack = run.stack /\ base.rows = run.rows /\ base.ids = run.ids
    /\ base.digest = run.digest /\ base.targets = run.targets /\ base.outId = run.outId

(* The outcome of a member that was not touched.                           *)
LEMMA OutcomeMeans ==
  ASSUME run \in Runs, cur' \in [Members -> Containers],
         NEW m \in Members, NEW state \in States, NEW base, base = Outcome(m, state)
  PROVE  /\ base \in Runs /\ SameFields(base) /\ base.pc = run.pc
         /\ base.out[m] = state /\ base.left[m] = cur'[m].id /\ base.prev[m] = run.prev[m]
         /\ \A n \in Members \ {m} : /\ base.left[n] = run.left[n]
                                     /\ base.prev[n] = run.prev[n]
                                     /\ base.out[n] = run.out[n]
<1>1. /\ base \in Runs /\ SameFields(base) /\ base.pc = run.pc /\ base.prev = run.prev
      /\ base.out = [run.out EXCEPT ![m] = state]
      /\ base.left = [run.left EXCEPT ![m] = cur'[m].id]
  BY OutcomeFields DEF SameFields
<1>2. /\ run.out \in [Members -> States \cup {"none"}]
      /\ run.left \in [Members -> ContainerIds \cup {0}]
  BY RunFields
<1> QED  BY <1>1, <1>2

(* The outcome of an attempt.                                              *)
LEMMA AttemptedMeans ==
  ASSUME run \in Runs, cur \in [Members -> Containers], cur' \in [Members -> Containers],
         NEW m \in Members, NEW state \in States, NEW base, base = Attempted(m, state)
  PROVE  /\ base \in Runs /\ SameFields(base) /\ base.pc = run.pc
         /\ base.out[m] = state /\ base.left[m] = cur'[m].id /\ base.prev[m] = cur[m].img
         /\ \A n \in Members \ {m} : /\ base.left[n] = run.left[n]
                                     /\ base.prev[n] = run.prev[n]
                                     /\ base.out[n] = run.out[n]
<1>1. /\ base \in Runs /\ SameFields(base) /\ base.pc = run.pc
      /\ base.prev = [run.prev EXCEPT ![m] = cur[m].img]
      /\ base.out = [run.out EXCEPT ![m] = state]
      /\ base.left = [run.left EXCEPT ![m] = cur'[m].id]
  BY AttemptedFields DEF SameFields
<1>2. /\ run.out \in [Members -> States \cup {"none"}]
      /\ run.left \in [Members -> ContainerIds \cup {0}]
      /\ run.prev \in [Members -> 0 .. MaxDigest]
  BY RunFields
<1> QED  BY <1>1, <1>2

(* No run is a run.                                                        *)
LEMMA NoRunFields ==
  /\ NoRun \in Runs
  /\ NoRun.pc = "idle" /\ NoRun.targets = {} /\ NoRun.stack = "none"
  /\ NoRun.left = [m \in Members |-> 0] /\ NoRun.out = [m \in Members |-> "none"]
  /\ NoRun.ids = [m \in Members |-> 0] /\ NoRun.digest = [m \in Members |-> 0]
<1>1. 0 \in 0 .. MaxDigest /\ "off" \in Policies
  BY ExecutionAssumption DEF Policies
<1> QED  BY <1>1 DEF NoRun, Runs, Triggers

-----------------------------------------------------------------------------
(* Steps that leave the run, the containers and the breakers alone.        *)
LEMMA FrameKeeps ==
  ASSUME BreakerInv, StackInv, UNCHANGED <<run, cur, broken, block>>
  PROVE  BreakerInv' /\ StackInv'
<1>1. BreakerInv'
  BY DEF BreakerInv, Breaker, ListedStill, FoundStill, TargetsFound, LeftBehind, Booked,
         NoRetryOfBroken, NoPartialStack, Available
<1>2. StackInv'
  BY DEF StackInv, WholeStacks, UnderTransaction, StackTargets, Pending, StillThere,
         RollbackEnabled, Applied
<1> QED  BY <1>1, <1>2

(* A replacement takes its member out of the breakers.                     *)
LEMMA MovedBreaker ==
  ASSUME TypeOK, Breaker, NEW m \in Members, Moved(m), UNCHANGED block
  PROVE  Breaker'
<1>1. /\ \/ cur'[m] = cur[m] /\ broken'[m] = broken[m]
         \/ cur'[m].id = cur[m].id + 1 /\ broken'[m] = 0
      /\ \A n \in Members \ {m} : cur'[n] = cur[n] /\ broken'[n] = broken[n]
  BY MovedFacts DEF TypeOK
<1> QED  BY <1>1 DEF Breaker

(* Without a run there is only the breakers to keep.                       *)
LEMMA IdleKeeps ==
  ASSUME TypeOK', Breaker', run' = NoRun
  PROVE  BreakerInv' /\ StackInv'
<1>1. /\ run'.pc = "idle" /\ run'.left = [m \in Members |-> 0]
      /\ run'.out = [m \in Members |-> "none"]
  BY NoRunFields
<1>2. \A m \in Members : cur'[m].id \in Nat \ {0}
  BY IdFacts DEF TypeOK, Containers
<1>3. LeftBehind'
  BY <1>1, <1>2 DEF LeftBehind
<1>4. BreakerInv'
  BY <1>1, <1>3 DEF BreakerInv, ListedStill, FoundStill, TargetsFound, Booked,
                    NoRetryOfBroken, NoPartialStack, Executing
<1>5. StackInv'
  BY <1>1 DEF StackInv, WholeStacks, UnderTransaction, Executing, Locked
<1> QED  BY <1>4, <1>5

(* A replacement by somebody else, of a member that is in no transaction.  *)
LEMMA ForeignSwap ==
  ASSUME ExecutionInv, NEW m \in Members, Moved(m), UNCHANGED <<run, block>>,
         run.pc \in Locked => UnitOf(m) # run.stack
  PROVE  BreakerInv' /\ StackInv'
<1>1. /\ \/ cur'[m] = cur[m] /\ broken'[m] = broken[m]
         \/ cur'[m].id = cur[m].id + 1 /\ broken'[m] = 0
      /\ \A n \in Members \ {m} : cur'[n] = cur[n] /\ broken'[n] = broken[n]
  BY MovedFacts DEF ExecutionInv, TypeOK
<1>2. \A n \in Members : cur[n].id \in Nat
  BY IdFacts DEF ExecutionInv, TypeOK, Containers
<1>3. \A n \in Members : run.left[n] \in Nat /\ run.digest[n] \in Nat
  BY RunFields, IdFacts DEF ExecutionInv, TypeOK
<1>4. Breaker'
  BY MovedBreaker DEF ExecutionInv, BreakerInv
<1>5. ListedStill' /\ FoundStill'
  BY <1>1 DEF ExecutionInv, BreakerInv, ListedStill, FoundStill, Available
<1>6. TargetsFound'
  BY DEF ExecutionInv, BreakerInv, TargetsFound, Available
<1>7. LeftBehind'
  BY <1>1, <1>2, <1>3 DEF ExecutionInv, BreakerInv, LeftBehind
<1>8. Booked'
  <2>1. run.pc \in Executing => run.targets \subseteq Members
    BY RunFields DEF ExecutionInv, TypeOK
  <2>2. run.left[m] <= cur[m].id
    BY DEF ExecutionInv, BreakerInv, LeftBehind
  <2> QED
    BY <1>1, <1>2, <1>3, <2>1, <2>2 DEF ExecutionInv, BreakerInv, Booked
<1>9. NoRetryOfBroken' /\ NoPartialStack'
  <2>1. run.pc \in Executing => \A n \in run.targets : n \in Members /\ run.digest[n] # 0
    BY RunFields DEF ExecutionInv, TypeOK, BreakerInv, TargetsFound, Available
  <2>2. NoRetryOfBroken'
    BY <1>1, <2>1 DEF ExecutionInv, BreakerInv, NoRetryOfBroken
  <2>3. NoPartialStack'
    BY <1>1 DEF ExecutionInv, BreakerInv, NoPartialStack, Available
  <2> QED  BY <2>2, <2>3
<1>10. WholeStacks'
  BY DEF ExecutionInv, StackInv, WholeStacks, StackTargets, Pending
<1>11. UnderTransaction'
  <2> SUFFICES ASSUME run.pc \in Locked PROVE UnderTransaction'
    BY DEF UnderTransaction
  <2>1. run.stack \in Stacks /\ run.stack \in Units
    BY DEF ExecutionInv, StackInv, UnderTransaction, Units
  <2>2. \A n \in StackTargets(run.stack) : n \in Members /\ cur'[n] = cur[n]
    BY <1>1, <2>1, UnitFacts DEF StackTargets
  <2> QED
    BY <2>1, <2>2 DEF ExecutionInv, StackInv, UnderTransaction, StackTargets, StillThere,
                      RollbackEnabled, Applied
<1> QED  BY <1>4, <1>5, <1>6, <1>7, <1>8, <1>9, <1>10, <1>11 DEF BreakerInv, StackInv

-----------------------------------------------------------------------------
(* The operators and the registry.                                         *)

(* Settings, locks, publications and pulls.                                *)
LEMMA OutsideKeeps ==
  ASSUME ExecutionInv,
         \/ \E p \in BOOLEAN, g \in GroupLimits : SaveControl(p, g)
         \/ \E u \in Units : \E p \in Choices[u] : SetPolicy(u, p)
         \/ \E u \in Units : ManualBegin(u)
         \/ \E t \in Tags : PullElsewhere(t) \/ \E d \in Digests : Publish(t, d)
         \/ UNCHANGED vars
  PROVE  ExecutionInv'
<1>1. ASSUME NEW p \in BOOLEAN, NEW g \in GroupLimits, SaveControl(p, g) PROVE TypeOK'
  BY <1>1 DEF SaveControl, ExecutionInv, TypeOK
<1>2. ASSUME NEW u \in Units, NEW p \in Choices[u], SetPolicy(u, p) PROVE TypeOK'
  <2>1. p \in Policies  BY ExecutionAssumption
  <2> QED  BY <1>2, <2>1 DEF SetPolicy, ExecutionInv, TypeOK
<1>3. ASSUME NEW u \in Units, ManualBegin(u) PROVE TypeOK'
  BY <1>3 DEF ManualBegin, ExecutionInv, TypeOK
<1>4. ASSUME NEW t \in Tags, PullElsewhere(t) PROVE TypeOK'
  BY <1>4 DEF PullElsewhere, Pulled, ExecutionInv, TypeOK
<1>5. ASSUME NEW t \in Tags, NEW d \in Digests, Publish(t, d) PROVE TypeOK'
  BY <1>5 DEF Publish, ExecutionInv, TypeOK
<1>6. ASSUME UNCHANGED vars PROVE TypeOK'
  BY <1>6 DEF vars, ExecutionInv, TypeOK
<1>7. UNCHANGED <<run, cur, broken, block>>
  BY DEF SaveControl, SetPolicy, ManualBegin, PullElsewhere, Publish, vars
<1> QED  BY <1>1, <1>2, <1>3, <1>4, <1>5, <1>6, <1>7, FrameKeeps DEF ExecutionInv

(* A breaker that is cleared takes with it what was known to break.        *)
LEMMA ClearKeeps ==
  ASSUME ExecutionInv, NEW m \in Members, NEW i \in ContainerIds, ClearExecutionBlock(m, i)
  PROVE  ExecutionInv'
<1> DEFINE cleared == IF UnitOf(m) \in Stacks
                      THEN MembersOf(UnitOf(m)) \X ContainerIds ELSE {<<m, i>>}
<1>1. /\ block' = [n \in Members |-> [j \in ContainerIds |->
                     IF <<n, j>> \in cleared THEN 0 ELSE block[n][j]]]
      /\ broken' = [n \in Members |->
                     IF \E j \in ContainerIds : <<n, j>> \in cleared THEN 0 ELSE broken[n]]
      /\ UNCHANGED <<reg, local, cur, policy, control, open, since, lock, down, run, review>>
  BY DEF ClearExecutionBlock
<1> HIDE DEF cleared
<1>2. 0 \in 0 .. MaxDigest  BY ExecutionAssumption
<1>3. TypeOK'
  <2>1. block' \in [Members -> [ContainerIds -> 0 .. MaxDigest]]
    BY <1>1, <1>2 DEF ExecutionInv, TypeOK
  <2>2. broken' \in [Members -> 0 .. MaxDigest]
    BY <1>1, <1>2 DEF ExecutionInv, TypeOK
  <2> QED  BY <1>1, <2>1, <2>2 DEF ExecutionInv, TypeOK
<1>4. \A n \in Members : broken'[n] \in {0, broken[n]}
  BY <1>1
<1>5. Breaker'
  <2> SUFFICES ASSUME NEW n \in Members, broken'[n] # 0, cur[n].byTag
               PROVE  block'[n][cur[n].id] = broken'[n]
    BY <1>1 DEF Breaker
  <2>1. cur[n].id \in ContainerIds  BY DEF ExecutionInv, TypeOK, Containers
  <2>2. <<n, cur[n].id>> \notin cleared /\ broken'[n] = broken[n]
    BY <1>1, <2>1
  <2> QED  BY <1>1, <2>1, <2>2 DEF ExecutionInv, BreakerInv, Breaker
<1>6. BreakerInv'
  <2>1. ListedStill' /\ FoundStill'
    BY <1>1, <1>4 DEF ExecutionInv, BreakerInv, ListedStill, FoundStill, Available
  <2>2. TargetsFound' /\ LeftBehind'
    BY <1>1 DEF ExecutionInv, BreakerInv, TargetsFound, LeftBehind, Available
  <2>3. run.pc \in Executing => \A n \in run.targets : n \in Members /\ run.digest[n] # 0
    BY RunFields DEF ExecutionInv, TypeOK, BreakerInv, TargetsFound, Available
  <2>4. Booked'
    BY <1>1, <1>4, <2>3 DEF ExecutionInv, BreakerInv, Booked
  <2>5. NoRetryOfBroken'
    BY <1>1, <1>4, <2>3 DEF ExecutionInv, BreakerInv, NoRetryOfBroken
  <2>6. NoPartialStack'
    BY <1>1, <1>4 DEF ExecutionInv, BreakerInv, NoPartialStack, Available
  <2> QED  BY <1>5, <2>1, <2>2, <2>4, <2>5, <2>6 DEF BreakerInv
<1>7. StackInv'
  BY <1>1 DEF ExecutionInv, StackInv, WholeStacks, UnderTransaction, StackTargets, Pending,
              StillThere, RollbackEnabled, Applied
<1> QED  BY <1>3, <1>6, <1>7 DEF ExecutionInv

(* A pull keeps the images of the host digests.                            *)
LEMMA PulledFacts ==
  ASSUME TypeOK, NEW tags PROVE Pulled(tags) \in [Tags -> Digests]
  BY DEF TypeOK, Pulled

(* An update by hand: its lock is not the one of a transaction.            *)
LEMMA ManualEndKeeps ==
  ASSUME ExecutionInv, NEW m \in Members, ManualEnd(m) PROVE ExecutionInv'
<1>1. /\ lock[UnitOf(m)] = "manual" /\ lock' = [lock EXCEPT ![UnitOf(m)] = "free"]
      /\ UNCHANGED <<reg, policy, control, block, open, since, down, run, review>>
  BY DEF ManualEnd
<1>2. UnitOf(m) \in Units /\ TagOf[m] \in Tags
  BY UnitFacts, ExecutionAssumption
<1>3. local' \in [Tags -> Digests] /\ Moved(m)
  <2>1. Pulled({TagOf[m]}) \in [Tags -> Digests]
    BY PulledFacts DEF ExecutionInv
  <2>2. CASE local' = local /\ Kept
    BY <2>2 DEF ExecutionInv, TypeOK, Moved
  <2>3. CASE local' = Pulled({TagOf[m]}) /\ (Kept \/ Swap(m, local'[TagOf[m]], TRUE))
    BY <1>2, <2>1, <2>3 DEF Moved
  <2> QED  BY <2>2, <2>3 DEF ManualEnd
<1>4. TypeOK'
  <2>1. cur' \in [Members -> Containers] /\ broken' \in [Members -> 0 .. MaxDigest]
    BY <1>3, MovedFacts DEF ExecutionInv, TypeOK
  <2>2. /\ lock' \in [Units -> {"free", "manual", "auto"}]
        /\ \A u \in Units : lock'[u] = "auto" <=> lock[u] = "auto"
    BY <1>1, <1>2 DEF ExecutionInv, TypeOK
  <2> QED  BY <1>1, <1>3, <2>1, <2>2 DEF ExecutionInv, TypeOK
<1>5. run.pc \in Locked => UnitOf(m) # run.stack
  <2>1. lock[UnitOf(m)] # "auto"  BY <1>1
  <2> QED  BY <1>2, <2>1 DEF ExecutionInv, TypeOK, Locked
<1> QED  BY <1>1, <1>3, <1>4, <1>5, ForeignSwap DEF ExecutionInv

(* Dockman stops, with at most one container replaced on the way.          *)
LEMMA StoppedKeeps ==
  ASSUME ExecutionInv, Stopped, NEW m \in Members, Moved(m), local' \in [Tags -> Digests]
  PROVE  ExecutionInv'
<1>1. TypeOK'
  <2>1. cur' \in [Members -> Containers] /\ broken' \in [Members -> 0 .. MaxDigest]
    BY MovedFacts DEF ExecutionInv, TypeOK
  <2>2. /\ run' = NoRun /\ down' = TRUE /\ lock' = [u \in Units |-> "free"]
        /\ open' = (IF open = {} THEN {} ELSE {"earlier"})
        /\ review' = (review \/ run.pc \in Executing \/ since < MaxRuns)
        /\ UNCHANGED <<reg, policy, control, block, since>>
    BY DEF Stopped
  <2>3. run' \in Runs /\ run'.pc = "idle"
    BY <2>2, NoRunFields
  <2>4. open' \subseteq {"this", "earlier"} /\ "this" \notin open' /\ review' \in BOOLEAN
    BY <2>2
  <2> QED  BY <2>1, <2>2, <2>3, <2>4 DEF ExecutionInv, TypeOK, Executing
<1>2. Breaker'
  BY MovedBreaker DEF Stopped, ExecutionInv, BreakerInv
<1> QED  BY <1>1, <1>2, IdleKeeps DEF Stopped, ExecutionInv

(* The same without any container.                                         *)
LEMMA CrashKeeps == ASSUME ExecutionInv, Crash PROVE ExecutionInv'
<1>1. TypeOK'
  <2>1. /\ run' = NoRun /\ down' = TRUE /\ lock' = [u \in Units |-> "free"]
        /\ open' = (IF open = {} THEN {} ELSE {"earlier"})
        /\ review' = (review \/ run.pc \in Executing \/ since < MaxRuns)
        /\ UNCHANGED <<reg, policy, control, block, since, local, cur, broken>>
    BY DEF Crash, Stopped, Kept
  <2>2. run' \in Runs /\ run'.pc = "idle"
    BY <2>1, NoRunFields
  <2>3. open' \subseteq {"this", "earlier"} /\ "this" \notin open' /\ review' \in BOOLEAN
    BY <2>1
  <2> QED  BY <2>1, <2>2, <2>3 DEF ExecutionInv, TypeOK, Executing
<1>2. Breaker'
  BY DEF Crash, Stopped, Kept, ExecutionInv, BreakerInv, Breaker
<1> QED  BY <1>1, <1>2, IdleKeeps DEF Crash, Stopped, ExecutionInv

(* A stack member that is restored had an image before.                    *)
LEMMA RestoreFacts ==
  ASSUME ExecutionInv, NEW m, run.pc = "restore", IsNextRestore(m)
  PROVE  /\ m \in Members /\ m \in StackTargets(run.stack) /\ run.out[m] = "updated"
         /\ run.prev[m] \in Digests /\ run.prev[m] # cur[m].img
         /\ run.stack \in Stacks
<1>1. m \in run.targets /\ run.out[m] = "updated" /\ m \in MembersOf(run.stack)
  BY DEF IsNextRestore, Chosen, Applied
<1>2. m \in Members
  BY <1>1, RunFields DEF ExecutionInv, TypeOK
<1>3. run.stack \in Stacks /\ run.prev[m] \notin {0, cur[m].img}
  BY <1>1 DEF ExecutionInv, StackInv, UnderTransaction, StackTargets, Locked
<1>4. run.prev[m] \in 0 .. MaxDigest
  BY <1>2, RunFields DEF ExecutionInv, TypeOK
<1> QED  BY <1>1, <1>2, <1>3, <1>4, ExecutionAssumption DEF Digests, StackTargets

(* A stack member that is next is as the scan saw it.                      *)
LEMMA NextFacts ==
  ASSUME ExecutionInv, NEW m, run.pc = "member", IsNextMember(m)
  PROVE  /\ m \in Members /\ m \in StackTargets(run.stack) /\ run.out[m] = "none"
         /\ StillThere(m) /\ run.stack \in Stacks
<1>1. run.stack \in Stacks
  BY DEF ExecutionInv, StackInv, UnderTransaction, Locked
<1>2. m \in run.targets /\ run.out[m] = "none" /\ m \in MembersOf(run.stack)
  BY <1>1 DEF IsNextMember, Chosen, MembersOf
<1>3. m \in Members
  BY <1>2, RunFields DEF ExecutionInv, TypeOK
<1>4. StillThere(m)
  BY <1>2 DEF ExecutionInv, StackInv, UnderTransaction, StackTargets, Locked
<1> QED  BY <1>1, <1>2, <1>3, <1>4 DEF StackTargets

(* Dockman stops while a container is being replaced.                      *)
LEMMA CrashWithinKeeps ==
  ASSUME ExecutionInv, NEW m \in Members, CrashWhilePulling(m) \/ CrashInStack(m)
  PROVE  ExecutionInv'
<1>1. TagOf[m] \in Tags
  BY ExecutionAssumption
<1>2. CASE CrashWhilePulling(m)
  <2>1. local' = Pulled({TagOf[m]}) /\ Stopped
    BY <1>2 DEF CrashWhilePulling
  <2>2. local' \in [Tags -> Digests]
    BY <2>1, PulledFacts DEF ExecutionInv
  <2>3. Moved(m)
    BY <1>1, <1>2, <2>2 DEF CrashWhilePulling, Moved
  <2> QED  BY <2>1, <2>2, <2>3, StoppedKeeps
<1>3. CASE CrashInStack(m)
  <2>1. local' \in [Tags -> Digests] /\ Stopped /\ local[TagOf[m]] \in Digests
    BY <1>1, <1>3 DEF CrashInStack, ExecutionInv, TypeOK
  <2>2. Moved(m)
    BY <1>3, <2>1, RestoreFacts DEF CrashInStack, Moved
  <2> QED  BY <2>1, <2>2, StoppedKeeps
<1> QED  BY <1>2, <1>3

(* Dockman starts: there is no run yet.                                    *)
LEMMA RestartKeeps == ASSUME ExecutionInv, PauseInv, Restart PROVE ExecutionInv'
<1>1. run.pc = "idle"
  <2>1. run.pc # "idle" => ~down  BY DEF PauseInv, Alive
  <2> QED  BY <2>1 DEF Restart
<1>2. control' \in [paused : BOOLEAN, groups : GroupLimits]
  BY DEF Restart, ExecutionInv, TypeOK
<1>3. since' \in 0 .. MaxRuns
  BY ExecutionAssumption DEF Restart
<1>4. TypeOK'
  BY <1>1, <1>2, <1>3 DEF Restart, ExecutionInv, TypeOK, Executing
<1> QED  BY <1>4, FrameKeeps DEF Restart, ExecutionInv

-----------------------------------------------------------------------------
(* A run up to its targets.                                                *)

(* Before the execution there is nothing but the breakers and the listing. *)
LEMMA EarlyRun ==
  ASSUME TypeOK', Breaker', LeftBehind', ListedStill', FoundStill',
         \A m \in Members : run'.out[m] = "none", run'.pc \notin Executing
  PROVE  BreakerInv' /\ StackInv'
<1>1. BreakerInv'
  BY DEF BreakerInv, TargetsFound, Booked, NoRetryOfBroken, NoPartialStack
<1>2. StackInv'
  BY DEF StackInv, WholeStacks, UnderTransaction, Executing, Locked
<1> QED  BY <1>1, <1>2

(* A run begins with nothing listed.                                       *)
LEMMA TriggerKeeps ==
  ASSUME ExecutionInv, NEW t \in Triggers, NEW due \in SUBSET Units, Trigger(t, due)
  PROVE  ExecutionInv'
<1>1. /\ run.pc = "idle"
      /\ run' = [NoRun EXCEPT !.pc = "inventory", !.trigger = t, !.due = due]
      /\ UNCHANGED <<reg, local, cur, policy, control, block, open, since, lock, down, broken, review>>
  BY DEF Trigger
<1>2. /\ run' \in Runs /\ run'.pc = "inventory"
      /\ run'.left = [m \in Members |-> 0] /\ run'.out = [m \in Members |-> "none"]
      /\ run'.ids = [m \in Members |-> 0]
  BY <1>1, NoRunFields DEF Runs
<1>3. TypeOK'
  BY <1>1, <1>2 DEF ExecutionInv, TypeOK, Executing
<1>4. Breaker'
  BY <1>1 DEF ExecutionInv, BreakerInv, Breaker
<1>5. LeftBehind'
  <2>1. \A m \in Members : cur'[m].id \in Nat  BY <1>3, IdFacts DEF TypeOK, Containers
  <2> QED  BY <1>2, <2>1 DEF LeftBehind
<1>6. ListedStill' /\ FoundStill'
  BY <1>2 DEF ListedStill, FoundStill
<1> QED  BY <1>2, <1>3, <1>4, <1>5, <1>6, EarlyRun DEF ExecutionInv, Executing

(* The listing is of now; an empty one lists nothing.                      *)
LEMMA InventoryKeeps == ASSUME ExecutionInv, Inventory PROVE ExecutionInv'
<1>1. /\ run.pc = "inventory"
      /\ UNCHANGED <<reg, local, cur, policy, control, block, open, since, lock, down, broken, review>>
  BY DEF Inventory
<1>2. run \in Runs /\ \A m \in Members : cur[m].id \in ContainerIds
  BY DEF ExecutionInv, TypeOK, Containers
<1>3. Breaker'
  BY <1>1 DEF ExecutionInv, BreakerInv, Breaker
<1>4. CASE run' = NoRun
  <2>1. TypeOK'
    BY <1>1, <1>4, NoRunFields DEF ExecutionInv, TypeOK, Executing
  <2> QED  BY <1>3, <1>4, <2>1, IdleKeeps DEF ExecutionInv
<1>5. CASE \/ run' = [run EXCEPT !.pc = "scan", !.rows = policy,
                                 !.ids = [m \in Members |-> cur[m].id]]
           \/ run' = [run EXCEPT !.pc = "scan"]
  <2>1. /\ run' \in Runs /\ run'.pc = "scan" /\ run'.left = run.left /\ run'.out = run.out
        /\ \/ run'.ids = [m \in Members |-> cur[m].id]
           \/ run'.ids = run.ids
    <3>1. [m \in Members |-> cur[m].id] \in [Members -> ContainerIds \cup {0}]
      BY <1>2
    <3>2. policy \in [Units -> Policies]
      BY DEF ExecutionInv, TypeOK
    <3> QED  BY <1>2, <1>5, <3>1, <3>2 DEF Runs
  <2>2. TypeOK'
    BY <1>1, <2>1 DEF ExecutionInv, TypeOK, Executing
  <2>3. LeftBehind' /\ FoundStill'
    BY <1>1, <2>1 DEF ExecutionInv, BreakerInv, LeftBehind, FoundStill
  <2>4. ListedStill'
    BY <1>1, <2>1 DEF ExecutionInv, BreakerInv, ListedStill
  <2>5. \A m \in Members : run'.out[m] = "none"
    BY <1>1, <2>1 DEF ExecutionInv, BreakerInv, TargetsFound, Executing
  <2> QED  BY <1>3, <2>1, <2>2, <2>3, <2>4, <2>5, EarlyRun DEF ExecutionInv, Executing
<1> QED  BY <1>4, <1>5 DEF Inventory

(* The pruning drops no breaker of a container that is broken.             *)
LEMMA PrunedFacts ==
  ASSUME ExecutionInv, run.pc = "scan", block' \in {block, Pruned}, UNCHANGED <<cur, broken>>
  PROVE  Breaker' /\ block' \in [Members -> [ContainerIds -> 0 .. MaxDigest]]
<1>1. block \in [Members -> [ContainerIds -> 0 .. MaxDigest]] /\ 0 \in 0 .. MaxDigest
  BY ExecutionAssumption DEF ExecutionInv, TypeOK
<1>2. Pruned \in [Members -> [ContainerIds -> 0 .. MaxDigest]]
  BY <1>1 DEF Pruned
<1>3. \A m \in Members : cur[m].id \in ContainerIds
  BY DEF ExecutionInv, TypeOK, Containers
<1>4. \A m \in Members : broken[m] # 0 => Pruned[m][cur[m].id] = block[m][cur[m].id]
  BY <1>3 DEF ExecutionInv, BreakerInv, ListedStill, Pruned
<1> QED  BY <1>1, <1>2, <1>4 DEF ExecutionInv, BreakerInv, Breaker

(* What the scan offers is a container that is listed under its reference. *)
LEMMA ScanKeeps == ASSUME ExecutionInv, Scan PROVE ExecutionInv'
<1>1. /\ run.pc = "scan" /\ block' \in {block, Pruned}
      /\ UNCHANGED <<reg, local, cur, policy, control, open, since, lock, down, broken, review>>
  BY DEF Scan
<1>2. Breaker' /\ block' \in [Members -> [ContainerIds -> 0 .. MaxDigest]]
  BY <1>1, PrunedFacts
<1>3. CASE run' = NoRun
  <2>1. TypeOK'
    BY <1>1, <1>2, <1>3, NoRunFields DEF ExecutionInv, TypeOK, Executing
  <2> QED  BY <1>2, <1>3, <2>1, IdleKeeps DEF ExecutionInv
<1>4. ASSUME NEW unreachable \in SUBSET Tags, NEW found,
             found = [m \in Members |-> IF CheckOf(m, unreachable) = "available"
                                        THEN reg[TagOf[m]] ELSE 0],
             run' = [run EXCEPT !.pc = "gate", !.due = {}, !.trigger = "scheduled",
                                !.digest = found]
      PROVE  ExecutionInv'
  <2>1. \A m \in Members : TagOf[m] \in Tags /\ reg[TagOf[m]] \in Digests
    BY ExecutionAssumption DEF ExecutionInv, TypeOK
  <2>2. found \in [Members -> 0 .. MaxDigest]
    <3>1. \A m \in Members : reg[TagOf[m]] \in 0 .. MaxDigest /\ 0 \in 0 .. MaxDigest
      BY <2>1, ExecutionAssumption DEF Digests
    <3> QED  BY <1>4, <3>1
  <2>3. /\ run' \in Runs /\ run'.pc = "gate" /\ run'.left = run.left /\ run'.out = run.out
        /\ run'.ids = run.ids /\ run'.digest = found
    <3>1. run \in Runs /\ {} \in SUBSET Units /\ "scheduled" \in Triggers
      BY DEF ExecutionInv, TypeOK, Triggers
    <3> QED  BY <1>4, <2>2, <3>1 DEF Runs
  <2>4. TypeOK'
    BY <1>1, <1>2, <2>3 DEF ExecutionInv, TypeOK, Executing
  <2>5. LeftBehind' /\ ListedStill'
    BY <1>1, <2>3 DEF ExecutionInv, BreakerInv, LeftBehind, ListedStill
  <2>6. \A m \in Members : CheckOf(m, unreachable) = "available"
          => run.ids[m] = cur[m].id /\ cur[m].byTag
    BY DEF CheckOf, Scanned, ListedByTag
  <2>7. FoundStill'
    BY <1>1, <1>4, <2>3, <2>6 DEF FoundStill, Available
  <2>8. \A m \in Members : run'.out[m] = "none"
    BY <1>1, <2>3 DEF ExecutionInv, BreakerInv, TargetsFound, Executing
  <2> QED  BY <1>2, <2>3, <2>4, <2>5, <2>7, <2>8, EarlyRun DEF ExecutionInv, Executing
<1> QED  BY <1>3, <1>4 DEF Scan

(* The gate changes nothing but the step.                                  *)
LEMMA GateKeeps == ASSUME ExecutionInv, Gate PROVE ExecutionInv'
<1>1. /\ run.pc = "gate" /\ (run' = NoRun \/ run' = [run EXCEPT !.pc = "gather"])
      /\ UNCHANGED <<reg, local, cur, policy, control, block, open, since, lock, down, broken, review>>
  BY DEF Gate
<1>2. Breaker'
  BY <1>1 DEF ExecutionInv, BreakerInv, Breaker
<1>3. CASE run' = NoRun
  <2>1. TypeOK'
    BY <1>1, <1>3, NoRunFields DEF ExecutionInv, TypeOK, Executing
  <2> QED  BY <1>2, <1>3, <2>1, IdleKeeps DEF ExecutionInv
<1>4. CASE run' = [run EXCEPT !.pc = "gather"]
  <2>1. /\ run' \in Runs /\ run'.pc = "gather" /\ run'.left = run.left /\ run'.out = run.out
        /\ run'.ids = run.ids /\ run'.digest = run.digest
    BY <1>4 DEF ExecutionInv, TypeOK, Runs
  <2>2. TypeOK'
    BY <1>1, <2>1 DEF ExecutionInv, TypeOK, Executing
  <2>3. LeftBehind' /\ ListedStill' /\ FoundStill'
    BY <1>1, <2>1 DEF ExecutionInv, BreakerInv, LeftBehind, ListedStill, FoundStill, Available
  <2>4. \A m \in Members : run'.out[m] = "none"
    BY <1>1, <2>1 DEF ExecutionInv, BreakerInv, TargetsFound, Executing
  <2> QED  BY <1>2, <2>1, <2>2, <2>3, <2>4, EarlyRun DEF ExecutionInv, Executing
<1> QED  BY <1>1, <1>3, <1>4

(* The targets are updates the scan found, of stacks without a breaker.    *)
LEMMA TargetsFacts ==
  ASSUME run \in Runs, NEW unread \in SUBSET Available, NEW unread2 \in SUBSET Available,
         NEW m \in Targets(unread, unread2)
  PROVE  /\ m \in Available /\ ~Blocked(m)
         /\ UnitOf(m) \notin BlockedStacks(unread)
<1>1. \A T : Limited(T) \subseteq T
  BY DEF Limited
<1> QED  BY <1>1 DEF Targets

(* BeginExecution: the targets are chosen, nothing is touched yet.         *)
LEMMA GatherKeeps == ASSUME ExecutionInv, Gather PROVE ExecutionInv'
<1>1. /\ run.pc = "gather"
      /\ UNCHANGED <<reg, local, cur, policy, control, block, since, lock, down, broken, review>>
  BY DEF Gather
<1>2. Breaker'
  BY <1>1 DEF ExecutionInv, BreakerInv, Breaker
<1>3. CASE run' = NoRun /\ open' = open
  <2>1. TypeOK'
    BY <1>1, <1>3, NoRunFields DEF ExecutionInv, TypeOK, Executing
  <2> QED  BY <1>2, <1>3, <2>1, IdleKeeps DEF ExecutionInv
<1>4. ASSUME NEW unread \in SUBSET Available, NEW unread2 \in SUBSET Available,
             NEW targets, targets = Targets(unread, unread2),
             run' = [run EXCEPT !.pc = "unit", !.targets = targets, !.outId = run.ids],
             open' = open \cup {"this"}
      PROVE  ExecutionInv'
  <2>1. \A m \in targets : /\ m \in Available /\ m \in Members /\ ~Blocked(m)
                           /\ UnitOf(m) \notin BlockedStacks(unread)
    BY <1>4, TargetsFacts DEF ExecutionInv, TypeOK, Available
  <2>2. /\ run' \in Runs /\ run'.pc = "unit" /\ run'.left = run.left /\ run'.out = run.out
        /\ run'.ids = run.ids /\ run'.digest = run.digest /\ run'.targets = targets
        /\ run'.outId = run.ids
    BY <1>4, <2>1 DEF ExecutionInv, TypeOK, Runs, Executing
  <2>3. TypeOK'
    BY <1>1, <1>4, <2>2 DEF ExecutionInv, TypeOK, Executing
  <2>4. \A m \in Members : run'.out[m] = "none"
    BY <1>1, <2>2 DEF ExecutionInv, BreakerInv, TargetsFound, Executing
  <2>5. LeftBehind' /\ ListedStill' /\ FoundStill'
    BY <1>1, <2>2 DEF ExecutionInv, BreakerInv, LeftBehind, ListedStill, FoundStill
  <2>6. TargetsFound' /\ Booked'
    BY <2>1, <2>2, <2>4 DEF TargetsFound, Booked, Available
  <2>7. ASSUME NEW m \in Available, ~Blocked(m) PROVE broken[m] # run.digest[m]
    <3>1. m \in Members /\ run.digest[m] # 0
      BY DEF Available
    <3>2. CASE broken[m] = 0  BY <3>1, <3>2
    <3>3. CASE broken[m] # 0
      <4>1. run.ids[m] = cur[m].id /\ cur[m].byTag
        BY <1>1, <3>3 DEF ExecutionInv, BreakerInv, FoundStill
      <4>2. block[m][run.ids[m]] = broken[m]
        BY <3>1, <3>3, <4>1 DEF ExecutionInv, BreakerInv, Breaker
      <4>3. run.ids[m] # 0
        BY <3>1, <4>1, IdFacts DEF ExecutionInv, TypeOK, Containers
      <4> QED  BY <2>7, <4>2, <4>3 DEF Blocked
    <3> QED  BY <3>2, <3>3
  <2>8. NoRetryOfBroken'
    BY <1>1, <2>1, <2>2, <2>7 DEF NoRetryOfBroken
  <2>9. NoPartialStack'
    <3> SUFFICES ASSUME NEW u \in Stacks, NEW n \in MembersOf(u) \cap targets,
                        NEW m \in MembersOf(u) \cap Available
                 PROVE  broken[m] # run.digest[m]
      BY <1>1, <2>2 DEF NoPartialStack, Available
    <3>1. UnitOf(n) = u
      BY <2>1, UnitFacts DEF Units
    <3>2. ~Blocked(m)
      BY <2>1, <3>1 DEF BlockedStacks
    <3> QED  BY <2>7, <3>2
  <2>10. BreakerInv'
    BY <1>2, <2>5, <2>6, <2>8, <2>9 DEF BreakerInv
  <2>11. StackInv'
    <3>1. \A u \in Stacks : (StackTargets(u) \subseteq Pending)'
      BY <2>1, <2>2, <2>4 DEF StackTargets, Pending
    <3> QED  BY <2>2, <3>1 DEF StackInv, WholeStacks, UnderTransaction, Locked
  <2> QED  BY <2>3, <2>10, <2>11 DEF ExecutionInv
<1> QED  BY <1>3, <1>4 DEF Gather

-----------------------------------------------------------------------------
(* The execution.                                                          *)

(* A step that gives one member its outcome, and skips others at most.     *)
Handles(m) ==
    /\ run.pc \in Executing /\ run'.pc \in Executing /\ run' \in Runs
    /\ m \in run.targets /\ Moved(m) /\ UNCHANGED block
    /\ run'.targets = run.targets /\ run'.digest = run.digest /\ run'.ids = run.ids
    /\ run'.rows = run.rows /\ run'.stack = run.stack
    /\ run'.out[m] # "none" /\ run'.left[m] = cur'[m].id
    /\ \A n \in Members \ {m} :
         /\ run'.left[n] = run.left[n] /\ run'.prev[n] = run.prev[n]
         /\ run'.outId[n] = run.outId[n]
         /\ \/ run'.out[n] = run.out[n]
            \/ run'.out[n] = "skipped" /\ n \in Pending

(* If the member fails and keeps its image, its id is on a row.            *)
BookedAfter(m) ==
    /\ /\ run'.out[m] \in {"failed", "rolled_back"} /\ cur'[m].byTag
       /\ run'.prev[m] \in {0, cur'[m].img}
       => cur'[m].id \in {run.ids[m], run'.outId[m]}
    /\ run'.out[m] # "rolled_back" => run'.outId[m] = run.ids[m]

(* Such a step keeps everything that is about breakers.                    *)
LEMMA HandlesKeeps ==
  ASSUME ExecutionInv, NEW m \in Members, Handles(m), BookedAfter(m)
  PROVE  BreakerInv'
<1>0. /\ run.pc \in Executing /\ run'.pc \in Executing
      /\ m \in run.targets /\ Moved(m) /\ UNCHANGED block
      /\ run'.targets = run.targets /\ run'.digest = run.digest /\ run'.ids = run.ids
      /\ run'.out[m] # "none" /\ run'.left[m] = cur'[m].id
      /\ \A n \in Members \ {m} :
           /\ run'.left[n] = run.left[n] /\ run'.prev[n] = run.prev[n]
           /\ run'.outId[n] = run.outId[n]
           /\ \/ run'.out[n] = run.out[n]
              \/ run'.out[n] = "skipped" /\ n \in run.targets /\ run.out[n] = "none"
  BY DEF Handles, Pending
<1>1. /\ \/ cur'[m] = cur[m] /\ broken'[m] = broken[m]
         \/ cur'[m].id = cur[m].id + 1 /\ broken'[m] = 0
      /\ \A n \in Members \ {m} : cur'[n] = cur[n] /\ broken'[n] = broken[n]
      /\ cur' \in [Members -> Containers]
  BY <1>0, MovedFacts DEF ExecutionInv, TypeOK
<1>2. run.targets \subseteq Members /\ \A n \in run.targets : run.digest[n] # 0
  BY <1>0, RunFields DEF ExecutionInv, TypeOK, BreakerInv, TargetsFound, Available
<1>3. Breaker'
  BY <1>0, MovedBreaker DEF ExecutionInv, BreakerInv
<1>4. ListedStill' /\ FoundStill'
  BY <1>0 DEF ListedStill, FoundStill, Executing
<1>5. TargetsFound'
  BY <1>0 DEF ExecutionInv, BreakerInv, TargetsFound, Available
<1>6. LeftBehind'
  <2>1. cur'[m].id \in Nat  BY <1>1, IdFacts DEF Containers
  <2> QED  BY <1>0, <1>1, <2>1 DEF ExecutionInv, BreakerInv, LeftBehind
<1>7. Booked'
  <2> SUFFICES ASSUME NEW n \in run.targets
               PROVE  /\ run'.out[n] \notin {"none", "skipped"} /\ cur'[n].id # run'.left[n]
                           => broken'[n] = 0
                      /\ /\ run'.out[n] \in {"failed", "rolled_back"}
                         /\ cur'[n].id = run'.left[n] /\ cur'[n].byTag
                         /\ run'.prev[n] \in {0, cur'[n].img}
                         => cur'[n].id \in {run'.ids[n], run'.outId[n]}
                      /\ run'.out[n] # "rolled_back" => run'.outId[n] = run'.ids[n]
    BY <1>0 DEF Booked
  <2>1. CASE n = m  BY <1>0, <2>1 DEF BookedAfter
  <2>2. CASE n # m
    BY <1>0, <1>1, <1>2, <2>2 DEF ExecutionInv, BreakerInv, Booked
  <2> QED  BY <2>1, <2>2
<1>8. NoRetryOfBroken'
  BY <1>0, <1>1, <1>2 DEF ExecutionInv, BreakerInv, NoRetryOfBroken
<1>9. NoPartialStack'
  BY <1>0, <1>1 DEF ExecutionInv, BreakerInv, NoPartialStack, Available
<1> QED  BY <1>3, <1>4, <1>5, <1>6, <1>7, <1>8, <1>9 DEF BreakerInv

(* The outcome of a member that was not restored is under the listed id.   *)
LEMMA OwnRow ==
  ASSUME ExecutionInv, NEW m \in run.targets, run.pc \in Executing, run.out[m] # "rolled_back"
  PROVE  run.outId[m] = run.ids[m]
  BY DEF ExecutionInv, BreakerInv, Booked

(* The verdicts of a replacement.                                          *)
LEMMA RecreatedFacts ==
  ASSUME TypeOK, NEW m \in Members, NEW d \in Digests,
         NEW state \in {"updated", "rolled_back", "failed"}, Recreated(m, d, TRUE, state)
  PROVE  /\ Moved(m) /\ cur' \in [Members -> Containers]
         /\ cur'[m] = cur[m] \/ cur'[m].img = d
         /\ state = "updated" => cur'[m].img = d
         /\ state = "rolled_back" => cur'[m] = cur[m]
         /\ \A n \in Members \ {m} : cur'[n] = cur[n]
<1>1. CASE Kept
  BY <1>1 DEF Recreated, Moved, Kept, TypeOK, Swap
<1>2. CASE Swap(m, d, TRUE)
  <2>1. /\ cur' \in [Members -> Containers]
        /\ cur'[m].id = cur[m].id + 1 /\ cur'[m].img = d
        /\ \A n \in Members \ {m} : cur'[n] = cur[n]
    BY <1>2, SwapFacts DEF TypeOK
  <2>2. state = "rolled_back" => cur'[m] = cur[m]
    BY DEF Recreated, Kept
  <2> QED  BY <1>2, <2>1, <2>2 DEF Moved
<1> QED  BY <1>1, <1>2 DEF Recreated

(* One single container: it is still the one that was listed, unless it    *)
(* is skipped.                                                             *)
LEMMA SingleKeeps ==
  ASSUME ExecutionInv, NEW m \in Members, ExecuteSingle(m) PROVE ExecutionInv'
<1>1. /\ run.pc = "unit" /\ m \in Pending /\ m \in Singles /\ m \in run.targets
      /\ UNCHANGED <<reg, policy, control, block, open, since, lock, down, review>>
  BY DEF ExecuteSingle, Pending
<1>2. TypeOK /\ run \in Runs /\ TagOf[m] \in Tags /\ cur \in [Members -> Containers]
  BY ExecutionAssumption DEF ExecutionInv, TypeOK
<1>3. Pulled({TagOf[m]}) \in [Tags -> Digests] /\ local \in [Tags -> Digests]
  BY <1>2, PulledFacts DEF TypeOK
<1>4. /\ local' \in [Tags -> Digests] /\ Moved(m) /\ cur' \in [Members -> Containers]
      /\ \E state \in States :
           \/ /\ run' = Outcome(m, state)
              /\ state = "failed" => StillThere(m) /\ cur' = cur
              /\ state # "rolled_back"
           \/ /\ run' = Attempted(m, state) /\ StillThere(m)
              /\ cur'[m] = cur[m] \/ cur'[m].img # cur[m].img
  <2>1. CASE Kept /\ local' = local /\ run' = Outcome(m, "skipped")
    BY <1>2, <1>3, <2>1 DEF Kept, Moved, States
  <2>2. CASE Kept /\ StillThere(m) /\ run' = Outcome(m, "failed")
             /\ (local' = local \/ local' = Pulled({TagOf[m]}))
    BY <1>2, <1>3, <2>2 DEF Kept, Moved, States
  <2>3. CASE Kept /\ StillThere(m) /\ run' = Outcome(m, "current")
             /\ local' = Pulled({TagOf[m]})
    BY <1>2, <1>3, <2>3 DEF Kept, Moved, States
  <2>4. CASE /\ StillThere(m) /\ local' = Pulled({TagOf[m]})
             /\ local'[TagOf[m]] # cur[m].img
             /\ \E state \in {"updated", "rolled_back", "failed"} :
                  /\ Recreated(m, local'[TagOf[m]], TRUE, state)
                  /\ run' = Attempted(m, state)
    <3>1. PICK state \in {"updated", "rolled_back", "failed"} :
            Recreated(m, local'[TagOf[m]], TRUE, state) /\ run' = Attempted(m, state)
      BY <2>4
    <3>2. local' \in [Tags -> Digests] /\ local'[TagOf[m]] \in Digests
      BY <1>2, <1>3, <2>4
    <3>3. /\ Moved(m) /\ cur' \in [Members -> Containers]
          /\ cur'[m] = cur[m] \/ cur'[m].img = local'[TagOf[m]]
      BY <1>2, <3>1, <3>2, RecreatedFacts
    <3> QED  BY <2>4, <3>1, <3>2, <3>3 DEF States
  <2> QED  BY <2>1, <2>2, <2>3, <2>4 DEF ExecuteSingle
<1>5. /\ run' \in Runs /\ run'.pc = "unit"
      /\ run'.targets = run.targets /\ run'.digest = run.digest /\ run'.ids = run.ids
      /\ run'.rows = run.rows /\ run'.stack = run.stack /\ run'.outId = run.outId
      /\ run'.out[m] \in States /\ run'.left[m] = cur'[m].id
      /\ \A n \in Members \ {m} : /\ run'.left[n] = run.left[n] /\ run'.prev[n] = run.prev[n]
                                  /\ run'.out[n] = run.out[n]
  <2>1. PICK state \in States : run' = Outcome(m, state) \/ run' = Attempted(m, state)
    BY <1>4
  <2>2. CASE run' = Outcome(m, state)
    BY <1>1, <1>2, <1>4, <2>2, OutcomeMeans DEF SameFields
  <2>3. CASE run' = Attempted(m, state)
    BY <1>1, <1>2, <1>4, <2>3, AttemptedMeans DEF SameFields
  <2> QED  BY <2>1, <2>2, <2>3
<1>6. Handles(m)
  BY <1>1, <1>4, <1>5 DEF Handles, Executing, States
<1>7. BookedAfter(m)
  <2>0. run'.outId[m] = run.ids[m]
    BY <1>1, <1>5, OwnRow DEF Pending, Executing
  <2>1. PICK state \in States :
           \/ /\ run' = Outcome(m, state)
              /\ state = "failed" => StillThere(m) /\ cur' = cur
              /\ state # "rolled_back"
           \/ /\ run' = Attempted(m, state) /\ StillThere(m)
              /\ cur'[m] = cur[m] \/ cur'[m].img # cur[m].img
    BY <1>4
  <2>2. CASE run' = Outcome(m, state) /\ (state = "failed" => StillThere(m) /\ cur' = cur)
             /\ state # "rolled_back"
    <3>1. run'.out[m] = state
      BY <1>2, <1>4, <2>2, OutcomeMeans
    <3> QED  BY <2>0, <2>2, <3>1 DEF BookedAfter, StillThere
  <2>3. CASE run' = Attempted(m, state) /\ StillThere(m)
             /\ (cur'[m] = cur[m] \/ cur'[m].img # cur[m].img)
    <3>1. run'.prev[m] = cur[m].img
      BY <1>2, <1>4, <2>3, AttemptedMeans
    <3>2. cur[m].img # 0
      BY <1>2 DEF Containers, Digests
    <3> QED  BY <2>0, <2>3, <3>1, <3>2 DEF BookedAfter, StillThere
  <2> QED  BY <2>1, <2>2, <2>3
<1>8. TypeOK'
  <2>1. broken' \in [Members -> 0 .. MaxDigest]
    BY <1>4, MovedFacts DEF ExecutionInv, TypeOK
  <2> QED  BY <1>1, <1>4, <1>5, <2>1 DEF ExecutionInv, TypeOK, Executing
<1>9. StackInv'
  <2>1. \A u \in Stacks : m \notin MembersOf(u)
    <3> SUFFICES ASSUME NEW u \in Stacks, m \in MembersOf(u) PROVE FALSE
      OBVIOUS
    <3>1. m \in Units /\ u \in Units /\ m \in MembersOf(m) /\ m # u
      BY <1>1, ExecutionAssumption DEF Units, MembersOf
    <3> QED  BY <3>1, UnitFacts
  <2>2. \A u \in Stacks : /\ StackTargets(u)' = StackTargets(u)
                          /\ StackTargets(u) \cap Pending' = StackTargets(u) \cap Pending
    <3>1. \A n \in run.targets \ {m} : n \in Members \ {m} /\ run'.out[n] = run.out[n]
      BY <1>5, RunFields, <1>2
    <3> QED  BY <1>5, <2>1, <3>1 DEF StackTargets, Pending
  <2>3. WholeStacks'
    BY <1>1, <1>5, <2>2 DEF ExecutionInv, StackInv, WholeStacks, Executing
  <2>4. UnderTransaction'
    BY <1>5 DEF UnderTransaction, Locked
  <2> QED  BY <2>3, <2>4 DEF StackInv
<1> QED  BY <1>6, <1>7, <1>8, <1>9, HandlesKeeps DEF ExecutionInv

-----------------------------------------------------------------------------
(* The transaction of a stack.                                             *)

(* A member of one stack is a member of no other.                          *)
LEMMA StacksDisjoint ==
  ASSUME NEW u \in Stacks, NEW v \in Stacks, NEW m \in MembersOf(u), m \in MembersOf(v)
  PROVE  u = v
<1>1. u \in Units /\ v \in Units  BY DEF Units
<1> QED  BY <1>1, UnitFacts

(* The rest of a stack is skipped.                                         *)
LEMMA UnprocessedFacts ==
  ASSUME run \in Runs, NEW u
  PROVE  /\ Unprocessed(u) \in [Members -> States \cup {"none"}]
         /\ \A n \in Members :
              /\ n \in Pending \cap MembersOf(u) => Unprocessed(u)[n] = "skipped"
              /\ n \notin Pending \cap MembersOf(u) => Unprocessed(u)[n] = run.out[n]
<1>1. run.out \in [Members -> States \cup {"none"}]  BY RunFields
<1> QED  BY <1>1 DEF Unprocessed, States

(* A preflight that fails skips the whole stack.                           *)
LEMMA PreflightSkips ==
  ASSUME ExecutionInv, NEW u \in Stacks, run.pc = "unit", local' \in [Tags -> Digests],
         run' = [run EXCEPT !.out = Unprocessed(u)],
         UNCHANGED <<reg, cur, policy, control, block, open, since, lock, down, broken, review>>
  PROVE  ExecutionInv'
<1>1. run \in Runs  BY DEF ExecutionInv, TypeOK
<1>2. /\ run' \in Runs /\ SameFields(run') /\ run'.pc = "unit" /\ run'.left = run.left
      /\ run'.prev = run.prev /\ run'.out = Unprocessed(u)
  BY <1>1, UnprocessedFacts DEF Runs, SameFields
<1>3. \A n \in Members :
        /\ n \in Pending \cap MembersOf(u) => run'.out[n] = "skipped"
        /\ n \notin Pending \cap MembersOf(u) => run'.out[n] = run.out[n]
  BY <1>1, <1>2, UnprocessedFacts
<1>4. TypeOK'
  BY <1>2 DEF ExecutionInv, TypeOK, SameFields, Executing
<1>5. run.targets \subseteq Members
  BY <1>1, RunFields
<1>6. BreakerInv'
  <2>1. Breaker' /\ LeftBehind'
    BY <1>2 DEF ExecutionInv, BreakerInv, Breaker, LeftBehind
  <2>2. ListedStill' /\ FoundStill'
    BY <1>2 DEF ListedStill, FoundStill
  <2>3. TargetsFound'
    BY <1>2, <1>3 DEF ExecutionInv, BreakerInv, TargetsFound, SameFields, Available, Executing,
                      Pending
  <2>4. Booked'
    BY <1>2, <1>3, <1>5 DEF ExecutionInv, BreakerInv, Booked, SameFields, Executing, Pending
  <2>5. NoRetryOfBroken' /\ NoPartialStack'
    BY <1>2 DEF ExecutionInv, BreakerInv, NoRetryOfBroken, NoPartialStack, SameFields,
                Available, Executing
  <2> QED  BY <2>1, <2>2, <2>3, <2>4, <2>5 DEF BreakerInv
<1>7. StackInv'
  <2>1. ASSUME NEW v \in Stacks
        PROVE  \/ (StackTargets(v) \subseteq Pending)'
               \/ (StackTargets(v) \cap Pending = {})'
    <3>1. CASE v = u
      BY <1>2, <1>3, <1>5, <3>1 DEF StackTargets, Pending, SameFields
    <3>2. CASE v # u
      <4>1. \A n \in StackTargets(v) : n \in Members /\ run'.out[n] = run.out[n]
        BY <1>3, <1>5, <3>2, StacksDisjoint DEF StackTargets
      <4>2. StackTargets(v)' = StackTargets(v) /\ run'.targets = run.targets
        BY <1>2 DEF StackTargets, SameFields
      <4>3. \/ StackTargets(v) \subseteq Pending \/ StackTargets(v) \cap Pending = {}
        BY DEF ExecutionInv, StackInv, WholeStacks, Executing
      <4> QED  BY <4>1, <4>2, <4>3 DEF Pending
    <3> QED  BY <3>1, <3>2
  <2> QED  BY <1>2, <2>1 DEF StackInv, WholeStacks, UnderTransaction, Locked
<1> QED  BY <1>4, <1>6, <1>7 DEF ExecutionInv

(* A preflight that succeeds locks a stack that is as it was listed.       *)
LEMMA PreflightLocks ==
  ASSUME ExecutionInv, NEW u \in Stacks, run.pc = "unit", local' \in [Tags -> Digests],
         Pending \cap MembersOf(u) # {}, lock[u] = "free",
         \A k \in Chosen(u) : StillThere(Order[u][k]),
         run' = [run EXCEPT !.pc = "member", !.stack = u],
         lock' = [lock EXCEPT ![u] = "auto"],
         UNCHANGED <<reg, cur, policy, control, block, open, since, down, broken, review>>
  PROVE  ExecutionInv'
<1>1. run \in Runs /\ u \in Units  BY DEF ExecutionInv, TypeOK, Units
<1>2. /\ run' \in Runs /\ run'.pc = "member" /\ run'.stack = u
      /\ run'.left = run.left /\ run'.prev = run.prev /\ run'.out = run.out
      /\ run'.targets = run.targets /\ run'.ids = run.ids /\ run'.digest = run.digest
      /\ run'.outId = run.outId
  BY <1>1 DEF Runs, Executing
<1>3. TypeOK'
  BY <1>1, <1>2 DEF ExecutionInv, TypeOK, Executing
<1>4. BreakerInv'
  <2>1. Breaker' /\ LeftBehind'
    BY <1>2 DEF ExecutionInv, BreakerInv, Breaker, LeftBehind
  <2>2. ListedStill' /\ FoundStill'
    BY <1>2 DEF ListedStill, FoundStill
  <2>3. TargetsFound' /\ Booked'
    BY <1>2 DEF ExecutionInv, BreakerInv, TargetsFound, Booked, Available, Executing
  <2>4. NoRetryOfBroken' /\ NoPartialStack'
    BY <1>2 DEF ExecutionInv, BreakerInv, NoRetryOfBroken, NoPartialStack, Available, Executing
  <2> QED  BY <2>1, <2>2, <2>3, <2>4 DEF BreakerInv
<1>5. WholeStacks'
  BY <1>2 DEF ExecutionInv, StackInv, WholeStacks, StackTargets, Pending, Executing
<1>6. UnderTransaction'
  <2>1. StackTargets(u) \subseteq Pending
    <3>1. StackTargets(u) \cap Pending # {}
      BY DEF StackTargets, Pending
    <3> QED  BY <3>1 DEF ExecutionInv, StackInv, WholeStacks, Executing
  <2>2. \A m \in StackTargets(u) : run.out[m] = "none" /\ StillThere(m)
    BY <2>1 DEF StackTargets, MembersOf, Chosen, Pending
  <2>3. \A m \in StackTargets(run.stack)' :
          run'.out[m] = "none" /\ cur'[m].id = run'.ids[m]
    BY <1>2, <2>2 DEF StackTargets, StillThere
  <2> QED  BY <1>2, <2>3 DEF UnderTransaction, StillThere
<1> QED  BY <1>3, <1>4, <1>5, <1>6 DEF ExecutionInv, StackInv

(* The preflight of a stack.                                               *)
LEMMA PreflightKeeps ==
  ASSUME ExecutionInv, NEW u \in Stacks, StackPreflight(u) PROVE ExecutionInv'
<1>1. /\ run.pc = "unit" /\ Pending \cap MembersOf(u) # {}
      /\ UNCHANGED <<reg, cur, policy, control, block, open, since, down, broken, review>>
  BY DEF StackPreflight
<1>2. local' \in [Tags -> Digests]
  <2>1. local' = local \/ \E tags : local' = Pulled(tags)
    BY DEF StackPreflight
  <2>2. TypeOK /\ local \in [Tags -> Digests]
    BY DEF ExecutionInv, TypeOK
  <2> QED  BY <2>1, <2>2, PulledFacts
<1>3. CASE run' = [run EXCEPT !.out = Unprocessed(u)] /\ lock' = lock
  BY <1>1, <1>2, <1>3, PreflightSkips
<1>4. CASE /\ lock[u] = "free" /\ \A k \in Chosen(u) : StillThere(Order[u][k])
           /\ run' = [run EXCEPT !.pc = "member", !.stack = u]
           /\ lock' = [lock EXCEPT ![u] = "auto"]
  BY <1>1, <1>2, <1>4, PreflightLocks
<1> QED  BY <1>3, <1>4 DEF StackPreflight

(* The release of a stack.                                                 *)
LEMMA UnlockKeeps == ASSUME ExecutionInv, Unlock PROVE ExecutionInv'
<1>1. /\ run.pc = "unlock" /\ lock' = [lock EXCEPT ![run.stack] = "free"]
      /\ run' = [run EXCEPT !.pc = "unit"]
      /\ UNCHANGED <<reg, local, cur, policy, control, block, open, since, down, broken, review>>
  BY DEF Unlock
<1>2. run \in Runs /\ run.stack \in Stacks /\ run.stack \in Units
  BY <1>1 DEF ExecutionInv, TypeOK, StackInv, UnderTransaction, Locked, Units
<1>3. /\ run' \in Runs /\ run'.pc = "unit" /\ run'.stack = run.stack
      /\ run'.left = run.left /\ run'.prev = run.prev /\ run'.out = run.out
      /\ run'.targets = run.targets /\ run'.ids = run.ids /\ run'.digest = run.digest
      /\ run'.outId = run.outId
  BY <1>1, <1>2 DEF Runs, Executing
<1>4. TypeOK'
  BY <1>1, <1>2, <1>3 DEF ExecutionInv, TypeOK, Executing
<1>5. BreakerInv'
  <2>1. Breaker' /\ LeftBehind'
    BY <1>1, <1>3 DEF ExecutionInv, BreakerInv, Breaker, LeftBehind
  <2>2. ListedStill' /\ FoundStill'
    BY <1>3 DEF ListedStill, FoundStill
  <2>3. TargetsFound' /\ Booked'
    BY <1>1, <1>3 DEF ExecutionInv, BreakerInv, TargetsFound, Booked, Available, Executing
  <2>4. NoRetryOfBroken' /\ NoPartialStack'
    BY <1>1, <1>3
       DEF ExecutionInv, BreakerInv, NoRetryOfBroken, NoPartialStack, Available, Executing
  <2> QED  BY <2>1, <2>2, <2>3, <2>4 DEF BreakerInv
<1>6. StackInv'
  BY <1>1, <1>3 DEF ExecutionInv, StackInv, WholeStacks, UnderTransaction, StackTargets,
                    Pending, Executing, Locked
<1> QED  BY <1>4, <1>5, <1>6 DEF ExecutionInv

(* What a transaction does with the members of its stack, and the others.  *)
LEMMA OtherStacks ==
  ASSUME ExecutionInv, run.pc \in Locked, run' \in Runs, run'.targets = run.targets,
         NEW m \in StackTargets(run.stack),
         \A n \in Members \ {m} :
           \/ run'.out[n] = run.out[n]
           \/ n \in Pending \cap MembersOf(run.stack)
  PROVE  \A v \in Stacks \ {run.stack} :
           \/ (StackTargets(v) \subseteq Pending)'
           \/ (StackTargets(v) \cap Pending = {})'
<1> SUFFICES ASSUME NEW v \in Stacks, v # run.stack
             PROVE  \/ (StackTargets(v) \subseteq Pending)'
                    \/ (StackTargets(v) \cap Pending = {})'
  OBVIOUS
<1>1. run.stack \in Stacks /\ run.targets \subseteq Members /\ run.pc \in Executing
  BY RunFields DEF ExecutionInv, TypeOK, StackInv, UnderTransaction, Locked, Executing
<1>2. \A n \in StackTargets(v) : n \in Members /\ run'.out[n] = run.out[n]
  BY <1>1, StacksDisjoint DEF StackTargets
<1>3. StackTargets(v)' = StackTargets(v)
  BY DEF StackTargets
<1>4. \/ StackTargets(v) \subseteq Pending \/ StackTargets(v) \cap Pending = {}
  BY <1>1 DEF ExecutionInv, StackInv, WholeStacks
<1> QED  BY <1>2, <1>3, <1>4 DEF Pending

(* A member that did not fail: the transaction goes on, or is over.        *)
LEMMA MemberSucceeds ==
  ASSUME ExecutionInv, NEW m \in Members, run.pc = "member", IsNextMember(m), Handles(m),
         run'.pc = AfterMember(m), cur' \in [Members -> Containers],
         \A n \in Members \ {m} : run'.out[n] = run.out[n] /\ cur'[n] = cur[n],
         \/ run'.out[m] = "current"
         \/ run'.out[m] = "updated" /\ run'.prev[m] \notin {0, cur'[m].img}
  PROVE  StackInv'
<1>0. /\ run'.targets = run.targets /\ run'.ids = run.ids /\ run'.stack = run.stack
      /\ run'.left[m] = cur'[m].id /\ run' \in Runs
      /\ \A n \in Members \ {m} : run'.left[n] = run.left[n] /\ run'.prev[n] = run.prev[n]
  BY DEF Handles
<1>1. /\ m \in StackTargets(run.stack) /\ run.out[m] = "none"
      /\ run.stack \in Stacks /\ run.targets \subseteq Members
  BY NextFacts, RunFields DEF ExecutionInv, TypeOK
<1>2. run'.pc \in {"member", "unlock"}
  BY DEF AfterMember
<1>3. \A n \in StackTargets(run.stack) \ {m} :
        /\ n \in Members /\ run.out[n] \in {"none", "updated", "current"}
        /\ run.out[n] = "none" => StillThere(n)
        /\ run.out[n] = "updated" => cur[n].id = run.left[n] /\ run.prev[n] \notin {0, cur[n].img}
  BY <1>1 DEF ExecutionInv, StackInv, UnderTransaction, StackTargets, Locked
<1>4. StackTargets(run.stack)' = StackTargets(run.stack)
  BY <1>0 DEF StackTargets
<1>5. \A n \in StackTargets(run.stack)' :
        /\ run'.out[n] \in {"none", "updated", "current"}
        /\ run'.out[n] = "none" => StillThere(n)'
        /\ run'.out[n] = "updated" => cur'[n].id = run'.left[n] /\ run'.prev[n] \notin {0, cur'[n].img}
  BY <1>0, <1>3, <1>4 DEF StillThere
<1>6. UnderTransaction'
  BY <1>0, <1>1, <1>2, <1>5 DEF UnderTransaction
<1>7. WholeStacks'
  <2>1. \A v \in Stacks \ {run.stack} :
           \/ (StackTargets(v) \subseteq Pending)'
           \/ (StackTargets(v) \cap Pending = {})'
    BY <1>0, <1>1, OtherStacks DEF Locked
  <2>2. run'.pc = "unlock" => (StackTargets(run.stack) \cap Pending = {})'
    <3> SUFFICES ASSUME run'.pc = "unlock" PROVE (StackTargets(run.stack) \cap Pending = {})'
      OBVIOUS
    <3>1. Pending \cap MembersOf(run.stack) = {m}
      BY DEF AfterMember
    <3> QED  BY <1>0, <1>1, <1>4, <3>1 DEF Pending, StackTargets
  <2>3. ASSUME NEW v \in Stacks
        PROVE  \/ (StackTargets(v) \subseteq Pending)'
               \/ (StackTargets(v) \cap Pending = {})'
               \/ run'.pc = "member" /\ run'.stack = v
    BY <1>0, <1>2, <2>1, <2>2
  <2> QED  BY <2>3 DEF WholeStacks
<1> QED  BY <1>6, <1>7 DEF StackInv

(* A member that failed: the rest is skipped as it was, and what was       *)
(* updated is restored if the policy says so.                              *)
LEMMA MemberFails ==
  ASSUME ExecutionInv, NEW m \in Members, run.pc = "member", IsNextMember(m), Handles(m),
         run'.pc = Abort, cur' \in [Members -> Containers],
         \A n \in Members \ {m} :
           /\ cur'[n] = cur[n]
           /\ n \in Pending \cap MembersOf(run.stack) => run'.out[n] = "skipped"
           /\ n \notin Pending \cap MembersOf(run.stack) => run'.out[n] = run.out[n],
         run'.out[m] \in {"failed", "rolled_back"},
         run'.out[m] = "rolled_back" => cur'[m].img = run'.prev[m]
  PROVE  StackInv'
<1>0. /\ run'.targets = run.targets /\ run'.ids = run.ids /\ run'.stack = run.stack
      /\ run'.rows = run.rows /\ run' \in Runs
      /\ \A n \in Members \ {m} : run'.left[n] = run.left[n] /\ run'.prev[n] = run.prev[n]
  BY DEF Handles
<1>1. /\ m \in StackTargets(run.stack) /\ run.out[m] = "none"
      /\ run.stack \in Stacks /\ run.targets \subseteq Members /\ run.stack \in Units
  BY NextFacts, RunFields DEF ExecutionInv, TypeOK, Units
<1>2. run'.pc \in {"restore", "unlock"}
  BY DEF Abort
<1>3. \A n \in StackTargets(run.stack) \ {m} :
        /\ n \in Members /\ run.out[n] \in {"none", "updated", "current"}
        /\ run.out[n] = "none" => StillThere(n) /\ n \in Pending \cap MembersOf(run.stack)
        /\ run.out[n] = "updated" => cur[n].id = run.left[n] /\ run.prev[n] \notin {0, cur[n].img}
  BY <1>1 DEF ExecutionInv, StackInv, UnderTransaction, StackTargets, Locked, Pending
<1>4. StackTargets(run.stack)' = StackTargets(run.stack)
  BY <1>0 DEF StackTargets
<1>5. \A n \in StackTargets(run.stack)' :
        /\ run'.out[n] # "none"
        /\ run'.out[n] = "rolled_back" => cur'[n].img = run'.prev[n]
        /\ run'.out[n] = "skipped" => StillThere(n)'
        /\ run'.out[n] = "updated" => cur'[n].id = run'.left[n] /\ run'.prev[n] \notin {0, cur'[n].img}
  <2> SUFFICES ASSUME NEW n \in StackTargets(run.stack)
               PROVE  /\ run'.out[n] # "none"
                      /\ run'.out[n] = "rolled_back" => cur'[n].img = run'.prev[n]
                      /\ run'.out[n] = "skipped" => StillThere(n)'
                      /\ run'.out[n] = "updated" =>
                           cur'[n].id = run'.left[n] /\ run'.prev[n] \notin {0, cur'[n].img}
    BY <1>4
  <2>1. CASE n = m  BY <2>1
  <2>2. CASE n # m /\ run.out[n] = "none"
    <3>1. run'.out[n] = "skipped" /\ cur'[n] = cur[n] /\ StillThere(n)  BY <1>3, <2>2
    <3> QED  BY <1>0, <3>1 DEF StillThere
  <2>3. CASE n # m /\ run.out[n] # "none"
    <3>1. n \in Members /\ n \notin Pending  BY <1>3, <2>3 DEF Pending
    <3> QED  BY <1>0, <1>3, <2>3, <3>1
  <2> QED  BY <2>1, <2>2, <2>3
<1>6. RollbackEnabled' /\ run'.pc = "unlock" => Applied' = {}
  <2> SUFFICES ASSUME RollbackEnabled', run'.pc = "unlock" PROVE Applied' = {}
    OBVIOUS
  <2>1. Applied = {}
    BY <1>0 DEF Abort, RollbackEnabled
  <2>2. \A n \in MembersOf(run.stack) : n \in Members
    BY <1>1, UnitFacts
  <2>3. \A n \in MembersOf(run.stack) : run'.out[n] = "updated" => run.out[n] = "updated"
    BY <2>2
  <2> QED  BY <1>0, <2>1, <2>3 DEF Applied
<1>7. UnderTransaction'
  BY <1>0, <1>1, <1>2, <1>5, <1>6 DEF UnderTransaction
<1>8. WholeStacks'
  <2>1. \A v \in Stacks \ {run.stack} :
           \/ (StackTargets(v) \subseteq Pending)'
           \/ (StackTargets(v) \cap Pending = {})'
    BY <1>0, <1>1, OtherStacks DEF Locked
  <2>2. (StackTargets(run.stack) \cap Pending = {})'
    BY <1>5 DEF Pending
  <2>3. ASSUME NEW v \in Stacks
        PROVE  \/ (StackTargets(v) \subseteq Pending)'
               \/ (StackTargets(v) \cap Pending = {})'
    BY <1>0, <2>1, <2>2
  <2> QED  BY <2>3 DEF WholeStacks
<1> QED  BY <1>7, <1>8 DEF StackInv

(* The run once the rest of the stack is skipped.                          *)
LEMMA AbortedMeans ==
  ASSUME run \in Runs, NEW base \in Runs, SameFields(base), NEW m \in Members,
         NEW state \in States, NEW r, r = Aborted(base, m, state)
  PROVE  /\ r \in Runs /\ SameFields(r) /\ r.pc = Abort
         /\ r.left = base.left /\ r.prev = base.prev /\ r.out[m] = state
         /\ \A n \in Members \ {m} :
              /\ n \in Pending \cap MembersOf(run.stack) => r.out[n] = "skipped"
              /\ n \notin Pending \cap MembersOf(run.stack) => r.out[n] = run.out[n]
<1>1. /\ Unprocessed(run.stack) \in [Members -> States \cup {"none"}]
      /\ \A n \in Members :
           /\ n \in Pending \cap MembersOf(run.stack) => Unprocessed(run.stack)[n] = "skipped"
           /\ n \notin Pending \cap MembersOf(run.stack) =>
                Unprocessed(run.stack)[n] = run.out[n]
  BY UnprocessedFacts
<1>2. Abort \in {"restore", "unlock"}
  BY DEF Abort
<1> DEFINE out == [Unprocessed(run.stack) EXCEPT ![m] = state]
<1>3. out \in [Members -> States \cup {"none"}]
  BY <1>1
<1>4. out[m] = state /\ \A n \in Members \ {m} : out[n] = Unprocessed(run.stack)[n]
  BY <1>1
<1>5. r = [base EXCEPT !.pc = Abort, !.out = out]
  BY DEF Aborted
<1> HIDE DEF out
<1>6. /\ r \in Runs /\ r.out = out /\ r.pc = Abort /\ r.left = base.left /\ r.prev = base.prev
      /\ r.stack = base.stack /\ r.rows = base.rows /\ r.ids = base.ids
      /\ r.digest = base.digest /\ r.targets = base.targets /\ r.outId = base.outId
  BY <1>2, <1>3, <1>5 DEF Runs, Executing
<1> QED  BY <1>1, <1>4, <1>6 DEF SameFields

(* The types that no step of a transaction disturbs.                       *)
LEMMA TransactionTypes ==
  ASSUME ExecutionInv, NEW m \in Members, Handles(m), run.pc \in Locked, run'.pc \in Locked,
         UNCHANGED <<reg, local, policy, control, block, open, since, lock, down, review>>
  PROVE  TypeOK'
<1>1. cur' \in [Members -> Containers] /\ broken' \in [Members -> 0 .. MaxDigest]
  BY MovedFacts DEF ExecutionInv, TypeOK, Handles
<1>2. run' \in Runs /\ run'.stack = run.stack
  BY DEF Handles
<1> QED  BY <1>1, <1>2 DEF ExecutionInv, TypeOK, Locked, Executing

(* One member of the transaction.                                          *)
LEMMA MemberKeeps == ASSUME ExecutionInv, NEW m \in Members, StackMember(m) PROVE ExecutionInv'
<1> DEFINE new == local[TagOf[m]]
<1>1. /\ run.pc = "member" /\ IsNextMember(m)
      /\ UNCHANGED <<reg, local, policy, control, block, open, since, lock, down, review>>
  BY DEF StackMember
<1>2. /\ m \in run.targets /\ run.out[m] = "none" /\ StillThere(m)
      /\ run.stack \in Stacks /\ run \in Runs /\ TypeOK /\ cur \in [Members -> Containers]
      /\ cur[m].img # 0 /\ run.outId[m] = run.ids[m]
  BY <1>1, NextFacts, OwnRow DEF ExecutionInv, TypeOK, StackTargets, Containers, Digests,
                                 Executing
<1>3. new \in Digests
  BY ExecutionAssumption DEF ExecutionInv, TypeOK
<1> HIDE DEF new
<1>4. CASE Kept /\ run' = Aborted(Outcome(m, "failed"), m, "failed")
  <2>1. cur' = cur /\ Moved(m) /\ "failed" \in States
    BY <1>4 DEF Kept, Moved, States
  <2> DEFINE base == Outcome(m, "failed")
  <2>2. /\ base \in Runs /\ SameFields(base)
        /\ base.left[m] = cur'[m].id /\ base.prev[m] = run.prev[m]
        /\ \A n \in Members \ {m} : base.left[n] = run.left[n] /\ base.prev[n] = run.prev[n]
    BY <1>2, <2>1, OutcomeMeans
  <2> HIDE DEF base
  <2>3. /\ run' \in Runs /\ SameFields(run') /\ run'.pc = Abort
        /\ run'.left = base.left /\ run'.prev = base.prev /\ run'.out[m] = "failed"
        /\ \A n \in Members \ {m} :
              /\ n \in Pending \cap MembersOf(run.stack) => run'.out[n] = "skipped"
              /\ n \notin Pending \cap MembersOf(run.stack) => run'.out[n] = run.out[n]
    BY <1>2, <1>4, <2>1, <2>2, AbortedMeans DEF base
  <2>4. Abort \in {"restore", "unlock"}
    BY DEF Abort
  <2>5. Handles(m)
    BY <1>1, <1>2, <2>1, <2>2, <2>3, <2>4 DEF Handles, SameFields, Executing, Pending
  <2>6. BookedAfter(m)
    BY <1>2, <2>1, <2>3 DEF BookedAfter, StillThere, SameFields
  <2>7. StackInv'
    BY <1>1, <1>2, <2>1, <2>3, <2>5, MemberFails
  <2>8. TypeOK'
    BY <1>1, <2>3, <2>4, <2>5, TransactionTypes DEF Locked
  <2> QED  BY <2>5, <2>6, <2>7, <2>8, HandlesKeeps DEF ExecutionInv
<1>5. CASE Kept /\ run' = [Outcome(m, "current") EXCEPT !.pc = AfterMember(m)]
  <2>1. cur' = cur /\ Moved(m) /\ "current" \in States
    BY <1>5 DEF Kept, Moved, States
  <2> DEFINE base == Outcome(m, "current")
  <2>2. /\ base \in Runs /\ SameFields(base)
        /\ base.out[m] = "current" /\ base.left[m] = cur'[m].id
        /\ \A n \in Members \ {m} : /\ base.left[n] = run.left[n] /\ base.prev[n] = run.prev[n]
                                    /\ base.out[n] = run.out[n]
    BY <1>2, <2>1, OutcomeMeans
  <2>3. run' = [base EXCEPT !.pc = AfterMember(m)]
    BY <1>5
  <2>4. AfterMember(m) \in {"member", "unlock"}
    BY DEF AfterMember
  <2> HIDE DEF base
  <2>5. /\ run' \in Runs /\ run'.pc = AfterMember(m) /\ run'.out = base.out
        /\ run'.left = base.left /\ run'.prev = base.prev /\ SameFields(run')
    BY <2>2, <2>3, <2>4 DEF Runs, SameFields, Executing
  <2>6. Handles(m)
    BY <1>1, <1>2, <2>1, <2>2, <2>4, <2>5 DEF Handles, SameFields, Executing
  <2>7. BookedAfter(m)
    BY <1>2, <2>2, <2>5 DEF BookedAfter, SameFields
  <2>8. StackInv'
    BY <1>1, <1>2, <2>1, <2>2, <2>5, <2>6, MemberSucceeds
  <2>9. TypeOK'
    BY <1>1, <2>4, <2>5, <2>6, TransactionTypes DEF Locked
  <2> QED  BY <2>6, <2>7, <2>8, <2>9, HandlesKeeps DEF ExecutionInv
<1>6. CASE /\ new # cur[m].img /\ Swap(m, new, TRUE)
           /\ run' = [Attempted(m, "updated") EXCEPT !.pc = AfterMember(m)]
  <2>1. /\ cur' \in [Members -> Containers] /\ cur'[m].img = new
        /\ \A n \in Members \ {m} : cur'[n] = cur[n]
        /\ Moved(m) /\ "updated" \in States
    BY <1>2, <1>3, <1>6, SwapFacts DEF TypeOK, Moved, States
  <2> DEFINE base == Attempted(m, "updated")
  <2>2. /\ base \in Runs /\ SameFields(base)
        /\ base.out[m] = "updated" /\ base.left[m] = cur'[m].id /\ base.prev[m] = cur[m].img
        /\ \A n \in Members \ {m} : /\ base.left[n] = run.left[n] /\ base.prev[n] = run.prev[n]
                                    /\ base.out[n] = run.out[n]
    BY <1>2, <2>1, AttemptedMeans
  <2>3. run' = [base EXCEPT !.pc = AfterMember(m)]
    BY <1>6
  <2>4. AfterMember(m) \in {"member", "unlock"}
    BY DEF AfterMember
  <2> HIDE DEF base
  <2>5. /\ run' \in Runs /\ run'.pc = AfterMember(m) /\ run'.out = base.out
        /\ run'.left = base.left /\ run'.prev = base.prev /\ SameFields(run')
    BY <2>2, <2>3, <2>4 DEF Runs, SameFields, Executing
  <2>6. Handles(m)
    BY <1>1, <1>2, <2>1, <2>2, <2>4, <2>5 DEF Handles, SameFields, Executing
  <2>7. BookedAfter(m)
    BY <1>2, <2>2, <2>5 DEF BookedAfter, SameFields
  <2>8. run'.prev[m] \notin {0, cur'[m].img} /\ run'.out[m] = "updated"
    BY <1>2, <1>6, <2>1, <2>2, <2>5
  <2>9. StackInv'
    BY <1>1, <1>2, <2>1, <2>2, <2>5, <2>6, <2>8, MemberSucceeds
  <2>10. TypeOK'
    BY <1>1, <2>4, <2>5, <2>6, TransactionTypes DEF Locked
  <2> QED  BY <2>6, <2>7, <2>9, <2>10, HandlesKeeps DEF ExecutionInv
<1>7. ASSUME NEW state \in {"rolled_back", "failed"}, new # cur[m].img,
             Recreated(m, new, TRUE, state),
             run' = Aborted(Attempted(m, state), m, state)
      PROVE  ExecutionInv'
  <2>1. /\ Moved(m) /\ cur' \in [Members -> Containers] /\ state \in States
        /\ cur'[m] = cur[m] \/ cur'[m].img = new
        /\ state = "rolled_back" => cur'[m] = cur[m]
        /\ \A n \in Members \ {m} : cur'[n] = cur[n]
    BY <1>2, <1>3, <1>7, RecreatedFacts DEF States
  <2> DEFINE base == Attempted(m, state)
  <2>2. /\ base \in Runs /\ SameFields(base)
        /\ base.left[m] = cur'[m].id /\ base.prev[m] = cur[m].img
        /\ \A n \in Members \ {m} : base.left[n] = run.left[n] /\ base.prev[n] = run.prev[n]
    BY <1>2, <2>1, AttemptedMeans
  <2> HIDE DEF base
  <2>3. /\ run' \in Runs /\ SameFields(run') /\ run'.pc = Abort
        /\ run'.left = base.left /\ run'.prev = base.prev /\ run'.out[m] = state
        /\ \A n \in Members \ {m} :
              /\ n \in Pending \cap MembersOf(run.stack) => run'.out[n] = "skipped"
              /\ n \notin Pending \cap MembersOf(run.stack) => run'.out[n] = run.out[n]
    BY <1>2, <1>7, <2>1, <2>2, AbortedMeans DEF base
  <2>4. Abort \in {"restore", "unlock"}
    BY DEF Abort
  <2>5. Handles(m)
    BY <1>1, <1>2, <2>1, <2>2, <2>3, <2>4 DEF Handles, SameFields, Executing, Pending, States
  <2>6. BookedAfter(m)
    <3>1. run'.prev[m] = cur[m].img  BY <2>2, <2>3
    <3> QED  BY <1>2, <1>7, <2>1, <2>3, <3>1 DEF BookedAfter, StillThere, SameFields
  <2>7. StackInv'
    <3>1. run'.out[m] = "rolled_back" => cur'[m].img = run'.prev[m]
      BY <2>1, <2>2, <2>3
    <3> QED  BY <1>1, <1>2, <2>1, <2>3, <2>5, <3>1, MemberFails
  <2>8. TypeOK'
    BY <1>1, <2>3, <2>4, <2>5, TransactionTypes DEF Locked
  <2> QED  BY <2>5, <2>6, <2>7, <2>8, HandlesKeeps DEF ExecutionInv
<1> QED  BY <1>4, <1>5, <1>6, <1>7 DEF StackMember, new
(* A member of the transaction is taken back, or could not be: the others  *)
(* stay as they are, and the lock is released once none is left updated.   *)
LEMMA MemberRestored ==
  ASSUME ExecutionInv, NEW m \in Members, run.pc = "restore", IsNextRestore(m), Handles(m),
         run'.pc = IF Applied = {m} THEN "unlock" ELSE "restore",
         \A n \in Members \ {m} : run'.out[n] = run.out[n] /\ cur'[n] = cur[n],
         run'.out[m] \in {"failed", "rolled_back"},
         run'.out[m] = "rolled_back" => cur'[m].img = run'.prev[m]
  PROVE  StackInv'
<1>0. /\ run'.targets = run.targets /\ run'.ids = run.ids /\ run'.stack = run.stack
      /\ run' \in Runs
      /\ \A n \in Members \ {m} : run'.left[n] = run.left[n] /\ run'.prev[n] = run.prev[n]
  BY DEF Handles
<1>1. /\ m \in StackTargets(run.stack) /\ run.out[m] = "updated"
      /\ run.stack \in Stacks /\ run.targets \subseteq Members /\ run.stack \in Units
  BY RestoreFacts, RunFields DEF ExecutionInv, TypeOK, Units
<1>2. run'.pc \in {"restore", "unlock"}
  OBVIOUS
<1>3. \A n \in StackTargets(run.stack) \ {m} :
        /\ n \in Members
        /\ run.out[n] = "updated" => cur[n].id = run.left[n] /\ run.prev[n] \notin {0, cur[n].img}
        /\ run.out[n] = "rolled_back" => cur[n].img = run.prev[n]
        /\ run.out[n] = "skipped" => StillThere(n)
  BY <1>1 DEF ExecutionInv, StackInv, UnderTransaction, StackTargets, Locked
<1>4. StackTargets(run.stack)' = StackTargets(run.stack)
  BY <1>0 DEF StackTargets
<1>5. \A n \in StackTargets(run.stack)' :
        /\ run'.out[n] = "rolled_back" => cur'[n].img = run'.prev[n]
        /\ run'.out[n] = "skipped" => StillThere(n)'
        /\ run'.out[n] = "updated" => cur'[n].id = run'.left[n] /\ run'.prev[n] \notin {0, cur'[n].img}
  BY <1>0, <1>3, <1>4 DEF StillThere
<1>6. run'.pc = "unlock" => Applied' = {}
  <2> SUFFICES ASSUME run'.pc = "unlock" PROVE Applied' = {}
    OBVIOUS
  <2>1. Applied = {m}
    OBVIOUS
  <2>2. \A n \in MembersOf(run.stack) : n \in Members
    BY <1>1, UnitFacts
  <2>3. \A n \in MembersOf(run.stack) : run'.out[n] # "updated"
    BY <2>1, <2>2 DEF Applied
  <2> QED  BY <1>0, <2>3 DEF Applied
<1>7. UnderTransaction'
  BY <1>0, <1>1, <1>2, <1>5, <1>6 DEF UnderTransaction
<1>8. WholeStacks'
  <2>1. \A v \in Stacks \ {run.stack} :
           \/ (StackTargets(v) \subseteq Pending)'
           \/ (StackTargets(v) \cap Pending = {})'
    BY <1>0, <1>1, OtherStacks DEF Locked
  <2>2. (StackTargets(run.stack) \cap Pending = {})'
    <3>1. m \notin Pending  BY <1>1 DEF Pending
    <3>2. StackTargets(run.stack) \cap Pending = {}
      BY <1>1, <3>1 DEF ExecutionInv, StackInv, WholeStacks, Executing
    <3> QED  BY <1>0, <1>1, <1>3, <1>4, <3>2 DEF Pending
  <2>3. ASSUME NEW v \in Stacks
        PROVE  \/ (StackTargets(v) \subseteq Pending)'
               \/ (StackTargets(v) \cap Pending = {})'
    BY <1>0, <2>1, <2>2
  <2> QED  BY <2>3 DEF WholeStacks
<1> QED  BY <1>7, <1>8 DEF StackInv

(* One member of the restore.  A restored container is made from a bare    *)
(* image id, which no scan offers an update; one that could not be         *)
(* restored runs the new image.                                            *)
LEMMA RestoreKeeps == ASSUME ExecutionInv, NEW m \in Members, Restore(m) PROVE ExecutionInv'
<1> DEFINE next == IF Applied = {m} THEN "unlock" ELSE "restore"
<1>1. /\ run.pc = "restore" /\ IsNextRestore(m)
      /\ UNCHANGED <<reg, local, policy, control, block, open, since, lock, down, review>>
  BY DEF Restore
<1>2. /\ m \in run.targets /\ run.out[m] = "updated" /\ run.prev[m] \in Digests
      /\ run.prev[m] \notin {0, cur[m].img}
      /\ run \in Runs /\ TypeOK /\ cur \in [Members -> Containers]
      /\ run.outId[m] = run.ids[m]
  BY <1>1, RestoreFacts, OwnRow DEF ExecutionInv, TypeOK, StackTargets, Digests, Executing
<1>3. next \in {"restore", "unlock"}
  OBVIOUS
<1>4. ASSUME NEW state \in {"failed", "rolled_back"}, NEW base, base = Outcome(m, state),
             Kept \/ Swap(m, run.prev[m], FALSE),
             state = "rolled_back" => Swap(m, run.prev[m], FALSE),
             NEW id \in ContainerIds \cup {0}, state = "failed" => id = run.ids[m],
             run' = [base EXCEPT !.pc = next, !.outId = [base.outId EXCEPT ![m] = id]]
      PROVE  ExecutionInv'
  <2>1. /\ Moved(m) /\ cur' \in [Members -> Containers] /\ state \in States
        /\ \A n \in Members \ {m} : cur'[n] = cur[n]
        /\ \/ cur'[m] = cur[m]
           \/ cur'[m].img = run.prev[m] /\ cur'[m].byTag = FALSE
        /\ state = "rolled_back" => cur'[m].img = run.prev[m]
    <3>1. ASSUME Swap(m, run.prev[m], FALSE)
          PROVE  /\ cur' \in [Members -> Containers]
                 /\ cur'[m].img = run.prev[m] /\ cur'[m].byTag = FALSE
                 /\ \A n \in Members \ {m} : cur'[n] = cur[n]
      <4>1. broken \in [Members -> 0 .. MaxDigest]  BY <1>2 DEF TypeOK
      <4> QED  BY <1>2, <3>1, <4>1, SwapFacts
    <3>2. Moved(m) /\ state \in States
      BY <1>2, <1>4 DEF Moved, States
    <3>3. Kept => cur' = cur
      BY DEF Kept
    <3> QED  BY <1>2, <1>4, <3>1, <3>2, <3>3
  <2>2. /\ base \in Runs /\ SameFields(base)
        /\ base.out[m] = state /\ base.left[m] = cur'[m].id /\ base.prev[m] = run.prev[m]
        /\ \A n \in Members \ {m} : /\ base.left[n] = run.left[n] /\ base.prev[n] = run.prev[n]
                                    /\ base.out[n] = run.out[n]
    BY <1>2, <1>4, <2>1, OutcomeMeans
  <2> DEFINE ids == [base.outId EXCEPT ![m] = id]
  <2>3. /\ ids \in [Members -> ContainerIds \cup {0}] /\ ids[m] = id
        /\ \A n \in Members \ {m} : ids[n] = base.outId[n]
    BY <2>2 DEF Runs
  <2>4. run' = [base EXCEPT !.pc = next, !.outId = ids]
    BY <1>4
  <2> HIDE DEF ids
  <2>5. /\ run' \in Runs /\ run'.pc = next /\ run'.out = base.out
        /\ run'.left = base.left /\ run'.prev = base.prev /\ run'.outId = ids
        /\ run'.stack = base.stack /\ run'.rows = base.rows /\ run'.ids = base.ids
        /\ run'.digest = base.digest /\ run'.targets = base.targets
    BY <1>3, <2>2, <2>3, <2>4 DEF Runs, Executing
  <2>6. Handles(m)
    <3>1. run'.pc \in Executing /\ run.pc \in Executing
      BY <1>1, <1>3, <2>5 DEF Executing
    <3>2. state # "none"  BY <1>4
    <3> QED  BY <1>1, <1>2, <2>1, <2>2, <2>3, <2>5, <3>1, <3>2 DEF Handles, SameFields
  <2>7. BookedAfter(m)
    BY <1>2, <1>4, <2>1, <2>2, <2>3, <2>5 DEF BookedAfter
  <2>8. StackInv'
    BY <1>1, <1>4, <2>1, <2>2, <2>5, <2>6, MemberRestored
  <2>9. TypeOK'
    BY <1>1, <1>3, <2>5, <2>6, TransactionTypes DEF Locked
  <2> QED  BY <2>6, <2>7, <2>8, <2>9, HandlesKeeps DEF ExecutionInv
<1> HIDE DEF next
<1>5. CASE /\ Swap(m, run.prev[m], FALSE)
           /\ run' = [Outcome(m, "rolled_back") EXCEPT !.pc = next, !.outId[m] = cur'[m].id]
  <2>1. cur'[m].id \in ContainerIds
    <3>1. cur' \in [Members -> Containers]
      BY <1>2, <1>5, SwapFacts DEF TypeOK
    <3> QED  BY <3>1 DEF Containers
  <2> DEFINE base == Outcome(m, "rolled_back")
  <2>2. base \in Runs
    BY <1>2, <1>5, SwapFacts, OutcomeMeans DEF TypeOK, States
  <2> HIDE DEF base
  <2>3. run' = [base EXCEPT !.pc = next, !.outId = [base.outId EXCEPT ![m] = cur'[m].id]]
    BY <1>5, <2>2 DEF base, Runs
  <2> QED  BY <1>4, <1>5, <2>1, <2>3 DEF base
<1>6. CASE /\ Kept \/ Swap(m, run.prev[m], FALSE)
           /\ run' = [Outcome(m, "failed") EXCEPT !.pc = next]
  <2>1. cur' \in [Members -> Containers]
    BY <1>2, <1>6, SwapFacts DEF TypeOK, Kept
  <2> DEFINE base == Outcome(m, "failed")
  <2>2. /\ base \in Runs /\ base.outId \in [Members -> ContainerIds \cup {0}]
        /\ base.outId[m] = run.ids[m]
    <3>1. base \in Runs /\ base.outId = run.outId
      BY <1>2, <2>1, OutcomeMeans DEF States, SameFields
    <3> QED  BY <1>2, <3>1 DEF Runs
  <2> HIDE DEF base
  <2>3. base.outId[m] \in ContainerIds \cup {0}
        /\ [base.outId EXCEPT ![m] = base.outId[m]] = base.outId
    BY <2>2
  <2>4. run' = [base EXCEPT !.pc = next, !.outId = base.outId]
    BY <1>6, <2>2 DEF base, Runs
  <2> QED  BY <1>4, <1>6, <2>2, <2>3, <2>4 DEF base
<1> QED  BY <1>5, <1>6 DEF Restore, next

(***************************************************************************)
(* The end of the run.  A failure is on a row under the id the member has, *)
(* so its breaker is armed where the next run will look; no other row      *)
(* touches the breaker of a container that an earlier run found broken.    *)
(***************************************************************************)
LEMMA RecordedBreaker ==
  ASSUME ExecutionInv, run.pc = "unit", Pending = {}, NEW m \in Members, cur[m].byTag,
         Broken(m) # 0
  PROVE  Armed(m, cur[m].id) = Broken(m)
<1>1. run.pc \in Executing
  BY DEF Executing
<1>2. broken[m] # 0 => block[m][cur[m].id] = broken[m]
  BY DEF ExecutionInv, BreakerInv, Breaker
<1>3. CASE m \notin run.targets
  BY <1>2, <1>3 DEF Broken, Armed, Rows
<1>4. CASE m \in run.targets
  <2>1. /\ run.out[m] # "none"
        /\ run.out[m] # "skipped" /\ cur[m].id # run.left[m] => broken[m] = 0
        /\ /\ run.out[m] \in {"failed", "rolled_back"}
           /\ cur[m].id = run.left[m] /\ run.prev[m] \in {0, cur[m].img}
           => cur[m].id \in {run.ids[m], run.outId[m]}
        /\ run.out[m] # "rolled_back" => run.outId[m] = run.ids[m]
    BY <1>1, <1>4 DEF ExecutionInv, BreakerInv, Booked, Pending
  <2>2. CASE run.out[m] = "skipped"
    <3>1. Rows(m) = {<<run.outId[m], "skipped">>}
      BY <1>4, <2>1, <2>2 DEF Rows
    <3>2. Armed(m, cur[m].id) = block[m][cur[m].id]
      BY <3>1 DEF Armed
    <3> QED  BY <1>2, <2>2, <3>2 DEF Broken
  <2>3. CASE run.out[m] # "skipped"
    <3>1. /\ cur[m].id = run.left[m] /\ run.out[m] \in {"failed", "rolled_back"}
          /\ run.prev[m] \in {0, cur[m].img} /\ Broken(m) = run.digest[m]
      BY <1>4, <2>1, <2>3 DEF Broken
    <3>2. cur[m].id \in {run.ids[m], run.outId[m]}
      BY <2>1, <3>1
    <3>3. \E row \in Rows(m) : row[1] = cur[m].id /\ row[2] \in {"failed", "rolled_back"}
      <4>1. CASE cur[m].id = run.outId[m]
        <5>1. <<run.outId[m], run.out[m]>> \in Rows(m)  BY <1>4 DEF Rows
        <5> QED  BY <3>1, <4>1, <5>1
      <4>2. CASE cur[m].id = run.ids[m] /\ run.outId[m] # run.ids[m]
        <5>1. <<run.ids[m], "failed">> \in Rows(m)  BY <1>4, <4>2 DEF Rows
        <5> QED  BY <4>2, <5>1
      <4> QED  BY <3>2, <4>1, <4>2
    <3>4. \A row \in Rows(m) : row[2] \in {"failed", "rolled_back"}
      BY <1>4, <3>1 DEF Rows
    <3>5. ~ \E row \in Rows(m) : row[1] = cur[m].id /\ row[2] \in {"updated", "current"}
      BY <3>4
    <3> QED  BY <3>1, <3>3, <3>5 DEF Armed
  <2> QED  BY <2>2, <2>3
<1> QED  BY <1>3, <1>4

(* What is recorded has its type.                                          *)
LEMMA RecordedTypes ==
  ASSUME TypeOK, NEW m \in Members
  PROVE  Broken(m) \in 0 .. MaxDigest /\ \A i \in ContainerIds : Armed(m, i) \in 0 .. MaxDigest
<1>1. /\ run.digest[m] \in 0 .. MaxDigest /\ broken[m] \in 0 .. MaxDigest
      /\ 0 \in 0 .. MaxDigest /\ \A i \in ContainerIds : block[m][i] \in 0 .. MaxDigest
  BY RunFields, ExecutionAssumption DEF TypeOK
<1> QED  BY <1>1 DEF Broken, Armed

(* SaveExecution keeps the invariant, recorded or refused.                 *)
LEMMA SaveKeeps == ASSUME ExecutionInv, SaveExecution PROVE ExecutionInv'
<1>1. /\ run.pc = "unit" /\ Pending = {} /\ run' = NoRun /\ TypeOK
      /\ UNCHANGED <<reg, local, cur, policy, control, lock, down, review>>
  BY DEF SaveExecution, ExecutionInv
<1>2. run' \in Runs /\ run'.pc = "idle"
  BY <1>1, NoRunFields
<1>3. /\ Breaker' /\ block' \in [Members -> [ContainerIds -> 0 .. MaxDigest]]
      /\ broken' \in [Members -> 0 .. MaxDigest]
      /\ open' \subseteq {"this", "earlier"} /\ "this" \notin open'
  <2>1. CASE /\ block' = [m \in Members |-> [i \in ContainerIds |-> Armed(m, i)]]
             /\ open' \in {{}, open \ {"this"}}
             /\ broken' = [m \in Members |-> Broken(m)]
    <3>1. /\ block' \in [Members -> [ContainerIds -> 0 .. MaxDigest]]
          /\ broken' \in [Members -> 0 .. MaxDigest]
      BY <1>1, <2>1, RecordedTypes
    <3>2. ASSUME NEW m \in Members, broken'[m] # 0, cur'[m].byTag
          PROVE  block'[m][cur'[m].id] = broken'[m]
      <4>1. cur' = cur /\ broken'[m] = Broken(m) /\ cur[m].id \in ContainerIds
        BY <1>1, <2>1 DEF TypeOK, Containers
      <4>2. block'[m][cur[m].id] = Armed(m, cur[m].id)
        BY <2>1, <4>1
      <4>3. Armed(m, cur[m].id) = Broken(m)
        BY <1>1, <3>2, <4>1, RecordedBreaker
      <4> QED  BY <4>1, <4>2, <4>3
    <3>3. open' \subseteq {"this", "earlier"} /\ "this" \notin open'
      BY <1>1, <2>1 DEF TypeOK
    <3> QED  BY <3>1, <3>2, <3>3 DEF Breaker
  <2>2. CASE open' = {"earlier"} /\ UNCHANGED <<block, broken>>
    BY <1>1, <2>2 DEF ExecutionInv, BreakerInv, Breaker, TypeOK
  <2> QED  BY <2>1, <2>2 DEF SaveExecution
<1>4. since' \in 0 .. MaxRuns
  BY <1>1, ExecutionAssumption DEF SaveExecution, Retained, TypeOK
<1>5. TypeOK'
  <2>1. \A u \in Units : lock[u] # "auto"
    BY <1>1 DEF TypeOK
  <2> QED  BY <1>1, <1>2, <1>3, <1>4, <2>1 DEF TypeOK, Executing
<1> QED  BY <1>1, <1>3, <1>5, IdleKeeps DEF ExecutionInv

-----------------------------------------------------------------------------
(* A fresh host has no run, no breaker and the first containers.           *)
LEMMA ExecutionStart == Init => ExecutionInv
<1> SUFFICES ASSUME Init PROVE ExecutionInv
  OBVIOUS
<1>1. /\ run = NoRun /\ run \in Runs /\ run.pc = "idle"
      /\ run.left = [m \in Members |-> 0] /\ run.out = [m \in Members |-> "none"]
  BY NoRunFields DEF Init
<1>2. 1 \in Digests /\ 0 \in 0 .. MaxDigest
  BY ExecutionAssumption DEF Digests
<1>3. \A m \in Members : 1 \in ContainerIds
  BY IdFacts, ExecutionAssumption
<1>4. TypeOK
  <2>1. reg \in [Tags -> Digests] /\ local \in [Tags -> Digests]
    BY <1>2 DEF Init
  <2>2. cur \in [Members -> Containers]
    BY <1>2, <1>3 DEF Init, Containers
  <2>3. policy \in [Units -> Policies] /\ control \in [paused : BOOLEAN, groups : GroupLimits]
    BY DEF Init
  <2>4. /\ block \in [Members -> [ContainerIds -> 0 .. MaxDigest]]
        /\ broken \in [Members -> 0 .. MaxDigest]
    BY <1>2 DEF Init
  <2>6. since \in 0 .. MaxRuns
    BY ExecutionAssumption DEF Init
  <2>5. /\ open = {} /\ lock = [u \in Units |-> "free"] /\ down = FALSE /\ review = FALSE
    BY DEF Init
  <2> QED  BY <1>1, <2>1, <2>2, <2>3, <2>4, <2>5, <2>6 DEF TypeOK, Executing
<1>5. \A m \in Members : cur[m].id = 1 /\ broken[m] = 0
  BY DEF Init
<1>6. BreakerInv
  BY <1>1, <1>5 DEF BreakerInv, Breaker, ListedStill, FoundStill, TargetsFound, LeftBehind,
                    Booked, NoRetryOfBroken, NoPartialStack, Executing
<1>7. StackInv
  BY <1>1 DEF StackInv, WholeStacks, UnderTransaction, Executing, Locked
<1> QED  BY <1>4, <1>6, <1>7 DEF ExecutionInv

(* Every step preserves the invariant.  PauseInv is there for the restart: *)
(* a Dockman that was down has no run to lose its open row.                *)
LEMMA ExecutionStep == PauseInv /\ ExecutionInv /\ [Next]_vars => ExecutionInv'
<1> SUFFICES ASSUME PauseInv, ExecutionInv, [Next]_vars PROVE ExecutionInv'
  OBVIOUS
<1>1. ASSUME NEW t \in Triggers, NEW due \in SUBSET Units, Trigger(t, due)
      PROVE  ExecutionInv'
  BY <1>1, TriggerKeeps
<1>2. CASE RunStep
  <2>1. CASE Inventory \/ Scan \/ Gate \/ Gather
    BY <2>1, InventoryKeeps, ScanKeeps, GateKeeps, GatherKeeps
  <2>2. ASSUME NEW m \in Members, ExecuteSingle(m) \/ StackMember(m) \/ Restore(m)
        PROVE  ExecutionInv'
    BY <2>2, SingleKeeps, MemberKeeps, RestoreKeeps
  <2>3. ASSUME NEW u \in Stacks, StackPreflight(u) PROVE ExecutionInv'
    BY <2>3, PreflightKeeps
  <2>4. CASE Unlock \/ SaveExecution
    BY <2>4, UnlockKeeps, SaveKeeps
  <2> QED  BY <1>2, <2>1, <2>2, <2>3, <2>4 DEF RunStep
<1>3. CASE Operator
  <2>1. ASSUME NEW m \in Members, NEW i \in ContainerIds, ClearExecutionBlock(m, i)
        PROVE  ExecutionInv'
    BY <2>1, ClearKeeps
  <2>2. ASSUME NEW m \in Members, ManualEnd(m) PROVE ExecutionInv'
    BY <2>2, ManualEndKeeps
  <2> QED  BY <1>3, <2>1, <2>2, OutsideKeeps DEF Operator
<1>4. CASE \E t \in Tags : PullElsewhere(t) \/ \E d \in Digests : Publish(t, d)
  BY <1>4, OutsideKeeps
<1>5. CASE Failure
  BY <1>5, CrashKeeps, CrashWithinKeeps DEF Failure
<1>6. CASE Restart
  BY <1>6, RestartKeeps
<1>7. CASE UNCHANGED vars
  BY <1>7, OutsideKeeps
<1> QED  BY <1>1, <1>2, <1>3, <1>4, <1>5, <1>6, <1>7 DEF Next

(* The invariant holds of every host.                                      *)
LEMMA ExecutionAlways == Spec => []ExecutionInv
  BY PauseInit, PauseStep, ExecutionStart, ExecutionStep, PTL DEF Spec

(***************************************************************************)
(* Types, the open row of an execution and the action lock of a stack: an  *)
(* execution has its UpdateExecutionRun row from BeginExecution to         *)
(* SaveExecution, and a stack is locked by a run exactly while the run's   *)
(* transaction is on it.                                                   *)
(***************************************************************************)
THEOREM ExecutionTypeCorrect == Spec => []TypeOK
<1>1. ExecutionInv => TypeOK
  BY DEF ExecutionInv
<1> QED  BY <1>1, ExecutionAlways, PTL

(***************************************************************************)
(* The circuit breaker works: whatever happens to policies, listings,      *)
(* container ids or Dockman in between, executeAvailable does not choose a *)
(* digest that SaveExecution recorded as breaking the container the member *)
(* still has, until an operator clears the breaker.                        *)
(***************************************************************************)
THEOREM BrokenNotRetried == Spec => []NoRetryOfBroken
<1>1. ExecutionInv => NoRetryOfBroken
  BY DEF ExecutionInv, BreakerInv
<1> QED  BY <1>1, ExecutionAlways, PTL

(***************************************************************************)
(* executeAvailable takes a stack as a whole or not at all: no member is   *)
(* updated while the digest found for another one is known to break it.    *)
(***************************************************************************)
THEOREM NoPartialGroups == Spec => []NoPartialStack
<1>1. ExecutionInv => NoPartialStack
  BY DEF ExecutionInv, BreakerInv
<1> QED  BY <1>1, ExecutionAlways, PTL

(***************************************************************************)
(* executeAutomaticStackUnit is a transaction for a stack of any length:   *)
(* when its lock is released, with rollback on, no member is left updated  *)
(* beside one that failed, and a member reported as rolled back or skipped *)
(* runs the image, or is the container, it had.                            *)
(***************************************************************************)
THEOREM StacksStayCoherent == Spec => []StackCoherent
<1>1. ExecutionInv => StackCoherent
  BY DEF ExecutionInv, StackInv, UnderTransaction, StackCoherent, StackTargets, Locked
<1> QED  BY <1>1, ExecutionAlways, PTL
=============================================================================
