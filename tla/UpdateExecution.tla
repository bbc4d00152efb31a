--------------------------- MODULE UpdateExecution ---------------------------
(***************************************************************************)
(* The automatic update runs of one host: updater/automation.go (inventory,*)
(* scan, gate, choice of targets), update_automation.go (execution of      *)
(* single containers and of stacks as transactions) and                    *)
(* updater/execution.go (the execution record and the circuit breaker).    *)
(*                                                                         *)
(* One run at a time exists per host (AutomationService.running).  It      *)
(* interleaves with operators, who change policies, pause the automation,  *)
(* clear breakers and update containers by hand, with the registry, and    *)
(* with a crash and restart of Dockman.  The swap of one container is one  *)
(* step here; its inside is ContainerReplace, whose verdicts are the       *)
(* results the step may have.                                              *)
(*                                                                         *)
(* A digest stands for an image.  The id of a container is counted per     *)
(* member: every swap makes the next one.                                  *)
(***************************************************************************)
EXTENDS Naturals, Sequences, FiniteSets

CONSTANTS
    Members,     \* the services of the host, each with one container
    Singles,     \* the members that carry a policy of their own
    Stacks,      \* the stacks that carry a stack policy
    Order,       \* the members of each stack, dependencies first
    NameOrder,   \* all members, by container name
    Tags,        \* image references
    TagOf,       \* the reference each member is deployed from
    Choices,     \* the policies an operator gives each unit
    GroupLimits, \* the values an operator gives MaxGroupsPerRun
    MaxRuns,     \* maxExecutionRuns: the execution rows a host keeps
    MaxDigest,   \* bound: images published for a reference
    MaxId        \* bound: containers each member goes through

Units == Singles \cup Stacks

Digests == 1 .. MaxDigest

ContainerIds == UNION {1 .. MaxId[m] : m \in Members}

Policies == {"off", "rollback", "keep"}   \* "keep": no rollback

MembersOf(u) == IF u \in Stacks THEN {Order[u][k] : k \in DOMAIN Order[u]} ELSE {u}

ASSUME ExecutionAssumption ==
    /\ Singles \subseteq Members
    /\ Singles \cap Stacks = {}
    /\ Order \in [Stacks -> Seq(Members)]
    /\ NameOrder \in Seq(Members)
    /\ \A m \in Members : \E k \in DOMAIN NameOrder : NameOrder[k] = m
    /\ \A m \in Members : \E u \in Units :
         \A v \in Units : m \in MembersOf(v) <=> v = u
    /\ TagOf \in [Members -> Tags]
    /\ Choices \in [Units -> SUBSET Policies]
    /\ \A u \in Units : Choices[u] \ {"off"} # {}
    /\ GroupLimits \subseteq Nat /\ GroupLimits # {}
    /\ MaxRuns \in Nat \ {0}
    /\ MaxDigest \in Nat \ {0}
    /\ MaxId \in [Members -> Nat \ {0}]

UnitOf(m) == CHOOSE u \in Units : m \in MembersOf(u)

VARIABLES
    reg,      \* the digest the registry serves for each reference
    local,    \* the image each reference names on the host
    cur,      \* the container of each member
    policy,   \* the policy of each unit
    control,  \* UpdateAutomationControl: the pause and the group limit
    block,    \* UpdateExecutionBlock: the digest blocked per container, or 0
    open,     \* UpdateExecutionRun rows without an end: of this run, of others
    since,    \* the executions recorded since the newest one that was not, up to MaxRuns
    lock,     \* the action lock of each unit
    down,     \* Dockman is not running
    run,      \* the run in progress
    broken,   \* history: the digest last recorded as breaking a container, or 0
    review    \* history: an execution was interrupted and nobody has resumed

vars == <<reg, local, cur, policy, control, block, open, since, lock, down,
          run, broken, review>>

Triggers == {"scheduled", "manual-execution", "manual"}

States == {"updated", "current", "rolled_back", "failed", "skipped"}

Executing == {"unit", "member", "restore", "unlock"}

(***************************************************************************)
(* A container: its id, its image, and whether it was created from a       *)
(* reference (an update) or from a bare image id (a restore).              *)
(***************************************************************************)
Containers == [id : ContainerIds, img : Digests, byTag : BOOLEAN]

(***************************************************************************)
(* A run: the rows of its inventory (policy and container ids), the remote *)
(* digest of every update the scan found (or 0), its targets, and their    *)
(* outcomes so far.  prev is the image of a container whose replacement    *)
(* was attempted, and 0 for the others; left is the container the run left *)
(* to each member it has handled (history).                                *)
(***************************************************************************)
Runs == [pc : {"idle", "inventory", "scan", "gate", "gather"} \cup Executing,
         trigger : Triggers, due : SUBSET Units,
         rows : [Units -> Policies], ids : [Members -> ContainerIds \cup {0}],
         digest : [Members -> 0 .. MaxDigest],
         targets : SUBSET Members, stack : Units \cup {"none"},
         out : [Members -> States \cup {"none"}],
         outId : [Members -> ContainerIds \cup {0}], prev : [Members -> 0 .. MaxDigest],
         left : [Members -> ContainerIds \cup {0}]]

NoRun == [pc |-> "idle", trigger |-> "manual", due |-> {},
          rows |-> [u \in Units |-> "off"], ids |-> [m \in Members |-> 0],
          digest |-> [m \in Members |-> 0],
          targets |-> {}, stack |-> "none",
          out |-> [m \in Members |-> "none"], outId |-> [m \in Members |-> 0],
          prev |-> [m \in Members |-> 0], left |-> [m \in Members |-> 0]]

Init ==
    /\ reg = [t \in Tags |-> 1]
    /\ local = reg
    /\ cur = [m \in Members |-> [id |-> 1, img |-> 1, byTag |-> TRUE]]
    /\ policy \in {p \in [Units -> Policies] : \A u \in Units : p[u] \in Choices[u] \ {"off"}}
    /\ \E g \in GroupLimits : control = [paused |-> FALSE, groups |-> g]
    /\ block = [m \in Members |-> [i \in ContainerIds |-> 0]]
    /\ open = {}
    /\ since = MaxRuns
    /\ lock = [u \in Units |-> "free"]
    /\ down = FALSE
    /\ run = NoRun
    /\ broken = [m \in Members |-> 0]
    /\ review = FALSE

-----------------------------------------------------------------------------
(* The Docker host.                                                        *)

(***************************************************************************)
(* The daemon lists a container under its reference only while that        *)
(* reference still names the container's image; otherwise it lists the     *)
(* bare image id, "sha256:...", which can be neither scanned nor pulled.   *)
(***************************************************************************)
ListedByTag(m) == cur[m].byTag /\ local[TagOf[m]] = cur[m].img

(* The container of m is replaced by one that runs image d, and is not the *)
(* container an earlier update broke.                                      *)
Swap(m, d, byTag) ==
    /\ cur[m].id < MaxId[m]
    /\ broken' = [broken EXCEPT ![m] = 0]
    /\ cur' = [cur EXCEPT ![m] = [id |-> cur[m].id + 1, img |-> d, byTag |-> byTag]]

Kept == UNCHANGED <<cur, broken>>

(* A pull gives the reference the image the registry serves now.           *)
Pulled(tags) == [t \in Tags |-> IF t \in tags THEN reg[t] ELSE local[t]]

(***************************************************************************)
(* ContainerRecreateWithOptions, with the verdicts of ContainerReplace:    *)
(* the replacement is in place; it was given up on and the old container   *)
(* runs again; an error with the old container kept, or with the           *)
(* replacement in place but not under its name.                            *)
(***************************************************************************)
Recreated(m, d, byTag, state) ==
    \/ state = "updated" /\ Swap(m, d, byTag)
    \/ state = "rolled_back" /\ Kept
    \/ state = "failed" /\ (Kept \/ Swap(m, d, byTag))

-----------------------------------------------------------------------------
(* A run up to its targets: AutomationService.run.                         *)

(***************************************************************************)
(* A schedule is that of one or several policies; a run on demand covers   *)
(* every policy, and is refused while the automation is paused.            *)
(***************************************************************************)
Trigger(t, due) ==
    /\ ~down /\ run.pc = "idle"
    /\ t # "scheduled" => due = Units
    /\ t = "manual-execution" => ~control.paused
    /\ run' = [NoRun EXCEPT !.pc = "inventory", !.trigger = t, !.due = due]
    /\ UNCHANGED <<reg, local, cur, policy, control, block, open, since,
                   lock, down, broken, review>>

(* The rows are read once; a listing may fail or come back empty.          *)
Inventory ==
    /\ run.pc = "inventory"
    /\ \/ run' = NoRun
       \/ run' = [run EXCEPT !.pc = "scan", !.rows = policy,
                             !.ids = [m \in Members |-> cur[m].id]]
       \/ run' = [run EXCEPT !.pc = "scan"]
    /\ UNCHANGED <<reg, local, cur, policy, control, block, open, since,
                   lock, down, broken, review>>

(* Mutant of Pruned: breakers are pruned against the enrolled containers.  *)
PrunedByEnrollment ==
    [m \in Members |->
       [i \in ContainerIds |->
          IF run.ids[m] = i /\ run.rows[UnitOf(m)] # "off" THEN block[m][i] ELSE 0]]

(***************************************************************************)
(* PruneResults: the breakers of containers the host no longer has are     *)
(* dropped; an empty listing drops none.                                   *)
(***************************************************************************)
Pruned == [m \in Members |->
             [i \in ContainerIds |->
                IF run.ids[m] \in {0, i} THEN block[m][i] ELSE 0]]

(***************************************************************************)
(* CheckContainerUpdatesByID: the containers that are enrolled, due and    *)
(* still there.  unreachable are the references the registry did not       *)
(* answer for.                                                             *)
(***************************************************************************)
Scanned(m) ==
    /\ run.rows[UnitOf(m)] # "off" /\ UnitOf(m) \in run.due
    /\ run.ids[m] = cur[m].id

CheckOf(m, unreachable) ==
    CASE ~Scanned(m) -> "none"
      [] Scanned(m) /\ ~ListedByTag(m) -> "skipped"
      [] Scanned(m) /\ ListedByTag(m) ->
           IF TagOf[m] \in unreachable THEN "error"
           ELSE IF reg[TagOf[m]] = cur[m].img THEN "current" ELSE "available"

(* The run ends here on an error, or when it was only to look.             *)
Scan ==
    /\ run.pc = "scan"
    /\ \/ block' \in {block, Pruned} /\ run' = NoRun
       \/ \E unreachable \in SUBSET Tags :
            LET found == [m \in Members |-> IF CheckOf(m, unreachable) = "available"
                                            THEN reg[TagOf[m]] ELSE 0]
            IN
            /\ block' = Pruned
            /\ run' = IF run.trigger = "manual" THEN NoRun
                      ELSE [run EXCEPT !.pc = "gate", !.due = {}, !.trigger = "scheduled",
                                       !.digest = found]
    /\ UNCHANGED <<reg, local, cur, policy, control, open, since, lock, down,
                   broken, review>>

Gate ==
    /\ run.pc = "gate"
    /\ run' = IF control.paused THEN NoRun ELSE [run EXCEPT !.pc = "gather"]
    /\ UNCHANGED <<reg, local, cur, policy, control, block, open, since,
                   lock, down, broken, review>>

-----------------------------------------------------------------------------
(* executeAvailable: the targets.                                          *)

Available == {m \in Members : run.digest[m] # 0}

(* ExecutionBlock: the breaker holds for one container and one digest.     *)
Blocked(m) == run.ids[m] # 0 /\ block[m][run.ids[m]] = run.digest[m]

(* unread are the members whose breaker could not be read.                 *)
BlockedStacks(unread) ==
    {u \in Stacks : \E m \in Available \cap MembersOf(u) : m \in unread \/ Blocked(m)}

(* limitExecutionGroups: the first groups met, targets taken by name.      *)
FirstAt(u, targets) ==
    CHOOSE k \in DOMAIN NameOrder :
      /\ NameOrder[k] \in targets \cap MembersOf(u)
      /\ \A j \in 1 .. k - 1 : NameOrder[j] \notin targets \cap MembersOf(u)

Limited(targets) ==
    LET groups == {UnitOf(m) : m \in targets}
        ahead(u) == {v \in groups : FirstAt(v, targets) < FirstAt(u, targets)}
    IN  IF control.groups = 0 THEN targets
        ELSE {m \in targets : Cardinality(ahead(UnitOf(m))) < control.groups}

(* Mutant of Targets: a stack is reduced to its members that may go on.    *)
TargetsByMember(unread, unread2) ==
    Limited({m \in Available : m \notin unread2 /\ ~Blocked(m)})

(* unread and unread2: the breakers are read once for the stacks, once     *)
(* more for the containers, and each read may fail.                        *)
Targets(unread, unread2) ==
    Limited({m \in Available :
               /\ UnitOf(m) \notin BlockedStacks(unread)
               /\ m \notin unread2 /\ ~Blocked(m)})

(* BeginExecution writes the open row before anything is touched.          *)
Gather ==
    /\ run.pc = "gather"
    /\ \/ run' = NoRun /\ open' = open
       \/ \E unread, unread2 \in SUBSET Available :
            LET targets == Targets(unread, unread2) IN
            /\ targets # {}
            /\ run' = [run EXCEPT !.pc = "unit", !.targets = targets, !.outId = run.ids]
            /\ open' = open \cup {"this"}
    /\ UNCHANGED <<reg, local, cur, policy, control, block, since, lock, down, broken,
                   review>>

-----------------------------------------------------------------------------
(* ExecuteAutomaticContainerUpdates: one unit after the other.             *)

Pending == {m \in run.targets : run.out[m] = "none"}

(***************************************************************************)
(* validateAutomaticTarget: the container must still be there; a label, a  *)
(* Docker socket or a passing state may hold it back as well.              *)
(***************************************************************************)
StillThere(m) == cur[m].id = run.ids[m]

(* The target was handled without touching its container.                  *)
Outcome(m, state) == [run EXCEPT !.out[m] = state, !.left[m] = cur'[m].id]

(* The replacement of the target's container was attempted.                *)
Attempted(m, state) ==
    [Outcome(m, state) EXCEPT !.prev[m] = cur[m].img]

(***************************************************************************)
(* executeAutomaticContainerUnit, under the action lock.  A lock that is   *)
(* taken and a container that is gone or held back are skipped.  An image  *)
(* without a pullable reference, a pull and a listing that fail are        *)
(* failures: mutationAttempted is already set.                             *)
(***************************************************************************)
ExecuteSingle(m) ==
    /\ run.pc = "unit"
    /\ m \in Pending \cap Singles
    /\ \/ Kept /\ local' = local /\ run' = Outcome(m, "skipped")
       \/ /\ lock[m] = "free" /\ StillThere(m)
          /\ \/ Kept /\ local' = local /\ run' = Outcome(m, "failed")
             \/ /\ ListedByTag(m)
                /\ local' = Pulled({TagOf[m]})
                /\ \/ Kept /\ run' = Outcome(m, "failed")
                   \/ /\ local'[TagOf[m]] = cur[m].img
                      /\ Kept
                      /\ run' = Outcome(m, "current")
                   \/ /\ local'[TagOf[m]] # cur[m].img
                      /\ \E state \in {"updated", "rolled_back", "failed"} :
                           /\ Recreated(m, local'[TagOf[m]], TRUE, state)
                           /\ run' = Attempted(m, state)
    /\ UNCHANGED <<reg, policy, control, block, open, since, lock, down, review>>

(* The places, in the order of the stack, of its members that are targets. *)
Chosen(u) == {k \in DOMAIN Order[u] : Order[u][k] \in run.targets}

(* markUnprocessedStackTargets                                             *)
Unprocessed(u) == [m \in Members |-> IF m \in Pending \cap MembersOf(u)
                                     THEN "skipped" ELSE run.out[m]]

(***************************************************************************)
(* executeAutomaticStackUnit up to its first change: the action lock, the  *)
(* validation of every member and the pull of every image.  Any failure    *)
(* skips the whole stack, with the images pulled so far kept.  Stacks come *)
(* after the single containers.                                            *)
(***************************************************************************)
StackPreflight(u) ==
    LET tags(places) == {TagOf[Order[u][k]] : k \in places} IN
    /\ run.pc = "unit"
    /\ Pending \cap Singles = {}
    /\ Pending \cap MembersOf(u) # {}
    /\ \/ /\ run' = [run EXCEPT !.out = Unprocessed(u)]
          /\ UNCHANGED <<local, lock>>
       \/ /\ lock[u] = "free"
          /\ \A k \in Chosen(u) : StillThere(Order[u][k])
          /\ \/ /\ \E n \in Chosen(u) :
                     local' = Pulled(tags({k \in Chosen(u) : k < n}))
                /\ run' = [run EXCEPT !.out = Unprocessed(u)]
                /\ lock' = lock
             \/ /\ local' = Pulled(tags(Chosen(u)))
                /\ run' = [run EXCEPT !.pc = "member", !.stack = u]
                /\ lock' = [lock EXCEPT ![u] = "auto"]
    /\ UNCHANGED <<reg, cur, policy, control, block, open, since, down,
                   broken, review>>

RollbackEnabled == run.rows[run.stack] = "rollback"

Applied == {m \in MembersOf(run.stack) : run.out[m] = "updated"}

(* The first member of the stack without an outcome.                       *)
IsNextMember(m) ==
    \E k \in Chosen(run.stack) :
      /\ Order[run.stack][k] = m /\ run.out[m] = "none"
      /\ \A j \in Chosen(run.stack) : j < k => run.out[Order[run.stack][j]] # "none"

(* The step after a member that did not fail.                              *)
AfterMember(m) == IF Pending \cap MembersOf(run.stack) = {m} THEN "unlock" ELSE "member"

(* Mutant of Abort: what was updated before the failure is left in place.  *)
AbortInPlace == "unlock"

(* The step after a member that failed: the rest of the stack is skipped.  *)
Abort == IF RollbackEnabled /\ Applied # {} THEN "restore" ELSE "unlock"

(* The outcomes once member m has failed.                                  *)
Aborted(base, m, state) ==
    [base EXCEPT !.pc = Abort, !.out = [Unprocessed(run.stack) EXCEPT ![m] = state]]

(***************************************************************************)
(* ForceUpdateContainer with the image pulled beforehand: one member of    *)
(* the transaction.                                                        *)
(***************************************************************************)
StackMember(m) ==
    LET new == local[TagOf[m]] IN
    /\ run.pc = "member"
    /\ IsNextMember(m)
    /\ \/ Kept /\ run' = Aborted(Outcome(m, "failed"), m, "failed")
       \/ /\ new = cur[m].img
          /\ Kept
          /\ run' = [Outcome(m, "current") EXCEPT !.pc = AfterMember(m)]
       \/ /\ new # cur[m].img
          /\ Swap(m, new, TRUE)
          /\ run' = [Attempted(m, "updated") EXCEPT !.pc = AfterMember(m)]
       \/ /\ new # cur[m].img
          /\ \E state \in {"rolled_back", "failed"} :
               /\ Recreated(m, new, TRUE, state)
               /\ run' = Aborted(Attempted(m, state), m, state)
    /\ UNCHANGED <<reg, local, policy, control, block, open, since, lock, down,
                   review>>

(* The last member, in the order of the updates, still to be rolled back.  *)
IsNextRestore(m) ==
    \E k \in Chosen(run.stack) :
      /\ Order[run.stack][k] = m /\ m \in Applied
      /\ \A j \in Chosen(run.stack) : j > k => Order[run.stack][j] \notin Applied

(* Mutant of Restore: a restore that failed is tried again.                *)
RestoreRetried(m) ==
    LET next == IF Applied = {m} THEN "unlock" ELSE "restore" IN
    /\ run.pc = "restore"
    /\ IsNextRestore(m)
    /\ \/ /\ Swap(m, run.prev[m], FALSE)
          /\ run' = [Outcome(m, "rolled_back") EXCEPT !.pc = next, !.outId[m] = cur'[m].id]
       \/ Kept /\ run' = run
    /\ UNCHANGED <<reg, local, policy, control, block, open, since, lock, down,
                   review>>

(***************************************************************************)
(* rollbackAppliedStackTargets: one member at a time, in reverse order, a  *)
(* failure does not stop the others.  A restored container is created from *)
(* the previous image's id, and the outcome moves to its new container id. *)
(***************************************************************************)
Restore(m) ==
    LET next == IF Applied = {m} THEN "unlock" ELSE "restore" IN
    /\ run.pc = "restore"
    /\ IsNextRestore(m)
    /\ \/ /\ Swap(m, run.prev[m], FALSE)
          /\ run' = [Outcome(m, "rolled_back") EXCEPT !.pc = next, !.outId[m] = cur'[m].id]
       \/ /\ Kept \/ Swap(m, run.prev[m], FALSE)
          /\ run' = [Outcome(m, "failed") EXCEPT !.pc = next]
    /\ UNCHANGED <<reg, local, policy, control, block, open, since, lock, down,
                   review>>

(* Mutant of Unlock: the stack stays locked.                               *)
UnlockForgotten ==
    /\ run.pc = "unlock"
    /\ run' = [run EXCEPT !.pc = "unit"]
    /\ UNCHANGED <<reg, local, cur, policy, control, block, open, since, lock, down,
                   broken, review>>

(* The deferred unlock of the stack's action lock.                         *)
Unlock ==
    /\ run.pc = "unlock"
    /\ lock' = [lock EXCEPT ![run.stack] = "free"]
    /\ run' = [run EXCEPT !.pc = "unit"]
    /\ UNCHANGED <<reg, local, cur, policy, control, block, open, since, down,
                   broken, review>>

-----------------------------------------------------------------------------
(* The end of a run: the rest of executeAvailable, and SaveExecution.      *)

(***************************************************************************)
(* The rows recorded for a member: its outcome, under the container id the *)
(* outcome carries, and a failure for a target whose own id no outcome     *)
(* carries.                                                                *)
(***************************************************************************)
Rows(m) ==
    IF m \notin run.targets THEN {}
    ELSE {<<run.outId[m], run.out[m]>>} \cup
         (IF run.outId[m] # run.ids[m] THEN {<<run.ids[m], "failed">>} ELSE {})

(* Mutant of Armed: a rolled back update does not arm the breaker.         *)
ArmedOnFailureOnly(m, i) ==
    IF \E r \in Rows(m) : r[1] = i /\ r[2] = "failed" THEN run.digest[m]
    ELSE IF \E r \in Rows(m) : r[1] = i /\ r[2] \in {"updated", "current"} THEN 0
    ELSE block[m][i]

(* A failure arms the breaker of its container, a success removes it.      *)
Armed(m, i) ==
    IF \E r \in Rows(m) : r[1] = i /\ r[2] \in {"failed", "rolled_back"}
    THEN run.digest[m]
    ELSE IF \E r \in Rows(m) : r[1] = i /\ r[2] \in {"updated", "current"} THEN 0
    ELSE block[m][i]

(* History: the failure counts against the container the run left behind,  *)
(* if that one runs the image the member had; not against a replacement    *)
(* that stayed in place, nor one made by hand since.                       *)
Broken(m) ==
    IF m \notin run.targets \/ run.out[m] = "skipped" \/ cur[m].id # run.left[m]
    THEN broken[m]
    ELSE IF run.out[m] \in {"failed", "rolled_back"} /\ run.prev[m] \in {0, cur[m].img}
    THEN run.digest[m] ELSE 0

(***************************************************************************)
(* The row of this run stays open when the database refuses the outcome.   *)
(* Storing one drops every row behind the newest MaxRuns, open ones too.   *)
(***************************************************************************)
Retained == since + 1 < MaxRuns

SaveExecution ==
    /\ run.pc = "unit" /\ Pending = {}
    /\ run' = NoRun
    /\ \/ /\ block' = [m \in Members |-> [i \in ContainerIds |-> Armed(m, i)]]
          /\ IF Retained THEN open' = open \ {"this"} /\ since' = since + 1
                         ELSE open' = {} /\ since' = MaxRuns
          /\ broken' = [m \in Members |-> Broken(m)]
       \/ /\ open' = {"earlier"} /\ since' = 0
          /\ UNCHANGED <<block, broken>>
    /\ UNCHANGED <<reg, local, cur, policy, control, lock, down, review>>

-----------------------------------------------------------------------------
(* Operators and the registry.                                             *)

SaveControl(paused, groups) ==
    /\ ~down
    /\ control' = [paused |-> paused, groups |-> groups]
    /\ review' = (review /\ paused)
    /\ UNCHANGED <<reg, local, cur, policy, block, open, since, lock, down,
                   run, broken>>

SetPolicy(u, p) ==
    /\ ~down
    /\ policy' = [policy EXCEPT ![u] = p]
    /\ UNCHANGED <<reg, local, cur, control, block, open, since, lock, down,
                   run, broken, review>>

(* The breaker of one container, and with it those of its whole stack.     *)
ClearExecutionBlock(m, i) ==
    LET cleared == IF UnitOf(m) \in Stacks
                   THEN MembersOf(UnitOf(m)) \X ContainerIds ELSE {<<m, i>>}
    IN
    /\ ~down
    /\ block[m][i] # 0
    /\ block' = [n \in Members |-> [j \in ContainerIds |->
                    IF <<n, j>> \in cleared THEN 0 ELSE block[n][j]]]
    /\ broken' = [n \in Members |->
                    IF \E j \in ContainerIds : <<n, j>> \in cleared THEN 0 ELSE broken[n]]
    /\ UNCHANGED <<reg, local, cur, policy, control, open, since, lock, down,
                   run, review>>

(* ContainerUpdate holds the action lock while it works.                   *)
ManualBegin(u) ==
    /\ ~down /\ lock[u] = "free"
    /\ lock' = [lock EXCEPT ![u] = "manual"]
    /\ UNCHANGED <<reg, local, cur, policy, control, block, open, since, down,
                   run, broken, review>>

ManualEnd(m) ==
    /\ lock[UnitOf(m)] = "manual"
    /\ lock' = [lock EXCEPT ![UnitOf(m)] = "free"]
    /\ \/ local' = local /\ Kept
       \/ /\ ListedByTag(m)
          /\ local' = Pulled({TagOf[m]})
          /\ \/ Kept
             \/ local'[TagOf[m]] # cur[m].img /\ Swap(m, local'[TagOf[m]], TRUE)
    /\ UNCHANGED <<reg, policy, control, block, open, since, down, run, review>>

(* A reference is published again: with a new image, or an earlier one.    *)
Publish(t, d) ==
    /\ reg[t] # d
    /\ reg' = [reg EXCEPT ![t] = d]
    /\ UNCHANGED <<local, cur, policy, control, block, open, since, lock, down,
                   run, broken, review>>

(* Another deployment of the host, or a compose pull, takes a reference.   *)
PullElsewhere(t) ==
    /\ local[t] # reg[t]
    /\ local' = Pulled({t})
    /\ UNCHANGED <<reg, cur, policy, control, block, open, since, lock, down, run,
                   broken, review>>

-----------------------------------------------------------------------------
(* Crash and restart.                                                      *)

Stopped ==
    /\ ~down /\ down' = TRUE
    /\ run' = NoRun
    /\ lock' = [u \in Units |-> "free"]
    /\ open' = IF open = {} THEN {} ELSE {"earlier"}
    /\ review' = (review \/ run.pc \in Executing \/ since < MaxRuns)
    /\ UNCHANGED <<reg, policy, control, block, since>>

Crash == Stopped /\ local' = local /\ Kept

(***************************************************************************)
(* The container that was being updated may have been replaced, or its     *)
(* reference pulled, when Dockman stopped.                                 *)
(***************************************************************************)
UnderWay(m) ==
    \/ lock[UnitOf(m)] = "manual" /\ ListedByTag(m)
    \/ run.pc = "unit" /\ m \in Pending \cap Singles /\ lock[m] = "free"
       /\ StillThere(m) /\ ListedByTag(m)

CrashWhilePulling(m) ==
    /\ UnderWay(m)
    /\ local' = Pulled({TagOf[m]})
    /\ \/ Kept
       \/ local'[TagOf[m]] # cur[m].img /\ Swap(m, local'[TagOf[m]], TRUE)
    /\ Stopped

CrashInStack(m) ==
    /\ \/ /\ run.pc = "member" /\ IsNextMember(m)
          /\ local[TagOf[m]] # cur[m].img
          /\ Swap(m, local[TagOf[m]], TRUE)
       \/ /\ run.pc = "restore" /\ IsNextRestore(m)
          /\ Swap(m, run.prev[m], FALSE)
    /\ local' = local
    /\ Stopped

(* Mutant of Restart: the interrupted rows are closed, the host not paused.*)
RestartUnpaused ==
    /\ down /\ down' = FALSE
    /\ open' = {} /\ since' = MaxRuns
    /\ UNCHANGED <<reg, local, cur, policy, control, block, lock, run,
                   broken, review>>

(* NewAutomationService: RecoverInterruptedExecutions before anything runs.*)
Restart ==
    /\ down /\ down' = FALSE
    /\ control' = [control EXCEPT !.paused = @ \/ open # {}]
    /\ open' = {} /\ since' = MaxRuns
    /\ UNCHANGED <<reg, local, cur, policy, block, lock, run, broken,
                   review>>

-----------------------------------------------------------------------------

RunStep ==
    \/ Inventory
    \/ Scan
    \/ Gate
    \/ Gather
    \/ \E m \in Members : ExecuteSingle(m) \/ StackMember(m) \/ Restore(m)
    \/ \E u \in Stacks : StackPreflight(u)
    \/ Unlock
    \/ SaveExecution

Operator ==
    \/ \E p \in BOOLEAN, g \in GroupLimits : SaveControl(p, g)
    \/ \E u \in Units : \E p \in Choices[u] : SetPolicy(u, p)
    \/ \E m \in Members, i \in ContainerIds : ClearExecutionBlock(m, i)
    \/ \E u \in Units : ManualBegin(u)
    \/ \E m \in Members : ManualEnd(m)

Failure ==
    \/ Crash
    \/ \E m \in Members : CrashWhilePulling(m) \/ CrashInStack(m)

Next ==
    \/ \E t \in Triggers, due \in SUBSET Units : due # {} /\ Trigger(t, due)
    \/ RunStep
    \/ Operator
    \/ \E t \in Tags : PullElsewhere(t) \/ \E d \in Digests : Publish(t, d)
    \/ Failure
    \/ Restart

Spec == Init /\ [][Next]_vars

FairSpec == Spec /\ WF_vars(RunStep)

-----------------------------------------------------------------------------

(***************************************************************************)
(* Every variable has its type; an execution has its open row from before  *)
(* its first change to its end; a stack at work, and no other, is locked.  *)
(***************************************************************************)
TypeOK ==
    /\ reg \in [Tags -> Digests]
    /\ local \in [Tags -> Digests]
    /\ cur \in [Members -> Containers]
    /\ policy \in [Units -> Policies]
    /\ control \in [paused : BOOLEAN, groups : GroupLimits]
    /\ block \in [Members -> [ContainerIds -> 0 .. MaxDigest]]
    /\ open \subseteq {"this", "earlier"}
    /\ since \in 0 .. MaxRuns
    /\ lock \in [Units -> {"free", "manual", "auto"}]
    /\ down \in BOOLEAN
    /\ run \in Runs
    /\ broken \in [Members -> 0 .. MaxDigest]
    /\ review \in BOOLEAN
    /\ run.pc \in Executing <=> "this" \in open
    /\ \A u \in Units : lock[u] = "auto" <=>
         run.stack = u /\ run.pc \in {"member", "restore", "unlock"}

(***************************************************************************)
(* "the next run cheerfully retried the digest already known to break" is  *)
(* what the breakers prevent: a digest recorded as breaking a container is *)
(* no target of an automatic run again until an operator clears the        *)
(* breaker, whatever happens to policies, listings, container ids or       *)
(* Dockman in between.                                                     *)
(***************************************************************************)
NoRetryOfBroken ==
    run.pc \in Executing => \A m \in run.targets : broken[m] # run.digest[m]

(***************************************************************************)
(* An execution that was interrupted, or whose outcome was never recorded, *)
(* pauses the host at the next start: no execution begins until an         *)
(* operator resumes.  What is forgiven is an outcome that was lost MaxRuns *)
(* recorded executions ago: the retention took its open row.               *)
(***************************************************************************)
InterruptedPauses == run.pc \in Executing => ~review

(***************************************************************************)
(* A stack is one transaction: with rollback on, when its lock is released *)
(* no member is left updated beside one that failed, and a member said to  *)
(* be rolled back or skipped runs the image it had.                        *)
(***************************************************************************)
StackCoherent ==
    run.pc = "unlock" =>
      LET members == MembersOf(run.stack) \cap run.targets IN
      /\ RollbackEnabled /\ (\E m \in members : run.out[m] \in {"failed", "rolled_back"})
           => Applied = {}
      /\ \A m \in members :
           run.out[m] = "rolled_back" => cur[m].img = run.prev[m]
      /\ \A m \in members : run.out[m] = "skipped" => StillThere(m)

(***************************************************************************)
(* "If one member/digest is circuit-broken, do not silently update the     *)
(* remaining members as smaller partial groups": no member of a stack is a *)
(* target while the digest found for another one is known to break it.     *)
(***************************************************************************)
NoPartialStack ==
    run.pc \in Executing =>
      \A u \in Stacks : MembersOf(u) \cap run.targets # {} =>
        \A m \in MembersOf(u) \cap Available : broken[m] # run.digest[m]

(* Every run ends: no lock, pause or failure leaves the host marked busy.  *)
RunEnds == run.pc # "idle" ~> run.pc = "idle"

-----------------------------------------------------------------------------
(* Statements of the source and the documents that the code does not meet. *)

(***************************************************************************)
(* "Only a failure that reached the container itself is worth blocking     *)
(* on": a breaker is armed only for a member whose replacement was         *)
(* attempted.                                                              *)
(***************************************************************************)
BlockedOnlyIfTouched ==
    [][\A m \in Members :
         (\E i \in ContainerIds : block'[m][i] # 0 /\ block[m][i] = 0)
         => run.prev[m] # 0]_vars

(***************************************************************************)
(* "the results concerned are rolled_back": what a run records of a member *)
(* that it rolled back is that, and nothing else.                          *)
(***************************************************************************)
RolledBackRecorded ==
    run.pc = "unit" /\ Pending = {} =>
      \A m \in run.targets : run.out[m] = "rolled_back" =>
        \A r \in Rows(m) : r[2] = "rolled_back"

(***************************************************************************)
(* "A digest that repeatedly fails is blocked until explicitly retried or  *)
(* superseded": when the digest that broke a container has been superseded,*)
(* a scan that reaches the registry finds the new one.                     *)
(***************************************************************************)
SupersededIsSeen ==
    run.pc = "scan" =>
      \A m \in Members :
        /\ Scanned(m)
        /\ broken[m] # 0
        /\ reg[TagOf[m]] \notin {broken[m], cur[m].img}
        => CheckOf(m, {}) = "available"
=============================================================================
