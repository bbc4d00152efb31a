---------------------------- MODULE GitAutomation ----------------------------
(***************************************************************************)
(* Automatic Git synchronization of one Folder Link, gitsync/automation.go,*)
(* with the controlled deployment it ends in (deployment.go and            *)
(* deployment_rollback.go), the per-stack status rows (stack_status.go)    *)
(* and what a restart repairs (service.go, store.go).                      *)
(*                                                                         *)
(* A stack is one Compose file.  A cycle holds the automation lock of the  *)
(* link, so the operations that take it wait for "idle"; commits on Git,   *)
(* edits in Dockman, the stack locks of other actions and a stop of the    *)
(* process fall anywhere in between.  Nothing holds a stack still: a file  *)
(* may be saved after an import or a rollback has compared it and before   *)
(* that import or rollback replaces it.                                    *)
(***************************************************************************)
EXTENDS GitPreview, Integers

CONSTANTS
    GitStacks,        \* the stacks of the link, all selected
    FirstTargets,     \* the stacks authorized for deployment at first
    DeployNewStacks,  \* AutoDeployNewStacks
    DeployRollback,   \* AutoDeployRollbackEnabled
    MaxCommits,       \* bound: commits on Git
    MaxEvents         \* bound: acts of operators and stops of the process

ASSUME GitAutomationAssumption ==
    /\ FirstTargets \subseteq GitStacks
    /\ DeployNewStacks \in BOOLEAN /\ DeployRollback \in BOOLEAN
    /\ MaxCommits \in Nat /\ MaxEvents \in Nat

VARIABLES
    commit,     \* the head of the branch at the provider
    provider,   \* what the provider holds for each stack
    broken,     \* the contents whose Compose file is invalid
    clone,      \* the local clone: its head and its working tree
    files,      \* what the stack folder holds
    base,       \* the synchronization baseline
    running,    \* what the containers were deployed from
    row,        \* GitStackStatus: sync state, deployment state, pause reason
    drow,       \* the last Deployment row of each stack: state and commit
    link,       \* the automation columns of the StackBinding row
    authorized, \* AutoDeployComposePaths
    busy,       \* stacks whose action lock somebody else holds
    dirty,      \* stacks with an unsaved editor
    cycle,      \* the running cycle
    marking,    \* saved files whose MarkLocalChange has not run yet
    touched,    \* history: changed by hand since the scan, or not marked by then
    late,       \* history: stacks changed by hand since they were compared
    events

autoVars == <<commit, provider, broken, clone, files, base, running, row,
              drow, link, authorized, busy, dirty, cycle, marking, touched,
              late, events>>

Contents == 1 .. MaxCommits + 2
Original == 1
Edit == MaxCommits + 2
CommitContent(n) == n + 1

NoCommit == -1

SyncStates == {"up_to_date", "local_changes", "locally_deleted",
               "remote_changes", "orphaned", "conflict", "error"}

terminalDeploymentStates ==
    {"success", "failed", "rolled_back", "rollback_failed"}

terminalStackDeployStates == terminalDeploymentStates \cup {"idle"}

Unsuccessful == terminalDeploymentStates \ {"success"}

isRetryableAutoDeployState(state) == state \in {"failed", "partial", "pending"}

Idle == [at |-> "idle", explicit |-> FALSE, commit |-> 0, token |-> << >>,
         held |-> {}, stale |-> "none", before |-> [s \in GitStacks |-> Absent],
         wrote |-> {}, unwritten |-> {}, todo |-> {}, now |-> {},
         out |-> [s \in GitStacks |-> "none"],
         result |-> "up_to_date", preserved |-> FALSE, edited |-> {},
         invalid |-> {}]

AutoInit ==
    /\ commit = 0
    /\ provider = [s \in GitStacks |-> Original]
    /\ broken = {}
    /\ clone = [head |-> 0, tree |-> provider]
    /\ files = provider
    /\ base = provider
    /\ running = provider
    /\ row = [s \in GitStacks |-> [sync |-> "up_to_date", deploy |-> "idle",
                                   pause |-> "none"]]
    /\ drow = [s \in GitStacks |-> [state |-> "none", commit |-> NoCommit]]
    /\ link = [sync |-> "watching", deletion |-> FALSE, last |-> NoCommit,
               deploy |-> "watching"]
    /\ authorized = FirstTargets
    /\ busy = {}
    /\ dirty = {}
    /\ cycle = Idle
    /\ marking = [s \in GitStacks |-> "none"]
    /\ touched = {} /\ late = {}
    /\ events = 0

activeAutomationComposePaths == {s \in GitStacks : row[s].pause = "none"}

Preview == ImportPreview(activeAutomationComposePaths, provider, files, base)

Pull == clone' = [head |-> commit, tree |-> provider]

SetSync(rows, stacks, state) ==
    [s \in GitStacks |->
        IF s \in stacks THEN [rows[s] EXCEPT !.sync = state] ELSE rows[s]]

(* What a preview of the Git -> Dockman direction shows of a stack.        *)
PreviewState(kind) ==
    CASE kind = "conflict" -> "conflict"
      [] kind = "deleted_on_git" -> "orphaned"
      [] kind = "restore" -> "locally_deleted"
      [] kind \in {"add", "modify"} -> "remote_changes"
      [] OTHER -> "up_to_date"

recordPreviewStackStatuses(rows, preview) ==
    [s \in GitStacks |->
        IF s \in DOMAIN preview
        THEN [rows[s] EXCEPT !.sync = PreviewState(preview[s])]
        ELSE rows[s]]

(* Mutant of updateActiveStackStatusesPreservingLocal: a conflict does not *)
(* count as a state that awaits a decision.                                *)
ConflictPaintedOver(rows, preserved) ==
    SetSync(rows, {s \in activeAutomationComposePaths :
                     rows[s].sync \notin preserved \cup
                       {"local_changes", "locally_deleted", "orphaned"}}, "up_to_date")

(* A cycle that does not scan leaves the states that await a decision.     *)
updateActiveStackStatusesPreservingLocal(rows, preserved) ==
    SetSync(rows, {s \in activeAutomationComposePaths :
                     rows[s].sync \notin preserved \cup
                       {"local_changes", "locally_deleted", "orphaned",
                        "conflict"}}, "up_to_date")

bindingHasActiveStackState(state) ==
    \E s \in activeAutomationComposePaths : row[s].sync = state

Preserved(preview) ==
    {s \in DOMAIN preview : /\ provider[s] = Absent
                            /\ preview[s] \in {"conflict", "deleted_on_git"}}
-----------------------------------------------------------------------------
(* No new commit: the stacks are not scanned.                              *)
SkipScan ==
    LET state ==
          IF \/ bindingHasActiveStackState("locally_deleted")
             \/ link.sync = "blocked" /\ link.deletion THEN "blocked"
          ELSE IF link.sync = "partial" THEN "partial" ELSE "up_to_date"
        deletion == link.sync = "blocked" /\ link.deletion
    IN /\ link' = [link EXCEPT !.sync = state,
                     !.deletion = deletion /\ ~bindingHasActiveStackState("locally_deleted")]
       /\ row' = CASE state = "blocked" -> row
                   [] state = "partial" ->
                        updateActiveStackStatusesPreservingLocal(row, {"error"})
                   [] OTHER -> updateActiveStackStatusesPreservingLocal(row, {})
       /\ cycle' = Idle
       /\ UNCHANGED authorized

newComposeDeploymentTargets(preview) ==
    IF ~DeployNewStacks THEN {}
    ELSE {s \in OfKind(preview, {"add", "modify", "restore"}) \ authorized :
            provider[s] \notin broken}

(* The scan of a cycle: what the link may import, what it must leave, and  *)
(* the stacks authorized on the way.                                       *)
ScanStacks(explicit) ==
    LET preview == Preview
        held == HeldBackComposeStacks(preview)
        new == newComposeDeploymentTargets(preview)
        stop == held # {} /\ DOMAIN preview \ held = {}
        conflicts == Conflicts(preview) # {}
    IN /\ row' = recordPreviewStackStatuses(row, preview)
       /\ CASE stop ->
               /\ link' = [link EXCEPT !.sync = IF conflicts THEN "conflict" ELSE "blocked",
                             !.deletion = FALSE,
                             !.last = IF Preserved(preview) # {} THEN commit ELSE @]
               /\ cycle' = Idle
               /\ UNCHANGED authorized
            [] DOMAIN preview = {} ->
               /\ link' = [link EXCEPT !.sync = "watching"]
               /\ cycle' = Idle
               /\ UNCHANGED authorized
            [] OTHER ->
               /\ authorized' = authorized \cup new
               /\ link' = [link EXCEPT !.sync = "syncing",
                             !.deploy = IF new # {} THEN "pending" ELSE @]
               /\ cycle' = [Idle EXCEPT
                    !.at = "import", !.explicit = explicit, !.commit = commit,
                    !.token = PreviewToken(preview, provider, files),
                    !.held = held, !.preserved = Preserved(preview) # {},
                    !.stale = IF /\ Changed(preview) = {}
                                 /\ isRetryableAutoDeployState(link.deploy)
                              THEN link.deploy ELSE "none"]

(* The start of a cycle: the repository is fetched, a commit of Dockman    *)
(* that never left is pushed, a commit of the provider is pulled; any of   *)
(* these may fail, and a diverged repository needs a decision.             *)
runBindingAutoSync(explicit) ==
    /\ cycle.at = "idle"
    /\ touched' = {s \in GitStacks : marking[s] # "none"}
    /\ \/ /\ activeAutomationComposePaths = {} /\ ~DeployNewStacks
          /\ link' = [link EXCEPT !.sync = "watching"]
          /\ UNCHANGED <<clone, row, cycle, authorized>>
       \/ /\ activeAutomationComposePaths # {} \/ DeployNewStacks
          /\ \/ /\ link' = [link EXCEPT !.sync = "error"]
                /\ UNCHANGED <<clone, row, cycle, authorized>>
             \/ /\ link' = [link EXCEPT !.sync = "blocked", !.deletion = FALSE]
                /\ row' = SetSync(row, activeAutomationComposePaths, "remote_changes")
                /\ UNCHANGED <<clone, cycle, authorized>>
             \/ /\ Pull
                /\ IF /\ link.last = commit /\ ~explicit
                      /\ ~bindingHasActiveStackState("error")
                   THEN SkipScan
                   ELSE ScanStacks(explicit)
    /\ UNCHANGED <<commit, provider, broken, files, base, running, drow, busy,
                   dirty, marking, late>>

RunBindingAutoSync ==
    /\ runBindingAutoSync(FALSE)
    /\ UNCHANGED events

(* "Check now" always scans and may retry a failed deployment.             *)
RunBindingAutoSyncNow ==
    /\ events < MaxEvents
    /\ events' = events + 1
    /\ runBindingAutoSync(TRUE)

(* The cycle ends with an error: the rows keep what the preview recorded.  *)
CycleFails(rows) ==
    /\ link' = [link EXCEPT !.sync = "error"]
    /\ row' = rows
    /\ cycle' = Idle
    /\ UNCHANGED <<files, base>>

hasTrackedDeletedCompose(paths) ==
    \E s \in paths : files[s] # Absent /\ base[s] # Absent

excludeDirtyEditorStacks(selected) == selected \ dirty

excludeInvalidComposeStacks(selected) ==
    {s \in selected : provider[s] \notin broken}

excludeHeldBackStacks(selected) == selected \ cycle.held

(* The stacks whose own deployment did not succeed last time.              *)
stacksAwaitingDeployRetry ==
    {s \in authorized : row[s].deploy \notin terminalStackDeployStates \ Unsuccessful}

(* Nothing changed and a deployment is still owed: a pending one names no  *)
(* stack, so every authorized stack is deployed.                           *)
staleDeployTargets ==
    CASE cycle.stale = "none" -> {}
      [] cycle.stale = "pending" -> authorized
      [] OTHER -> stacksAwaitingDeployRetry

(* Failures of the given stacks are history: their rows are cleared, and   *)
(* the state of the link follows the authorized stacks that are left.      *)
clearResolvedDeploymentStates(rows, lnk, complete) ==
    LET cleared == {s \in complete : rows[s].deploy \in Unsuccessful}
        left == {rows[s].deploy : s \in authorized \ cleared}
    IN IF cleared = {} THEN <<rows, lnk>>
       ELSE <<[s \in GitStacks |-> IF s \in cleared
                 THEN [rows[s] EXCEPT !.deploy = "idle"] ELSE rows[s]],
              [lnk EXCEPT !.deploy =
                 CASE left \cap {"failed", "rollback_failed"} # {} -> "failed"
                   [] "rolled_back" \in left
                      /\ left \cap {"failed", "rollback_failed"} = {} -> "partial"
                   [] OTHER -> "watching"]>>

(* Nothing differs from Git: a rollback of before is resolved.             *)
clearIdenticalRollbackStates(rows, lnk) ==
    clearResolvedDeploymentStates(rows, lnk,
        {s \in authorized : rows[s].deploy = "rolled_back"})

(* ImportBinding under automation: the fetch may fail, and a commit that   *)
(* arrived since the scan refuses the import, before any row is written; a *)
(* changed inventory after.  Then the files to write are chosen.           *)
ImportStacks ==
    LET paths == activeAutomationComposePaths
        preview == Preview
        rows == recordPreviewStackStatuses(row, preview)
        same == Changed(preview) = {}
        chosen == SelectedTransferFiles(preview, {})
        clean == excludeDirtyEditorStacks(chosen)
        valid == excludeInvalidComposeStacks(clean)
        selected == excludeHeldBackStacks(valid)
        found == \/ \E s \in paths : provider[s] # Absent
                 \/ hasTrackedDeletedCompose(paths)
        current == cycle.token = PreviewToken(preview, provider, files)
        transferable == \/ same \/ chosen # {}
                        \/ Preserved(preview) # {} /\ Conflicts(preview) = {}
    IN /\ cycle.at = "import"
       /\ \/ CycleFails(row) /\ UNCHANGED late
          \/ /\ commit = cycle.commit /\ found /\ ~(current /\ transferable)
             /\ CycleFails(rows) /\ UNCHANGED late
          \/ /\ commit = cycle.commit /\ found /\ current /\ transferable
             /\ row' = rows /\ late' = {}
             /\ cycle' = [cycle EXCEPT
                  !.at = "write", !.before = files,
                  !.wrote = selected, !.unwritten = selected,
                  !.edited = IF chosen = {} THEN {} ELSE dirty,
                  !.invalid = clean \ valid]
             /\ UNCHANGED <<files, base, link>>
       /\ UNCHANGED <<commit, provider, broken, clone, running, drow,
                      authorized, busy, dirty, marking, touched, events>>

(* writeStackFiles: a file at a time, without another look at what it      *)
(* replaces.                                                               *)
WriteStackFile(s) ==
    /\ cycle.at = "write" /\ s \in cycle.unwritten
    /\ files' = [files EXCEPT ![s] = cycle.token[s][2]]
    /\ cycle' = [cycle EXCEPT !.unwritten = @ \ {s}]
    /\ UNCHANGED <<commit, provider, broken, clone, base, running, row, drow, link,
                   authorized, busy, dirty, marking, touched, late, events>>

(* The rest of ImportBinding, which may fail at any file, and the choice   *)
(* of what to deploy.                                                      *)
FinishImport ==
    LET paths == DOMAIN cycle.token
        source == [s \in paths |-> cycle.token[s][2]]
        same == \A s \in paths : cycle.token[s][1] = "unchanged"
        selected == cycle.wrote
        refreshed == IF ~cycle.preserved
                     THEN SetSync(SetSync(row,
                            paths \ (cycle.invalid \cup cycle.held \cup cycle.edited),
                            "up_to_date"), cycle.invalid, "error")
                     ELSE row
        targets == selected \cap authorized
        todo == targets \cup staleDeployTargets
        imported == [link EXCEPT !.deploy = IF targets # {} THEN "pending" ELSE @]
        settled == IF same THEN clearIdenticalRollbackStates(refreshed, imported)
                   ELSE <<refreshed, imported>>
    IN /\ cycle.at = "write"
       /\ \/ CycleFails(row)
          \/ /\ cycle.unwritten = {}
             /\ base' = IF same THEN BaselineFromSource(base, paths, source)
                        ELSE IF selected = {} THEN base
                        ELSE BaselineAfterTransfer(base, source, cycle.before, selected)
             /\ row' = settled[1]
             /\ link' = [settled[2] EXCEPT !.deploy =
                           IF cycle.stale # "none" /\ todo = {} THEN "watching" ELSE @]
             /\ cycle' = [cycle EXCEPT
                  !.at = IF todo = {} THEN "close" ELSE "deploy", !.todo = todo,
                  !.result = CASE cycle.edited # {} \/ cycle.preserved -> "blocked"
                               [] cycle.invalid # {} /\ cycle.edited = {}
                                    /\ ~cycle.preserved -> "partial"
                               [] OTHER -> "up_to_date"]
             /\ UNCHANGED files
       /\ UNCHANGED <<commit, provider, broken, clone, running, drow,
                      authorized, busy, dirty, marking, touched, late, events>>
-----------------------------------------------------------------------------
(* Another action holds the lock of the stack: nothing is attempted.       *)
DeferStack(s) ==
    /\ cycle.at = "deploy" /\ cycle.now = {}
    /\ s \in cycle.todo \cap busy
    /\ cycle' = [cycle EXCEPT !.todo = @ \ {s}, !.out[s] = "deferred"]
    /\ UNCHANGED <<commit, provider, broken, clone, files, base, running, row,
                   drow, link, authorized, busy, dirty, marking, touched, late, events>>

(* The lock is taken, the Deployment row is saved as validating and the    *)
(* stack reports provisioning; later stages are not stored.                *)
StartDeployment(s) ==
    /\ cycle.at = "deploy" /\ cycle.now = {}
    /\ s \in cycle.todo \ busy
    /\ cycle' = [cycle EXCEPT !.todo = @ \ {s}, !.now = {s}]
    /\ drow' = [drow EXCEPT ![s] = [state |-> "validating", commit |-> cycle.commit]]
    /\ row' = [row EXCEPT ![s].deploy = "provisioning"]
    /\ UNCHANGED <<commit, provider, broken, clone, files, base, running, link,
                   authorized, busy, dirty, marking, touched, late, events>>

FinishDeployment(s, state) ==
    /\ cycle' = [cycle EXCEPT !.at = "deploy", !.now = {}, !.out[s] = state]
    /\ drow' = [drow EXCEPT ![s].state = state]
    /\ row' = [row EXCEPT ![s].deploy = state]

DeploymentSucceeds(s) ==
    /\ cycle.at = "deploy" /\ s \in cycle.now /\ files[s] # Absent
    /\ running' = [running EXCEPT ![s] = files[s]]
    /\ FinishDeployment(s, "success")
    /\ UNCHANGED <<commit, provider, broken, clone, files, base, link,
                   authorized, busy, dirty, marking, touched, late, events>>

(* A failure without rollback; the last stage may have changed containers. *)
DeploymentFails(s) ==
    /\ s \in cycle.now /\ ~DeployRollback
    /\ \E content \in {running[s], files[s]} :
         running' = [running EXCEPT ![s] = content]
    /\ FinishDeployment(s, "failed")
    /\ UNCHANGED <<commit, provider, broken, clone, files, base, link,
                   authorized, busy, dirty, marking, touched, late, events>>

(* Mutant of rollbackDeploymentFiles: what the files hold is not compared. *)
RollbackUncompared(s) == s \in cycle.wrote /\ s \notin dirty

(* rollbackDeploymentFiles: an editor or a change since the import wins.   *)
rollbackDeploymentFiles(s) ==
    /\ s \in cycle.wrote
    /\ s \notin dirty
    /\ files[s] \in {cycle.token[s][2], cycle.before[s]}

deploymentHadPreviousCompose(s) ==
    s \in cycle.wrote => cycle.before[s] # Absent

(* A failure with rollback: the files of before the import are compared... *)
CompareForRollback(s) ==
    /\ cycle.at = "deploy" /\ s \in cycle.now /\ DeployRollback
    /\ rollbackDeploymentFiles(s)
    /\ cycle' = [cycle EXCEPT !.at = "restore"]
    /\ late' = late \ {s}
    /\ UNCHANGED <<commit, provider, broken, clone, files, base, running, row, drow,
                   link, authorized, busy, dirty, marking, touched, events>>

(* ... and come back, and the previous version is deployed again.  A retry *)
(* without an import has no backup and no file to restore; any of it may   *)
(* fail.                                                                   *)
DeploymentRollsBack(s) ==
    LET restored == [files EXCEPT ![s] = cycle.before[s]]
        based == [base EXCEPT ![s] = cycle.before[s]]
        again == IF deploymentHadPreviousCompose(s) THEN files'[s] ELSE Absent
    IN /\ s \in cycle.now /\ DeployRollback
       /\ \/ /\ \/ cycle.at = "deploy" /\ s \notin cycle.wrote /\ UNCHANGED <<files, base>>
                \/ cycle.at = "restore" /\ files' = restored /\ base' = based
             /\ \E content \in {running[s], again} :
                  running' = [running EXCEPT ![s] = content]
             /\ FinishDeployment(s, "rolled_back")
          \/ /\ \/ UNCHANGED <<files, base>>
                \/ cycle.at = "restore" /\ files' = restored /\ base' \in {base, based}
             /\ \E content \in {running[s], files[s]} :
                  running' = [running EXCEPT ![s] = content]
             /\ FinishDeployment(s, "rollback_failed")
       /\ UNCHANGED <<commit, provider, broken, clone, link, authorized, busy,
                      dirty, marking, touched, late, events>>

(* The deployment state of the link after a batch.                         *)
BatchState(out) ==
    LET states == {out[s] : s \in GitStacks}
        failed == states \cap Unsuccessful # {}
    IN IF ~failed THEN IF "deferred" \in states THEN "pending" ELSE "success"
       ELSE IF /\ "rollback_failed" \notin states
               /\ states \cap {"success", "rolled_back"} # {}
       THEN "partial" ELSE "failed"

(* The end of a cycle.  A failed deployment makes it partial, whatever it  *)
(* was; a stack that was held back makes it a conflict or a block.         *)
CloseCycle ==
    LET attempted == \E s \in GitStacks : cycle.out[s] # "none"
        failed == \E s \in GitStacks : cycle.out[s] \in Unsuccessful
        deployed == \E s \in GitStacks : cycle.out[s] = "success"
        conflicts == \E s \in DOMAIN cycle.token : cycle.token[s][1] = "conflict"
        state == CASE cycle.held # {} -> IF conflicts THEN "conflict" ELSE "blocked"
                   [] cycle.held = {} /\ failed -> "partial"
                   [] OTHER -> cycle.result
    IN /\ \/ cycle.at = "close"
          \/ cycle.at = "deploy" /\ cycle.todo = {} /\ cycle.now = {}
       /\ link' = [link EXCEPT
            !.sync = state,
            !.deletion = /\ state = "blocked" /\ cycle.held = {}
                         /\ cycle.edited = {} /\ ~deployed
                         /\ cycle.wrote = {} \/ cycle.invalid = {},
            !.last = IF state \in {"conflict", "blocked"} /\ ~cycle.preserved
                     THEN @ ELSE cycle.commit,
            !.deploy = IF attempted THEN BatchState(cycle.out) ELSE @]
       /\ row' = IF state \in {"conflict", "blocked"} THEN row
                 ELSE SetSync(row, activeAutomationComposePaths \ cycle.invalid,
                              "up_to_date")
       /\ cycle' = Idle
       /\ UNCHANGED <<commit, provider, broken, clone, files, base, running,
                      drow, authorized, busy, dirty, marking, touched, late, events>>
-----------------------------------------------------------------------------
Spend ==
    /\ events < MaxEvents
    /\ events' = events + 1

(* Somebody pushes a commit that changes or deletes one stack.             *)
PushToProvider(s) ==
    /\ commit < MaxCommits
    /\ commit' = commit + 1
    /\ \E content \in {CommitContent(commit'), Absent} :
         /\ content # provider[s]
         /\ provider' = [provider EXCEPT ![s] = content]
         /\ \E bad \in SUBSET ({content} \ {Absent}) : broken' = broken \cup bad
    /\ UNCHANGED <<clone, files, base, running, row, drow, link, authorized,
                   busy, dirty, cycle, marking, touched, late, events>>

(* A stack file is saved or deleted in Dockman; MarkLocalChange follows.   *)
SaveStackFile(s) ==
    /\ Spend
    /\ \E content \in {Edit, Absent} \ {files[s]} :
         /\ files' = [files EXCEPT ![s] = content]
         /\ marking' = [marking EXCEPT ![s] = IF content = Absent THEN "delete" ELSE "edit"]
    /\ touched' = touched \cup {s} /\ late' = late \cup {s}
    /\ UNCHANGED <<commit, provider, broken, clone, base, running, row, drow,
                   link, authorized, busy, dirty, cycle>>

(* A Compose file that disappeared makes the catalog stale, and its        *)
(* refresh waits for the automation lock.                                  *)
MarkLocalChange(s) ==
    /\ marking[s] # "none"
    /\ marking[s] = "delete" => cycle.at = "idle"
    /\ marking' = [marking EXCEPT ![s] = "none"]
    /\ row' = [row EXCEPT ![s].sync =
                 IF files[s] = Absent THEN "locally_deleted" ELSE "local_changes"]
    /\ UNCHANGED <<commit, provider, broken, clone, files, base, running, drow,
                   link, authorized, busy, dirty, cycle, touched, late, events>>

ChangeEditor(s) ==
    /\ \/ s \in dirty /\ dirty' = dirty \ {s} /\ UNCHANGED events
       \/ s \notin dirty /\ dirty' = dirty \cup {s} /\ Spend
    /\ UNCHANGED <<commit, provider, broken, clone, files, base, running, row,
                   drow, link, authorized, busy, cycle, marking, touched, late>>

(* Another action takes or releases the lock of a stack.                   *)
ChangeLock(s) ==
    /\ s \notin cycle.now
    /\ \/ s \in busy /\ busy' = busy \ {s} /\ UNCHANGED events
       \/ s \notin busy /\ busy' = busy \cup {s} /\ Spend
    /\ UNCHANGED <<commit, provider, broken, clone, files, base, running, row,
                   drow, link, authorized, dirty, cycle, marking, touched, late>>

SetGitStackAutomationPause(s) ==
    /\ cycle.at = "idle" /\ Spend
    /\ row[s].pause = "none"
    /\ row' = [row EXCEPT ![s].pause = "manual"]
    /\ UNCHANGED <<commit, provider, broken, clone, files, base, running, drow,
                   link, authorized, busy, dirty, cycle, marking, touched, late>>

(* What a preview of the Dockman -> Git direction shows of a stack.        *)
ExportState(kind) ==
    CASE kind = "conflict" -> "conflict"
      [] kind = "deleted_locally" -> "locally_deleted"
      [] kind \in {"add", "modify"} -> "local_changes"
      [] OTHER -> "up_to_date"

ExportRows(rows, tree, baseline) ==
    [s \in GitStacks |-> [rows[s] EXCEPT !.sync =
        ExportState(ExportEntry(files[s], tree[s], baseline[s]))]]

(* PushGitStack: the export of one stack, previewed against the clone; it  *)
(* is refused over a conflict or over commits the clone has not pulled.    *)
PushGitStack(s, pause) ==
    /\ clone.head = commit /\ commit < MaxCommits
    /\ commit' = commit + 1
    /\ provider' = [provider EXCEPT ![s] = files[s]]
    /\ clone' = [head |-> commit', tree |-> provider']
    /\ base' = [base EXCEPT ![s] = files[s]]
    /\ LET cleared == clearResolvedDeploymentStates(row, link, {s})
       IN /\ link' = cleared[2]
          /\ row' = [ExportRows(cleared[1], provider', base') EXCEPT ![s].pause = pause]

(* Resuming publishes local changes first and stays paused when it cannot. *)
ResumeGitStackAutomation(s) ==
    LET kind == ExportEntry(files[s], clone.tree[s], base[s])
        rows == ExportRows(row, clone.tree, base)
    IN /\ cycle.at = "idle"
       /\ row[s].pause # "none"
       /\ \/ /\ row[s].sync \notin {"local_changes", "orphaned"}
             /\ row' = [row EXCEPT ![s].pause = "none"]
             /\ UNCHANGED <<commit, clone, provider, base, link>>
          \/ /\ row[s].sync \in {"local_changes", "orphaned"}
             /\ \/ kind \in {"add", "modify"} /\ PushGitStack(s, "none")
                \/ /\ kind = "conflict" \/ kind \in {"add", "modify"}
                   /\ row' = rows
                   /\ UNCHANGED <<commit, clone, provider, base, link>>
                \/ /\ kind \in {"unchanged", "deleted_locally"}
                   /\ row' = [rows EXCEPT ![s].pause = "none"]
                   /\ UNCHANGED <<commit, clone, provider, base, link>>
       /\ UNCHANGED <<broken, files, running, drow, authorized, busy, dirty,
                      cycle, marking, touched, late, events>>

(* The push of a stack from its status indicator; it leaves the pause an   *)
(* operator has set.                                                       *)
PushGitStackAndResume(s) ==
    /\ cycle.at = "idle" /\ Spend
    /\ \/ /\ ExportEntry(files[s], clone.tree[s], base[s]) \in {"add", "modify"}
          /\ PushGitStack(s, row[s].pause)
       \/ /\ row' = ExportRows(row, clone.tree, base)
          /\ UNCHANGED <<commit, clone, provider, base, link>>
    /\ UNCHANGED <<broken, files, running, drow, authorized, busy, dirty,
                   cycle, marking, touched, late>>

(* The one-shot import of a stack from its status indicator: every stack   *)
(* is previewed, only this one may be imported, none is deployed.          *)
SyncGitStackNow(s) ==
    LET preview == ImportPreview(GitStacks, provider, files, base)
        rows == recordPreviewStackStatuses(row, preview)
        apply == /\ preview[s] \in {"add", "modify"}
                 /\ provider[s] \notin broken
                 /\ s \notin dirty
    IN /\ cycle.at = "idle" /\ Spend
       /\ Pull
       /\ \/ /\ apply
             /\ files' = [files EXCEPT ![s] = provider[s]]
             /\ base' = BaselineAfterTransfer(base, provider, files, {s})
             /\ link' = [link EXCEPT
                  !.deploy = IF s \in authorized THEN "pending" ELSE @,
                  !.sync = IF @ = "conflict" /\ Conflicts(preview) = {}
                           THEN "watching" ELSE @]
             /\ row' = SetSync(rows, IF dirty = {} THEN {s} ELSE {}, "up_to_date")
          \/ /\ ~apply
             /\ row' = rows
             /\ UNCHANGED <<files, base, link>>
       /\ UNCHANGED <<commit, provider, broken, running, drow, authorized, busy,
                      dirty, cycle, marking, touched, late>>

(* The reports of finished runs are forgotten; the next check scans.       *)
ResetBindingAutomationState ==
    /\ cycle.at = "idle" /\ Spend
    /\ row' = [s \in GitStacks |->
                 IF row[s].deploy \in Unsuccessful
                 THEN [row[s] EXCEPT !.deploy = "idle"] ELSE row[s]]
    /\ link' = [link EXCEPT !.sync = "idle", !.deletion = FALSE,
                  !.last = NoCommit, !.deploy = "watching"]
    /\ UNCHANGED <<commit, provider, broken, clone, files, base, running, drow,
                   authorized, busy, dirty, cycle, marking, touched, late>>

MarkInterruptedDeployments(rows) ==
    [s \in GitStacks |->
        IF rows[s].state \in terminalDeploymentStates \cup {"none"} THEN rows[s]
        ELSE [rows[s] EXCEPT !.state = "failed"]]

(* Mutant of ClearInterruptedStackDeployStates: the status rows are left.  *)
DeployStatesLeft(rows) == rows

ClearInterruptedStackDeployStates(rows) ==
    [s \in GitStacks |->
        IF rows[s].deploy \in terminalStackDeployStates THEN rows[s]
        ELSE [rows[s] EXCEPT !.deploy = "failed"]]

ClearStaleAutoSyncBlocks(lnk) ==
    IF lnk.sync \in {"blocked", "conflict"} /\ ~lnk.deletion
    THEN [lnk EXCEPT !.last = NoCommit] ELSE lnk

(* The process stops and RecoverInterruptedOperations runs at its start.   *)
(* A deployment it was in may have changed containers, and a rollback may  *)
(* have restored the files without the baseline.                           *)
RecoverInterruptedOperations ==
    /\ Spend
    /\ \/ \E s \in cycle.now :
            /\ \E content \in {running[s], files[s]} :
                 running' = [running EXCEPT ![s] = content]
            /\ \/ UNCHANGED files
               \/ /\ cycle.at = "restore"
                  /\ files' = [files EXCEPT ![s] = cycle.before[s]]
       \/ cycle.now = {} /\ UNCHANGED <<running, files>>
    /\ drow' = MarkInterruptedDeployments(drow)
    /\ row' = ClearInterruptedStackDeployStates(row)
    /\ link' = ClearStaleAutoSyncBlocks(link)
    /\ cycle' = Idle
    /\ busy' = {} /\ dirty' = {}
    /\ marking' = [s \in GitStacks |-> "none"]
    /\ UNCHANGED <<commit, provider, broken, clone, base, authorized, touched, late>>

AutoNext ==
    \/ RunBindingAutoSync \/ RunBindingAutoSyncNow
    \/ ImportStacks \/ FinishImport \/ CloseCycle
    \/ ResetBindingAutomationState \/ RecoverInterruptedOperations
    \/ \E s \in GitStacks :
         \/ DeferStack(s) \/ StartDeployment(s)
         \/ WriteStackFile(s)
         \/ DeploymentSucceeds(s) \/ DeploymentFails(s)
         \/ CompareForRollback(s) \/ DeploymentRollsBack(s)
         \/ PushToProvider(s) \/ SaveStackFile(s) \/ MarkLocalChange(s)
         \/ ChangeEditor(s) \/ ChangeLock(s)
         \/ SetGitStackAutomationPause(s) \/ ResumeGitStackAutomation(s)
         \/ PushGitStackAndResume(s) \/ SyncGitStackNow(s)

AutoSpec == AutoInit /\ [][AutoNext]_autoVars
-----------------------------------------------------------------------------
AutoTypeOK ==
    /\ commit \in 0 .. MaxCommits /\ events \in 0 .. MaxEvents
    /\ {provider, files, base, running, clone.tree}
         \subseteq [GitStacks -> Contents \cup {Absent}]
    /\ broken \subseteq Contents
    /\ clone.head \in 0 .. commit
    /\ \A s \in GitStacks :
         /\ row[s].sync \in SyncStates
         /\ row[s].deploy \in terminalStackDeployStates \cup {"provisioning"}
         /\ row[s].pause \in {"none", "manual"}
         /\ drow[s].state \in terminalDeploymentStates \cup {"none", "validating"}
         /\ drow[s].commit \in NoCommit .. commit
    /\ link.sync \in {"idle", "watching", "syncing", "up_to_date", "partial",
                      "blocked", "conflict", "error"}
    /\ link.last \in NoCommit .. commit
    /\ link.deploy \in {"watching", "pending", "success", "partial", "failed"}
    /\ cycle.at \in {"idle", "import", "write", "deploy", "restore", "close"}
    /\ {authorized, busy, dirty, touched, late, cycle.held, cycle.wrote,
        cycle.unwritten, cycle.todo, cycle.now, cycle.edited, cycle.invalid}
         \subseteq SUBSET GitStacks
    /\ cycle.out \in [GitStacks -> terminalDeploymentStates \cup {"none", "deferred"}]
    /\ marking \in [GitStacks -> {"none", "edit", "delete"}]

(* A cycle overwrites a file of a stack only while it holds what was last  *)
(* synchronized: an edit or a deletion made in Dockman is not lost, not to *)
(* the rollback of a failed deployment either, unless it was made after    *)
(* the import or the rollback had compared that file.                      *)
NoEditLost ==
    [][cycle' # cycle =>
         \A s \in GitStacks :
            files'[s] # files[s] => files[s] = base[s] \/ s \in late]_autoVars

(* A deployment that is reported as going on is one that is going on: when *)
(* no cycle is at it, after a stop of the process too, no Deployment row   *)
(* and no status row shows an unfinished stage.                            *)
InFlightIsRunning ==
    \A s \in GitStacks :
        \/ drow[s].state = "validating"
        \/ row[s].deploy \notin terminalStackDeployStates
        => s \in cycle.now

(* A conflict or a local deletion that awaits the operator is not painted  *)
(* green by a cycle: the row turns up_to_date only when the two sides no   *)
(* longer disagree, or when the stack was changed by hand since the cycle  *)
(* began, or before and MarkLocalChange had not run yet.                   *)
DecisionKept ==
    [][cycle' # cycle \/ link' # link =>
         \A s \in GitStacks \ touched' :
            /\ row[s].sync \in {"conflict", "locally_deleted"}
            /\ row'[s].sync = "up_to_date"
            => ImportEntry(provider'[s], files'[s], base'[s])
                 \notin {"conflict", "restore"}]_autoVars
=============================================================================
