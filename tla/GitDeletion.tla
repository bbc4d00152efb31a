---------------------------- MODULE GitDeletion ----------------------------
(***************************************************************************)
(* Decisions about deletions (gitsync/local_deletion.go, orphan.go,        *)
(* folder_deletion.go).  Nothing is deleted because the other side lost    *)
(* it: the operator decides, and between the checks of a decision and its  *)
(* last write the host, other committers and the process itself go on.     *)
(*                                                                         *)
(* One linked stack in a directory of its own, with its Compose file and a *)
(* second file.  A decision holds the automation lock of the link, so one  *)
(* is in progress at a time.  Contents are numbers, Absent is 0.           *)
(***************************************************************************)
EXTENDS GitPreview

CONSTANT MaxDelSteps    \* bound: outside events and decisions

ASSUME GitDeletionAssumption == MaxDelSteps \in Nat

VARIABLES
    dHost, dGit,    \* content of each file in the stack and at the provider
    dBase,          \* baseline
    dCommit,        \* a commit the push of which failed, or NoDelCommit
    dSelected,      \* the stack is selected for synchronization
    dExcluded,      \* files an exclusion took out of the inventories
    dIncluded,      \* files an exact inclusion of the policy names
    dLinked,        \* the Folder Link exists
    dState,         \* its synchronization state
    dBackup,        \* contents of the registered orphan backup
    dBusy,          \* the stack has an unsaved editor or an action in progress
    dOp,            \* the decision in progress
    dTouched,       \* history: files the host wrote since the second snapshot
    dSteps

delVars == <<dHost, dGit, dBase, dCommit, dSelected, dExcluded, dIncluded, dLinked,
             dState, dBackup, dBusy, dOp, dTouched, dSteps>>

DFiles == {"compose", "data"}
DContents == 0..2
NoFiles == [f \in DFiles |-> Absent]
NoOp == [kind |-> "none", step |-> "none", tree |-> NoFiles, from |-> NoFiles,
         file |-> "none"]
NoDelCommit == [tree |-> NoFiles, from |-> NoFiles, made |-> FALSE]

InScope == IF dSelected THEN DFiles \ dExcluded ELSE {}
Exports(scope) == ExportPreview(scope, dHost, dGit, dBase)

(* The state of the link after a decision: what Git still brings, then     *)
(* what the host still brings.                                             *)
settleBindingAfterOrphanDecision(scope, host, git, base) ==
    LET remote == ImportPreview(scope, git, host, base)
        local == ExportPreview(scope, host, git, base)
    IN IF Conflicts(remote) # {} THEN "conflict"
       ELSE IF OfKind(remote, {"deleted_on_git"}) # {} THEN "blocked"
       ELSE IF OfKind(remote, {"add", "restore", "modify"}) # {} THEN "watching"
       ELSE IF Conflicts(local) # {} THEN "conflict"
       ELSE IF OfKind(local, {"add", "modify"}) # {} THEN "watching" ELSE "up_to_date"

DelInit ==
    /\ dHost = [f \in DFiles |-> 1] /\ dGit = dHost /\ dBase = dHost
    /\ dCommit = NoDelCommit
    /\ dSelected = TRUE /\ dExcluded = {} /\ dIncluded = {"data"} /\ dLinked = TRUE
    /\ dState = "up_to_date"
    /\ dBackup = NoFiles /\ dBusy = FALSE
    /\ dOp = NoOp /\ dTouched = {} /\ dSteps = 0

DelAct == dSteps < MaxDelSteps /\ dSteps' = dSteps + 1
DelIdle == dOp.kind = "none" /\ dLinked

(* PullRepository refuses a branch that is ahead.                          *)
Pulled == ~dCommit.made

(* The host writes or deletes a file, and the files service removes the    *)
(* stack or, once nothing links it, the root above it.                     *)
HostWrites(f, c) ==
    /\ DelAct /\ dHost[f] # c
    /\ dHost' = [dHost EXCEPT ![f] = c]
    /\ dTouched' = dTouched \cup {f}
    /\ UNCHANGED <<dGit, dBase, dCommit, dSelected, dExcluded, dIncluded, dLinked,
                   dState, dBackup, dBusy, dOp>>

GuardFileDeletion(path) == path = "root" => ~dLinked

FilesDelete(path) ==
    /\ DelAct /\ GuardFileDeletion(path) /\ dHost # NoFiles
    /\ dHost' = NoFiles
    /\ dTouched' = DFiles
    /\ UNCHANGED <<dGit, dBase, dCommit, dSelected, dExcluded, dIncluded, dLinked,
                   dState, dBackup, dBusy, dOp>>

OtherCommitter(tree) ==
    /\ DelAct /\ tree # dGit
    /\ dGit' = tree
    /\ UNCHANGED <<dHost, dBase, dCommit, dSelected, dExcluded, dIncluded, dLinked,
                   dState, dBackup, dBusy, dOp, dTouched>>

StackBusy ==
    /\ DelAct /\ dBusy' = ~dBusy
    /\ UNCHANGED <<dHost, dGit, dBase, dCommit, dSelected, dExcluded, dIncluded,
                   dLinked, dState, dBackup, dOp, dTouched>>
-----------------------------------------------------------------------------
(* A stack or a file that is gone from the host and still in Git.          *)

(* Restored by an import that refuses conflicts.                           *)
ResolveLocalStackDeletion ==
    LET preview == ImportPreview(InScope, dGit, dHost, dBase)
        paths == OfKind(preview, {"add", "restore", "modify"})
    IN /\ DelAct /\ DelIdle /\ dSelected
       /\ dHost["compose"] = Absent /\ Pulled
       /\ Conflicts(preview) = {} /\ paths # {}
       /\ dHost' = [f \in DFiles |-> IF f \in paths THEN dGit[f] ELSE dHost[f]]
       /\ dBase' = BaselineAfterTransfer(dBase, dGit, dHost, paths)
       /\ dState' = settleBindingAfterOrphanDecision(InScope, dHost', dGit, dBase')
       /\ UNCHANGED <<dGit, dCommit, dSelected, dExcluded, dIncluded, dLinked,
                      dBackup, dBusy, dOp, dTouched>>

deselectLocallyDeletedStack ==
    /\ DelAct /\ DelIdle /\ dSelected /\ dHost["compose"] = Absent
    /\ dSelected' = FALSE
    /\ dState' = settleBindingAfterOrphanDecision({}, dHost, dGit, dBase)
    /\ UNCHANGED <<dHost, dGit, dBase, dCommit, dExcluded, dIncluded, dLinked, dBackup,
                   dBusy, dOp, dTouched>>

(* One file: restore and exclude need the preview to show its deletion;    *)
(* the deletion from Git goes on when there is nothing left to delete.     *)
resolveLocallyDeletedFile(f, action) ==
    LET entry == Exports(InScope)[f]
    IN /\ DelAct /\ DelIdle /\ dSelected /\ f \in InScope /\ Pulled
       /\ \/ /\ action = "restore" /\ entry = "deleted_locally"
             /\ dHost' = [dHost EXCEPT ![f] = dGit[f]]
             /\ dState' = settleBindingAfterOrphanDecision(InScope, dHost', dGit, dBase)
             /\ UNCHANGED <<dExcluded, dOp>>
          \/ /\ action = "exclude" /\ entry = "deleted_locally" /\ f # "compose"
             /\ dExcluded' = dExcluded \cup {f}
             /\ dState' = settleBindingAfterOrphanDecision(InScope \ {f}, dHost, dGit, dBase)
             /\ UNCHANGED <<dHost, dOp>>
          \/ /\ action = "delete_git"
             /\ \/ entry = "deleted_locally"
                \/ entry = "unchanged" /\ dHost[f] = Absent
             /\ dOp' = [NoOp EXCEPT !.kind = "file", !.step = "check", !.file = f,
                                    !.from = dGit]
             /\ UNCHANGED <<dHost, dExcluded, dState>>
       /\ UNCHANGED <<dGit, dBase, dCommit, dSelected, dIncluded, dLinked, dBackup,
                      dBusy, dTouched>>

(* Mutant of Synchronized: a file without a baseline passes.               *)
SynchronizedOrNew(f) == dBase[f] = Absent \/ dGit[f] = dBase[f]

(* Git holds the content of the baseline.                                  *)
Synchronized(f) == dBase[f] # Absent /\ dGit[f] = dBase[f]

ForgetFile(f) ==
    /\ dBase' = [dBase EXCEPT ![f] = Absent]
    /\ dIncluded' = dIncluded \ {f}
    /\ dOp' = NoOp

(* Under the repository lock everything is looked at again: the branch,    *)
(* the host, the baseline and the content in Git.                          *)
deleteLocallyDeletedFileFromGit ==
    LET f == dOp.file
        refused == dOp.from # dGit \/ dHost[f] # Absent
    IN /\ dOp.kind = "file" /\ dOp.step = "check"
       /\ CASE refused -> dOp' = NoOp /\ UNCHANGED <<dBase, dIncluded, dState>>
            [] ~refused /\ dGit[f] = Absent ->
                 /\ ForgetFile(f)
                 /\ dState' = settleBindingAfterOrphanDecision(InScope, dHost, dGit, dBase')
            [] ~refused /\ dGit[f] # Absent /\ Synchronized(f) ->
                 /\ dOp' = [dOp EXCEPT !.step = "push", !.tree = [dGit EXCEPT ![f] = Absent]]
                 /\ UNCHANGED <<dBase, dIncluded, dState>>
            [] OTHER -> dOp' = NoOp /\ UNCHANGED <<dBase, dIncluded, dState>>
       /\ UNCHANGED <<dHost, dGit, dCommit, dSelected, dExcluded, dLinked, dBackup,
                      dBusy, dTouched, dSteps>>

(* The whole stack: its directory goes, excluded files included, and its   *)
(* Compose file is asked for a baseline but not for its content.           *)
deleteLocallyDeletedStackFromGit ==
    /\ DelAct /\ DelIdle /\ dSelected /\ dHost["compose"] = Absent /\ Pulled
    /\ dBase["compose"] # Absent /\ dGit["compose"] # Absent
    /\ dOp' = [NoOp EXCEPT !.kind = "stack", !.step = "push", !.from = dGit]
    /\ UNCHANGED <<dHost, dGit, dBase, dCommit, dSelected, dExcluded, dIncluded,
                   dLinked, dState, dBackup, dBusy, dTouched>>
-----------------------------------------------------------------------------
(* A stack that is gone from Git and still on the host.                    *)

Orphaned == /\ dSelected /\ Pulled
            /\ dHost["compose"] # Absent /\ dBase["compose"] # Absent
            /\ \A f \in InScope : dGit[f] = Absent

RestoreGitOrphan ==
    /\ DelAct /\ DelIdle /\ Orphaned
    /\ Conflicts(Exports(InScope)) = {}
    /\ dOp' = [NoOp EXCEPT !.kind = "restore", !.step = "push", !.from = dGit,
                           !.tree = [f \in DFiles |-> IF f \in InScope
                                                      THEN dHost[f] ELSE dGit[f]]]
    /\ UNCHANGED <<dHost, dGit, dBase, dCommit, dSelected, dExcluded, dIncluded,
                   dLinked, dState, dBackup, dBusy, dTouched>>

(* Removed: the repository stays locked; a snapshot, a backup of exactly   *)
(* that snapshot, a second snapshot, and only then the removal.            *)
ResolveGitOrphan ==
    /\ DelAct /\ DelIdle /\ Orphaned /\ ~dBusy
    /\ dOp' = [NoOp EXCEPT !.kind = "orphan", !.step = "backup", !.tree = dHost]
    /\ UNCHANGED <<dHost, dGit, dBase, dCommit, dSelected, dExcluded, dIncluded,
                   dLinked, dState, dBackup, dBusy, dTouched>>

(* A file that is not what was hashed fails the backup, which is removed.  *)
backupOrphanSnapshot ==
    /\ dOp.kind = "orphan" /\ dOp.step = "backup"
    /\ IF dHost = dOp.tree
       THEN dBackup' = dOp.tree /\ dOp' = [dOp EXCEPT !.step = "compare"]
       ELSE UNCHANGED dBackup /\ dOp' = NoOp
    /\ UNCHANGED <<dHost, dGit, dBase, dCommit, dSelected, dExcluded, dIncluded,
                   dLinked, dState, dBusy, dTouched, dSteps>>

(* Mutant of sameTransferSnapshot: only the paths are compared.            *)
SameTransferPaths(left, right) ==
    \A f \in DFiles : (left[f] = Absent) = (right[f] = Absent)

sameTransferSnapshot(left, right) == left = right

CompareSnapshots ==
    /\ dOp.kind = "orphan" /\ dOp.step = "compare"
    /\ dOp' = IF sameTransferSnapshot(dOp.tree, dHost) THEN [dOp EXCEPT !.step = "remove"] ELSE NoOp
    /\ dTouched' = {}
    /\ UNCHANGED <<dHost, dGit, dBase, dCommit, dSelected, dExcluded, dIncluded,
                   dLinked, dState, dBackup, dBusy, dSteps>>

RemoveLocalDirectory ==
    /\ dOp.step = "remove"
    /\ dHost' = NoFiles
    /\ dOp' = [dOp EXCEPT !.step = "forget"]
    /\ UNCHANGED <<dGit, dBase, dCommit, dSelected, dExcluded, dIncluded, dLinked,
                   dState, dBackup, dBusy, dTouched, dSteps>>

forgetOrphanedStack ==
    /\ dOp.kind = "orphan" /\ dOp.step = "forget"
    /\ dBase' = NoFiles /\ dSelected' = FALSE
    /\ dState' = settleBindingAfterOrphanDecision({}, dHost, dGit, dBase')
    /\ dOp' = NoOp
    /\ UNCHANGED <<dHost, dGit, dCommit, dExcluded, dIncluded, dLinked, dBackup,
                   dBusy, dTouched, dSteps>>
-----------------------------------------------------------------------------
(* The root of the link: Git kept as it is, brought up to date first, or   *)
(* emptied first; then the folder and the link go, backups included.       *)

inspectFolderLinkDeletion ==
    {f \in InScope : /\ dHost[f] # dGit[f]
                     /\ dHost[f] # dBase[f] /\ dGit[f] # dBase[f]}

DeleteFolderLinkRoot(action) ==
    LET changed == OfKind(Exports(InScope), {"add", "modify"})
        emptied == {f \in InScope : dGit[f] # Absent}
        written == CASE action = "sync_git" -> changed
                     [] action = "delete_git" -> emptied
                     [] OTHER -> {}
    IN /\ DelAct /\ DelIdle /\ Pulled
       /\ action = "sync_git" => inspectFolderLinkDeletion = {}
       /\ dOp' = [NoOp EXCEPT
                    !.kind = "folder", !.from = dGit,
                    !.step = IF written = {} THEN "remove" ELSE "push",
                    !.tree = [f \in DFiles |-> IF f \notin written THEN dGit[f]
                                ELSE IF action = "sync_git" THEN dHost[f] ELSE Absent]]
    /\ UNCHANGED <<dHost, dGit, dBase, dCommit, dSelected, dExcluded, dIncluded,
                   dLinked, dState, dBackup, dBusy, dTouched>>

deleteBindingLocked ==
    /\ dOp.kind = "folder" /\ dOp.step = "forget"
    /\ dLinked' = FALSE /\ dState' = "disabled"
    /\ dBase' = NoFiles /\ dBackup' = NoFiles
    /\ dOp' = NoOp
    /\ UNCHANGED <<dHost, dGit, dCommit, dSelected, dExcluded, dIncluded, dBusy,
                   dTouched, dSteps>>
-----------------------------------------------------------------------------
(* The push of a decision: a fast-forward or nothing.                      *)

PushDecision ==
    /\ dOp.step = "push" /\ dGit = dOp.from
    /\ dGit' = dOp.tree
    /\ CASE dOp.kind = "file" -> ForgetFile(dOp.file) /\ UNCHANGED dSelected
         [] dOp.kind = "stack" ->
              dBase' = NoFiles /\ dSelected' = FALSE /\ dOp' = NoOp /\ UNCHANGED dIncluded
         [] dOp.kind = "restore" ->
              /\ dBase' = [f \in DFiles |-> IF f \in InScope THEN dOp.tree[f] ELSE dBase[f]]
              /\ dOp' = NoOp /\ UNCHANGED <<dSelected, dIncluded>>
         [] OTHER ->
              /\ dOp' = [dOp EXCEPT !.step = "remove"]
              /\ UNCHANGED <<dBase, dSelected, dIncluded>>
    /\ dState' = IF dOp.kind = "folder" THEN dState
                 ELSE settleBindingAfterOrphanDecision(
                        IF dSelected' THEN InScope ELSE {}, dHost, dGit', dBase')
    /\ UNCHANGED <<dHost, dCommit, dExcluded, dLinked, dBackup, dBusy, dTouched, dSteps>>

(* Refused, timed out, or the process stops: the commit stays local.       *)
PushDecisionFails ==
    /\ dOp.step = "push"
    /\ dCommit' = [tree |-> dOp.tree, from |-> dOp.from, made |-> TRUE]
    /\ dOp' = NoOp
    /\ UNCHANGED <<dHost, dGit, dBase, dSelected, dExcluded, dIncluded, dLinked, dState,
                   dBackup, dBusy, dTouched, dSteps>>

StopDuringDecision ==
    /\ DelAct /\ dOp.kind # "none" /\ dOp.step # "push"
    /\ dOp' = NoOp
    /\ UNCHANGED <<dHost, dGit, dBase, dCommit, dSelected, dExcluded, dIncluded,
                   dLinked, dState, dBackup, dBusy, dTouched>>

(* The operator pushes the commit that stayed, or resets the branch.       *)
SettleBranch ==
    /\ dCommit.made /\ dOp.kind = "none"
    /\ dCommit' = NoDelCommit
    /\ \/ dGit = dCommit.from /\ dGit' = dCommit.tree
       \/ UNCHANGED dGit
    /\ UNCHANGED <<dHost, dBase, dSelected, dExcluded, dIncluded, dLinked, dState,
                   dBackup, dBusy, dOp, dTouched, dSteps>>

DelNext ==
    \/ \E f \in DFiles, c \in DContents : HostWrites(f, c)
    \/ \E path \in {"root", "stack"} : FilesDelete(path)
    \/ \E tree \in {NoFiles, [f \in DFiles |-> 2], [NoFiles EXCEPT !["data"] = 2]} :
         OtherCommitter(tree)
    \/ \E f \in DFiles, action \in {"restore", "exclude", "delete_git"} :
         resolveLocallyDeletedFile(f, action)
    \/ \E action \in {"preserve_git", "sync_git", "delete_git"} :
         DeleteFolderLinkRoot(action)
    \/ StackBusy \/ ResolveLocalStackDeletion \/ deselectLocallyDeletedStack
    \/ deleteLocallyDeletedFileFromGit \/ deleteLocallyDeletedStackFromGit
    \/ RestoreGitOrphan \/ ResolveGitOrphan \/ backupOrphanSnapshot
    \/ CompareSnapshots \/ RemoveLocalDirectory \/ forgetOrphanedStack
    \/ deleteBindingLocked \/ PushDecision \/ PushDecisionFails
    \/ StopDuringDecision \/ SettleBranch

DelSpec == DelInit /\ [][DelNext]_delVars
-----------------------------------------------------------------------------
DelTypeOK ==
    /\ {dHost, dGit, dBase, dBackup, dCommit.tree, dOp.tree} \subseteq [DFiles -> DContents]
    /\ {dSelected, dLinked, dBusy} \subseteq BOOLEAN
    /\ dExcluded \subseteq DFiles /\ dIncluded \subseteq DFiles
    /\ dState \in {"up_to_date", "watching", "blocked", "conflict", "disabled"}

(* The removal of an orphan never takes content that is not in its backup, *)
(* whatever the host wrote while the backup was made; only what it writes  *)
(* after the second snapshot is not seen.                                  *)
RemovedIsSaved ==
    dOp.kind = "orphan" /\ dHost # NoFiles /\ dHost' = NoFiles /\ dOp.step = "remove"
      /\ dOp'.step = "forget"
      => \A f \in DFiles \ dTouched : dBackup[f] = dHost[f]

(* A file a decision deletes from Git is the file both sides last agreed   *)
(* on, although Git, the host and the baseline may change between the      *)
(* preview the operator saw and the push.                                  *)
DeletedWasSynchronized ==
    dOp.kind = "file" /\ dGit' # dGit /\ dOp'.kind = "none" =>
      dGit[dOp.file] = dBase[dOp.file]

(* No deletion takes what nobody has kept (local_deletion.go, orphan.go).  *)
DeletionSafe == [][RemovedIsSaved /\ DeletedWasSynchronized]_delVars
=============================================================================
