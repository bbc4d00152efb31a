---------------------------- MODULE GitRecovery ----------------------------
(***************************************************************************)
(* Backups, their restoration, and the rollback of a stack to a commit     *)
(* (gitsync/backup.go, backup_restore.go, commit_rollback.go).             *)
(*                                                                         *)
(* One stack with two files.  Every recovery follows the same path under   *)
(* the automation lock and the repository lock: the preview the operator   *)
(* saw is computed again, a safety backup is registered (and the oldest    *)
(* backups pruned), the stack is paused, and the files are written one by  *)
(* one.  The host goes on writing, the operator may delete backups, and    *)
(* the process may stop anywhere.  Backups are numbered by creation.       *)
(***************************************************************************)
EXTENDS GitPreview

CONSTANTS
    Retention,      \* gitBackupRetention
    MaxBackups,     \* bound: backups ever created
    MaxRecSteps     \* bound: outside events

ASSUME GitRecoveryAssumption ==
    Retention \in Nat \ {0} /\ MaxBackups \in Nat /\ MaxRecSteps \in Nat

VARIABLES
    rHost,      \* content of the files on the host
    rGit,       \* content at the tip of the branch
    rCommits,   \* trees of the commits that can be reached
    rBase,      \* baseline
    rRows,      \* registered backups
    rArchives,  \* archives on disk
    rManifest,  \* what each backup recorded: [before, after, files]
    rExpired,   \* rows past their expiry
    rPaused,    \* automation of the stack is paused for recovery
    rDirty,     \* the stack has an unsaved editor
    rStatus,    \* compact status of the stack
    rTemp,      \* temporary files of unfinished restores: <<backup, file>>
    rOp,        \* the recovery in progress
    rTouched,   \* history: files the host wrote since the safety backup
    rDropped,   \* history: backups the operator or their age removed
    rSteps

recVars == <<rHost, rGit, rCommits, rBase, rRows, rArchives, rManifest, rExpired,
             rPaused, rDirty, rStatus, rTemp, rOp, rTouched, rDropped, rSteps>>

RFiles == {"compose", "env"}
RContents == 0..2
Torn == 3           \* a file whose rewriting in place was cut short
RTrees == [RFiles -> RContents]
Uniform(c) == [f \in RFiles |-> c]
NoManifest == [before |-> Uniform(0), after |-> Uniform(0), files |-> {}]
NoRecovery == [kind |-> "none", step |-> "none", source |-> 0, safety |-> 0,
               desired |-> Uniform(0), todo |-> {}]

RecInit ==
    /\ rHost = Uniform(1) /\ rGit = rHost /\ rBase = rHost
    /\ rCommits = {rHost, [rHost EXCEPT !["env"] = Absent]}
    /\ rRows = {} /\ rArchives = {} /\ rExpired = {}
    /\ rManifest = [b \in 1..MaxBackups |-> NoManifest]
    /\ rPaused = FALSE /\ rDirty = FALSE /\ rStatus = "up_to_date"
    /\ rTemp = {} /\ rOp = NoRecovery
    /\ rTouched = {} /\ rDropped = {} /\ rSteps = 0

RecAct == rSteps < MaxRecSteps /\ rSteps' = rSteps + 1
Recovering == rOp.kind # "none"
FreshRun == Cardinality({b \in 1..MaxBackups : rManifest[b] # NoManifest}) + 1
-----------------------------------------------------------------------------
(* Backups.                                                                *)

Newer(b, rows) == {c \in rows : c > b}

(* Mutant of pruneManagedBackups: the oldest are counted first.            *)
PruneFromOldest(rows, protected) ==
    {b \in rows : b \in protected \/ Cardinality({c \in rows : c < b}) < Retention}

(* Mutant of pruneManagedBackups: no backup is protected.                  *)
PruneUnprotected(rows, protected) ==
    {b \in rows : b \notin rExpired /\ Cardinality(Newer(b, rows)) < Retention}

(* The newest are kept up to the retention, expired ones are not; the one  *)
(* that is being restored is kept and counted in its place.                *)
pruneManagedBackups(rows, protected) ==
    {b \in rows :
       \/ b \in protected
       \/ /\ b \notin rExpired
          /\ Cardinality({c \in Newer(b, rows) : c \in protected \/ c \notin rExpired})
               < Retention}

(* A backup of the files that are about to change, each checked against    *)
(* the content that was hashed.                                            *)
backupChangedFiles(desired, files, protected) ==
    /\ FreshRun <= MaxBackups
    /\ rManifest' = [rManifest EXCEPT ![FreshRun] =
                       [before |-> rHost, after |-> desired,
                        files |-> {f \in files : desired[f] # rHost[f]}]]
    /\ rRows' = pruneManagedBackups(rRows \cup {FreshRun}, protected)
    /\ rArchives' = (rArchives \cup {FreshRun}) \cap rRows'

(* A row goes after its archive; a missing archive is no obstacle.         *)
DeleteBackup(b) ==
    /\ RecAct /\ b \in rRows
    /\ rArchives' = rArchives \ {b}
    /\ rRows' = rRows \ {b}
    /\ rDropped' = rDropped \cup {b}
    /\ UNCHANGED <<rHost, rGit, rCommits, rBase, rManifest, rExpired, rPaused, rDirty,
                   rStatus, rTemp, rOp, rTouched>>

ExpireBackups(b) ==
    /\ RecAct /\ b \in rRows \ rExpired
    /\ rExpired' = rExpired \cup {b}
    /\ UNCHANGED <<rHost, rGit, rCommits, rBase, rRows, rArchives, rManifest, rPaused,
                   rDirty, rStatus, rTemp, rOp, rTouched, rDropped>>

pruneExpiredBackups ==
    /\ rRows \cap rExpired # {}
    /\ rArchives' = rArchives \ rExpired
    /\ rRows' = rRows \ rExpired
    /\ rDropped' = rDropped \cup (rRows \cap rExpired)
    /\ UNCHANGED <<rHost, rGit, rCommits, rBase, rManifest, rExpired, rPaused, rDirty,
                   rStatus, rTemp, rOp, rTouched, rSteps>>
-----------------------------------------------------------------------------
(* The world around a recovery.                                            *)

HostWritesRec(f, c) ==
    /\ RecAct /\ rHost[f] # c
    /\ rHost' = [rHost EXCEPT ![f] = c]
    /\ rTouched' = rTouched \cup {f}
    /\ UNCHANGED <<rGit, rCommits, rBase, rRows, rArchives, rManifest, rExpired,
                   rPaused, rDirty, rStatus, rTemp, rOp, rDropped>>

CommitToGit(tree) ==
    /\ RecAct /\ tree # rGit
    /\ rGit' = tree /\ rCommits' = rCommits \cup {tree}
    /\ UNCHANGED <<rHost, rBase, rRows, rArchives, rManifest, rExpired, rPaused,
                   rDirty, rStatus, rTemp, rOp, rTouched, rDropped>>

EditorOpens ==
    /\ RecAct /\ rDirty' = ~rDirty
    /\ UNCHANGED <<rHost, rGit, rCommits, rBase, rRows, rArchives, rManifest, rExpired,
                   rPaused, rStatus, rTemp, rOp, rTouched, rDropped>>

(* An automatic import, with its backup; never of a paused stack.          *)
RecoveryImport ==
    LET preview == ImportPreview(RFiles, rGit, rHost, rBase)
        files == OfKind(preview, {"add", "modify"})
    IN /\ ~Recovering /\ ~rPaused
       /\ HeldBackComposeStacks(preview) = {} /\ files # {}
       /\ backupChangedFiles(rGit, files, {})
       /\ rHost' = [f \in RFiles |-> IF f \in files THEN rGit[f] ELSE rHost[f]]
       /\ rBase' = BaselineAfterTransfer(rBase, rGit, rHost, files)
       /\ rStatus' = "up_to_date"
       /\ UNCHANGED <<rGit, rCommits, rExpired, rPaused, rDirty, rTemp, rOp, rTouched,
                      rDropped, rSteps>>

ResumeStack ==
    /\ RecAct /\ ~Recovering /\ rPaused
    /\ rPaused' = FALSE
    /\ UNCHANGED <<rHost, rGit, rCommits, rBase, rRows, rArchives, rManifest, rExpired,
                   rDirty, rStatus, rTemp, rOp, rTouched, rDropped>>
-----------------------------------------------------------------------------
(* What a restore would do with a file: put the content of before back,    *)
(* remove a file the backed up operation had created, or nothing because   *)
(* the file changed since.                                                 *)
PreviewBackupRestore(b, f) ==
    LET before == rManifest[b].before[f]
        after == rManifest[b].after[f]
    IN IF rHost[f] = before THEN "noop"
       ELSE IF rHost[f] # after THEN "conflict"
       ELSE IF before # Absent THEN "restore" ELSE "remove"

(* What a rollback to a commit would do: the files of the stack become the *)
(* files of the commit.                                                    *)
buildCommitRollbackPreview(tree, f) ==
    IF tree[f] = rHost[f] THEN "noop"
    ELSE IF tree[f] # Absent THEN "restore" ELSE "remove"

Acts(actions) == OfKind(actions, {"restore", "remove"})

StartRecovery(kind, source, desired, files) ==
    /\ ~Recovering /\ files # {} /\ ~rDirty
    /\ rOp' = [kind |-> kind, step |-> "backup", source |-> source, safety |-> 0,
               desired |-> desired, todo |-> files]
    /\ rTouched' = {}
    /\ UNCHANGED <<rHost, rGit, rCommits, rBase, rRows, rArchives, rManifest, rExpired,
                   rPaused, rDirty, rStatus, rTemp, rDropped>>

(* The operator selects among the files the preview allows; both locks are *)
(* taken and the preview must come out the same.                           *)
RestoreBackup(b, files) ==
    /\ RecAct /\ b \in rRows \cap rArchives
    /\ files \subseteq Acts([f \in rManifest[b].files |-> PreviewBackupRestore(b, f)])
    /\ StartRecovery("restore", b, rManifest[b].before, files)

ApplyCommitRollback(tree, files) ==
    /\ RecAct
    /\ files \subseteq Acts([f \in RFiles |-> buildCommitRollbackPreview(tree, f)])
    /\ StartRecovery("rollback", 0, tree, files)

(* The safety backup, which protects the one that is being restored.       *)
SafetyBackup ==
    /\ rOp.step = "backup"
    /\ IF rTouched \cap rOp.todo # {}
       THEN rOp' = NoRecovery /\ UNCHANGED <<rRows, rArchives, rManifest, rTouched>>
       ELSE /\ backupChangedFiles(rOp.desired, rOp.todo,
                                  IF rOp.kind = "restore" THEN {rOp.source} ELSE {})
            /\ rOp' = [rOp EXCEPT !.step = "pause", !.safety = FreshRun]
            /\ rTouched' = {}
    /\ UNCHANGED <<rHost, rGit, rCommits, rBase, rExpired, rPaused, rDirty, rStatus,
                   rTemp, rDropped, rSteps>>

(* Before the first write.                                                 *)
PauseForRecovery ==
    /\ rOp.step = "pause"
    /\ rPaused' = TRUE
    /\ rOp' = IF rOp.kind = "restore" /\ rOp.source \notin rArchives
              THEN NoRecovery ELSE [rOp EXCEPT !.step = "write"]
    /\ UNCHANGED <<rHost, rGit, rCommits, rBase, rRows, rArchives, rManifest, rExpired,
                   rDirty, rStatus, rTemp, rTouched, rDropped, rSteps>>

Removes(f) == rOp.desired[f] = Absent

(* A temporary file of a restore has the name of its backup and must not   *)
(* exist yet.                                                              *)
applyBackupArchive(f) ==
    /\ rOp.kind = "restore" /\ rOp.step = "write" /\ f \in rOp.todo /\ ~Removes(f)
    /\ <<rOp.source, f>> \notin rTemp
    /\ rTemp' = rTemp \cup {<<rOp.source, f>>}
    /\ rOp' = [rOp EXCEPT !.step = "rename"]
    /\ UNCHANGED <<rHost, rGit, rCommits, rBase, rRows, rArchives, rManifest, rExpired,
                   rPaused, rDirty, rStatus, rTouched, rDropped, rSteps>>

RenameRestored(f) ==
    /\ rOp.step = "rename" /\ f \in rOp.todo /\ <<rOp.source, f>> \in rTemp
    /\ rHost' = [rHost EXCEPT ![f] = rOp.desired[f]]
    /\ rTemp' = rTemp \ {<<rOp.source, f>>}
    /\ rOp' = [rOp EXCEPT !.step = "write", !.todo = @ \ {f}]
    /\ UNCHANGED <<rGit, rCommits, rBase, rRows, rArchives, rManifest, rExpired,
                   rPaused, rDirty, rStatus, rTouched, rDropped, rSteps>>

(* A rollback writes through a file of a new name and a rename, so no      *)
(* earlier stop stands in its way.                                         *)
writeStackFiles(f) ==
    /\ rOp.kind = "rollback" /\ rOp.step = "write" /\ f \in rOp.todo /\ ~Removes(f)
    /\ rHost' = [rHost EXCEPT ![f] = rOp.desired[f]]
    /\ rOp' = [rOp EXCEPT !.todo = @ \ {f}]
    /\ UNCHANGED <<rGit, rCommits, rBase, rRows, rArchives, rManifest, rExpired,
                   rPaused, rDirty, rStatus, rTemp, rTouched, rDropped, rSteps>>

(* Where the directory takes no new file an existing one is rewritten in   *)
(* place, which a stop may cut short.                                      *)
writeExistingStackFile(f) ==
    /\ rOp.kind = "rollback" /\ rOp.step = "write" /\ f \in rOp.todo /\ ~Removes(f)
    /\ rHost[f] \notin {Absent, Torn}
    /\ rHost' = [rHost EXCEPT ![f] = Torn]
    /\ UNCHANGED <<rGit, rCommits, rBase, rRows, rArchives, rManifest, rExpired,
                   rPaused, rDirty, rStatus, rTemp, rOp, rTouched, rDropped, rSteps>>

(* Removals come after every file was restored.                            *)
RemoveRecovered(f) ==
    /\ rOp.step = "write" /\ f \in rOp.todo /\ \A g \in rOp.todo : Removes(g)
    /\ rHost' = [rHost EXCEPT ![f] = Absent]
    /\ rOp' = [rOp EXCEPT !.todo = @ \ {f}]
    /\ UNCHANGED <<rGit, rCommits, rBase, rRows, rArchives, rManifest, rExpired,
                   rPaused, rDirty, rStatus, rTemp, rTouched, rDropped, rSteps>>

RecordRecovery ==
    /\ rOp.step = "write" /\ rOp.todo = {}
    /\ rStatus' = IF rOp.kind = "rollback" /\ rHost["compose"] = Absent
                  THEN "local_deleted" ELSE "local_changes"
    /\ rOp' = NoRecovery
    /\ UNCHANGED <<rHost, rGit, rCommits, rBase, rRows, rArchives, rManifest, rExpired,
                   rPaused, rDirty, rTemp, rTouched, rDropped, rSteps>>

(* A write fails: what was written stays, a temporary file is removed.     *)
RecoveryFails ==
    /\ rOp.step \in {"write", "rename"} /\ rOp.todo # {}
    /\ rTemp' = IF rOp.step = "rename"
                THEN {t \in rTemp : t[1] # rOp.source} ELSE rTemp
    /\ rOp' = NoRecovery
    /\ UNCHANGED <<rHost, rGit, rCommits, rBase, rRows, rArchives, rManifest, rExpired,
                   rPaused, rDirty, rStatus, rTouched, rDropped, rSteps>>

StopDuringRecovery ==
    /\ RecAct /\ Recovering
    /\ rOp' = NoRecovery
    /\ UNCHANGED <<rHost, rGit, rCommits, rBase, rRows, rArchives, rManifest, rExpired,
                   rPaused, rDirty, rStatus, rTemp, rTouched, rDropped>>

RecNext ==
    \/ \E b \in 1..MaxBackups : DeleteBackup(b) \/ ExpireBackups(b)
    \/ \E f \in RFiles, c \in RContents : HostWritesRec(f, c)
    \/ \E tree \in {Uniform(2), [rGit EXCEPT !["env"] = Absent]} : CommitToGit(tree)
    \/ \E b \in rRows, files \in SUBSET RFiles : RestoreBackup(b, files)
    \/ \E tree \in rCommits, files \in SUBSET RFiles : ApplyCommitRollback(tree, files)
    \/ \E f \in RFiles : \/ applyBackupArchive(f) \/ RenameRestored(f)
                         \/ writeStackFiles(f) \/ writeExistingStackFile(f)
                         \/ RemoveRecovered(f)
    \/ pruneExpiredBackups \/ EditorOpens \/ RecoveryImport \/ ResumeStack
    \/ SafetyBackup \/ PauseForRecovery \/ RecordRecovery \/ RecoveryFails
    \/ StopDuringRecovery

RecSpec == RecInit /\ [][RecNext]_recVars
-----------------------------------------------------------------------------
RecTypeOK ==
    /\ rHost \in [RFiles -> RContents \cup {Torn}] /\ rGit \in RTrees
    /\ rRows \cup rArchives \cup rExpired \cup rDropped \subseteq 1..MaxBackups
    /\ rRows \subseteq rArchives
    /\ Cardinality(rRows) <= Retention + 1
    /\ {rPaused, rDirty} \subseteq BOOLEAN
    /\ rOp.todo \subseteq RFiles

(* What a recovery overwrites or removes can be brought back: the safety   *)
(* backup holds the content, and its own preview would offer the way back. *)
(* The exceptions are a file the host wrote after the backup and a backup  *)
(* the operator removed meanwhile.                                         *)
RecoveryUndoable ==
    [][rHost' # rHost => \A f \in RFiles \ rTouched :
         rOp.step \in {"write", "rename"} /\ rOp'.todo = rOp.todo \ {f} /\ f \in rOp.todo
           /\ rHost'[f] # rHost[f] /\ rOp.safety \notin rDropped
         => /\ rOp.safety \in rRows \cap rArchives
            /\ f \in rManifest[rOp.safety].files
            /\ rHost[f] \in {rManifest[rOp.safety].before[f], Torn}
            /\ rHost'[f] = rManifest[rOp.safety].after[f]]_recVars

(* The safety backup of a restore never pushes out the backup it is about  *)
(* to restore, however full the retention is: only the operator or its age *)
(* can remove it before it is read.                                        *)
SourceKept ==
    rOp.kind = "restore" /\ rOp.step \in {"pause", "write", "rename"} =>
        rOp.source \in rArchives \cup rDropped
=============================================================================
