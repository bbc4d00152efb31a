---------------------------- MODULE GitProvision ----------------------------
(***************************************************************************)
(* The provisioning transaction of a deployment (gitsync/provision.go,     *)
(* provision_backup.go, and its end in deployment.go).                     *)
(*                                                                         *)
(* A manifest with one operation of each kind, applied in this order: a    *)
(* directory to create, a path whose mode and owner are set, and a file to *)
(* remove.  Removed paths are staged beside the stack and purged only when *)
(* the deployment succeeded.  Containers and users write to the stack      *)
(* meanwhile, every operation may fail, also after it took effect (the     *)
(* filesystem may be that of a remote host), and the process may stop.     *)
(***************************************************************************)
EXTENDS Naturals, FiniteSets, SequencesExt

CONSTANT MaxProvSteps   \* bound: outside writes, runs and stops

ASSUME GitProvisionAssumption == MaxProvSteps \in Nat

VARIABLES
    vDir,       \* the directory: "absent", "empty" or "used"
    vMode,      \* mode of the path, 0 before and 1 as the manifest says
    vOwner,     \* owner of the path, likewise
    vFile,      \* content of the file to remove, 0 when absent
    vCompose,   \* the Compose file is in its place
    vStaged,    \* content in the staging directory, 0 when there is none
    vStaging,   \* this transaction has a staging directory
    vStale,     \* contents in staging directories of earlier transactions
    vSaved,     \* contents in registered backups
    vTx,        \* the transaction in progress
    vTouched,   \* history: paths written from outside since it began
    vRemoved,   \* history: contents removed as the backup had seen them
    vHidden,    \* history: what a call changed that then reported an error
    provSteps

provVars == <<vDir, vMode, vOwner, vFile, vCompose, vStaged, vStaging, vStale, vSaved, vTx,
              vTouched, vRemoved, vHidden, provSteps>>

Paths == {"dir", "path", "file"}
NoTx == [step |-> "none", created |-> FALSE, restoreMode |-> FALSE,
         restoreOwner |-> FALSE, staged |-> FALSE, target |-> <<>>,
         was |-> [dir |-> "absent", mode |-> 0, owner |-> 0, file |-> 0]]

ProvInit ==
    /\ vDir \in {"absent", "empty"} /\ vMode \in {0, 1} /\ vOwner \in {0, 1}
    /\ vFile \in {0, 1} /\ vCompose = TRUE
    /\ vStaged = 0 /\ vStaging = FALSE /\ vStale = {} /\ vSaved = {}
    /\ vTx = NoTx /\ vTouched = {} /\ vRemoved = {} /\ vHidden = {} /\ provSteps = 0

ProvAct == provSteps < MaxProvSteps /\ provSteps' = provSteps + 1
At(step) == vTx.step = step
Go(step) == vTx' = [vTx EXCEPT !.step = step]
Hide(what) == vHidden' = vHidden \cup {what}

(* Containers and users: a file in the directory, new metadata of the      *)
(* path, new content of the file.                                          *)
OutsideWrite(p) ==
    /\ ProvAct
    /\ \/ p = "dir" /\ vDir = "empty" /\ vDir' = "used" /\ UNCHANGED <<vMode,
                                                                       vFile>>
       \/ p = "path" /\ vMode' = 1 - vMode /\ UNCHANGED <<vDir, vFile>>
       \/ p = "file" /\ vFile' = 2 /\ vFile # 2 /\ UNCHANGED <<vDir, vMode>>
    /\ vTouched' = vTouched \cup {p}
    /\ UNCHANGED <<vCompose, vOwner, vStaged, vStaging, vStale, vSaved, vTx,
                   vRemoved, vHidden>>

(* What a manifest of a commit may ask to remove.  A manifest that is not  *)
(* there, is there twice, is too large or does not parse strictly starts   *)
(* no transaction.                                                         *)
loadProvisionManifest ==
    [path : {<<"f">>, <<"app">>, <<"app", "compose">>, <<"data", "x">>, <<"link">>},
     type : {"file", "directory"}, recursive : BOOLEAN]

Covers(p, q) == IsPrefix(p, q)
NodeType(p) == CASE p \in {<<"app">>, <<"data">>} -> "directory"
                 [] p = <<"link">> -> "link"
                 [] OTHER -> "file"

(* Removals overlap no other operation, and only directories go            *)
(* recursively.                                                            *)
normalizeProvisionManifest(m) ==
    /\ m.recursive => m.type = "directory"
    /\ \A p \in {<<"data">>, <<"p">>} : ~Covers(m.path, p) /\ ~Covers(p, m.path)

validateProtectedProvisionRemovals(m) ==
    \A p \in {<<"app", "compose">>, <<"provision">>} : ~Covers(m.path, p)

(* A path that is missing is nothing to remove; links are refused.         *)
validateProvisionPath(p) == NodeType(p) # "link"
validateProvisionRemoval(m) ==
    \/ m.path = <<"f">> /\ vFile = 0
    \/ /\ validateProvisionPath(m.path)
       /\ NodeType(m.path) = m.type
       /\ m.type = "directory" => m.recursive

(* Everything is validated before anything changes.                        *)
applyStackProvisioning ==
    /\ ProvAct /\ At("none")
    /\ \E m \in loadProvisionManifest :
          /\ normalizeProvisionManifest(m)
          /\ validateProtectedProvisionRemovals(m)
          /\ validateProvisionRemoval(m)
          /\ vTx' = [NoTx EXCEPT !.step = "backup", !.target = m.path,
                       !.was = [dir |-> vDir, mode |-> vMode, owner |-> vOwner,
                                file |-> vFile]]
    /\ vTouched' = {} /\ vHidden' = {}
    /\ UNCHANGED <<vDir, vMode, vOwner, vFile, vCompose, vStaged, vStaging, vStale,
                   vSaved, vRemoved>>

(* Mutant of backupProvisionRemovals: a backup that fails is only logged.  *)
BackupOptional ==
    /\ At("backup")
    /\ vTouched' = vTouched \ {"file"}
    /\ vTx' = [vTx EXCEPT !.step = "dir", !.was.file = vFile]
    /\ \/ vSaved' = IF vFile = 0 THEN vSaved ELSE vSaved \cup {vFile}
       \/ UNCHANGED vSaved
    /\ UNCHANGED <<vCompose, vDir, vMode, vOwner, vFile, vStaged, vStaging, vStale,
                   vRemoved, vHidden, provSteps>>

(* Mandatory before the first change; nothing to remove needs none.        *)
backupProvisionRemovals ==
    /\ At("backup")
    /\ \/ /\ vSaved' = IF vFile = 0 THEN vSaved ELSE vSaved \cup {vFile}
          /\ vTouched' = vTouched \ {"file"}
          /\ vTx' = [vTx EXCEPT !.step = "dir", !.was.file = vFile]
       \/ vTx' = NoTx /\ UNCHANGED <<vSaved, vTouched>>
    /\ UNCHANGED <<vCompose, vDir, vMode, vOwner, vFile, vStaged, vStaging, vStale,
                   vRemoved, vHidden, provSteps>>

(* The directory is remembered once it has been made: the inspection that  *)
(* follows may fail then, and making it may fail half way before.          *)
CreateDirectory ==
    /\ At("dir")
    /\ \/ /\ vDir' = IF vDir = "absent" THEN "empty" ELSE vDir
          /\ \E next \in {"chmod", "undo"} :
                vTx' = [vTx EXCEPT !.step = next, !.created = (vDir = "absent")]
          /\ UNCHANGED vHidden
       \/ Go("undo") /\ UNCHANGED <<vDir, vHidden>>
       \/ vDir = "absent" /\ vDir' = "empty" /\ Hide("dir") /\ Go("undo")
    /\ UNCHANGED <<vCompose, vMode, vOwner, vFile, vStaged, vStaging, vStale,
                   vSaved, vTouched, vRemoved, provSteps>>

(* Mutant of Chmod: the mode before is not remembered.                     *)
ChmodForgotten ==
    /\ At("chmod")
    /\ vMode' = 1 /\ Go("chown")
    /\ UNCHANGED <<vCompose, vDir, vOwner, vFile, vStaged, vStaging, vStale, vSaved,
                   vTouched, vRemoved, vHidden, provSteps>>

(* Mode first, then owner; each is remembered only if it really changed.   *)
(* A mode that is in place in spite of an error is good enough to go on    *)
(* with, and is not remembered.                                            *)
Chmod ==
    /\ At("chmod")
    /\ \/ /\ vMode' = 1
          /\ vTx' = [vTx EXCEPT !.step = "chown", !.restoreMode = (vMode # 1),
                                !.was.mode = vMode]
          /\ UNCHANGED vHidden
       \/ vMode # 1 /\ Go("undo") /\ UNCHANGED <<vMode, vHidden>>
       \/ /\ vMode # 1 /\ vMode' = 1 /\ Hide("mode")
          /\ Go("chown") \/ Go("undo")
    /\ UNCHANGED <<vCompose, vDir, vOwner, vFile, vStaged, vStaging, vStale, vSaved,
                   vTouched, vRemoved, provSteps>>

Chown ==
    /\ At("chown")
    /\ \/ /\ vOwner' = 1
          /\ vTx' = [vTx EXCEPT !.step = "stage", !.restoreOwner = (vOwner # 1)]
          /\ UNCHANGED vHidden
       \/ vOwner # 1 /\ Go("undo") /\ UNCHANGED <<vOwner, vHidden>>
       \/ vOwner # 1 /\ vOwner' = 1 /\ Hide("owner") /\ Go("undo")
    /\ UNCHANGED <<vCompose, vDir, vMode, vFile, vStaged, vStaging, vStale, vSaved,
                   vTouched, vRemoved, provSteps>>

(* A move that reports an error is not remembered either.                  *)
StageRemoval ==
    /\ At("stage")
    /\ \/ /\ vFile = 0 /\ Go("deploy")
          /\ UNCHANGED <<vFile, vCompose, vStaged, vStaging, vRemoved, vHidden>>
       \/ /\ vFile # 0
          /\ vStaged' = vFile /\ vStaging' = TRUE /\ vFile' = 0
          /\ vCompose' = (vCompose /\ ~Covers(vTx.target, <<"app", "compose">>))
          /\ vRemoved' = IF "file" \in vTouched THEN vRemoved ELSE vRemoved \cup {vFile}
          /\ \/ /\ vTx' = [vTx EXCEPT !.step = "deploy", !.staged = TRUE]
                /\ UNCHANGED vHidden
             \/ Go("undo") /\ Hide("file")
       \/ /\ vFile # 0 /\ vStaging' = TRUE
          /\ Go("undo") /\ UNCHANGED <<vFile, vCompose, vStaged, vRemoved, vHidden>>
    /\ UNCHANGED <<vDir, vMode, vOwner, vStale, vSaved, vTouched, provSteps>>

(* Validation, pull, dry run and deployment: a failure is undone when the  *)
(* link asks for rollbacks, and kept otherwise.                            *)
DeployProvisioned(rollback) ==
    /\ At("deploy")
    /\ \/ Go("commit")
       \/ rollback /\ Go("undo")
    /\ UNCHANGED <<vCompose, vDir, vMode, vOwner, vFile, vStaged, vStaging, vStale,
                   vSaved, vTouched, vRemoved, vHidden, provSteps>>

(* A transaction that ends leaves what it still holds in its own staging   *)
(* directory, under a name of its own.                                     *)
EndTransaction ==
    /\ vTx' = NoTx
    /\ vStaged' = 0 /\ vStaging' = FALSE
    /\ vStale' = vStale \cup ({vStaged} \ {0})

CommitProvisioning ==
    /\ At("commit")
    /\ \/ vTx' = NoTx /\ vStaging' = FALSE /\ vStaged' = 0 /\ UNCHANGED vStale
       \/ vStaging /\ EndTransaction
    /\ UNCHANGED <<vCompose, vDir, vMode, vOwner, vFile, vSaved, vTouched, vRemoved,
                   vHidden, provSteps>>

(* Owner and mode are put back independently of each other, and a failure  *)
(* does not keep the rest of the rollback from running.                    *)
RollbackMetadata ==
    /\ At("undo")
    /\ \E ownerBack, modeBack \in BOOLEAN :
          /\ vOwner' = IF vTx.restoreOwner /\ ownerBack THEN vTx.was.owner ELSE vOwner
          /\ vMode' = IF vTx.restoreMode /\ modeBack THEN vTx.was.mode ELSE vMode
          /\ Go(IF (vTx.restoreOwner => ownerBack) /\ (vTx.restoreMode => modeBack)
                THEN "unstage" ELSE "unstage_failing")
    /\ UNCHANGED <<vCompose, vDir, vFile, vStaged, vStaging, vStale, vSaved,
                   vTouched, vRemoved, vHidden, provSteps>>

(* A path that exists again is not overwritten, and the staging directory  *)
(* goes only when all that was remembered was put back.                    *)
RollbackRemovedPaths ==
    LET blocked == vTx.staged /\ vFile # 0
    IN /\ vTx.step \in {"unstage", "unstage_failing"}
       /\ \/ /\ blocked \/ vStaging
             /\ Go("rmdir_failing") /\ UNCHANGED <<vFile, vStaged, vStaging>>
          \/ /\ ~blocked
             /\ Go(IF At("unstage") THEN "rmdir" ELSE "rmdir_failing")
             /\ vFile' = IF vTx.staged THEN vStaged ELSE vFile
             /\ vStaged' = 0 /\ vStaging' = FALSE
       /\ UNCHANGED <<vCompose, vDir, vMode, vOwner, vStale, vSaved, vTouched,
                      vRemoved, vHidden, provSteps>>

RollbackCreatedDirectories ==
    /\ vTx.step \in {"rmdir", "rmdir_failing"}
    /\ \/ /\ vDir' = IF vTx.created /\ vDir = "empty" THEN "absent" ELSE vDir
          /\ Go(IF At("rmdir") /\ ~(vTx.created /\ vDir = "used")
                THEN "rolled_back" ELSE "rollback_failed")
       \/ vTx.created /\ Go("rollback_failed") /\ UNCHANGED vDir
    /\ UNCHANGED <<vCompose, vMode, vOwner, vFile, vStaged, vStaging, vStale,
                   vSaved, vTouched, vRemoved, vHidden, provSteps>>

ReportProvisioning ==
    /\ vTx.step \in {"rolled_back", "rollback_failed"}
    /\ EndTransaction
    /\ UNCHANGED <<vCompose, vDir, vMode, vOwner, vFile, vSaved, vTouched, vRemoved,
                   vHidden, provSteps>>

StopProvisioning ==
    /\ ProvAct /\ ~At("none")
    /\ EndTransaction
    /\ UNCHANGED <<vCompose, vDir, vMode, vOwner, vFile, vSaved, vTouched,
                   vRemoved, vHidden>>

(* At a start, staging directories of another day are purged.              *)
cleanupStaleProvisionStaging ==
    /\ ProvAct /\ At("none") /\ vStale # {}
    /\ vStale' = {}
    /\ UNCHANGED <<vCompose, vDir, vMode, vOwner, vFile, vStaged, vStaging, vSaved,
                   vTx, vTouched, vRemoved, vHidden>>

ProvNext ==
    \/ \E p \in Paths : OutsideWrite(p)
    \/ \E rollback \in BOOLEAN : DeployProvisioned(rollback)
    \/ applyStackProvisioning \/ backupProvisionRemovals \/ CreateDirectory
    \/ Chmod \/ Chown \/ StageRemoval \/ CommitProvisioning
    \/ RollbackMetadata \/ RollbackRemovedPaths \/ RollbackCreatedDirectories
    \/ ReportProvisioning \/ StopProvisioning \/ cleanupStaleProvisionStaging

ProvSpec == ProvInit /\ [][ProvNext]_provVars
-----------------------------------------------------------------------------
ProvTypeOK ==
    /\ vDir \in {"absent", "empty", "used"}
    /\ {vMode, vOwner} \subseteq {0, 1} /\ {vFile, vStaged} \subseteq 0..2
    /\ vSaved \cup vRemoved \cup vStale \subseteq 1..2 /\ vTouched \subseteq Paths
    /\ vHidden \subseteq {"dir", "mode", "owner", "file"} /\ (vStaged # 0 => vStaging)

(* A rollback that reports no failure left every path as the transaction   *)
(* found it, unless somebody else wrote that path meanwhile, or a call     *)
(* that reported an error had changed it all the same.                     *)
RollbackExact ==
    At("rolled_back") =>
        /\ "dir" \notin vTouched \cup vHidden => vDir = vTx.was.dir
        /\ "path" \notin vTouched => /\ "mode" \notin vHidden => vMode = vTx.was.mode
                                     /\ "owner" \notin vHidden => vOwner = vTx.was.owner
        /\ "file" \notin vTouched \cup vHidden => vFile = vTx.was.file

(* What a manifest removed is in its place, in the staging directory or in *)
(* a backup, through failures, stops and the purge of old staging; only    *)
(* content written after the backup is kept by the staging alone.  The     *)
(* Compose file of the stack is never among what a manifest removes.       *)
RemovedIsKept ==
    vCompose /\ vRemoved \subseteq vSaved \cup vStale \cup {vFile, vStaged}

(* A manifest undoes what it reports as undone, and loses nothing.         *)
ProvisionSafe == RollbackExact /\ RemovedIsKept
=============================================================================
