----------------------------- MODULE GitHistory -----------------------------
(***************************************************************************)
(* Three histories of one branch and one linked file: the branch of the    *)
(* provider, the tracking reference of the last fetch, and the branch of   *)
(* the clone Dockman keeps (gitsync/repository.go), with the transfers     *)
(* that commit to it and read from it (gitsync/binding.go).                *)
(*                                                                         *)
(* A branch is the set of its commits and the content its tip gives to the *)
(* file.  Every operation holds the lock of the repository, so what may    *)
(* come between its fetch and its push, or between what an import compares *)
(* and what it writes, is the outside only: another committer, an edit of  *)
(* the file, a push that is refused, or the process stopping.              *)
(***************************************************************************)
EXTENDS GitPreview

CONSTANT MaxHistory     \* bound: commits and edits of the file

ASSUME GitHistoryAssumption == MaxHistory \in Nat \ {0}

VARIABLES
    origin,   \* the branch at the provider: [log, file]
    tracking,   \* origin/<branch> of the clone
    branch,     \* the local branch of the clone
    hostFile,   \* the file in the stack directory
    baseFile,   \* its baseline
    pushing,    \* what is between its commit and the answer to its push
    importing,  \* what an import that has compared is about to write
    shared,     \* history: contents the provider ever had
    imported,   \* history: the last step let an import write without a decision
    edited,     \* history: the file was edited since an import compared it
    wasReset,   \* history: a reset dropped commits of the local branch
    next        \* the next commit or content

historyVars == <<origin, tracking, branch, hostFile, baseFile, pushing, importing,
                 shared, imported, edited, wasReset, next>>

HistoryInit ==
    LET first == [log |-> {1}, file |-> 1]
    IN /\ origin = first /\ tracking = first /\ branch = first
       /\ hostFile = 1 /\ baseFile = 1
       /\ pushing = "none" /\ importing = "none"
       /\ shared = {1}
       /\ imported = FALSE /\ edited = FALSE /\ wasReset = FALSE
       /\ next = 2

HistoryTick == next <= MaxHistory /\ next' = next + 1
Quiet == imported' = FALSE /\ UNCHANGED <<importing, edited>>

Unlocked == pushing = "none" /\ importing = "none"

Ahead(local, remote) == local.log \ remote.log # {}
Behind(local, remote) == remote.log \ local.log # {}

(* What RepositoryStatus reports once the distances could be measured.     *)
RepositoryStatus(local, remote) ==
    IF local.log = remote.log THEN "up-to-date"
    ELSE IF Ahead(local, remote)
    THEN IF Behind(local, remote) THEN "diverged" ELSE "ahead" ELSE "behind"

(* A commit somebody else pushes, and a branch rewritten by force.         *)
RemoteCommit ==
    /\ HistoryTick /\ Quiet
    /\ \E kept \in {origin.log, {1}} :
         origin' = [log |-> kept \cup {next}, file |-> next]
    /\ shared' = shared \cup {next}
    /\ UNCHANGED <<tracking, branch, hostFile, baseFile, pushing, wasReset>>

EditHostFile ==
    /\ HistoryTick /\ imported' = FALSE
    /\ hostFile' = next /\ edited' = TRUE
    /\ UNCHANGED <<origin, tracking, branch, baseFile, pushing, importing, shared,
                   wasReset>>

(* The tracking reference follows the provider, a rewritten branch too.    *)
FetchRepository ==
    /\ Unlocked /\ Quiet
    /\ tracking' = origin
    /\ UNCHANGED <<origin, branch, hostFile, baseFile, pushing, shared, wasReset, next>>

(* Mutant of PullRepository: a branch that diverged takes the provider's.  *)
PullDiverged ==
    /\ Unlocked /\ Quiet
    /\ tracking' = origin
    /\ branch' = IF RepositoryStatus(branch, origin) \in {"behind", "diverged"}
                 THEN origin ELSE branch
    /\ UNCHANGED <<origin, hostFile, baseFile, pushing, shared, wasReset, next>>

(* Only a fast-forward moves the local branch.                             *)
PullRepository ==
    /\ Unlocked /\ Quiet
    /\ tracking' = origin
    /\ branch' = IF RepositoryStatus(branch, origin) = "behind"
                 THEN origin ELSE branch
    /\ UNCHANGED <<origin, hostFile, baseFile, pushing, shared, wasReset, next>>

PushRepository ==
    /\ Unlocked /\ Quiet
    /\ tracking' = origin
    /\ pushing' = IF RepositoryStatus(branch, origin) = "ahead" THEN "push" ELSE "none"
    /\ UNCHANGED <<origin, branch, hostFile, baseFile, shared, wasReset, next>>

(* The explicit recovery: commits only Dockman holds are dropped, files    *)
(* and baselines stay as they are.                                         *)
ResetRepositoryToRemote ==
    /\ Unlocked /\ Quiet
    /\ tracking' = origin
    /\ branch' = IF Ahead(branch, origin) THEN origin ELSE branch
    /\ wasReset' = (wasReset \/ Ahead(branch, origin))
    /\ UNCHANGED <<origin, hostFile, baseFile, pushing, shared, next>>

(* Dockman -> Git.  Nothing to transfer settles the baseline; a conflict   *)
(* needs a decision; otherwise the file is committed to the local branch   *)
(* and the push follows.                                                   *)
ExportBinding(resolved) ==
    LET entry == ExportEntry(hostFile, branch.file, baseFile)
    IN /\ Unlocked /\ Quiet
       /\ tracking' = origin
       /\ IF \/ Behind(branch, origin)
             \/ entry = "conflict" /\ ~resolved
          THEN UNCHANGED <<branch, baseFile, pushing, next>>
          ELSE IF entry = "unchanged"
          THEN baseFile' = hostFile /\ UNCHANGED <<branch, pushing, next>>
          ELSE /\ HistoryTick
               /\ branch' = [log |-> branch.log \cup {next}, file |-> hostFile]
               /\ pushing' = "export"
               /\ UNCHANGED baseFile
       /\ UNCHANGED <<origin, hostFile, shared, wasReset>>

(* The provider takes a fast-forward only.  The baseline moves with the    *)
(* answer: the source of an export was read before its commit.             *)
PushLands ==
    /\ pushing # "none" /\ Quiet
    /\ origin.log \subseteq branch.log
    /\ origin' = branch /\ tracking' = branch
    /\ shared' = shared \cup {branch.file}
    /\ baseFile' = IF pushing = "export" THEN branch.file ELSE baseFile
    /\ pushing' = "none"
    /\ UNCHANGED <<branch, hostFile, wasReset, next>>

(* Refused, timed out, or the process stops: the commit stays local.       *)
PushFails ==
    /\ pushing # "none" /\ Quiet
    /\ pushing' = "none"
    /\ UNCHANGED <<origin, tracking, branch, hostFile, baseFile, shared, wasReset, next>>

(* Git -> Dockman, from a branch that is exactly the fetched one: the file *)
(* is compared...                                                          *)
ImportBinding(resolved) ==
    LET entry == ImportEntry(branch.file, hostFile, baseFile)
        transfers == entry \in {"add", "modify"} \/ (entry = "conflict" /\ resolved)
        current == RepositoryStatus(branch, origin) = "up-to-date"
    IN /\ Unlocked
       /\ tracking' = origin
       /\ imported' = FALSE /\ edited' = FALSE
       /\ importing' = IF current /\ transfers THEN entry ELSE "none"
       /\ baseFile' = IF current /\ entry = "unchanged" THEN branch.file ELSE baseFile
       /\ UNCHANGED <<origin, branch, hostFile, pushing, shared, wasReset, next>>

(* ... and replaced as it is by then.  The baseline may not be stored.     *)
WriteHostFile ==
    /\ importing # "none"
    /\ hostFile' = branch.file
    /\ baseFile' \in {baseFile, branch.file}
    /\ imported' = (importing = "modify")
    /\ importing' = "none"
    /\ UNCHANGED <<origin, tracking, branch, pushing, shared, edited, wasReset, next>>

(* The backup or the write fails, or the process stops.                    *)
ImportFails ==
    /\ importing # "none"
    /\ importing' = "none" /\ imported' = FALSE
    /\ UNCHANGED <<origin, tracking, branch, hostFile, baseFile, pushing, shared,
                   edited, wasReset, next>>

HistoryNext ==
    \/ RemoteCommit \/ EditHostFile \/ FetchRepository \/ PullRepository
    \/ PushRepository \/ ResetRepositoryToRemote \/ PushLands \/ PushFails
    \/ WriteHostFile \/ ImportFails
    \/ \E resolved \in BOOLEAN : ExportBinding(resolved) \/ ImportBinding(resolved)

HistorySpec == HistoryInit /\ [][HistoryNext]_historyVars
-----------------------------------------------------------------------------
HistoryTypeOK ==
    /\ \A b \in {origin, tracking, branch} :
         b.log \subseteq 1..MaxHistory /\ b.file \in 1..MaxHistory
    /\ hostFile \in 1..MaxHistory /\ baseFile \in 1..MaxHistory
    /\ pushing \in {"none", "push", "export"}
    /\ importing \in {"none", "add", "modify", "conflict"}
    /\ shared \subseteq 1..MaxHistory
    /\ next \in 1..MaxHistory + 1

(* An import that asks nobody only replaces content the provider has had,  *)
(* or what was edited after it had compared: the baseline it trusts is     *)
(* content both sides shared.  This is what the comment on                 *)
(* ResetRepositoryToRemote promises after a reset: the files "will be      *)
(* reconciled through the normal preview/conflict workflow".               *)
NoSilentOverwrite ==
    [][imported' => hostFile \in shared \/ edited]_historyVars

(* As long as nobody asked for a reset, that holds: failed pushes, retried *)
(* exports, other committers and rewritten branches never turn an edit     *)
(* that is nowhere else into something an import takes for synchronized.   *)
SharedBeforeReplaced ==
    [][imported' /\ ~wasReset => hostFile \in shared \/ edited]_historyVars
=============================================================================
