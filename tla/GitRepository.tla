---------------------------- MODULE GitRepository ----------------------------
(***************************************************************************)
(* Credentials, repository rows and clones of gitsync (service.go,         *)
(* repository.go), and the migration of a clone that still has a checkout  *)
(* to an object store without one (repository_storage.go).                 *)
(*                                                                         *)
(* One credential and one remote.  Registering a repository validates the  *)
(* credential, looks at the remote branch, saves the row and clones: steps *)
(* between which the credential may change, another registration may come, *)
(* or the process may stop.  Requests on the credential, and a change of   *)
(* the policy of the repository, read a row in one statement and write in  *)
(* another, with no lock or transaction around the two.                    *)
(***************************************************************************)
EXTENDS Naturals, FiniteSets

CONSTANTS
    SSHRemote,      \* TRUE when the URL of the remote is an SSH URL
    MaxRepoSteps    \* bound: acts of operators and stops

ASSUME GitRepositoryAssumption == SSHRemote \in BOOLEAN /\ MaxRepoSteps \in Nat

VARIABLES
    cred,       \* auth type of the credential, or "none" or "deleted"
    repoRow,    \* the row: "none", "cloning", "ready", "error"
    withCred,   \* the row names the credential
    asking,     \* requests on the credential between their two statements
    policyRow,  \* the row as the policy request in progress has read it
    raced,      \* the row was saved past such a request
    register,   \* the registration in progress: "none" or its step
    remoteBranch, \* the branch exists at the provider
    repoClone,      \* the workspace: "none", "checkout", "objects"
    extra,      \* untracked or modified data in a checkout
    marker,     \* storage markers in .git
    repoSteps

askVars == <<asking, policyRow, raced>>

repoVars == <<cred, repoRow, withCred, askVars, register, remoteBranch, repoClone,
              extra, marker, repoSteps>>

NoPolicyRow == [row |-> "none", named |-> FALSE]

AuthTypes == {"public", "https_token", "ssh_key"}

(* An SSH URL needs a key, a token needs HTTPS.                            *)
validateRepositoryCredential(named) ==
    IF ~named THEN ~SSHRemote
    ELSE CASE cred = "public" -> ~SSHRemote
           [] cred = "https_token" -> ~SSHRemote
           [] cred = "ssh_key" -> SSHRemote
           [] OTHER -> FALSE

RepoInit ==
    /\ cred \in AuthTypes \cup {"none"}
    /\ register = "none"
    /\ asking = {} /\ policyRow = NoPolicyRow /\ raced = FALSE
    /\ remoteBranch \in BOOLEAN
    /\ \/ repoRow = "none" /\ repoClone = "none" /\ withCred = FALSE /\ extra = FALSE
       \/ /\ repoRow = "ready" /\ repoClone = "checkout" /\ extra \in BOOLEAN
          /\ withCred \in BOOLEAN /\ validateRepositoryCredential(withCred)
    /\ marker = {}
    /\ repoSteps = 0

RepoAct == repoSteps < MaxRepoSteps /\ repoSteps' = repoSteps + 1

(* The network operations resolve the credential again.                    *)
authForRepository == validateRepositoryCredential(withCred)

repositoryCredentialCanPush == withCred /\ cred \in {"https_token", "ssh_key"}

CreateCredential(type) ==
    /\ RepoAct /\ cred = "none"
    /\ cred' = type
    /\ UNCHANGED <<repoRow, withCred, askVars, register, remoteBranch, repoClone, extra,
                   marker>>

Ask(request) ==
    /\ RepoAct /\ cred \in AuthTypes
    /\ asking' = asking \cup {request}
    /\ UNCHANGED <<cred, repoRow, withCred, policyRow, raced, register, remoteBranch,
                   repoClone, extra, marker>>

(* The row is read; saving it brings back one that was deleted meanwhile.  *)
UpdateCredential == Ask("update")

SaveCredential(type) ==
    /\ "update" \in asking /\ asking' = asking \ {"update"}
    /\ cred' = type
    /\ UNCHANGED <<repoRow, withCred, policyRow, raced, register, remoteBranch, repoClone,
                   extra, marker, repoSteps>>

(* Mutant of DeleteCredential: the rows are not asked.                     *)
DeleteInUse == Ask("delete")

(* Refused while a row names it; what is saved after that is not seen.     *)
DeleteCredential == ~(repoRow # "none" /\ withCred) /\ Ask("delete")

DeleteCredentialRow ==
    /\ "delete" \in asking /\ asking' = asking \ {"delete"}
    /\ cred' = "deleted"
    /\ UNCHANGED <<repoRow, withCred, policyRow, raced, register, remoteBranch, repoClone,
                   extra, marker, repoSteps>>

(* Reads the row, and saves the whole of it: a row that was deleted in     *)
(* between is there again, with the status it had.                         *)
UpdateRepositoryPolicy ==
    /\ RepoAct /\ repoRow # "none"
    /\ policyRow' = [row |-> repoRow, named |-> withCred]
    /\ UNCHANGED <<cred, repoRow, withCred, asking, raced, register, remoteBranch,
                   repoClone, extra, marker>>

SaveRepositoryPolicy ==
    /\ policyRow.row # "none" /\ policyRow' = NoPolicyRow
    /\ repoRow' = policyRow.row /\ withCred' = policyRow.named
    /\ raced' = (raced \/ repoRow = "none")
    /\ UNCHANGED <<cred, asking, register, remoteBranch, repoClone, extra, marker,
                   repoSteps>>

(* Under the creation lock of the remote and the branch: unique, and with  *)
(* a credential of the right kind.  What is saved later of a row that was  *)
(* deleted is another row than this one.                                   *)
CreateRepository(named) ==
    /\ RepoAct /\ register = "none"
    /\ repoRow = "none"
    /\ validateRepositoryCredential(named)
    /\ withCred' = named /\ policyRow' = NoPolicyRow /\ raced' = FALSE
    /\ register' = "inspect"
    /\ UNCHANGED <<cred, repoRow, asking, remoteBranch, repoClone, extra, marker>>

(* The branch must exist or be created with a credential that can push.    *)
inspectRemoteBranch ==
    /\ register = "inspect"
    /\ IF authForRepository /\ (remoteBranch \/ repositoryCredentialCanPush)
       THEN register' = "save" /\ remoteBranch' = TRUE
       ELSE register' = "none" /\ UNCHANGED remoteBranch
    /\ UNCHANGED <<cred, repoRow, withCred, askVars, repoClone, extra, marker, repoSteps>>

SaveCloningRow ==
    /\ register = "save"
    /\ repoRow' = "cloning" /\ register' = "clone"
    /\ raced' = (withCred /\ "delete" \in asking)
    /\ UNCHANGED <<cred, withCred, asking, policyRow, remoteBranch, repoClone, extra,
                   marker, repoSteps>>

(* Cloned beside the destination, marked compact, then renamed into place. *)
cloneRepository ==
    /\ register = "clone"
    /\ \/ /\ authForRepository /\ repoClone = "none"
          /\ repoClone' = "objects" /\ marker' = {"final"}
          /\ register' = "cloned" /\ UNCHANGED repoRow
       \/ /\ repoRow' = "error" /\ register' = "none"
          /\ UNCHANGED <<repoClone, marker>>
    /\ UNCHANGED <<cred, withCred, askVars, remoteBranch, extra, repoSteps>>

SaveReadyRow ==
    /\ register = "cloned"
    /\ repoRow' = "ready" /\ register' = "none"
    /\ UNCHANGED <<cred, withCred, askVars, remoteBranch, repoClone, extra, marker,
                   repoSteps>>

(* A fetch opens the clone and resolves the credential; its outcome is the *)
(* status of the row.                                                      *)
fetchRepositoryLocked ==
    /\ RepoAct /\ register \notin {"clone", "cloned"} /\ repoRow # "none"
    /\ \/ /\ repoClone = "objects" /\ "final" \in marker /\ authForRepository
          /\ repoRow' = "ready"
       \/ repoRow' = "error"
    /\ UNCHANGED <<cred, withCred, askVars, register, remoteBranch, repoClone, extra,
                   marker>>

(* The workspace goes first and the row last, so an interrupted deletion   *)
(* can be repeated.                                                        *)
DeleteRepositoryWorkspace ==
    /\ RepoAct /\ repoRow # "none" /\ register = "none"
    /\ repoClone' = "none" /\ marker' = {} /\ extra' = FALSE
    /\ UNCHANGED <<cred, repoRow, withCred, askVars, register, remoteBranch>>

DeleteRepository ==
    /\ repoRow # "none" /\ register = "none" /\ repoClone = "none"
    /\ repoRow' = "none" /\ withCred' = FALSE
    /\ UNCHANGED <<cred, askVars, register, remoteBranch, repoClone, extra, marker,
                   repoSteps>>

(* Opening a clone migrates it first: refused when its checkout holds more *)
(* than its index, then marked, emptied and marked again.  Each step that  *)
(* was reached survives a stop; a marked conversion goes on unchecked.     *)
verifyLegacyWorktreeContainsOnlyTracked ==
    /\ repoClone = "checkout" /\ marker = {} /\ ~extra
    /\ marker' = {"converting"}
    /\ UNCHANGED <<cred, repoRow, withCred, askVars, register, remoteBranch, repoClone,
                   extra, repoSteps>>

ensureCompactRepository ==
    /\ repoClone = "checkout" /\ "converting" \in marker
    /\ repoClone' = "objects"
    /\ UNCHANGED <<cred, repoRow, withCred, askVars, register, remoteBranch, extra,
                   marker, repoSteps>>

writeStorageMarker ==
    /\ repoClone = "objects" /\ marker \in {{"converting"}, {"converting", "final"}}
    /\ marker' = IF "final" \in marker THEN {"final"} ELSE marker \cup {"final"}
    /\ UNCHANGED <<cred, repoRow, withCred, askVars, register, remoteBranch, repoClone,
                   extra, repoSteps>>

(* A stop in the middle of a registration leaves the row as it is: nothing *)
(* at the next start repairs a row that says "cloning".                    *)
StopDuringRegistration ==
    /\ RepoAct /\ (register # "none" \/ asking # {} \/ policyRow # NoPolicyRow)
    /\ register' = "none" /\ asking' = {} /\ policyRow' = NoPolicyRow
    /\ UNCHANGED <<cred, repoRow, withCred, raced, remoteBranch, repoClone, extra, marker>>

RepoNext ==
    \/ \E type \in AuthTypes : CreateCredential(type) \/ SaveCredential(type)
    \/ UpdateCredential \/ DeleteCredential \/ DeleteCredentialRow
    \/ UpdateRepositoryPolicy \/ SaveRepositoryPolicy
    \/ \E named \in BOOLEAN : CreateRepository(named)
    \/ inspectRemoteBranch \/ SaveCloningRow \/ cloneRepository
    \/ SaveReadyRow \/ fetchRepositoryLocked
    \/ DeleteRepositoryWorkspace \/ DeleteRepository
    \/ verifyLegacyWorktreeContainsOnlyTracked \/ ensureCompactRepository
    \/ writeStorageMarker \/ StopDuringRegistration

RepoSpec == RepoInit /\ [][RepoNext]_repoVars
-----------------------------------------------------------------------------
RepoTypeOK ==
    /\ cred \in AuthTypes \cup {"none", "deleted"}
    /\ repoRow \in {"none", "cloning", "ready", "error"}
    /\ register \in {"none", "inspect", "save", "clone", "cloned"}
    /\ repoClone \in {"none", "checkout", "objects"}
    /\ withCred \in BOOLEAN /\ remoteBranch \in BOOLEAN
    /\ extra \in BOOLEAN /\ raced \in BOOLEAN
    /\ asking \subseteq {"update", "delete"}
    /\ policyRow \in [row : {"none", "cloning", "ready", "error"}, named : BOOLEAN]
    /\ marker \subseteq {"converting", "final"}

(* The credential of a repository that is ready exists, although it is     *)
(* checked before the row that protects it from deletion is saved.  Two    *)
(* races are left: the row was saved after a deletion had found the        *)
(* credential unused, or a policy request brought a deleted row back.      *)
ReadyHasCredential == repoRow = "ready" /\ withCred /\ ~raced => cred \in AuthTypes
=============================================================================
