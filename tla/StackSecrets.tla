---------------------------- MODULE StackSecrets ----------------------------
(***************************************************************************)
(* Secrets of stacks (secrets/): plain files with a bounded history, one   *)
(* encrypted source per stack (SOPS), and the volatile runtime directory   *)
(* that a systemd unit of the host mounts over .secrets for a stack that   *)
(* carries the encrypted marker.                                           *)
(*                                                                         *)
(* Requests interleave.  The provider's mutex serializes what changes an   *)
(* encrypted source; plain writes, Compose actions and the host unit do    *)
(* not take it.  A decryption, an encryption or a write may fail, a write  *)
(* after it took effect too (the rename is done, the rights are not),      *)
(* Dockman may stop and the host may restart.                              *)
(***************************************************************************)
EXTENDS Naturals, SequencesExt

CONSTANTS
    StackOrder,      \* the stacks of the host, in the order of their paths
    SecretNames,
    Referenced,      \* <<stack, name>> a Compose service uses
    HistoryLimit,    \* versions kept of a plain secret
    MaxSecretSteps   \* bound: requests and host events

ASSUME StackSecretsAssumption ==
    /\ HistoryLimit \in Nat \ {0} /\ MaxSecretSteps \in Nat
    /\ StackOrder \in Seq(Range(StackOrder)) /\ StackOrder # <<>>
    /\ Referenced \subseteq Range(StackOrder) \X SecretNames

VARIABLES
    sStack,     \* the files of each stack
    sReq,       \* the requests in progress
    sLock,      \* the request that holds the provider's mutex, 0 if none
    sPending,   \* stacks the host unit has still to visit
    sSteps

secVars == <<sStack, sReq, sLock, sPending, sSteps>>

SStacks == Range(StackOrder)
SReqs == 1..2
Nothing == [n \in SecretNames |-> 0]   \* no secret has a value
NoSource == [n \in SecretNames |-> 9]  \* there is no encrypted source
Stack(marker, cipher, disk, mounted, tmp) ==
    [there |-> TRUE, marker |-> marker, script |-> marker, cipher |-> cipher, disk |-> disk,
     hist |-> [n \in SecretNames |-> <<>>], mounted |-> mounted, tmp |-> tmp,
     kept |-> [n \in SecretNames |-> {}]]  \* who backed up the value in place
Gone == [Stack(FALSE, NoSource, Nothing, FALSE, Nothing) EXCEPT !.there = FALSE]
SecIdle == [op |-> "none", at |-> "none", s |-> StackOrder[1], n |-> "none", v |-> 0,
         vals |-> Nothing, before |-> [s \in SStacks |-> Nothing], k |-> 0,
         vol |-> FALSE, stranded |-> {}, failed |-> {}]

SecInit ==
    /\ LET one == [Nothing EXCEPT ![CHOOSE n \in SecretNames : TRUE] = 1]
       IN sStack \in [SStacks -> {Stack(FALSE, NoSource, one, FALSE, Nothing),
                                  Stack(TRUE, one, Nothing, TRUE, one),
                                  Stack(TRUE, Nothing, Nothing, FALSE, Nothing)}]
    /\ sReq = [r \in SReqs |-> SecIdle]
    /\ sLock = 0 /\ sPending = {} /\ sSteps = 0

SecAct == sSteps < MaxSecretSteps /\ sSteps' = sSteps + 1
AtS(r, at) == sReq[r].at = at
S(r) == sStack[sReq[r].s]
ToStep(r, at) == sReq' = [sReq EXCEPT ![r].at = at]
Lock(r) == sLock = 0 /\ sLock' = r
(* A request answers and gives the mutex back if it holds it.              *)
GiveBack(r) == sLock' = IF sLock = r THEN 0 ELSE sLock
Answer(r) == sReq' = [sReq EXCEPT ![r] = SecIdle] /\ GiveBack(r)
(* Nothing is written below a directory that is gone.                      *)
Change(r, t) == sStack' = IF S(r).there THEN [sStack EXCEPT ![sReq[r].s] = t] ELSE sStack

Begin(r, op, at, s, n, v) ==
    /\ SecAct /\ sReq[r] = SecIdle /\ sStack[s].there
    /\ sReq' = [sReq EXCEPT ![r] = [SecIdle EXCEPT !.op = op, !.at = at, !.s = s,
                                                !.n = n, !.v = v]]
    /\ UNCHANGED <<sStack, sLock, sPending>>
-----------------------------------------------------------------------------
(* Plain files.  .secrets is the mounted directory while there is one.     *)
runtimeList(t) == IF t.mounted THEN t.tmp ELSE t.disk

pruneHistory(h) == SubSeq(h, 1, IF Len(h) < HistoryLimit THEN Len(h) ELSE HistoryLimit)

(* Mutant of backupExisting: the value that is about to be written is the  *)
(* one that is kept.                                                       *)
BackupOfNew(t, n, v) ==
    IF t.disk[n] = 0 THEN t.hist[n] ELSE pruneHistory(<<v>> \o t.hist[n])

(* The value on disk becomes the newest version before it is replaced.     *)
backupExisting(t, n, v) ==
    IF t.disk[n] = 0 THEN t.hist[n] ELSE pruneHistory(<<t.disk[n]>> \o t.hist[n])

(* The two halves of a write: the versions of the names are kept, then     *)
(* their values are replaced.                                              *)
storeBackup(r, t, names, vals) ==
    IF t.mounted THEN t
    ELSE [t EXCEPT !.hist = [n \in SecretNames |->
                       IF n \in names THEN backupExisting(t, n, vals[n]) ELSE @[n]],
                   !.kept = [n \in SecretNames |->
                       IF n \in names THEN @[n] \cup {r} ELSE @[n]]]

storeWrite(t, names, vals) ==
    IF t.mounted
    THEN [t EXCEPT !.tmp = [n \in SecretNames |-> IF n \in names THEN vals[n] ELSE @[n]]]
    ELSE [t EXCEPT !.disk = [n \in SecretNames |-> IF n \in names THEN vals[n] ELSE @[n]],
                   !.kept = [n \in SecretNames |-> IF n \in names THEN {} ELSE @[n]]]

(* A Compose manifest of the stack declares the secret and a service uses  *)
(* it.                                                                     *)
AnalyzeCompose(s, n) == <<s, n>> \in Referenced

(* Service.WriteManaged and DeleteManaged (v = 0): the marker decides, once,*)
(* which of the two stores the request goes to.  A secret that a service   *)
(* uses is not deleted from the encrypted source.                          *)
WriteManaged(r, s, n, v) ==
    /\ v = 0 /\ sStack[s].marker => ~AnalyzeCompose(s, n)
    /\ IF sStack[s].marker THEN Begin(r, "inline", "lock", s, n, v)
                           ELSE Begin(r, "plain", "write", s, n, v)

(* Service.Restore does not look at the marker.                            *)
Restore(r, s, n) ==
    \E v \in Range(sStack[s].hist[n]) : ~sStack[s].mounted /\ Begin(r, "plain", "write", s, n, v)

(* Nothing is locked between the backup and the replacement.               *)
Wanted(r) == [n \in SecretNames |-> sReq[r].v]

PlainBackup(r) ==
    /\ AtS(r, "write")
    /\ \/ /\ sReq[r].v = 0 => runtimeList(S(r))[sReq[r].n] # 0
          /\ Change(r, storeBackup(r, S(r), {sReq[r].n}, Wanted(r)))
          /\ ToStep(r, "replace") /\ UNCHANGED sLock
       \/ Answer(r) /\ UNCHANGED sStack
    /\ UNCHANGED <<sPending, sSteps>>

PlainWrite(r) ==
    /\ AtS(r, "replace")
    /\ Change(r, storeWrite(S(r), {sReq[r].n}, Wanted(r))) \/ UNCHANGED sStack
    /\ Answer(r) /\ UNCHANGED <<sPending, sSteps>>
-----------------------------------------------------------------------------
(* The encrypted source.                                                   *)

(* Mutant of inlineValues: the source is read before the mutex is taken.   *)
ReadUnlocked(r) ==
    /\ sReq[r].op = "inline" /\ AtS(r, "lock")
    /\ sReq' = [sReq EXCEPT ![r].at = "encrypt", ![r].vals = S(r).cipher]
    /\ UNCHANGED <<sStack, sLock, sPending, sSteps>>

inlineValues(r) ==
    /\ sReq[r].op = "inline" /\ AtS(r, "lock")
    /\ IF S(r).marker /\ S(r).cipher # NoSource
       THEN /\ Lock(r)
            /\ sReq' = [sReq EXCEPT ![r].at = "encrypt", ![r].vals = S(r).cipher]
       ELSE sLock = 0 /\ Answer(r)
    /\ UNCHANGED <<sStack, sPending, sSteps>>

(* WriteInline and DeleteInline: encrypt, decrypt again to verify, replace *)
(* the source; any of them may fail, the last one with the source replaced.*)
writeValues(r) ==
    LET q == sReq[r]
        vals == [q.vals EXCEPT ![q.n] = q.v]
    IN /\ AtS(r, "encrypt")
       /\ \/ /\ S(r).there /\ Change(r, [S(r) EXCEPT !.cipher = vals])
             /\ \/ /\ sReq' = [sReq EXCEPT ![r].at = "sync", ![r].vals = vals]
                   /\ UNCHANGED sLock
                \/ Answer(r)
          \/ Answer(r) /\ UNCHANGED sStack
       /\ UNCHANGED <<sPending, sSteps>>

(* The volatile files are brought to the values of the request, or the     *)
(* host is asked to mount them; a Compose action waits for the mount.      *)
syncVolatileRuntime(r) ==
    /\ AtS(r, "sync")
    /\ \/ /\ S(r).mounted
          /\ Change(r, [S(r) EXCEPT !.tmp = sReq[r].vals])
          /\ Answer(r) /\ UNCHANGED sPending
       \/ /\ ~S(r).mounted /\ sPending' = SStacks
          /\ IF sReq[r].op = "compose" THEN ToStep(r, "await") /\ UNCHANGED sLock
                                       ELSE Answer(r)
          /\ UNCHANGED sStack
       \/ Answer(r) /\ UNCHANGED <<sStack, sPending>>
    /\ UNCHANGED sSteps

waitForVolatileRuntime(r) ==
    /\ AtS(r, "await")
    /\ \/ S(r).mounted /\ ToStep(r, "sync") /\ UNCHANGED sLock
       \/ ~S(r).mounted /\ Answer(r)
    /\ UNCHANGED <<sStack, sPending, sSteps>>

(* The marker inside the volatile directory, and the mount table.          *)
volatileRuntimeAvailable(s) == sStack[s].mounted

(* The policy marker lives in the stack, not in Dockman's database.        *)
inlineMarkerExists(s) == sStack[s].marker

(* Every Compose action of an encrypted stack decrypts, without the mutex. *)
ComposeEnvironment(r, s) ==
    /\ inlineMarkerExists(s) /\ sStack[s].cipher # NoSource
    /\ SecAct /\ sReq[r] = SecIdle /\ sStack[s].there
    /\ sReq' = [sReq EXCEPT ![r] = [SecIdle EXCEPT !.op = "compose", !.at = "sync", !.s = s,
                                                !.vals = sStack[s].cipher]]
    /\ UNCHANGED <<sStack, sLock, sPending>>
-----------------------------------------------------------------------------
(* Entering encrypted mode: export, script, removal of the plain files     *)
(* with their history, marker.  The mutex is free between the export and   *)
(* the rest.                                                               *)
EnableInline(r, s) ==
    ~sStack[s].marker /\ ~sStack[s].script /\ Begin(r, "enable", "export", s, "none", 0)

ExportSOPS(r, s) == ~sStack[s].marker /\ Begin(r, "export", "export", s, "none", 0)

Export(r) ==
    LET items == runtimeList(S(r))
        empty == items = Nothing
    IN /\ AtS(r, "export") /\ sLock = 0
       /\ \/ /\ S(r).there
             /\ ~empty \/ sReq[r].op = "enable"
             /\ Change(r, [S(r) EXCEPT !.cipher =
                             IF ~empty THEN items
                             ELSE IF @ = NoSource THEN Nothing ELSE @])
             /\ \/ sReq[r].op = "enable" /\ ToStep(r, "activate") /\ UNCHANGED sLock
                \/ Answer(r)
          \/ Answer(r) /\ UNCHANGED sStack
       /\ UNCHANGED <<sPending, sSteps>>

ActivateInline(r) ==
    /\ AtS(r, "activate") /\ sLock = 0
    /\ \/ /\ S(r).cipher # NoSource /\ Lock(r)
          /\ Change(r, [S(r) EXCEPT !.script = TRUE]) /\ ToStep(r, "purge")
       \/ Answer(r) /\ UNCHANGED sStack
    /\ UNCHANGED <<sPending, sSteps>>

(* A mount point cannot be removed, only what is in it.                    *)
PurgePlaintext(r) ==
    /\ AtS(r, "purge")
    /\ Change(r, IF S(r).mounted THEN [S(r) EXCEPT !.tmp = Nothing]
                 ELSE [S(r) EXCEPT !.disk = Nothing, !.hist = Gone.hist, !.kept = Gone.kept])
    /\ IF S(r).mounted THEN Answer(r) ELSE ToStep(r, "mark") /\ UNCHANGED sLock
    /\ UNCHANGED <<sPending, sSteps>>

MarkInline(r) ==
    /\ AtS(r, "mark")
    /\ \/ Change(r, [S(r) EXCEPT !.marker = TRUE]) /\ sPending' = SStacks
       \/ UNCHANGED <<sStack, sPending>>
    /\ Answer(r) /\ UNCHANGED sSteps
-----------------------------------------------------------------------------
(* Leaving encrypted mode, and the guard of a deletion: a mount is         *)
(* released first, by taking the marker away and waiting for the host.     *)
DisableInline(r, s) ==
    /\ SecAct /\ sReq[r] = SecIdle /\ sStack[s].there
    /\ sReq' = [sReq EXCEPT ![r] =
                  [SecIdle EXCEPT !.op = "disable", !.s = s, !.vol = volatileRuntimeAvailable(s),
                     !.at = IF volatileRuntimeAvailable(s) THEN "release" ELSE "materialize"]]
    /\ UNCHANGED <<sStack, sLock, sPending>>

GuardSecretDeletion(r, s) ==
    Begin(r, "rm", IF inlineMarkerExists(s) /\ volatileRuntimeAvailable(s)
                   THEN "release" ELSE "rmdir", s, "none", 0)

releaseVolatileRuntime(r) ==
    /\ AtS(r, "release")
    /\ \/ /\ Change(r, [S(r) EXCEPT !.marker = FALSE]) /\ sPending' = SStacks
          /\ ToStep(r, "released") /\ UNCHANGED sLock
       \/ Answer(r) /\ UNCHANGED <<sStack, sPending>>
    /\ UNCHANGED sSteps

waitForVolatileRuntimeRelease(r) ==
    /\ AtS(r, "released")
    /\ \/ /\ ~S(r).mounted
          /\ ToStep(r, IF sReq[r].op = "rm" THEN "rmdir" ELSE "materialize")
          /\ UNCHANGED <<sStack, sLock>>
       \/ S(r).mounted /\ Change(r, [S(r) EXCEPT !.marker = TRUE]) /\ Answer(r)
    /\ UNCHANGED <<sPending, sSteps>>

MaterializeSOPS(r, s) == ~sStack[s].marker /\ Begin(r, "mat", "materialize", s, "none", 0)

(* Every value of the source is written, each after its backup, as a plain *)
(* write does it; a failure puts the values before it back as far as it    *)
(* can, and the marker too when it was taken away for the release.         *)
Materialize(r) ==
    LET t == S(r)
        names == {n \in SecretNames : t.cipher[n] # 0}
    IN /\ AtS(r, "materialize") /\ sLock = 0
       /\ \/ /\ t.cipher # NoSource /\ Lock(r)
             /\ Change(r, storeBackup(r, t, names, t.cipher))
             /\ sReq' = [sReq EXCEPT ![r].at = "values", ![r].vals = t.cipher]
          \/ Change(r, [t EXCEPT !.marker = @ \/ sReq[r].vol]) /\ Answer(r)
       /\ UNCHANGED <<sPending, sSteps>>

MaterializeValues(r) ==
    LET t == S(r)
        names == {n \in SecretNames : sReq[r].vals[n] # 0}
    IN /\ AtS(r, "values")
       /\ \/ /\ Change(r, storeWrite(t, names, sReq[r].vals))
             /\ IF sReq[r].op = "disable" THEN ToStep(r, "unmark") /\ GiveBack(r)
                                          ELSE Answer(r)
          \/ /\ \E done \in SUBSET names :
                  Change(r, [storeWrite(t, done, sReq[r].vals) EXCEPT !.marker = @ \/ sReq[r].vol])
             /\ Answer(r)
       /\ UNCHANGED <<sPending, sSteps>>

UnmarkInline(r) ==
    /\ AtS(r, "unmark") /\ sLock = 0
    /\ Change(r, [S(r) EXCEPT !.marker = FALSE, !.script = FALSE])
    /\ Answer(r) /\ UNCHANGED <<sPending, sSteps>>

(* The files service removes the directory; a mount in it survives.        *)
RemoveStackDirectory(r) ==
    /\ AtS(r, "rmdir")
    /\ Change(r, [Gone EXCEPT !.there = S(r).mounted, !.mounted = S(r).mounted])
    /\ Answer(r) /\ UNCHANGED <<sPending, sSteps>>
-----------------------------------------------------------------------------
(* One value for many stacks: all are read first, then written in order.   *)
(* The stack whose write fails is not rolled back, only those before it.   *)
AssignEncrypted(r, n, v) == Begin(r, "assign", "prepare", StackOrder[1], n, v)

PrepareAssign(r) ==
    /\ AtS(r, "prepare")
    /\ IF \A s \in SStacks : sStack[s].marker /\ sStack[s].cipher # NoSource
       THEN /\ Lock(r)
            /\ sReq' = [sReq EXCEPT ![r].at = "assign", ![r].k = 1,
                          ![r].before = [s \in SStacks |-> sStack[s].cipher]]
       ELSE sLock = 0 /\ Answer(r)
    /\ UNCHANGED <<sStack, sPending, sSteps>>

AssignOne(r) ==
    LET q == sReq[r]
        s == StackOrder[q.k]
    IN /\ AtS(r, "assign")
       /\ \/ /\ sStack[s].there
             /\ sStack' = [sStack EXCEPT ![s].cipher = [q.before[s] EXCEPT ![q.n] = q.v]]
             /\ sReq' = [sReq EXCEPT ![r].k = @ + 1,
                           ![r].at = IF q.k = Len(StackOrder) THEN "assigned" ELSE @]
          \/ /\ sReq' = [sReq EXCEPT ![r].k = @ - 1, ![r].at = "rollback", ![r].failed = {s}]
             /\ \/ UNCHANGED sStack
                \/ /\ sStack[s].there
                   /\ sStack' = [sStack EXCEPT ![s].cipher = [q.before[s] EXCEPT ![q.n] = q.v]]
       /\ UNCHANGED <<sLock, sPending, sSteps>>

(* Mutant of RollbackAssign: a stack that could not be restored is passed  *)
(* over in silence.                                                        *)
RollbackSilently(r) ==
    LET q == sReq[r]
        s == StackOrder[q.k]
    IN /\ AtS(r, "rollback")
       /\ \/ q.k = 0 /\ ToStep(r, "undone") /\ UNCHANGED sStack
          \/ /\ q.k > 0
             /\ sStack[s].there /\ sStack' = [sStack EXCEPT ![s].cipher = q.before[s]]
             /\ sReq' = [sReq EXCEPT ![r].k = @ - 1]
          \/ /\ q.k > 0 /\ sReq' = [sReq EXCEPT ![r].k = @ - 1]
             /\ UNCHANGED sStack
       /\ UNCHANGED <<sLock, sPending, sSteps>>

RollbackAssign(r) ==
    LET q == sReq[r]
        s == StackOrder[q.k]
    IN /\ AtS(r, "rollback")
       /\ \/ q.k = 0 /\ ToStep(r, "undone") /\ UNCHANGED sStack
          \/ /\ q.k > 0
             /\ sStack[s].there /\ sStack' = [sStack EXCEPT ![s].cipher = q.before[s]]
             /\ sReq' = [sReq EXCEPT ![r].k = @ - 1]
          \/ /\ q.k > 0
             /\ sReq' = [sReq EXCEPT ![r].k = @ - 1, ![r].stranded = @ \cup {s}]
             /\ \/ UNCHANGED sStack
                \/ sStack[s].there /\ sStack' = [sStack EXCEPT ![s].cipher = q.before[s]]
       /\ UNCHANGED <<sLock, sPending, sSteps>>

(* The volatile files follow where there are some, and one request to the  *)
(* host stands for all the others.                                         *)
AnswerAssign(r) ==
    LET q == sReq[r]
    IN /\ sReq[r].at \in {"assigned", "undone"}
       /\ IF AtS(r, "assigned")
          THEN /\ sStack' = [s \in SStacks |->
                    IF sStack[s].mounted
                    THEN [sStack[s] EXCEPT !.tmp = [q.before[s] EXCEPT ![q.n] = q.v]]
                    ELSE sStack[s]]
               /\ sPending' = IF \E s \in SStacks : ~sStack[s].mounted
                              THEN SStacks ELSE sPending
          ELSE UNCHANGED <<sStack, sPending>>
       /\ Answer(r) /\ UNCHANGED sSteps
-----------------------------------------------------------------------------
(* The host unit, one stack at a time.  A marked stack keeps its mount     *)
(* even when it cannot be refreshed, unless its directory cannot be walked *)
(* and the marker is not seen; persistent files are never covered; a mount *)
(* in use may refuse to go.                                                *)
discoverEncryptedStacks(t) == t.marker /\ t.cipher # NoSource
ensureRuntimeTmpfs(t) == t.mounted \/ t.disk = Nothing
materializeEncryptedStack(t) == [t EXCEPT !.mounted = TRUE, !.tmp = t.cipher]
cleanupRuntimeMounts(t) == [t EXCEPT !.mounted = FALSE, !.tmp = Nothing]

MaterializeHostRuntime(s) ==
    LET t == sStack[s]
    IN /\ s \in sPending /\ sPending' = sPending \ {s}
       /\ \/ /\ discoverEncryptedStacks(t) /\ ensureRuntimeTmpfs(t)
             /\ sStack' = [sStack EXCEPT ![s] = materializeEncryptedStack(t)]
          \/ /\ t.mounted
             /\ sStack' = [sStack EXCEPT ![s] = cleanupRuntimeMounts(t)]
          \/ UNCHANGED sStack
       /\ UNCHANGED <<sReq, sLock, sSteps>>

(* After a restart of the host the unit runs before the Docker daemon.     *)
RestartHost ==
    /\ SecAct
    /\ sStack' = [s \in SStacks |-> cleanupRuntimeMounts(sStack[s])]
    /\ sReq' = [r \in SReqs |-> SecIdle] /\ sLock' = 0 /\ sPending' = SStacks

StopDockman ==
    /\ SecAct /\ \E r \in SReqs : sReq[r] # SecIdle
    /\ sReq' = [r \in SReqs |-> SecIdle] /\ sLock' = 0
    /\ UNCHANGED <<sStack, sPending>>

SecNext ==
    \/ \E r \in SReqs :
         \/ \E s \in SStacks :
              \/ \E n \in SecretNames :
                   \/ \E v \in {0, 2} : WriteManaged(r, s, n, v)
                   \/ Restore(r, s, n)
              \/ ComposeEnvironment(r, s) \/ EnableInline(r, s) \/ ExportSOPS(r, s)
              \/ DisableInline(r, s) \/ MaterializeSOPS(r, s) \/ GuardSecretDeletion(r, s)
         \/ \E n \in SecretNames : AssignEncrypted(r, n, 2)
         \/ PlainBackup(r) \/ PlainWrite(r) \/ inlineValues(r) \/ writeValues(r)
         \/ syncVolatileRuntime(r) \/ waitForVolatileRuntime(r) \/ Export(r) \/ ActivateInline(r)
         \/ PurgePlaintext(r) \/ MarkInline(r) \/ releaseVolatileRuntime(r)
         \/ waitForVolatileRuntimeRelease(r) \/ Materialize(r) \/ MaterializeValues(r)
         \/ UnmarkInline(r)
         \/ RemoveStackDirectory(r) \/ PrepareAssign(r) \/ AssignOne(r)
         \/ RollbackAssign(r) \/ AnswerAssign(r)
    \/ \E s \in SStacks : MaterializeHostRuntime(s)
    \/ RestartHost \/ StopDockman

SecSpec == SecInit /\ [][SecNext]_secVars
-----------------------------------------------------------------------------
SecTypeOK ==
    /\ \A s \in SStacks :
         LET t == sStack[s]
         IN /\ {t.marker, t.script, t.mounted} \subseteq BOOLEAN
            /\ t.there \in BOOLEAN /\ {t.disk, t.tmp} \subseteq [SecretNames -> 0..2]
            /\ t.cipher \in [SecretNames -> 0..2] \cup {NoSource}
            /\ \A n \in SecretNames : Len(t.hist[n]) <= HistoryLimit /\ t.kept[n] \subseteq SReqs
            /\ ~t.mounted => t.tmp = Nothing
    /\ sLock \in {0} \cup SReqs /\ sPending \subseteq SStacks

(* Requests that write different secrets of a stack at once lose neither:  *)
(* the encrypted value of a name changes only in a step of a request about *)
(* that name, of an export or of the removal of the stack.                 *)
OthersKept(s, n) ==
    sStack[s].cipher[n] \notin {NoSource[n], sStack'[s].cipher[n]} =>
        \E r \in SReqs : /\ sReq'[r] # sReq[r]
                         /\ \/ sReq[r].n = n
                            \/ sReq[r].op \in {"enable", "export", "rm"}

(* A plain value that a write, a deletion, a restoration or a              *)
(* materialization replaces is the newest version of its history, unless   *)
(* another request put it there after this one had made its backup, or a   *)
(* mount covered it then.                                                  *)
ReplacedIsNewest(s, n) ==
    \/ sStack[s].disk[n] \in {0, sStack'[s].disk[n]}
    \/ sStack'[s].hist[n] # <<>> /\ Head(sStack'[s].hist[n]) = sStack[s].disk[n]
    \/ \E r \in SReqs : /\ sReq'[r] # sReq[r]
                        /\ \/ sReq[r].op \in {"enable", "rm"}
                           \/ sReq[r].at \in {"replace", "values"} /\ r \notin sStack[s].kept[n]

(* No value is lost that nobody asked to drop (inline.go, store.go).       *)
NoLostSecret ==
    [][sStack' # sStack =>
         \A s \in SStacks, n \in SecretNames : OthersKept(s, n) /\ ReplacedIsNewest(s, n)]_secVars

(* What an assignment to many stacks answers is true of every one of them  *)
(* that still has a source: all have the value, or all are as before       *)
(* except the ones it names, as stranded or as the one that failed.        *)
AssignHonest ==
    \A r \in SReqs, s \in SStacks :
        LET q == sReq[r]
            source == sStack[s].cipher
        IN source # NoSource =>
             /\ AtS(r, "assigned") => source[q.n] = q.v
             /\ AtS(r, "undone") => s \in q.stranded \cup q.failed \/ source = q.before[s]
=============================================================================
