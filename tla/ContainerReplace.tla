-------------------------- MODULE ContainerReplace --------------------------
(***************************************************************************)
(* The in-place update of one container: the step by step swap of          *)
(* core/internal/docker/updater/updater.go, run by one worker per service. *)
(*                                                                         *)
(* A service is what a stack lock protects (compose.TryLockStack), so at   *)
(* most one worker handles the containers of a service; workers of         *)
(* different services interleave freely.  They share the Docker daemon     *)
(* and, through the sweep for interrupted replacements that opens a manual *)
(* update, they touch each other's containers.  Every daemon call is a     *)
(* step of its own and may fail; Dockman may crash between any two steps.  *)
(*                                                                         *)
(* A container's name is its service's name followed by one                *)
(* ".dockman-update-xxxxxxxx" suffix per replacement that has not taken    *)
(* its final name yet.  Suffixes are unique to an attempt, so the id of    *)
(* the replacement stands for its suffix; "tail" is the list of suffixes.  *)
(***************************************************************************)
EXTENDS Naturals, Sequences

(* A manual update, one of the automation, the restore of a stack rollback. *)
Kinds == {"manual", "automatic", "restore"}

CONSTANTS
    Services,   \* the lock domains: one container is deployed for each
    Ids,        \* container ids, which bound the number of replacements
    Original,   \* the id of the container each service starts with
    Requests,   \* the updates asked for each service: <<kind, verify health>>
    EventBuffer \* events a subscriber of the hub holds before it loses some

ASSUME ReplaceAssumption ==
    /\ Original \in [Services -> Ids]
    /\ \A s, t \in Services : Original[s] = Original[t] => s = t
    /\ Services # {}
    /\ Requests \in [Services -> SUBSET (Kinds \X BOOLEAN)]
    /\ \A s \in Services, v \in BOOLEAN :
         <<"manual", v>> \in Requests[s] \/ <<"restore", v>> \in Requests[s] => v
    /\ EventBuffer \in Nat \ {0}

VARIABLES
    present,    \* the containers that exist on the host
    cont,       \* what the daemon knows of every container
    used,       \* the ids, and temporary names, already handed out
    wk,         \* the update worker of every service
    rejected,   \* the replacements a worker has given up on
    vanished    \* the services whose container went with a removal that reported an error

vars == <<present, cont, used, wk, rejected, vanished>>

Healths == {"none", "starting", "healthy", "unhealthy"}

Containers == [svc : Services, tail : Seq(Ids), up : BOOLEAN, health : Healths]

Names == Services \X Seq(Ids)

Events == {"die", "healthy", "unhealthy"}

(***************************************************************************)
(* What the caller is told.  "kept": an error, the old container is in     *)
(* place; "down": an error, it could not be brought back; "unremoved": an  *)
(* error, the stopped container could not be removed; "unnamed": the       *)
(* replacement works but did not get its name; "untouched": an error       *)
(* before anything changed.                                                *)
(***************************************************************************)
Verdicts == {"none", "current", "untouched", "updated", "rolled_back",
             "kept", "down", "unremoved", "unnamed", "unverified"}

Steps == {"idle", "list", "sweep", "pull", "inspect",
          "createCold", "removeCold", "dropCold",
          "stop", "unstop", "create", "start",
          "check", "await", "labels", "drop", "rollback",
          "removeOld", "undoNew", "restartOld", "rename", "relist"}

Workers == [pc : Steps, kind : Kinds,
            verify : BOOLEAN, hot : BOOLEAN, old : Ids, new : Ids, name : Seq(Ids),
            todo : SUBSET [id : Ids, svc : Services, tail : Seq(Ids)],
            taken : SUBSET Names, events : Seq(Events), crashed : BOOLEAN,
            told : BOOLEAN, verdict : Verdicts]

Idle(s) == [pc |-> "idle", kind |-> "manual", verify |-> TRUE,
            hot |-> FALSE, old |-> Original[s], new |-> Original[s], name |-> <<>>,
            todo |-> {}, taken |-> {}, events |-> <<>>, crashed |-> FALSE,
            told |-> FALSE, verdict |-> "none"]

Init ==
    /\ present = {Original[s] : s \in Services}
    /\ \E running \in SUBSET Services :
         cont = [i \in Ids |->
                   LET owner == IF i \in present
                                THEN CHOOSE s \in Services : Original[s] = i
                                ELSE CHOOSE s \in Services : TRUE
                   IN  [svc |-> owner, tail |-> <<>>,
                        up |-> i \in present /\ owner \in running,
                        health |-> "none"]]
    /\ used = present
    /\ wk = [s \in Services |-> Idle(s)]
    /\ rejected = {}
    /\ vanished = {}

-----------------------------------------------------------------------------
(* The daemon.                                                             *)

NameHeld(s, tail) == \E i \in present : cont[i].svc = s /\ cont[i].tail = tail

(* The daemon refuses a container that is gone.                            *)
SetUp(i, up) == i \in present /\ cont' = [cont EXCEPT ![i].up = up]

Become(s, w) == wk' = [wk EXCEPT ![s] = w]

Goto(s, pc) == Become(s, [wk[s] EXCEPT !.pc = pc])

(* The worker returns: what it knew is gone, but for what was reported.   *)
Report(s, verdict, told) ==
    LET w == wk[s] IN
    Become(s, [Idle(s) EXCEPT !.hot = w.hot, !.old = w.old, !.new = w.new,
                              !.told = told, !.verdict = verdict])

Finish(s, verdict) == Report(s, verdict, wk[s].told)

(***************************************************************************)
(* A start or a stop that reports an error may still have taken effect: a  *)
(* deadline reached while the daemon was already at work.                  *)
(***************************************************************************)
MaybeSetUp(i, up) == cont' = cont \/ SetUp(i, up)

-----------------------------------------------------------------------------
(* Entry points.                                                           *)

(* Which unused id the daemon draws makes no difference.                   *)
FreshId == CHOOSE i \in Ids : i \notin used

FirstStep(kind) == CASE kind = "manual" -> "list"
                     [] kind = "automatic" -> "pull"
                     [] kind = "restore" -> "inspect"

(* Mutant of Begin: the temporary name is not set aside.                   *)
BeginUnreserved(s, i, kind, verify) ==
    /\ wk[s].pc = "idle"
    /\ i \in present /\ cont[i].svc = s
    /\ <<kind, verify>> \in Requests[s]
    /\ used # Ids
    /\ Become(s, [Idle(s) EXCEPT !.pc = FirstStep(kind), !.kind = kind,
                                 !.verify = verify, !.old = i, !.new = FreshId,
                                 !.name = cont[i].tail])
    /\ UNCHANGED <<present, cont, used, rejected, vanished>>

(***************************************************************************)
(* An update of container i is requested and gets the stack lock.  The     *)
(* manual action sweeps first; a stack rollback restores the container     *)
(* found under a name, on an image that is already local.  The temporary   *)
(* name is drawn here.                                                     *)
(***************************************************************************)
Begin(s, i, kind, verify) ==
    /\ wk[s].pc = "idle"
    /\ i \in present /\ cont[i].svc = s
    /\ <<kind, verify>> \in Requests[s]
    /\ used # Ids
    /\ used' = used \cup {FreshId}
    /\ Become(s, [Idle(s) EXCEPT !.pc = FirstStep(kind), !.kind = kind,
                                 !.verify = verify, !.old = i, !.new = FreshId,
                                 !.name = cont[i].tail])
    /\ UNCHANGED <<present, cont, rejected, vanished>>

-----------------------------------------------------------------------------
(* RecoverInterruptedReplacements.                                         *)

SweepList(s) ==
    /\ wk[s].pc = "list"
    /\ \/ Become(s, [wk[s] EXCEPT
            !.pc = "sweep",
            !.todo = {[id |-> i, svc |-> cont[i].svc, tail |-> cont[i].tail] :
                        i \in {j \in present : cont[j].tail # <<>>}},
            !.taken = {<<cont[i].svc, cont[i].tail>> : i \in present}])
       \/ Become(s, [wk[s] EXCEPT !.pc = "pull", !.name = cont[wk[s].old].tail])
    /\ UNCHANGED <<present, cont, used, rejected, vanished>>

(***************************************************************************)
(* One listed leftover.  Its intended name is its own without the last     *)
(* suffix; the names are those of the listing, brought forward by the      *)
(* sweep's own renames.  The daemon refuses a name that is in use, also    *)
(* when it is the container's own, and a container that is gone.           *)
(***************************************************************************)
SweepOne(s) ==
    /\ wk[s].pc = "sweep"
    /\ \E item \in wk[s].todo :
         LET front   == SubSeq(item.tail, 1, Len(item.tail) - 1)
             target  == <<item.svc, front>>
             skip    == Become(s, [wk[s] EXCEPT !.todo = @ \ {item}]) /\ UNCHANGED cont
         IN  \/ skip
             \/ /\ target \notin wk[s].taken
                /\ item.id \in present /\ ~NameHeld(item.svc, front)
                /\ cont' = [cont EXCEPT ![item.id].tail = front]
                /\ Become(s, [wk[s] EXCEPT
                     !.todo = @ \ {item},
                     !.taken = (@ \ {<<item.svc, item.tail>>}) \cup {target}])
    /\ UNCHANGED <<present, used, rejected, vanished>>

SweepDone(s) ==
    /\ wk[s].pc = "sweep" /\ wk[s].todo = {}
    /\ Become(s, [wk[s] EXCEPT !.pc = "pull", !.taken = {}, !.name = cont[wk[s].old].tail])
    /\ UNCHANGED <<present, cont, used, rejected, vanished>>

-----------------------------------------------------------------------------
(* forceUpdateContainer up to the recreation.                              *)

Pull(s) ==
    /\ wk[s].pc = "pull"
    /\ \/ Finish(s, "untouched")
       \/ Finish(s, "current")
       \/ Goto(s, "inspect")
    /\ UNCHANGED <<present, cont, used, rejected, vanished>>

-----------------------------------------------------------------------------
(* ContainerRecreateWithOptions.                                           *)

Inspect(s) ==
    /\ wk[s].pc = "inspect"
    /\ \/ Finish(s, "untouched")
       \/ /\ cont[wk[s].old].up
          /\ Become(s, [wk[s] EXCEPT !.pc = "stop", !.hot = TRUE])
       \/ ~cont[wk[s].old].up /\ Goto(s, "createCold")
    /\ UNCHANGED <<present, cont, used, rejected, vanished>>

(***************************************************************************)
(* The daemon creates the replacement, stopped, under its temporary name.  *)
(* A fresh container with a health check reports "starting".               *)
(***************************************************************************)
CreateReplacement(s) ==
    /\ present' = present \cup {wk[s].new}
    /\ \E h \in {"none", "starting"} :
         cont' = [cont EXCEPT ![wk[s].new] =
                    [svc |-> s, tail |-> Append(wk[s].name, wk[s].new),
                     up |-> FALSE, health |-> h]]

(* Mutant of CreateCold: the old container is removed before the new one exists. *)
CreateColdInPlace(s) ==
    /\ wk[s].pc = "createCold"
    /\ \/ CreateReplacement(s) /\ Goto(s, "removeCold")
       \/ /\ Finish(s, "kept") /\ UNCHANGED cont
          /\ present' = present \ {wk[s].old}
    /\ UNCHANGED <<used, rejected, vanished>>

(* The stopped container: create, remove, rename.                          *)
CreateCold(s) ==
    /\ wk[s].pc = "createCold"
    /\ \/ CreateReplacement(s) /\ Goto(s, "removeCold")
       \/ Finish(s, "kept") /\ UNCHANGED <<present, cont>>
    /\ UNCHANGED <<used, rejected, vanished>>

(***************************************************************************)
(* A removal that reports an error may have taken effect too; its caller   *)
(* takes the old container for kept and gives up on the replacement.       *)
(***************************************************************************)
GiveUp(s, removed) ==
    /\ rejected' = rejected \cup {wk[s].new}
    /\ IF removed
       THEN present' = present \ {wk[s].old} /\ vanished' = vanished \cup {s}
       ELSE UNCHANGED <<present, vanished>>

RemoveCold(s) ==
    /\ wk[s].pc = "removeCold"
    /\ \/ /\ ~cont[wk[s].old].up
          /\ present' = present \ {wk[s].old}
          /\ Goto(s, "rename")
          /\ UNCHANGED <<rejected, vanished>>
       \/ /\ Goto(s, "dropCold")
          /\ \E removed \in {FALSE, ~cont[wk[s].old].up} : GiveUp(s, removed)
    /\ UNCHANGED <<cont, used>>

(* The daemon removes the replacement.                                     *)
RemoveNew(s) == present' = present \ {wk[s].new}

DropCold(s) ==
    /\ wk[s].pc = "dropCold"
    /\ \/ RemoveNew(s) /\ Finish(s, "unremoved")
       \/ (RemoveNew(s) \/ UNCHANGED present) /\ Report(s, "unremoved", TRUE)
    /\ UNCHANGED <<cont, used, rejected, vanished>>

(* Mutant of Stop: a stop that fails is taken for one that worked.         *)
StopErrorIgnored(s) ==
    /\ wk[s].pc = "stop"
    /\ SetUp(wk[s].old, FALSE) \/ UNCHANGED cont
    /\ Goto(s, "create")
    /\ UNCHANGED <<present, used, rejected, vanished>>

(* The running container: stop, create, start, verify, remove, rename.     *)
Stop(s) ==
    /\ wk[s].pc = "stop"
    /\ \/ SetUp(wk[s].old, FALSE) /\ Goto(s, "create")
       \/ MaybeSetUp(wk[s].old, FALSE) /\ Goto(s, "unstop")
    /\ UNCHANGED <<present, used, rejected, vanished>>

Unstop(s) ==
    /\ wk[s].pc = "unstop"
    /\ \/ SetUp(wk[s].old, TRUE) /\ Finish(s, "kept")
       \/ MaybeSetUp(wk[s].old, TRUE) /\ Finish(s, "down")
    /\ UNCHANGED <<present, used, rejected, vanished>>

Create(s) ==
    /\ wk[s].pc = "create"
    /\ \/ CreateReplacement(s) /\ Goto(s, "start")
       \/ Goto(s, "rollback") /\ UNCHANGED <<present, cont>>
    /\ UNCHANGED <<used, rejected, vanished>>

Start(s) ==
    /\ wk[s].pc = "start"
    /\ \/ /\ SetUp(wk[s].new, TRUE)
          /\ Goto(s, IF wk[s].verify THEN "check" ELSE "removeOld")
          /\ UNCHANGED rejected
       \/ /\ MaybeSetUp(wk[s].new, TRUE)
          /\ Goto(s, "drop")
          /\ rejected' = rejected \cup {wk[s].new}
    /\ UNCHANGED <<present, used, vanished>>

-----------------------------------------------------------------------------
(* ContainerHealthCheck of the replacement.                                *)

Verifying(s) == wk[s].pc \in {"check", "await"}

(* The verdict of a check; the subscription to the hub ends with it.       *)
Verified(s) == Become(s, [wk[s] EXCEPT !.pc = "labels", !.events = <<>>])

Reject(s) ==
    /\ Become(s, [wk[s] EXCEPT !.pc = "drop", !.events = <<>>])
    /\ rejected' = rejected \cup {wk[s].new}

(***************************************************************************)
(* The runtime check subscribes to the daemon's events, then inspects.     *)
(* The inspection may fail, or the context may end.                        *)
(***************************************************************************)
Check(s) ==
    /\ wk[s].pc = "check"
    /\ LET c == cont[wk[s].new]
       IN  \/ Reject(s)
           \/ /\ c.up /\ c.health \in {"none", "starting"}
              /\ Goto(s, "await") /\ UNCHANGED rejected
           \/ /\ c.up /\ c.health = "healthy"
              /\ Verified(s) /\ UNCHANGED rejected
    /\ UNCHANGED <<present, cont, used, vanished>>

(***************************************************************************)
(* The next event reaches waitForContainerStability or, for an image with  *)
(* a health check, waitForContainerHealthy.                                *)
(***************************************************************************)
AwaitEvent(s) ==
    /\ wk[s].pc = "await" /\ wk[s].events # <<>>
    /\ LET event   == Head(wk[s].events)
           ignored == cont[wk[s].new].health = "none" /\ event # "die"
       IN  \/ /\ ignored
              /\ Become(s, [wk[s] EXCEPT !.events = Tail(@)]) /\ UNCHANGED rejected
           \/ /\ ~ignored /\ event = "healthy"
              /\ Verified(s) /\ UNCHANGED rejected
           \/ /\ ~ignored /\ event # "healthy"
              /\ Reject(s)
    /\ UNCHANGED <<present, cont, used, vanished>>

(* Mutant of Confirmed: an elapsed window is taken for a healthy container. *)
SilenceTrusted(s) == TRUE

(***************************************************************************)
(* The window or the deadline elapses.  The daemon is asked again, because *)
(* the hub may have dropped the event that mattered.                       *)
(***************************************************************************)
Confirmed(s) ==
    LET c == cont[wk[s].new] IN c.up /\ c.health \in {"none", "healthy"}

(* Mutant of AwaitTimer: the wait relies on the event stream alone.        *)
AwaitEventsOnly(s) ==
    /\ wk[s].pc = "await" /\ wk[s].events # <<>>
    /\ \/ Confirmed(s) /\ Verified(s) /\ UNCHANGED rejected
       \/ Reject(s)
    /\ UNCHANGED <<present, cont, used, vanished>>

AwaitTimer(s) ==
    /\ wk[s].pc = "await"
    /\ \/ Confirmed(s) /\ Verified(s) /\ UNCHANGED rejected
       \/ Reject(s)
    /\ UNCHANGED <<present, cont, used, vanished>>

(* The checks that labels ask for: an uptime to reach, an endpoint to ping. *)
Labels(s) ==
    /\ wk[s].pc = "labels"
    /\ \/ Goto(s, "removeOld") /\ UNCHANGED rejected
       \/ Reject(s)
    /\ UNCHANGED <<present, cont, used, vanished>>

-----------------------------------------------------------------------------
(* Compensation and the swap.                                              *)

Drop(s) ==
    /\ wk[s].pc = "drop"
    /\ \/ RemoveNew(s) /\ Goto(s, "rollback")
       \/ /\ RemoveNew(s) \/ UNCHANGED present
          /\ Become(s, [wk[s] EXCEPT !.pc = "rollback", !.told = TRUE])
    /\ UNCHANGED <<cont, used, rejected, vanished>>

(* Mutant of Rollback: the restart of the old container is not checked.    *)
RollbackUnchecked(s) ==
    /\ wk[s].pc = "rollback"
    /\ SetUp(wk[s].old, TRUE) \/ UNCHANGED cont
    /\ Finish(s, "rolled_back")
    /\ UNCHANGED <<present, used, rejected, vanished>>

Rollback(s) ==
    /\ wk[s].pc = "rollback"
    /\ \/ SetUp(wk[s].old, TRUE) /\ Finish(s, "rolled_back")
       \/ MaybeSetUp(wk[s].old, TRUE) /\ Finish(s, "down")
    /\ UNCHANGED <<present, used, rejected, vanished>>

RemoveOld(s) ==
    /\ wk[s].pc = "removeOld"
    /\ \/ /\ present' = present \ {wk[s].old}
          /\ Goto(s, "rename")
          /\ UNCHANGED <<rejected, vanished>>
       \/ /\ Goto(s, "undoNew")
          /\ \E removed \in BOOLEAN : GiveUp(s, removed)
    /\ UNCHANGED <<cont, used>>

(* The error of this removal is not looked at.                             *)
UndoNew(s) ==
    /\ wk[s].pc = "undoNew"
    /\ RemoveNew(s) \/ UNCHANGED present
    /\ Goto(s, "restartOld")
    /\ UNCHANGED <<cont, used, rejected, vanished>>

RestartOld(s) ==
    /\ wk[s].pc = "restartOld"
    /\ \/ SetUp(wk[s].old, TRUE) /\ Finish(s, "kept")
       \/ MaybeSetUp(wk[s].old, TRUE) /\ Finish(s, "down")
    /\ UNCHANGED <<present, used, rejected, vanished>>

Rename(s) ==
    /\ wk[s].pc = "rename"
    /\ \/ /\ ~NameHeld(s, wk[s].name)
          /\ cont' = [cont EXCEPT ![wk[s].new].tail = wk[s].name]
          /\ IF wk[s].kind = "restore" THEN Goto(s, "relist") ELSE Finish(s, "updated")
       \/ Finish(s, "unnamed") /\ UNCHANGED cont
    /\ UNCHANGED <<present, used, rejected, vanished>>

(* RestoreContainerImage looks its container up again by name.             *)
Relist(s) ==
    /\ wk[s].pc = "relist"
    /\ \/ NameHeld(s, wk[s].name) /\ Finish(s, "updated")
       \/ Finish(s, "unverified")
    /\ UNCHANGED <<present, cont, used, rejected, vanished>>

-----------------------------------------------------------------------------
(* The environment.                                                        *)

(***************************************************************************)
(* The hub hands an event to the verifying worker, or drops it because the *)
(* worker's buffer is full; other containers' events, not modelled, share  *)
(* the buffer, so that a drop may happen at any time.                      *)
(***************************************************************************)
Delivered(s, event) ==
    {wk[s].events} \cup (IF Len(wk[s].events) < EventBuffer
                         THEN {Append(wk[s].events, event)} ELSE {})

(***************************************************************************)
(* The replacement dies while it is being verified.  The daemon reports a  *)
(* container with a restart policy as running again at once, so that only  *)
(* the event tells; without one it stays down.  The event is delivered or  *)
(* dropped.  "crashed" remembers a death that nothing has repaired.        *)
(***************************************************************************)
Die(s, restarts) ==
    /\ Verifying(s) /\ cont[wk[s].new].up
    /\ IF restarts THEN UNCHANGED cont ELSE SetUp(wk[s].new, FALSE)
    /\ \E events \in Delivered(s, "die") :
         Become(s, [wk[s] EXCEPT !.events = events, !.crashed = @ \/ ~restarts])
    /\ UNCHANGED <<present, used, rejected, vanished>>

HealthTurns(s, health) ==
    /\ Verifying(s)
    /\ cont[wk[s].new].up
    /\ cont[wk[s].new].health \notin {"none", health}
    /\ cont' = [cont EXCEPT ![wk[s].new].health = health]
    /\ \E events \in Delivered(s, health) : Become(s, [wk[s] EXCEPT !.events = events])
    /\ UNCHANGED <<present, used, rejected, vanished>>

(* Dockman stops between two steps; the daemon's containers stay.          *)
Crash ==
    /\ \E s \in Services : wk[s].pc # "idle"
    /\ wk' = [s \in Services |-> Idle(s)]
    /\ UNCHANGED <<present, cont, used, rejected, vanished>>

-----------------------------------------------------------------------------

WorkerStep(s) ==
    \/ SweepList(s) \/ SweepOne(s) \/ SweepDone(s)
    \/ Pull(s) \/ Inspect(s)
    \/ CreateCold(s) \/ RemoveCold(s) \/ DropCold(s)
    \/ Stop(s) \/ Unstop(s) \/ Create(s) \/ Start(s)
    \/ Check(s) \/ AwaitEvent(s) \/ AwaitTimer(s) \/ Labels(s)
    \/ Drop(s) \/ Rollback(s)
    \/ RemoveOld(s) \/ UndoNew(s) \/ RestartOld(s) \/ Rename(s) \/ Relist(s)

Environment(s) ==
    \/ \E restarts \in BOOLEAN : Die(s, restarts)
    \/ \E health \in {"healthy", "unhealthy"} : HealthTurns(s, health)

Next ==
    \/ \E s \in Services :
         \/ \E i \in Ids, kind \in Kinds, verify \in BOOLEAN :
              Begin(s, i, kind, verify)
         \/ WorkerStep(s)
         \/ Environment(s)
    \/ Crash

Spec == Init /\ [][Next]_vars

(***************************************************************************)
(* Every step of a worker is bounded in time: daemon calls carry contexts  *)
(* with deadlines, the waits have timers, the sweep's list is finite.      *)
(***************************************************************************)
Fairness == \A s \in Services : WF_vars(WorkerStep(s))

FairSpec == Spec /\ Fairness

-----------------------------------------------------------------------------

(* Every variable has its type, and no id is handed out twice.             *)
TypeOK ==
    /\ used \subseteq Ids
    /\ present \subseteq used
    /\ rejected \subseteq used
    /\ vanished \subseteq Services
    /\ cont \in [Ids -> Containers]
    /\ wk \in [Services -> Workers]

(***************************************************************************)
(* "rollback to the old container on any failure": whatever fails, and     *)
(* wherever Dockman is stopped, every service still has a container that   *)
(* no update has given up on.  The one failure that loses a service is a   *)
(* removal of its old container that takes effect and reports an error.    *)
(***************************************************************************)
ServiceKept ==
    \A s \in Services \ vanished : \E i \in present \ rejected : cont[i].svc = s

(***************************************************************************)
(* The container being replaced and its replacement never run side by side *)
(* on the same volumes and ports, except when a replacement that was given *)
(* up on could not be removed.                                             *)
(***************************************************************************)
NoOverlap ==
    \A s \in Services :
      LET w == wk[s] IN
      /\ w.old # w.new
      /\ {w.old, w.new} \subseteq present
      /\ cont[w.old].up /\ cont[w.new].up
      => w.new \in rejected

(***************************************************************************)
(* What the caller is told is true: after "rolled back", and after an      *)
(* error that says a running container was left or put back, that very     *)
(* container is on the host and runs; after any other harmless verdict it  *)
(* is still there.                                                         *)
(***************************************************************************)
VerdictTrue ==
    \A s \in Services :
      LET w == wk[s] IN
      w.pc = "idle" =>
        /\ w.verdict \in {"current", "untouched", "rolled_back", "kept"} => w.old \in present
        /\ w.verdict = "rolled_back" => cont[w.old].up
        /\ w.verdict = "kept" /\ w.hot => cont[w.old].up

(***************************************************************************)
(* A replacement without a health check that crashed while it was being    *)
(* verified, and stayed down, is never accepted, even when the event that  *)
(* reported the crash was dropped: the old container is not removed for it.*)
(***************************************************************************)
BootCrashCaught ==
    \A s \in Services :
      LET w == wk[s] IN
      /\ w.pc \in {"labels", "removeOld", "rename", "relist"}
      /\ w.hot /\ w.verify /\ cont[w.new].health = "none"
      => ~w.crashed

(* Every update that was begun ends, whatever the event stream loses.      *)
UpdateTerminates ==
    \A s \in Services : wk[s].pc # "idle" ~> wk[s].pc = "idle"

-----------------------------------------------------------------------------
(* Statements of the source that the code does not meet.                   *)

(***************************************************************************)
(* "the operator has to be told which container to delete rather than find *)
(* it by accident": when an update that failed leaves its replacement on   *)
(* the host, the error it returns says so.                                 *)
(***************************************************************************)
LeftoverReported ==
    \A s \in Services :
      LET w == wk[s] IN
      /\ w.pc = "idle" /\ w.verdict \in {"rolled_back", "kept", "down", "unremoved"}
      /\ w.new \in present
      => w.told

(***************************************************************************)
(* An update reports "could not take final name; manual recovery is        *)
(* required" only if its replacement does not carry that name.             *)
(***************************************************************************)
UnnamedIsReal ==
    [][\A s \in Services :
         /\ wk[s].pc = "rename"
         /\ wk'[s].verdict = "unnamed"
         => cont[wk[s].new].tail # wk[s].name]_vars
=============================================================================
