----------------------------- MODULE HostEvents -----------------------------
(***************************************************************************)
(* What Dockman learns from a host's container events: the hub's stream    *)
(* and its reconnection (docker/container/events_hub.go), the watcher that *)
(* debounces policy changes and reports restarts (app/app.go,              *)
(* app/restart_tracker.go), and the refresh of the update schedules        *)
(* (updater/automation.go, RefreshHost).                                   *)
(*                                                                         *)
(* The labels of the host's containers are a version, raised by the events *)
(* that may change them.  An event is lost while the stream is down and    *)
(* when the watcher's buffer is full.  A host that is disabled, renamed or *)
(* lost gives up its watcher (app/host_watch.go) and gets a new one, with  *)
(* a tracker of its own, when it is connected again.                       *)
(***************************************************************************)
EXTENDS Naturals, Sequences, FiniteSets

CONSTANTS
    Boxes,
    EventQueue,     \* the subscriber's buffer
    RestartGap,     \* restartNotifyGap
    RestartMemory,  \* restartMemory, longer than the gap
    RestartCap,     \* restartMemoryCap
    MaxEventTime,   \* bound: the clock
    MaxEventSteps   \* bound: events of the host

ASSUME HostEventsAssumption ==
    /\ IsFiniteSet(Boxes) /\ EventQueue \in Nat \ {0} /\ RestartCap \in Nat \ {0}
    /\ RestartGap \in Nat /\ RestartMemory \in Nat /\ RestartMemory > RestartGap
    /\ MaxEventTime \in Nat \ {0} /\ MaxEventSteps \in Nat

VARIABLES
    eVer,      \* the labels as they are
    eKnown,    \* the labels the scheduled jobs were made from
    eStream,   \* the daemon's event stream: up or down; the host off, or returning
    eQueue,    \* events waiting for the watcher
    eTimer,    \* the two seconds of quiet before a refresh
    eRefresh,  \* the refresh goroutine: idle, reading, or the version read
    ePending,  \* refreshPending
    eList,     \* an inventory request of the interface: the version it read
    eExcused,  \* an event was lost, a refresh failed or an old listing won
    eCount,    \* the daemon's restart count of each container
    eTrack,    \* restartTracker.states
    eNotice,   \* the automatic notice just sent
    eLast,     \* when a container was last reported, as the reader saw it
    eTime, eventSteps

labelVars == <<eVer, eKnown, eRefresh, ePending, eList, eExcused>>
restartVars == <<eTrack, eNotice, eLast>>
eventVars == <<labelVars, eStream, eQueue, eTimer, eCount, restartVars, eTime, eventSteps>>

Never == 0
NoTrack == [known |-> FALSE, count |-> 0, notified |-> Never, seen |-> 0]
NoNotice == [box |-> "none", early |-> FALSE]
Idle0 == [at |-> "idle", ver |-> 0]
EventForgotten == [b \in Boxes |-> NoTrack]

EventInit ==
    /\ eVer = 0 /\ eKnown = 0 /\ eStream = "up" /\ eQueue = <<>> /\ eTimer = FALSE
    /\ eRefresh = Idle0 /\ ePending = FALSE /\ eList = Idle0 /\ eExcused = FALSE
    /\ eCount = [b \in Boxes |-> 0] /\ eTrack = EventForgotten /\ eNotice = NoNotice
    /\ eLast = [b \in Boxes |-> Never] /\ eTime = 1 /\ eventSteps = 0
-----------------------------------------------------------------------------
(* The host.  A policy event is create, destroy, rename or update.         *)

(* run and broadcast: to the watcher's buffer, or nowhere.                 *)
broadcast(evs) ==
    /\ eQueue' = IF eStream = "up" /\ Len(eQueue) + Len(evs) <= EventQueue THEN eQueue \o evs ELSE eQueue

Dropped == eStream # "up" \/ Len(eQueue) >= EventQueue
HostEvent == eventSteps < MaxEventSteps /\ eventSteps' = eventSteps + 1

LabelsChange(b, destroyed) ==
    /\ HostEvent /\ eVer' = eVer + 1
    /\ broadcast(<<[what |-> IF destroyed THEN "destroy" ELSE "policy", box |-> b]>>)
    /\ eExcused' = (eExcused \/ Dropped)
    /\ eCount' = IF destroyed THEN [eCount EXCEPT ![b] = 0] ELSE eCount
    /\ UNCHANGED <<eKnown, eStream, eTimer, eRefresh, ePending, eList, restartVars, eTime>>

(* A container dies and its restart policy brings it back, or somebody     *)
(* restarts it.                                                            *)
Dies(b) ==
    /\ HostEvent /\ broadcast(<<[what |-> "die", box |-> b]>>)
    /\ UNCHANGED <<labelVars, eStream, eTimer, eCount, restartVars, eTime>>

ComesBack(b) ==
    /\ HostEvent /\ eCount' = [eCount EXCEPT ![b] = @ + 1]
    /\ broadcast(<<[what |-> "start", box |-> b]>>)
    /\ UNCHANGED <<labelVars, eStream, eTimer, restartVars, eTime>>

Restarted(b) ==
    /\ HostEvent /\ broadcast(<<[what |-> "restart", box |-> b]>>)
    /\ UNCHANGED <<labelVars, eStream, eTimer, eCount, restartVars, eTime>>

(* run: the stream is interrupted, and opened again after a backoff.       *)
StreamTurns ==
    /\ \/ eStream = "up" /\ eStream' = "down" /\ HostEvent
       \/ eStream = "down" /\ eStream' = "up" /\ UNCHANGED eventSteps
    /\ UNCHANGED <<labelVars, eQueue, eTimer, eCount, restartVars, eTime>>

Tick ==
    /\ eTime < MaxEventTime /\ eTime' = eTime + 1
    /\ UNCHANGED <<labelVars, eStream, eQueue, eTimer, eCount, restartVars, eventSteps>>
-----------------------------------------------------------------------------
(* restartTracker.                                                         *)

(* pruneLocked, on a slow cadence or over the cap: what is too old goes,   *)
(* then as many as the cap asks for.                                       *)
pruneLocked(track) ==
    LET young == [b \in Boxes |-> IF eTime - track[b].seen >= RestartMemory THEN NoTrack
                                  ELSE track[b]]
        known == {b \in Boxes : young[b].known}
        over == Cardinality({b \in Boxes : track[b].known}) > RestartCap
    IN IF ~over THEN {track, young}
       ELSE IF Cardinality(known) <= RestartCap THEN {young}
       ELSE {[b \in Boxes |-> IF b \in kept THEN young[b] ELSE NoTrack] :
               kept \in {k \in SUBSET known : Cardinality(k) = RestartCap}}

Seen(b) == [eTrack[b] EXCEPT !.known = TRUE, !.seen = eTime]
Remember(b, state) == eTrack' \in pruneLocked([eTrack EXCEPT ![b] = state])

observe(b) == Remember(b, [Seen(b) EXCEPT !.count = eCount[b]])
notified(b) == Remember(b, [Seen(b) EXCEPT !.notified = eTime])

(* Mutant of worthNotifying: the quiet period is not kept.                 *)
EveryRestart(b) == eTrack[b].known /\ eCount[b] > eTrack[b].count

worthNotifying(b) ==
    /\ eTrack[b].known /\ eCount[b] > eTrack[b].count
    /\ eTrack[b].notified = Never \/ eTime - eTrack[b].notified > RestartGap

restarted(b) ==
    Remember(b, [Seen(b) EXCEPT !.count = eCount[b],
                                !.notified = IF worthNotifying(b) THEN eTime ELSE @])
-----------------------------------------------------------------------------
(* watchUpdatePolicyEvents.                                                *)

Reported(b, automatic) ==
    /\ eLast' = [eLast EXCEPT ![b] = eTime]
    /\ eNotice' = IF automatic
                    THEN [box |-> b, early |-> eLast[b] # Never /\ eTime - eLast[b] <= RestartGap]
                    ELSE NoNotice

(* One event; the restart count is read now, and may not be readable.      *)
watchUpdatePolicyEvents(readable) ==
    /\ eQueue # <<>> /\ eQueue' = Tail(eQueue)
    /\ LET e == Head(eQueue) IN
       /\ eTimer' = (eTimer \/ e.what \in {"policy", "destroy"})
       /\ \/ e.what = "policy" /\ UNCHANGED eTrack /\ eNotice' = NoNotice /\ UNCHANGED eLast
          \/ e.what = "destroy" /\ eTrack' = [eTrack EXCEPT ![e.box] = NoTrack]
             /\ eNotice' = NoNotice /\ eLast' = [eLast EXCEPT ![e.box] = Never]
          \/ e.what = "restart" /\ notified(e.box) /\ Reported(e.box, FALSE)
          \/ /\ e.what = "die" /\ eNotice' = NoNotice /\ UNCHANGED eLast
             /\ IF readable THEN observe(e.box) ELSE UNCHANGED eTrack
          \/ /\ e.what = "start"
             /\ IF readable THEN restarted(e.box) ELSE UNCHANGED eTrack
             /\ IF readable /\ worthNotifying(e.box) THEN Reported(e.box, TRUE)
                ELSE eNotice' = NoNotice /\ UNCHANGED eLast
    /\ UNCHANGED <<labelVars, eStream, eCount, eTime, eventSteps>>

(* release: the watcher ends, with what its buffer, its timer and its      *)
(* tracker hold.                                                           *)
HostReleased ==
    /\ eStream \in {"up", "down"} /\ eStream' = "off" /\ HostEvent
    /\ eQueue' = <<>> /\ eTimer' = FALSE /\ eTrack' = EventForgotten
    /\ eNotice' = NoNotice /\ eLast' = [b \in Boxes |-> Never]
    /\ UNCHANGED <<labelVars, eCount, eTime>>

(* Mutant of RequestRefresh: a request that meets a running refresh is     *)
(* taken for answered by it.                                               *)
RequestAbsorbed ==
    IF eRefresh.at # "idle" THEN UNCHANGED <<ePending, eRefresh>>
    ELSE eRefresh' = [at |-> "reading", ver |-> 0] /\ UNCHANGED ePending

(* RefreshHost: while one runs the request is remembered, and one more     *)
(* follows.                                                                *)
RequestRefresh ==
    IF eRefresh.at # "idle" THEN ePending' = TRUE /\ UNCHANGED eRefresh
    ELSE eRefresh' = [at |-> "reading", ver |-> 0] /\ UNCHANGED ePending

RefreshHost ==
    /\ eTimer /\ eTimer' = FALSE
    /\ RequestRefresh
    /\ UNCHANGED <<eVer, eKnown, eList, eExcused, eStream, eQueue, eCount, restartVars, eTime,
                   eventSteps>>

(* The host is connected again: a refresh is asked for, which answers for  *)
(* all that was missed, and then the new watcher subscribes; its stream is *)
(* still to be opened.                                                     *)
HostReturns ==
    /\ eStream = "off" /\ eStream' = "returning"
    /\ RequestRefresh /\ eExcused' = FALSE
    /\ UNCHANGED <<eVer, eKnown, eList, eQueue, eTimer, eCount, restartVars, eTime, eventSteps>>

WatchAgain ==
    /\ eStream = "returning" /\ eStream' = "down"
    /\ UNCHANGED <<labelVars, eQueue, eTimer, eCount, restartVars, eTime, eventSteps>>

(* ReconcileHost: the inventory is read, then the jobs are replaced.       *)
ReadInventory ==
    /\ eRefresh.at = "reading"
    /\ eRefresh' = [at |-> "read", ver |-> eVer]
    /\ UNCHANGED <<eVer, eKnown, ePending, eList, eExcused, eStream, eQueue, eTimer, eCount,
                   restartVars, eTime, eventSteps>>

RefreshLoop ==
    /\ ePending' = FALSE
    /\ eRefresh' = IF ePending THEN [at |-> "reading", ver |-> 0] ELSE Idle0

ReconcileInventory ==
    /\ eRefresh.at = "read"
    /\ eKnown' = eRefresh.ver
    /\ eExcused' = (eExcused /\ eRefresh.ver # eVer)
    /\ RefreshLoop
    /\ UNCHANGED <<eVer, eList, eStream, eQueue, eTimer, eCount, restartVars, eTime,
                   eventSteps>>

RefreshFails ==
    /\ eRefresh.at # "idle" /\ eExcused' = TRUE
    /\ RefreshLoop
    /\ UNCHANGED <<eVer, eKnown, eList, eStream, eQueue, eTimer, eCount, restartVars, eTime,
                   eventSteps>>

(* The interface lists the inventory and reconciles with what it read,     *)
(* beside the refresh.                                                     *)
ListInventory ==
    /\ eList.at = "idle" /\ HostEvent
    /\ eList' = [at |-> "read", ver |-> eVer]
    /\ UNCHANGED <<eVer, eKnown, eRefresh, ePending, eExcused, eStream, eQueue, eTimer, eCount,
                   restartVars, eTime>>

ListReconciles ==
    /\ eList.at = "read" /\ eList' = Idle0
    /\ eKnown' = eList.ver /\ eExcused' = (eExcused \/ eList.ver < eVer)
    /\ UNCHANGED <<eVer, eRefresh, ePending, eStream, eQueue, eTimer, eCount, restartVars, eTime,
                   eventSteps>>

EventNext ==
    \/ \E b \in Boxes : Dies(b) \/ ComesBack(b) \/ Restarted(b)
                        \/ \E destroyed \in BOOLEAN : LabelsChange(b, destroyed)
    \/ StreamTurns \/ Tick
    \/ \E readable \in BOOLEAN : watchUpdatePolicyEvents(readable)
    \/ HostReleased \/ HostReturns \/ WatchAgain
    \/ RefreshHost \/ ReadInventory \/ ReconcileInventory \/ RefreshFails
    \/ ListInventory \/ ListReconciles

EventSpec == EventInit /\ [][EventNext]_eventVars
-----------------------------------------------------------------------------
EventTypeOK ==
    /\ eVer \in 0..MaxEventSteps /\ eKnown \in 0..eVer
    /\ Len(eQueue) <= EventQueue /\ eTimer \in BOOLEAN /\ ePending \in BOOLEAN
    /\ eRefresh.at \in {"idle", "reading", "read"} /\ eTime \in 1..MaxEventTime
    /\ Cardinality({b \in Boxes : eTrack[b].known}) <= RestartCap

(* A change of a container's labels that arrives while a refresh is at     *)
(* work is not lost: once nothing is left to do, the scheduled jobs are    *)
(* those of the labels as they are, also after the host was away, unless,  *)
(* since it is there, an event was dropped, a refresh failed or the        *)
(* interface wrote an older listing over a newer one (RefreshHost: "one    *)
(* final authoritative inventory").                                        *)
RefreshFollows ==
    eStream # "off" /\ eRefresh.at = "idle" /\ ~eTimer /\ eQueue = <<>> /\ eList.at = "idle" /\ ~eExcused
      => eKnown = eVer

(* A crash loop is reported, and then not again before the quiet period is *)
(* over, whatever was observed, explicitly restarted or forgotten in       *)
(* between (restart_tracker.go: "reports rather than floods").  Excepted:  *)
(* a tracker over its cap may forget early, and a new watcher starts with  *)
(* an empty one (HostReleased), so a host that comes back may have a loop  *)
(* reported at once again.                                                 *)
CrashLoopQuiet == eNotice.early => Cardinality(Boxes) > RestartCap

EventsHonest == RefreshFollows /\ CrashLoopQuiet
=============================================================================
