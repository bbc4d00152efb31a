--------------------------- MODULE PruneSchedule ----------------------------
(***************************************************************************)
(* The cleaner of one host: its saved configuration, the scheduled job,    *)
(* and the prune runs (cleaner/service.go, handler.go).                    *)
(*                                                                         *)
(* Requests interleave between the row, the task list and the scheduler,   *)
(* which no lock joins, so a job may outlive its place in the task list.   *)
(* The schedule of a row is a number; rows older than schedules were given *)
(* one by StartEnabled before the first request.                           *)
(***************************************************************************)
EXTENDS Naturals, FiniteSets

CONSTANTS
    PruneClients,   \* concurrent requests
    PruneKinds,     \* what can be pruned
    MaxPruneSteps   \* bound: requests, scheduled runs and new garbage

ASSUME PruneScheduleAssumption == MaxPruneSteps \in Nat

VARIABLES
    pRow,      \* the configuration: enabled, schedule, kinds
    pTask,     \* taskList: the job, 0 if there is none
    pJobs,     \* the jobs the scheduler runs
    pMade,     \* jobs made so far
    pCall,     \* the requests
    pRun,      \* a prune run
    pWaste,    \* what there is to prune on the host
    pOff,      \* the operator was told that it is off, and nobody asked since
    pruneSteps

pruneVars == <<pRow, pTask, pJobs, pMade, pCall, pRun, pWaste, pOff, pruneSteps>>

NoPrune == [at |-> "none", row |-> [on |-> FALSE, cron |-> 1, what |-> {}], job |-> 0]
NoPruneRun == [at |-> "none", what |-> {}, left |-> {}, off |-> FALSE]
Rows == [on : BOOLEAN, cron : 1..2, what : SUBSET PruneKinds]

PruneInit ==
    /\ \E on \in BOOLEAN : /\ pRow = [on |-> on, cron |-> 1, what |-> PruneKinds]
                           /\ pTask = IF on THEN 1 ELSE 0
                           /\ pJobs = IF on THEN {1} ELSE {}
                           /\ pOff = ~on
    /\ pMade = 1 /\ pRun = NoPruneRun /\ pWaste = PruneKinds /\ pruneSteps = 0
    /\ pCall = [c \in PruneClients |-> NoPrune]

PruneEvent == pruneSteps < MaxPruneSteps /\ pruneSteps' = pruneSteps + 1
Calls(c, r) == pCall' = [pCall EXCEPT ![c] = r]
-----------------------------------------------------------------------------
(* EditConfig.  The schedule is checked before the row is saved.           *)
EditConfig(c, row) ==
    /\ PruneEvent /\ pCall[c].at = "none"
    /\ pRow' = row /\ pOff' = (pOff /\ ~row.on)
    /\ Calls(c, [at |-> "saved", row |-> row, job |-> 0])
    /\ UNCHANGED <<pTask, pJobs, pMade, pRun, pWaste>>

(* It reads the row back, which another request may have saved meanwhile.  *)
ReadBack(c) ==
    /\ pCall[c].at = "saved"
    /\ Calls(c, [pCall[c] EXCEPT !.at = IF pRow.on THEN "schedule" ELSE "stop"])
    /\ UNCHANGED <<pRow, pTask, pJobs, pMade, pRun, pWaste, pOff, pruneSteps>>

(* RunWithScheduler reads the row once more, and looks for the job; unless *)
(* it is an edit, a job that is there is only run (which clean models).    *)
RunWithScheduler(c) ==
    /\ pCall[c].at \in {"schedule", "register"}
    /\ Calls(c, IF pRow.on /\ (pTask = 0 \/ pCall[c].at = "schedule")
                  THEN [pCall[c] EXCEPT !.at = "job", !.job = pTask] ELSE NoPrune)
    /\ UNCHANGED <<pRow, pTask, pJobs, pMade, pRun, pWaste, pOff, pruneSteps>>

(* Update of a job, or a new one; an update of a removed job is refused.   *)
ScheduleJob(c) ==
    /\ pCall[c].at = "job"
    /\ IF pCall[c].job # 0
         THEN /\ Calls(c, IF pCall[c].job \in pJobs THEN [pCall[c] EXCEPT !.at = "store"]
                          ELSE NoPrune)
              /\ UNCHANGED <<pJobs, pMade>>
         ELSE /\ pMade' = pMade + 1 /\ pJobs' = pJobs \cup {pMade'}
              /\ Calls(c, [pCall[c] EXCEPT !.at = "store", !.job = pMade'])
    /\ UNCHANGED <<pRow, pTask, pRun, pWaste, pOff, pruneSteps>>

StoreTask(c) ==
    /\ pCall[c].at = "store"
    /\ pTask' = pCall[c].job /\ Calls(c, NoPrune)
    /\ UNCHANGED <<pRow, pJobs, pMade, pRun, pWaste, pOff, pruneSteps>>

(* StopScheduler, and the answer that cleaning is off: true only if no     *)
(* request that turns it on began in the meantime.                         *)
StopScheduler(c) ==
    /\ pCall[c].at = "stop"
    /\ pTask' = 0 /\ pJobs' = pJobs \ {pTask}
    /\ pOff' = (pOff \/ (~pRow.on /\ \A d \in PruneClients \ {c} :
                                         pCall[d].at = "none" \/ ~pCall[d].row.on))
    /\ Calls(c, NoPrune)
    /\ UNCHANGED <<pRow, pMade, pRun, pWaste, pruneSteps>>
-----------------------------------------------------------------------------
(* Mutant of pruneWanted: the job is taken for proof that it is enabled.   *)
WantedByJob == pRow.what

(* clean reads the configuration when the job fires: disabled is nothing.  *)
pruneWanted == IF pRow.on THEN pRow.what ELSE {}

(* A job fires by its schedule or by RunScheduledNow.                      *)
clean ==
    /\ PruneEvent /\ pJobs # {} /\ pRun.at = "none"
    /\ pRun' = IF pruneWanted = {} THEN NoPruneRun
               ELSE [at |-> "prune", what |-> pruneWanted, left |-> pruneWanted, off |-> pOff]
    /\ UNCHANGED <<pRow, pTask, pJobs, pMade, pCall, pWaste, pOff>>

(* RunOnce takes the kinds from the request.                               *)
RunOnce(what) ==
    /\ PruneEvent /\ pRun.at = "none"
    /\ pRun' = [at |-> "prune", what |-> what, left |-> what, off |-> FALSE]
    /\ UNCHANGED <<pRow, pTask, pJobs, pMade, pCall, pWaste, pOff>>

(* Prune: one kind after the other, each on its own success or failure; a  *)
(* host that cannot be reached leaves everything.                          *)
Prune(k) ==
    /\ pRun.at = "prune" /\ k \in pRun.left
    /\ pWaste' \in {pWaste, pWaste \ {k}}
    /\ pRun' = [pRun EXCEPT !.left = @ \ {k}]
    /\ UNCHANGED <<pRow, pTask, pJobs, pMade, pCall, pOff, pruneSteps>>

(* The result is stored, and the run is over.                              *)
AddResult ==
    /\ pRun.at = "prune" /\ pRun.left = {}
    /\ pRun' = NoPruneRun
    /\ UNCHANGED <<pRow, pTask, pJobs, pMade, pCall, pWaste, pOff, pruneSteps>>

(* RunScheduledNow when no job is registered: one is made first.           *)
RunScheduledNow(c) ==
    /\ PruneEvent /\ pCall[c].at = "none" /\ pTask = 0
    /\ Calls(c, [at |-> "register", row |-> pRow, job |-> 0])
    /\ UNCHANGED <<pRow, pTask, pJobs, pMade, pRun, pWaste, pOff>>

PruneNext ==
    \/ \E c \in PruneClients :
         \/ \E row \in Rows : row.what = PruneKinds /\ EditConfig(c, row)
         \/ ReadBack(c) \/ RunWithScheduler(c) \/ ScheduleJob(c) \/ StoreTask(c) \/ StopScheduler(c)
         \/ RunScheduledNow(c)
    \/ clean \/ AddResult \/ \E k \in PruneKinds : Prune(k) \/ RunOnce({k})

PruneSpec == PruneInit /\ [][PruneNext]_pruneVars
-----------------------------------------------------------------------------
PruneTypeOK ==
    /\ pRow \in Rows /\ pTask \in 0..pMade /\ pJobs \subseteq 1..pMade
    /\ pWaste \subseteq PruneKinds /\ pOff \in BOOLEAN /\ pruneSteps \in 0..MaxPruneSteps

(* Once an operator was told that cleaning is off, no job that fires later *)
(* prunes anything until somebody turns it on: a job that concurrent       *)
(* requests left in the scheduler, out of the task list's reach, is        *)
(* harmless (clean, StopScheduler).                                        *)
OffMeansOff == pRun.at = "prune" => ~pRun.off
=============================================================================
