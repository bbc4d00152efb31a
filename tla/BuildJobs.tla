----------------------------- MODULE BuildJobs -----------------------------
(***************************************************************************)
(* Image builds of one host: the background jobs with their bounded log    *)
(* (docker/build_jobs.go) and the builder that caps a build                *)
(* (docker/compose/build_limits.go), which is created for each build and   *)
(* removed after it.                                                       *)
(*                                                                         *)
(* Jobs wait for one of the build slots, and those of a host with limits   *)
(* for its only limited builder.  A job can be cancelled or run out of     *)
(* time in any state; the operator may change the limits at any time;      *)
(* Dockman may stop, which leaves a builder behind.                        *)
(***************************************************************************)
EXTENDS Naturals, Sequences, FiniteSets

CONSTANTS
    BuildIds,      \* jobs
    BuildSlots,    \* builds that run at the same time
    MaxPending,    \* jobs queued or running
    MaxRetained,   \* jobs kept
    LogLimit,      \* bytes kept of a job's output
    BuildCaps,     \* limits an operator may set, 0 for none
    MaxOutput,     \* bound: bytes a job writes
    MaxBuildSteps  \* bound: requests, settings and stops

ASSUME BuildJobsAssumption ==
    /\ BuildSlots \in Nat \ {0} /\ LogLimit \in Nat \ {0} /\ MaxOutput \in Nat
    /\ MaxPending \in Nat /\ MaxRetained \in Nat /\ MaxBuildSteps \in Nat /\ BuildCaps \subseteq Nat
    /\ BuildIds \subseteq Nat \ {0}

VARIABLES
    bJob,      \* status, log and context of each job
    bCaps,     \* the limits in force
    bTurn,     \* the job that has the limited builder, 0 for none
    bBuilder,  \* the limits of the builder that exists, 0 for none
    bLeft,     \* the turn began with a builder that could not be removed
    bReader,   \* the browser that follows a job: next offset, and what it got
    bSteps

buildVars == <<bJob, bCaps, bTurn, bBuilder, bLeft, bReader, bSteps>>

NoJob == [status |-> "none", at |-> "none", log |-> <<>>, base |-> 0, total |-> 0,
          ended |-> FALSE, caps |-> 0]
Removed == [NoJob EXCEPT !.status = "gone"]   \* no longer in the table
NoReader == [id |-> 0, next |-> 0, gap |-> FALSE]

BuildInit ==
    /\ bJob = [i \in BuildIds |-> NoJob]
    /\ bCaps \in BuildCaps /\ bTurn = 0 /\ bBuilder = 0 /\ bLeft = FALSE
    /\ bReader = NoReader /\ bSteps = 0

BuildAct == bSteps < MaxBuildSteps /\ bSteps' = bSteps + 1
Pending(j) == j.status \in {"queued", "running"}
InTable(jobs) == {i \in BuildIds : jobs[i].status \notin {"none", "gone"}}
Known == InTable(bJob)
Running == {i \in BuildIds : bJob[i].at \in {"turn", "clean", "create", "build", "remove"}}
-----------------------------------------------------------------------------
(* Mutant of dockerBuildJobWrite: the offset of the kept tail is not moved.*)
BaseForgotten(j, n) ==
    [j EXCEPT !.total = @ + n,
              !.log = IF n >= LogLimit THEN [x \in 1..LogLimit |-> j.total + n - LogLimit + x - 1]
                      ELSE LET over == Len(@) + n - LogLimit
                               kept == IF over > 0 THEN SubSeq(@, over + 1, Len(@)) ELSE @
                           IN kept \o [x \in 1..n |-> j.total + x - 1]]

(* dockerBuildJob.Write: only the last LogLimit bytes are kept.  A byte is *)
(* represented by its offset in the whole output.                          *)
dockerBuildJobWrite(j, n) ==
    IF n >= LogLimit
      THEN [j EXCEPT !.total = @ + n, !.base = j.total + n - LogLimit,
                     !.log = [x \in 1..LogLimit |-> j.total + n - LogLimit + x - 1]]
      ELSE LET over == IF Len(j.log) + n > LogLimit THEN Len(j.log) + n - LogLimit ELSE 0
           IN [j EXCEPT !.total = @ + n, !.base = @ + over,
                        !.log = SubSeq(@, over + 1, Len(@)) \o [x \in 1..n |-> j.total + x - 1]]

(* snapshot: the part of the log from an offset on, and whether bytes that *)
(* were asked for are gone.                                                *)
snapshot(j, after) ==
    LET from == IF after < j.base THEN j.base ELSE IF after > j.total THEN j.total ELSE after
    IN [log |-> SubSeq(j.log, from - j.base + 1, Len(j.log)), offset |-> from,
        next |-> j.total, truncated |-> after < j.base]

(* pruneLocked: finished jobs, the oldest first, until few enough are left.*)
(* Time alone may also remove a finished job.                              *)
pruneJobs(jobs) ==
    LET known == InTable(jobs)
        done == {i \in known : ~Pending(jobs[i])}
        excess == IF Cardinality(known) > MaxRetained THEN Cardinality(known) - MaxRetained ELSE 0
        Older(i) == Cardinality({k \in done : k < i})
    IN [i \in BuildIds |-> IF i \in done /\ Older(i) < excess THEN Removed ELSE jobs[i]]

(* Start: prune, count, add.  An identity is never used twice; they are    *)
(* numbered in the order of creation.                                      *)
BuildStart(i) ==
    /\ BuildAct
    /\ LET pruned == pruneJobs(bJob) IN
       /\ bJob[i].status = "none" /\ \A k \in BuildIds : k < i => bJob[k].status # "none"
       /\ Cardinality({k \in BuildIds : Pending(pruned[k])}) < MaxPending
       /\ bJob' = [pruned EXCEPT ![i] = [NoJob EXCEPT !.status = "queued", !.at = "slot"]]
    /\ UNCHANGED <<bCaps, bTurn, bBuilder, bLeft, bReader>>

Expire(i) ==
    /\ BuildAct /\ i \in Known /\ ~Pending(bJob[i])
    /\ bJob' = [bJob EXCEPT ![i] = Removed]
    /\ UNCHANGED <<bCaps, bTurn, bBuilder, bLeft, bReader>>

(* Cancel, and the time limit of a job: its context ends.                  *)
BuildCancel(i) ==
    /\ BuildAct /\ Pending(bJob[i])
    /\ bJob' = [bJob EXCEPT ![i].ended = TRUE]
    /\ UNCHANGED <<bCaps, bTurn, bBuilder, bLeft, bReader>>

(* complete, at the end of run: the slot is given back.                    *)
complete(i, status) ==
    bJob' = [bJob EXCEPT ![i] = [dockerBuildJobWrite(@, 1) EXCEPT !.status = status, !.at = "none"]]

(* run: a slot or the end of the context, whichever is taken when both are *)
(* there.                                                                  *)
BuildRun(i) ==
    /\ bJob[i].at = "slot"
    /\ \/ /\ Cardinality(Running) < BuildSlots
          /\ bJob' = [bJob EXCEPT ![i].status = "running",
                                  ![i].at = IF bCaps = 0 THEN "build" ELSE "turn"]
       \/ bJob[i].ended /\ complete(i, "canceled")
    /\ UNCHANGED <<bCaps, bTurn, bBuilder, bLeft, bReader, bSteps>>

(* acquireLimitedBuild.                                                    *)
acquireLimitedBuild(i) ==
    /\ bJob[i].at = "turn"
    /\ \/ /\ bTurn = 0 /\ bTurn' = i
          /\ bJob' = [bJob EXCEPT ![i].at = "clean"]
       \/ bJob[i].ended /\ complete(i, "canceled") /\ UNCHANGED bTurn
    /\ UNCHANGED <<bCaps, bBuilder, bLeft, bReader, bSteps>>

(* Mutant of removeLimitedBuilder: an earlier builder is kept.             *)
StaleKept(failed) == bBuilder

(* removeLimitedBuilder: the entry and the container, with a context of    *)
(* its own.  What the two commands answer is not looked at: when neither   *)
(* worked, the builder stays.                                              *)
removeLimitedBuilder(failed) == IF failed THEN bBuilder ELSE 0

RemoveStale(i, failed) ==
    /\ bJob[i].at = "clean"
    /\ bBuilder' = removeLimitedBuilder(failed)
    /\ bLeft' = (failed /\ bBuilder # 0)
    /\ bJob' = [bJob EXCEPT ![i].at = "create"]
    /\ UNCHANGED <<bCaps, bTurn, bReader, bSteps>>

(* buildx create reads the limits in force; over a builder that exists it  *)
(* changes nothing.  It fails, with a builder made or not, or the context  *)
(* has ended.                                                              *)
Created == IF bBuilder = 0 THEN bCaps ELSE bBuilder
withLimitedBuilder(i) ==
    /\ bJob[i].at = "create"
    /\ \/ /\ ~bJob[i].ended
          /\ bBuilder' = Created
          /\ bJob' = [bJob EXCEPT ![i].at = "build", ![i].caps = bCaps]
          /\ UNCHANGED bTurn
       \/ /\ complete(i, IF bJob[i].ended THEN "canceled" ELSE "failed")
          /\ bTurn' = 0 /\ bBuilder' \in {bBuilder, Created}
    /\ UNCHANGED <<bCaps, bLeft, bReader, bSteps>>

(* The command writes to the log.                                          *)
BuildOutput(i, n) ==
    /\ bJob[i].at = "build" /\ bJob[i].total + n <= MaxOutput
    /\ bJob' = [bJob EXCEPT ![i] = dockerBuildJobWrite(@, n)]
    /\ UNCHANGED <<bCaps, bTurn, bBuilder, bLeft, bReader, bSteps>>

(* The command ends.  The builder goes also when the request is gone, then *)
(* the turn is given to the next, and the job completes.                   *)
BuildEnd(i, ok, failed) ==
    /\ bJob[i].at = "build"
    /\ complete(i, IF ok THEN "succeeded" ELSE IF bJob[i].ended THEN "canceled" ELSE "failed")
    /\ IF bTurn = i THEN bBuilder' = removeLimitedBuilder(failed) /\ bTurn' = 0
                    ELSE UNCHANGED <<bBuilder, bTurn>>
    /\ UNCHANGED <<bCaps, bLeft, bReader, bSteps>>

SetBuildLimits(c) ==
    /\ BuildAct /\ c \in BuildCaps /\ c # bCaps
    /\ bCaps' = c
    /\ UNCHANGED <<bJob, bTurn, bBuilder, bLeft, bReader>>

(* Get: the browser asks for what follows the offset it was given.         *)
BuildGet(i) ==
    /\ i \in Known /\ bReader.id \in {0, i}
    /\ LET got == snapshot(bJob[i], bReader.next)
           first == IF got.log = <<>> THEN got.next ELSE Head(got.log)
       IN bReader' = [id |-> i, next |-> got.next,
                      gap |-> first # bReader.next /\ ~got.truncated]
    /\ UNCHANGED <<bJob, bCaps, bTurn, bBuilder, bLeft, bSteps>>

(* Dockman stops: jobs and turns are memory, a builder is a container.     *)
BuildCrash ==
    /\ BuildAct
    /\ bJob' = [i \in BuildIds |-> NoJob] /\ bTurn' = 0 /\ bReader' = NoReader
    /\ UNCHANGED <<bCaps, bBuilder, bLeft>>

BuildNext ==
    \/ \E i \in BuildIds :
         \/ BuildStart(i) \/ Expire(i) \/ BuildCancel(i) \/ BuildRun(i) \/ acquireLimitedBuild(i)
         \/ withLimitedBuilder(i) \/ BuildGet(i)
         \/ \E n \in 1..MaxOutput : BuildOutput(i, n)
         \/ \E failed \in BOOLEAN : \/ RemoveStale(i, failed)
                                    \/ \E ok \in BOOLEAN : BuildEnd(i, ok, failed)
    \/ \E c \in BuildCaps : SetBuildLimits(c)
    \/ BuildCrash

BuildSpec == BuildInit /\ [][BuildNext]_buildVars
-----------------------------------------------------------------------------
BuildTypeOK ==
    /\ \A i \in BuildIds : bJob[i].status \in {"none", "gone", "queued", "running", "succeeded",
                                               "failed", "canceled"} /\ Len(bJob[i].log) <= LogLimit
    /\ bCaps \in BuildCaps /\ bTurn \in BuildIds \cup {0} /\ bBuilder \in BuildCaps \cup {0}
    /\ bLeft \in BOOLEAN
    /\ bSteps \in 0..MaxBuildSteps

(* A capped build runs in a builder that has the limits which were in      *)
(* force when it was created, whatever an earlier run left behind, unless  *)
(* that could not be removed either when the turn began; and a browser     *)
(* that polls a job with the offset it was given never skips bytes without *)
(* being told (build_limits.go: "Recreating over it would keep the old     *)
(* limits, so both go first"; build_jobs.go, snapshot).                    *)
BuildHonest ==
    /\ \A i \in BuildIds :
         bTurn = i /\ bJob[i].at = "build" /\ ~bLeft => bBuilder = bJob[i].caps
    /\ ~bReader.gap
=============================================================================
