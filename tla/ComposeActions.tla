--------------------------- MODULE ComposeActions ---------------------------
(***************************************************************************)
(* Actions on one stack: the Compose commands of the editor's Deploy tab   *)
(* (docker/handler.go, docker/compose/compose_terminal.go), the selective  *)
(* update behind its Update button (docker/update_compose.go) and the      *)
(* detached helper that replaces a service Dockman depends on              *)
(* (docker/protected_update.go).                                           *)
(*                                                                         *)
(* Requests serialize on the stack lock (StackLocks); the manifest, the    *)
(* registry and the containers change outside it, and the helper outlives  *)
(* the lock of its launch.  A Compose command may fail with a part of its  *)
(* work done.  Hash 0 of a service: the manifest does not declare it.      *)
(***************************************************************************)
EXTENDS Naturals, FiniteSets

CONSTANTS
    Services,
    ComposeOnly,      \* built, scaled or protected services, for Compose alone
    MaxComposeSteps   \* bound: requests and outside events

ASSUME ComposeActionsAssumption == ComposeOnly \subseteq Services /\ MaxComposeSteps \in Nat

VARIABLES
    cMan,      \* the manifest: configuration hash of each service
    cBox,      \* the container of each service
    cLocal,    \* the image the service's tag names on the host
    cRemote,   \* and in the registry
    cReq,      \* the request that holds the stack lock
    cHelper,   \* the protected-update helper
    cMark,     \* when the whole stack was taken down, 0 if not
    cSteps     \* also the clock

composeVars == <<cMan, cBox, cLocal, cRemote, cReq, cHelper, cMark, cSteps>>

NoBox == [st |-> "none", hash |-> 0, img |-> 0, born |-> 0]
NoPlan == [compose |-> {}, images |-> {}, orphans |-> {}]
NoAction == [op |-> "none", at |-> "none", sel |-> {}, plan |-> NoPlan, left |-> {},
             want |-> [s \in Services |-> 0], ok |-> TRUE, alone |-> TRUE]
NoHelper == [at |-> "none", s |-> "none", img |-> 0, alone |-> TRUE]

ComposeInit ==
    /\ cMan = [s \in Services |-> 1]
    /\ cBox = [s \in Services |-> [st |-> "run", hash |-> 1, img |-> 1, born |-> 0]]
    /\ cLocal = [s \in Services |-> 1] /\ cRemote = [s \in Services |-> 1]
    /\ cReq = NoAction /\ cHelper = NoHelper /\ cMark = 0 /\ cSteps = 0

ComposeAct == cSteps < MaxComposeSteps /\ cSteps' = cSteps + 1
Declared == {s \in Services : cMan[s] # 0}
(* Somebody else acted on the stack meanwhile: it is not alone any more.   *)
ReqDisturbed == IF cReq.at = "none" THEN cReq ELSE [cReq EXCEPT !.alone = FALSE]
HelperDisturbed == IF cHelper.at = "none" THEN cHelper ELSE [cHelper EXCEPT !.alone = FALSE]
-----------------------------------------------------------------------------
(* Compose itself, as its commands are used.                               *)
Fresh(s, local) == [st |-> "run", hash |-> cMan[s], img |-> local[s], born |-> cSteps]
Converged(s) ==
    IF cBox[s].st # "none" /\ cBox[s].hash = cMan[s] /\ cBox[s].img = cLocal[s]
      THEN [cBox[s] EXCEPT !.st = "run"] ELSE Fresh(s, cLocal)

Chosen(sel) == IF sel = {} THEN Declared ELSE sel
(* up -d --remove-orphans: some of the work, all of it on success.  It     *)
(* starts containers and does not wait: one may exit by itself right after *)
(* (ContainerExits).                                                       *)
composeUp(sel, done, force) ==
    [s \in Services |->
        IF s \notin done THEN cBox[s]
        ELSE IF cMan[s] = 0 THEN NoBox
        ELSE IF s \notin Chosen(sel) THEN cBox[s]
        ELSE IF force THEN Fresh(s, cLocal) ELSE Converged(s)]
composeDown(sel, done) ==
    [s \in Services |-> IF s \in done /\ (sel = {} \/ s \in sel \/ cMan[s] = 0)
                          THEN NoBox ELSE cBox[s]]
composeStart(sel, done) ==
    [s \in Services |-> IF s \in done \cap Chosen(sel) /\ cBox[s].st # "none"
                          THEN [cBox[s] EXCEPT !.st = "run"] ELSE cBox[s]]
composeStop(sel, done) ==
    [s \in Services |-> IF s \in done \cap Chosen(sel) /\ cBox[s].st # "none"
                          THEN [cBox[s] EXCEPT !.st = "exit"] ELSE cBox[s]]
(* pull --policy always --ignore-pull-failures: some tags are not reached. *)
composePull(sel, got) == [s \in Services |-> IF s \in got \cap sel THEN cRemote[s] ELSE cLocal[s]]
-----------------------------------------------------------------------------
(* withComposeActionLock: a second action is refused.  Up, start and       *)
(* restart make the daemon authoritative again before they begin.          *)
withComposeActionLock(op, sel) ==
    /\ ComposeAct /\ cReq = NoAction /\ sel \subseteq Services
    /\ cReq' = [NoAction EXCEPT !.op = op, !.at = IF op = "update" THEN "plan" ELSE "run",
                                !.sel = sel]
    /\ cMark' = IF op \in {"up", "start", "restart"} THEN 0 ELSE cMark
    /\ UNCHANGED <<cMan, cBox, cLocal, cRemote, cHelper>>

Command(done) ==
    CASE cReq.op = "up" -> composeUp(cReq.sel, done, FALSE)
      [] cReq.op = "redeploy" -> composeUp(cReq.sel, done, TRUE)
      [] cReq.op \in {"start", "restart"} -> composeStart(cReq.sel, done)
      [] cReq.op = "stop" -> composeStop(cReq.sel, done)
      [] cReq.op = "down" -> composeDown(cReq.sel, done)

(* runCompose and the answer.  Only a whole down that succeeded marks the  *)
(* stack as stopped.                                                       *)
runCompose(done) ==
    /\ cReq.at = "run"
    /\ cReq.op # "down" => Chosen(cReq.sel) \subseteq Declared \/ done # Services
    /\ cBox' = Command(done)
    /\ cMark' = IF cReq.op = "down" /\ cReq.sel = {} /\ done = Services THEN cSteps ELSE cMark
    /\ cReq' = NoAction
    /\ cHelper' = HelperDisturbed
    /\ UNCHANGED <<cMan, cLocal, cRemote, cSteps>>

(* ComposeFileStatus: a container younger than the mark removes it.        *)
hasComposeContainerCreatedSince(t) == \E s \in Services : cBox[s].st # "none" /\ cBox[s].born > t
ComposeFileStatus ==
    /\ cMark # 0 /\ hasComposeContainerCreatedSince(cMark)
    /\ cMark' = 0
    /\ UNCHANGED <<cMan, cBox, cLocal, cRemote, cReq, cHelper, cSteps>>
-----------------------------------------------------------------------------
(* The selective update.                                                   *)

(* ProjectPlan: what the manifest expects of each declared service: its    *)
(* configuration hash, which leaves out the build and the replicas, and    *)
(* whether it is one pulled container or Compose's to reconcile.           *)
ProjectPlan(man) ==
    [s \in {t \in Services : man[t] # 0} |->
        [hash |-> man[s], single |-> s \notin ComposeOnly]]

(* Mutant of classifyComposeUpdate: the configuration hash is not compared.*)
HashIgnored(expected, sel) ==
    LET scope == IF sel = {} THEN DOMAIN expected ELSE sel \cap DOMAIN expected
        images == {s \in scope : expected[s].single /\ cBox[s].st = "run"}
    IN [compose |-> scope \ images, images |-> images,
        orphans |-> {s \in Services \ DOMAIN expected : cBox[s].st # "none"}]

(* classifyComposeUpdate: what Compose has to reconcile, what Dockman can  *)
(* replace, and the containers whose service is gone, selected or not.     *)
classifyComposeUpdate(expected, sel) ==
    LET scope == IF sel = {} THEN DOMAIN expected ELSE sel \cap DOMAIN expected
        images == {s \in scope : /\ expected[s].single /\ cBox[s].st = "run"
                                 /\ cBox[s].hash = expected[s].hash}
    IN [compose |-> scope \ images, images |-> images,
        orphans |-> {s \in Services \ DOMAIN expected : cBox[s].st # "none"}]

(* planComposeUpdate.  If the plan cannot be made, the whole stack is      *)
(* pulled and brought up; if there is nothing to do, that is the answer.   *)
planComposeUpdate(readable) ==
    /\ cReq.at = "plan"
    /\ LET plan == classifyComposeUpdate(ProjectPlan(cMan), cReq.sel) IN
       cReq' = IF ~readable
                 THEN [cReq EXCEPT !.at = "pull", !.want = cMan,
                                   !.plan = [NoPlan EXCEPT !.compose = Chosen(cReq.sel)]]
                 ELSE [cReq EXCEPT !.want = cMan, !.plan = plan, !.left = plan.images,
                                   !.at = IF plan = NoPlan THEN "end"
                                          ELSE IF plan.compose \cup plan.orphans # {} THEN "up"
                                          ELSE "pull"]
    /\ UNCHANGED <<cMan, cBox, cLocal, cRemote, cHelper, cMark, cSteps>>

(* ComposeSelectiveUpdate: Compose first.  With orphans only, its list of  *)
(* services is empty, and Compose sees the whole project.                  *)
ComposeSelectiveUpdate(done) ==
    /\ cReq.at = "up"
    /\ cBox' = composeUp(cReq.plan.compose, done, FALSE)
    /\ cReq' = [cReq EXCEPT !.ok = @ /\ done = Services /\ cReq.plan.compose \subseteq Declared,
                            !.at = IF cReq.plan.images = {} THEN "end" ELSE "pull"]
    /\ cHelper' = HelperDisturbed
    /\ UNCHANGED <<cMan, cLocal, cRemote, cMark, cSteps>>

(* runComposeImageUpdates: one pull for the group, then one verified       *)
(* replacement (ContainerReplace) after the other.                         *)
runComposeImageUpdates(got) ==
    /\ cReq.at = "pull"
    /\ LET group == IF cReq.plan.images # {} THEN cReq.plan.images ELSE cReq.plan.compose
       IN cLocal' = composePull(group, got)
    /\ \/ cReq' = [cReq EXCEPT !.at = IF cReq.plan.images # {} THEN "replace" ELSE "up"]
       \/ cReq' = [cReq EXCEPT !.at = "end", !.ok = FALSE]
    /\ cHelper' = HelperDisturbed
    /\ UNCHANGED <<cMan, cBox, cRemote, cMark, cSteps>>

(* ForceUpdateContainer keeps the configuration of the container: a newer  *)
(* image is put in its place, or the old one comes back, or neither runs.  *)
(* What does not run is replaced without being started.                    *)
ForceUpdateContainer(s, st) ==
    /\ cReq.at = "replace" /\ s \in cReq.left
    /\ LET b == cBox[s]
           newer == b.st # "none" /\ b.img # cLocal[s]
       IN /\ cBox' = IF ~newer THEN cBox
                     ELSE [cBox EXCEPT ![s] =
                             IF st = "updated" THEN [@ EXCEPT !.img = cLocal[s], !.born = cSteps]
                             ELSE IF st = "rolled_back" \/ b.st # "run" THEN @
                             ELSE [@ EXCEPT !.st = "exit"]]
          /\ cReq' = [cReq EXCEPT !.left = @ \ {s},
                                  !.at = IF cReq.left = {s} THEN "end" ELSE @,
                                  !.ok = @ /\ b.st # "none" /\ (newer => st = "updated")]
    /\ cHelper' = HelperDisturbed
    /\ UNCHANGED <<cMan, cLocal, cRemote, cMark, cSteps>>

ComposeAnswer ==
    /\ cReq.at = "end"
    /\ cReq' = NoAction
    /\ UNCHANGED <<cMan, cBox, cLocal, cRemote, cHelper, cMark, cSteps>>
-----------------------------------------------------------------------------
(* The protected update.  One helper at a time, by its fixed name; the     *)
(* stack lock covers the launch only.                                      *)
ProtectedContainerUpdate(s) ==
    /\ ComposeAct /\ cReq = NoAction /\ cHelper = NoHelper /\ cBox[s].st = "run"
    /\ cHelper' = [at |-> "pull", s |-> s, img |-> cBox[s].img, alone |-> TRUE]
    /\ UNCHANGED <<cMan, cBox, cLocal, cRemote, cReq, cMark>>

HelperBox(b, at) ==
    /\ cBox' = [cBox EXCEPT ![cHelper.s] = b]
    /\ cHelper' = [cHelper EXCEPT !.at = at]
    /\ cReq' = ReqDisturbed

(* The script: pull, or leave everything as it is.                         *)
HelperPull ==
    /\ cHelper.at = "pull"
    /\ \/ /\ cLocal' = [cLocal EXCEPT ![cHelper.s] = cRemote[cHelper.s]]
          /\ cHelper' = [cHelper EXCEPT !.at = "recreate"]
       \/ cHelper' = NoHelper /\ UNCHANGED cLocal
    /\ cReq' = ReqDisturbed
    /\ UNCHANGED <<cMan, cBox, cRemote, cMark, cSteps>>

(* up --force-recreate: it fails before or after the old container is      *)
(* gone, or the replacement runs or exits.                                 *)
HelperRecreate(at, next) ==
    /\ cHelper.at = at
    /\ LET s == cHelper.s
           fresh == Fresh(s, cLocal)
       IN \/ cMan[s] # 0 /\ HelperBox(fresh, next)
          \/ cMan[s] # 0 /\ HelperBox([fresh EXCEPT !.st = "exit"], next)
          \/ \E b \in {cBox[s], NoBox} : HelperBox(b, IF at = "recreate" THEN "restore" ELSE "none")
    /\ UNCHANGED <<cMan, cLocal, cRemote, cMark, cSteps>>

(* wait_ready: healthy, or running for long enough.                        *)
HelperWait ==
    /\ cHelper.at = "wait"
    /\ \/ cBox[cHelper.s].st = "run" /\ cHelper' = [cHelper EXCEPT !.at = "completed"]
       \/ cHelper' = [cHelper EXCEPT !.at = "restore"]
    /\ UNCHANGED <<cMan, cBox, cLocal, cRemote, cReq, cMark, cSteps>>

(* Mutant of RestoreTag: the previous image is not given its tag back.     *)
TagSkipped == cLocal

(* docker image tag "$old_image_id" "$old_image_ref".                      *)
RestoreTag == [cLocal EXCEPT ![cHelper.s] = cHelper.img]

HelperRestore ==
    /\ cHelper.at = "restore"
    /\ \/ cLocal' = RestoreTag /\ cHelper' = [cHelper EXCEPT !.at = "again"]
       \/ cHelper' = NoHelper /\ UNCHANGED cLocal
    /\ cReq' = ReqDisturbed
    /\ UNCHANGED <<cMan, cBox, cRemote, cMark, cSteps>>

HelperVerify ==
    /\ cHelper.at = "verify"
    /\ \/ cBox[cHelper.s].st = "run" /\ cHelper' = [cHelper EXCEPT !.at = "restored"]
       \/ cHelper' = NoHelper
    /\ UNCHANGED <<cMan, cBox, cLocal, cRemote, cReq, cMark, cSteps>>

(* The helper exits; a finished one is removed by the next launch.         *)
HelperExit ==
    /\ cHelper.at \in {"completed", "restored", "none"} /\ cHelper # NoHelper
    /\ cHelper' = NoHelper
    /\ UNCHANGED <<cMan, cBox, cLocal, cRemote, cReq, cMark, cSteps>>
-----------------------------------------------------------------------------
(* Outside the lock: the manifest is edited, an image is pushed, a         *)
(* container is stopped by hand, and one exits by itself.                  *)
EditManifest(s) ==
    /\ ComposeAct
    /\ \E h \in {0, 2} : cMan[s] # h /\ cMan' = [cMan EXCEPT ![s] = h]
    /\ UNCHANGED <<cBox, cLocal, cRemote, cReq, cHelper, cMark>>

PushImage(s) ==
    /\ ComposeAct /\ cRemote[s] = 1
    /\ cRemote' = [cRemote EXCEPT ![s] = 2]
    /\ UNCHANGED <<cMan, cBox, cLocal, cReq, cHelper, cMark>>

ContainerStop(s) ==
    /\ ComposeAct /\ cBox[s].st = "run"
    /\ cBox' = [cBox EXCEPT ![s].st = "exit"]
    /\ cReq' = ReqDisturbed /\ cHelper' = HelperDisturbed
    /\ UNCHANGED <<cMan, cLocal, cRemote, cMark>>

ContainerExits(s) ==
    /\ ComposeAct /\ cBox[s].st = "run"
    /\ cBox' = [cBox EXCEPT ![s].st = "quit"]
    /\ UNCHANGED <<cMan, cLocal, cRemote, cReq, cHelper, cMark>>

ComposeNext ==
    \/ \E op \in {"up", "redeploy", "start", "restart", "stop", "down", "update"},
          sel \in SUBSET Services : withComposeActionLock(op, sel)
    \/ \E done \in SUBSET Services :
         runCompose(done) \/ ComposeSelectiveUpdate(done) \/ runComposeImageUpdates(done)
    \/ ComposeFileStatus
    \/ \E readable \in BOOLEAN : planComposeUpdate(readable)
    \/ \E s \in Services, st \in {"updated", "rolled_back", "failed"} : ForceUpdateContainer(s, st)
    \/ ComposeAnswer
    \/ \E s \in Services : \/ ProtectedContainerUpdate(s) \/ EditManifest(s) \/ PushImage(s)
                           \/ ContainerStop(s) \/ ContainerExits(s)
    \/ HelperPull \/ HelperRecreate("recreate", "wait") \/ HelperWait \/ HelperRestore
    \/ HelperRecreate("again", "verify") \/ HelperVerify \/ HelperExit

ComposeSpec == ComposeInit /\ [][ComposeNext]_composeVars
-----------------------------------------------------------------------------
ComposeTypeOK ==
    /\ cMan \in [Services -> 0..2] /\ cLocal \in [Services -> 1..2] /\ cRemote \in [Services -> 1..2]
    /\ cBox \in [Services -> [st : {"none", "run", "exit", "quit"}, hash : 0..2, img : 0..2,
                              born : 0..MaxComposeSteps]]
    /\ cReq.at \in {"none", "run", "plan", "up", "pull", "replace", "end"}
    /\ cMark \in 0..MaxComposeSteps /\ cSteps \in 0..MaxComposeSteps

(* An update that reports success leaves every service it was asked about  *)
(* with a container of the configuration that the manifest it read         *)
(* declares and of the image its tag names on the host, whichever of the   *)
(* two tools handled it, running unless the container exited by itself.    *)
(* Excepted: somebody else acted on the containers or edited the manifest  *)
(* meanwhile (update_compose.go: "this is where a misclassification would  *)
(* stop or recreate the wrong container").                                 *)
UpdateReconciles ==
    cReq.at = "end" /\ cReq.ok /\ cReq.alone =>
      \A s \in IF cReq.sel = {} THEN Services ELSE cReq.sel :
        cReq.want[s] # 0 /\ cMan[s] = cReq.want[s] =>
          cBox[s].st \in {"run", "quit"} /\ cBox[s].hash = cMan[s] /\ cBox[s].img = cLocal[s]

(* What the helper's last line says is so: after "completed" the service   *)
(* runs the image its tag names, after "restored" the previous one, unless *)
(* its container exited by itself after it was seen running, or somebody   *)
(* acted on the stack while the helper, which no lock covers, was at work  *)
(* (protected_update.go, script).                                          *)
HelperHonest ==
    cHelper.alone =>
      /\ cHelper.at = "completed" => cBox[cHelper.s].st \in {"run", "quit"} /\
                                     cBox[cHelper.s].img = cLocal[cHelper.s]
      /\ cHelper.at = "restored" => cBox[cHelper.s].st \in {"run", "quit"} /\
                                    cBox[cHelper.s].img = cHelper.img

(* What an update reports is what the stack runs.                          *)
ComposeHonest == UpdateReconciles /\ HelperHonest
=============================================================================
