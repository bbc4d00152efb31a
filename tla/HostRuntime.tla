----------------------------- MODULE HostRuntime -----------------------------
(***************************************************************************)
(* The host side of encrypted secrets: the installation of the helper and  *)
(* of its systemd units, what they do at boot, and the reconciliation that *)
(* Dockman asks for (secrets/host_install.go, host_runtime.go).            *)
(*                                                                         *)
(* One encrypted stack.  A file is written whole or not at all, and every  *)
(* step of an installation may be its last.  systemd is external: a boot   *)
(* runs the jobs the unit files ask for in any order they allow.           *)
(***************************************************************************)
EXTENDS Naturals, Sequences

CONSTANTS
    AliasRoots,        \* alias roots beside the stack root
    MaxRuntimeSteps    \* bound: installations, boots and acts of operators

ASSUME HostRuntimeAssumption == MaxRuntimeSteps \in Nat

VARIABLES
    rtFiles,    \* the installed files
    rtStale,    \* the docker.socket drop-in of an earlier revision is there
    rtRoots,    \* watched roots: in the .path file, and as systemd loaded it
    rtEnabled,  \* units systemd starts at boot
    rtActive,   \* units that are active
    rtBoot,     \* jobs of a boot that have not ended
    rtMounted,  \* the secrets of the stack are in memory
    rtReadable, \* the directory of the stack can be walked
    rtDocker,   \* the daemon runs
    rtStack,    \* containers of the stack: "none", "with" or "without" secrets
    rtStep,     \* installation: the steps done, or NotInstalling
    rtAliases,  \* alias roots Dockman has
    rtAsked,    \* roots with a reconciliation request that was not served
    rtDone,     \* history: an installation has completed
    rtMainOK,   \* history: the last boot materialized the secrets
    rtSteps

runtimeVars == <<rtFiles, rtStale, rtRoots, rtEnabled, rtActive, rtBoot, rtMounted,
                 rtReadable, rtDocker, rtStack, rtStep, rtAliases, rtAsked, rtDone, rtMainOK,
                 rtSteps>>

StackRoot == "stack"
NotInstalling == 99

hostFiles == <<"helper", "sops", "config", "main", "reconcile", "watch", "dropIn">>

(* The steps of an installation after the files.                           *)
systemSteps == <<"unstale", "reload", "enable", "enableWatch", "start", "startReconcile">>

installSteps == hostFiles \o systemSteps

Installed == {hostFiles[i] : i \in DOMAIN hostFiles}

(* A host that never had the runtime, or one an earlier revision set up.   *)
RuntimeInit ==
    /\ \/ rtFiles = {} /\ rtStale = FALSE /\ rtEnabled = {} /\ rtActive = {}
       \/ /\ rtFiles = Installed /\ rtStale = TRUE
          /\ rtEnabled = {"main", "watch"} /\ rtActive = rtEnabled
    /\ rtRoots = [disk |-> IF rtStale THEN {StackRoot} ELSE {},
                  loaded |-> IF rtStale THEN {StackRoot} ELSE {}]
    /\ rtBoot = {}
    /\ rtMounted = rtStale /\ rtReadable = TRUE
    /\ rtDocker = TRUE
    /\ rtStack = "none"
    /\ rtStep = NotInstalling
    /\ rtAliases = {}
    /\ rtAsked = {}
    /\ rtDone = FALSE /\ rtMainOK = FALSE
    /\ rtSteps = 0

RuntimeAct == rtSteps < MaxRuntimeSteps /\ rtSteps' = rtSteps + 1

Up == rtBoot = {}

(* The helper can decrypt; it may still fail.                              *)
CanMaterialize == {"helper", "sops", "config"} \subseteq rtFiles
-----------------------------------------------------------------------------
reconcileWatchDirectives == {StackRoot} \cup rtAliases

(* An error of the walk below the stack root is one stack's problem: it is *)
(* reported, and that stack is claimed by nobody.                          *)
StackClaimed == rtReadable

(* What is mounted and not claimed is unmounted, unless it is busy.        *)
releaseObsoleteMounts(claimed) == IF claimed THEN {rtMounted} ELSE {rtMounted, FALSE}

(* MaterializeHostRuntime.  A stack that is claimed and cannot be          *)
(* refreshed keeps what is mounted; ok is the status of the whole pass,    *)
(* which the problem of another stack also spoils.                         *)
RuntimePass(done, ok) ==
    /\ ok => done
    /\ done => CanMaterialize /\ StackClaimed
    /\ rtMounted' \in IF done THEN {TRUE}
                      ELSE IF CanMaterialize
                        THEN releaseObsoleteMounts(StackClaimed) ELSE {rtMounted}

(* Mutant of ActivateRuntime: the main unit is restarted, which stops it   *)
(* first and cleans up, and may not come back.                             *)
RestartMain(done, ok) ==
    /\ rtActive' = rtActive \cup {"main"}
    /\ rtMounted' \in {FALSE, TRUE}

(* Starting the main unit is a pass; it does nothing when it is active.    *)
ActivateRuntime(done, ok) ==
    IF "main" \in rtActive THEN ok /\ UNCHANGED <<rtActive, rtMounted>>
    ELSE /\ RuntimePass(done, ok)
         /\ rtActive' = IF ok THEN rtActive \cup {"main"} ELSE rtActive

(* The reconcile unit requires the main one, which systemd starts first;   *)
(* then it makes a pass of its own.                                        *)
StartReconcile(done, ok) ==
    /\ RuntimePass(done, ok)
    /\ \/ CanMaterialize /\ rtActive' = rtActive \cup {"main"}
       \/ ~ok /\ UNCHANGED rtActive

RemoveStaleDropIn == FALSE

(* A file is replaced by a rename, so it is there whole or as it was.      *)
writeHostFileAtomic(file) == rtFiles \cup {file}

(* InstallHostRuntime, one step at a time; a unit that fails to start ends *)
(* it.                                                                     *)
InstallStep(done, ok) ==
    LET step == installSteps[rtStep + 1]
        last == rtStep + 1 = Len(installSteps)
    IN /\ rtStep < Len(installSteps) /\ Up
       /\ rtFiles' = IF step \in Installed THEN writeHostFileAtomic(step) ELSE rtFiles
       /\ rtRoots' = CASE step = "watch" -> [rtRoots EXCEPT !.disk = reconcileWatchDirectives]
                       [] step = "reload" -> [rtRoots EXCEPT !.loaded = rtRoots.disk]
                       [] OTHER -> rtRoots
       /\ rtStale' = IF step = "unstale" THEN RemoveStaleDropIn ELSE rtStale
       /\ rtEnabled' = CASE step = "enable" -> rtEnabled \cup {"main"}
                         [] step = "enableWatch" -> rtEnabled \cup {"watch"}
                         [] OTHER -> rtEnabled
       /\ CASE step = "start" -> ActivateRuntime(done, ok)
            [] step = "startReconcile" -> StartReconcile(done, ok)
            [] OTHER -> /\ done /\ ok /\ UNCHANGED rtMounted
                        /\ rtActive' = IF step = "enableWatch" THEN rtActive \cup {"watch"}
                                       ELSE rtActive
       /\ rtDone' = (rtDone \/ (last /\ ok))
       /\ rtStep' = IF last \/ ~ok THEN NotInstalling ELSE rtStep + 1
       /\ UNCHANGED <<rtReadable, rtBoot, rtDocker, rtStack, rtAliases, rtAsked, rtMainOK,
                      rtSteps>>

InstallHostRuntime ==
    /\ RuntimeAct /\ Up /\ rtStep = NotInstalling
    /\ rtStep' = 0
    /\ UNCHANGED <<rtFiles, rtStale, rtRoots, rtEnabled, rtReadable, rtActive, rtBoot, rtMounted,
                   rtDocker, rtStack, rtAliases, rtAsked, rtDone, rtMainOK>>

(* A step reports an error, or the installer is killed.                    *)
InstallFails ==
    /\ rtStep # NotInstalling
    /\ rtStep' = NotInstalling
    /\ UNCHANGED <<rtFiles, rtStale, rtRoots, rtEnabled, rtReadable, rtActive, rtBoot, rtMounted,
                   rtDocker, rtStack, rtAliases, rtAsked, rtDone, rtMainOK, rtSteps>>
-----------------------------------------------------------------------------
(* Dockman writes its request through the alias of the stack.              *)
requestHostRuntimeReconcile(root) ==
    /\ RuntimeAct /\ Up /\ rtDocker
    /\ rtAsked' = rtAsked \cup {root}
    /\ UNCHANGED <<rtFiles, rtStale, rtRoots, rtEnabled, rtReadable, rtActive, rtBoot, rtMounted,
                   rtDocker, rtStack, rtStep, rtAliases, rtDone, rtMainOK>>

(* The watch starts the reconcile unit.                                    *)
Reconcile(root, done, ok) ==
    /\ Up /\ "watch" \in rtActive /\ root \in rtAsked \cap rtRoots.loaded
    /\ rtAsked' = rtAsked \ {root}
    /\ StartReconcile(done, ok)
    /\ UNCHANGED <<rtFiles, rtStale, rtRoots, rtEnabled, rtReadable, rtBoot, rtDocker, rtStack,
                   rtStep, rtAliases, rtDone, rtMainOK, rtSteps>>

(* The directory of the stack stops answering, or answers again.           *)
DirectoryTurns ==
    /\ rtReadable' = ~rtReadable
    /\ UNCHANGED <<rtFiles, rtStale, rtRoots, rtEnabled, rtActive, rtBoot, rtMounted,
                   rtDocker, rtStack, rtStep, rtAliases, rtAsked, rtDone, rtMainOK, rtSteps>>

(* An operator stops the main unit: ExecStop takes the secrets away.       *)
StopMain ==
    /\ RuntimeAct /\ Up /\ "main" \in rtActive
    /\ rtActive' = rtActive \ {"main"}
    /\ rtMounted' = FALSE
    /\ UNCHANGED <<rtFiles, rtStale, rtRoots, rtEnabled, rtReadable, rtBoot, rtDocker, rtStack,
                   rtStep, rtAliases, rtAsked, rtDone, rtMainOK>>

StartStackOnHost ==
    /\ RuntimeAct /\ Up /\ rtDocker
    /\ rtStack' = IF rtMounted THEN "with" ELSE "without"
    /\ UNCHANGED <<rtFiles, rtStale, rtRoots, rtEnabled, rtReadable, rtActive, rtBoot, rtMounted,
                   rtDocker, rtStep, rtAliases, rtAsked, rtDone, rtMainOK>>

AddAlias(root) ==
    /\ RuntimeAct /\ rtAliases' = rtAliases \cup {root}
    /\ UNCHANGED <<rtFiles, rtStale, rtRoots, rtEnabled, rtReadable, rtActive, rtBoot, rtMounted,
                   rtDocker, rtStack, rtStep, rtAsked, rtDone, rtMainOK>>

(* The host goes down and comes up: the main unit has a job if it is       *)
(* enabled or if the drop-in of Docker wants it.                           *)
PowerCycle ==
    /\ RuntimeAct /\ Up
    /\ rtBoot' = {"docker"} \cup
                   (IF "main" \in rtFiles /\ ("main" \in rtEnabled \/ "dropIn" \in rtFiles)
                      THEN {"main"} ELSE {})
    /\ rtActive' = rtEnabled \cap {"watch"}
    /\ rtRoots' = [rtRoots EXCEPT !.loaded = rtRoots.disk]
    /\ rtMounted' = FALSE /\ rtDocker' = FALSE /\ rtStack' = "none"
    /\ rtStep' = NotInstalling /\ rtMainOK' = FALSE
    /\ UNCHANGED <<rtFiles, rtStale, rtEnabled, rtReadable, rtAliases, rtAsked, rtDone>>

(* MaterializeHostRuntime at boot; it may fail.                            *)
BootMain(done, ok) ==
    /\ "main" \in rtBoot
    /\ RuntimePass(done, ok)
    /\ rtBoot' = rtBoot \ {"main"}
    /\ rtMainOK' = done
    /\ rtActive' = IF ok THEN rtActive \cup {"main"} ELSE rtActive
    /\ UNCHANGED <<rtFiles, rtStale, rtRoots, rtEnabled, rtReadable, rtDocker, rtStack,
                   rtStep, rtAliases, rtAsked, rtDone, rtSteps>>

(* The drop-in: Docker wants the main unit and starts after it has ended,  *)
(* well or badly.  The unit file itself says Before=docker.service.        *)
DockerMayStart == {"main", "dropIn"} \cap rtFiles # {} => "main" \notin rtBoot

(* The drop-in of the socket closes a cycle: systemd drops Docker's job.   *)
BootDocker ==
    /\ "docker" \in rtBoot
    /\ DockerMayStart \/ "main" \notin rtBoot
    /\ rtDocker' = (~rtStale /\ DockerMayStart)
    /\ rtStack' = IF rtDocker' THEN IF rtMounted THEN "with" ELSE "without" ELSE "none"
    /\ rtBoot' = rtBoot \ {"docker"}
    /\ UNCHANGED <<rtFiles, rtStale, rtRoots, rtEnabled, rtReadable, rtActive, rtMounted, rtStep,
                   rtAliases, rtAsked, rtDone, rtMainOK, rtSteps>>

RuntimeNext ==
    \/ InstallHostRuntime \/ InstallFails \/ DirectoryTurns
    \/ StopMain \/ StartStackOnHost \/ PowerCycle \/ BootDocker
    \/ \E done, ok \in BOOLEAN :
         \/ InstallStep(done, ok) \/ BootMain(done, ok)
         \/ \E root \in {StackRoot} \cup rtAliases : Reconcile(root, done, ok)
    \/ \E root \in {StackRoot} \cup rtAliases : requestHostRuntimeReconcile(root)
    \/ \E root \in AliasRoots : AddAlias(root)

RuntimeSpec == RuntimeInit /\ [][RuntimeNext]_runtimeVars
-----------------------------------------------------------------------------
RuntimeTypeOK ==
    /\ rtFiles \subseteq Installed /\ {rtEnabled, rtActive} \subseteq SUBSET {"main", "watch"}
    /\ rtBoot \subseteq {"main", "docker"}
    /\ {rtRoots.disk, rtRoots.loaded, rtAsked} \subseteq SUBSET ({StackRoot} \cup AliasRoots)
    /\ rtAliases \subseteq AliasRoots
    /\ {rtStale, rtMounted, rtReadable, rtDocker, rtDone, rtMainOK} \subseteq BOOLEAN
    /\ rtStack \in {"none", "with", "without"}
    /\ rtStep \in {NotInstalling} \cup (0 .. Len(installSteps) - 1)

(* Installing again, at whatever step it stops, and reconciling, well or   *)
(* badly, never take the secrets from under the containers that run with   *)
(* them, unless the walk could not read the directory of the stack; and a  *)
(* boot after a completed installation starts Docker, with the secrets     *)
(* when they could be materialized.                                        *)
RuntimeHolds ==
    [][/\ rtStep' # rtStep \/ rtAsked' # rtAsked =>
            (rtMounted /\ rtReadable /\ rtBoot' = {} => rtMounted')
       /\ BootDocker /\ rtDone =>
            rtDocker' /\ (rtMainOK => rtStack' = "with")]_runtimeVars
=============================================================================
