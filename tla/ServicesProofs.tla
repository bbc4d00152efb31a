--------------------------- MODULE ServicesProofs ---------------------------
(***************************************************************************)
(* Proofs about the services around the stacks: the host side of secrets   *)
(* (HostRuntime), the hosts (HostRegistry) and their events (HostEvents),  *)
(* signing in (SignIn), notifications (Notifications), the file browser    *)
(* (FileBrowser), scheduled pruning (PruneSchedule), live sessions         *)
(* (LiveSessions), followed logs (LogStream) and the search for versions   *)
(* (VersionDiscovery).  Each part is about one module and uses nothing of  *)
(* the others.                                                             *)
(***************************************************************************)
EXTENDS HostRuntime, HostRegistry, HostEvents, SignIn, Notifications,
        FileBrowser, PruneSchedule, LiveSessions, LogStream,
        VersionDiscovery, SequenceTheorems, FiniteSetTheorems,
        WellFoundedInduction, TLAPS

-----------------------------------------------------------------------------
(***************************************************************************)
(* Proofs about the host side of encrypted secrets (HostRuntime).          *)
(***************************************************************************)

WatchRoots == SUBSET ({StackRoot} \cup AliasRoots)

RuntimeShapes ==
    /\ rtFiles \subseteq Installed
    /\ rtEnabled \subseteq {"main", "watch"} /\ rtActive \subseteq {"main", "watch"}
    /\ rtBoot \subseteq {"main", "docker"}
    /\ rtRoots \in [disk : WatchRoots, loaded : WatchRoots]
    /\ rtAsked \in WatchRoots /\ rtAliases \subseteq AliasRoots
    /\ rtStale \in BOOLEAN /\ rtMounted \in BOOLEAN /\ rtDocker \in BOOLEAN
    /\ rtReadable \in BOOLEAN
    /\ rtDone \in BOOLEAN /\ rtMainOK \in BOOLEAN
    /\ rtStack \in {"none", "with", "without"}
    /\ rtStep \in {NotInstalling} \cup 0..12

(* An installation that came past the removal of the old drop-in leaves    *)
(* none, and none comes back.                                              *)
NoStaleLeft == rtDone \/ rtStep \in 8..12 => rtStale = FALSE

(* During a boot nothing takes away what the main unit materialized.       *)
BootKeeps == "docker" \in rtBoot /\ rtMainOK => rtMounted

RuntimeInv == RuntimeShapes /\ NoStaleLeft /\ BootKeeps
-----------------------------------------------------------------------------
LEMMA Appended ==
    ASSUME NEW T, NEW a \in Seq(T), NEW b \in Seq(T), Len(a) = 7, Len(b) = 6
    PROVE  Len(a \o b) = 13 /\ (a \o b)[8] = b[1]
<1>1. /\ Len(a \o b) = Len(a) + Len(b)
      /\ \A i \in 1..Len(a) + Len(b) :
           (a \o b)[i] = IF i <= Len(a) THEN a[i] ELSE b[i - Len(a)]
  BY ConcatProperties
<1>2. 8 \in 1..Len(a) + Len(b) /\ 8 - Len(a) = 1 /\ ~(8 <= Len(a)) OBVIOUS
<1>3. (a \o b)[8] = b[8 - Len(a)] BY <1>1, <1>2
<1>4. Len(a) + Len(b) = 13 OBVIOUS
<1> QED BY <1>1, <1>2, <1>3, <1>4

LEMMA InstallOrder ==
    /\ Installed = {"helper", "sops", "config", "main", "reconcile", "watch", "dropIn"}
    /\ Len(installSteps) = 13
    /\ installSteps[8] = "unstale"
<1> DEFINE T == {"helper", "sops", "config", "main", "reconcile", "watch", "dropIn",
                  "unstale", "reload", "enable", "enableWatch", "start", "startReconcile"}
<1>1. hostFiles \in Seq(T) /\ Len(hostFiles) = 7 /\ DOMAIN hostFiles = 1..7
  BY DEF hostFiles
<1>2. systemSteps \in Seq(T) /\ Len(systemSteps) = 6
  BY DEF systemSteps
<1> HIDE DEF T
<1>3. systemSteps[1] = "unstale" BY DEF systemSteps
<1>4. Len(installSteps) = 13 /\ installSteps[8] = systemSteps[1]
  BY <1>1, <1>2, Appended DEF installSteps
<1>5. Installed = {hostFiles[i] : i \in 1..7} BY <1>1 DEF Installed
<1>6. Installed = {hostFiles[1], hostFiles[2], hostFiles[3], hostFiles[4], hostFiles[5],
                   hostFiles[6], hostFiles[7]}
  BY <1>5
<1>7. Installed = {"helper", "sops", "config", "main", "reconcile", "watch", "dropIn"}
  BY <1>6 DEF hostFiles
<1> QED BY <1>3, <1>4, <1>7

LEMMA RuntimeInitially == ASSUME RuntimeInit PROVE RuntimeInv
<1> DEFINE d == IF rtStale THEN {StackRoot} ELSE {}
<1>1. d \in WatchRoots BY DEF WatchRoots
<1>2. rtRoots = [disk |-> d, loaded |-> d] BY DEF RuntimeInit
<1> HIDE DEF d
<1>3. rtRoots \in [disk : WatchRoots, loaded : WatchRoots] BY <1>1, <1>2
<1>4. rtStep = NotInstalling /\ rtDone = FALSE /\ rtBoot = {} BY DEF RuntimeInit
<1>5. NoStaleLeft /\ BootKeeps BY <1>4 DEF NoStaleLeft, BootKeeps, NotInstalling
<1>6. /\ rtFiles \subseteq Installed /\ rtStale \in BOOLEAN
      /\ rtEnabled \subseteq {"main", "watch"} /\ rtActive \subseteq {"main", "watch"}
  BY DEF RuntimeInit
<1>7. /\ rtAsked \in WatchRoots /\ rtAliases \subseteq AliasRoots /\ rtStack = "none"
      /\ rtMounted = rtStale /\ rtReadable = TRUE /\ rtDocker = TRUE /\ rtMainOK = FALSE
  BY DEF RuntimeInit, WatchRoots
<1> QED BY <1>3, <1>4, <1>5, <1>6, <1>7 DEF RuntimeInv, RuntimeShapes

(* What a pass may leave: nothing that was there goes while the stack can  *)
(* be walked.                                                              *)
LEMMA PassKeeps ==
    ASSUME RuntimeInv, NEW done \in BOOLEAN, NEW ok \in BOOLEAN, RuntimePass(done, ok)
    PROVE  /\ rtMounted' \in BOOLEAN
           /\ done => rtMounted' = TRUE
           /\ rtMounted /\ rtReadable => rtMounted'
BY DEF RuntimePass, releaseObsoleteMounts, StackClaimed, RuntimeInv, RuntimeShapes

LEMMA ReconcileKeeps ==
    ASSUME RuntimeInv, NEW done \in BOOLEAN, NEW ok \in BOOLEAN, StartReconcile(done, ok)
    PROVE  /\ rtMounted' \in BOOLEAN /\ rtActive' \subseteq {"main", "watch"}
           /\ rtMounted /\ rtReadable => rtMounted'
<1>1. RuntimePass(done, ok) BY DEF StartReconcile
<1>2. rtActive' \subseteq {"main", "watch"} BY DEF StartReconcile, RuntimeInv, RuntimeShapes
<1> QED BY <1>1, <1>2, PassKeeps

LEMMA ActivateKeeps ==
    ASSUME RuntimeInv, NEW done \in BOOLEAN, NEW ok \in BOOLEAN, ActivateRuntime(done, ok)
    PROVE  /\ rtMounted' \in BOOLEAN /\ rtActive' \subseteq {"main", "watch"}
           /\ rtMounted /\ rtReadable => rtMounted'
<1>1. CASE "main" \in rtActive
  BY <1>1 DEF ActivateRuntime, RuntimeInv, RuntimeShapes
<1>2. CASE "main" \notin rtActive
  <2>1. RuntimePass(done, ok) BY <1>2 DEF ActivateRuntime
  <2>2. rtActive' \subseteq {"main", "watch"}
    BY <1>2 DEF ActivateRuntime, RuntimeInv, RuntimeShapes
  <2> QED BY <2>1, <2>2, PassKeeps
<1> QED BY <1>1, <1>2

LEMMA InstallUnits ==
    ASSUME RuntimeInv, NEW done \in BOOLEAN, NEW ok \in BOOLEAN, InstallStep(done, ok)
    PROVE  /\ rtMounted' \in BOOLEAN /\ rtActive' \subseteq {"main", "watch"}
           /\ rtMounted /\ rtReadable => rtMounted'
<1> DEFINE step == installSteps[rtStep + 1]
<1>1. \/ ActivateRuntime(done, ok) \/ StartReconcile(done, ok)
      \/ /\ UNCHANGED rtMounted
         /\ rtActive' = IF step = "enableWatch" THEN rtActive \cup {"watch"} ELSE rtActive
  BY DEF InstallStep
<1>2. CASE /\ UNCHANGED rtMounted
           /\ rtActive' = IF step = "enableWatch" THEN rtActive \cup {"watch"} ELSE rtActive
  <2> HIDE DEF step
  <2> QED BY <1>2 DEF RuntimeInv, RuntimeShapes
<1> QED BY <1>1, <1>2, ActivateKeeps, ReconcileKeeps

LEMMA InstallStepKeeps ==
    ASSUME RuntimeInv, NEW done \in BOOLEAN, NEW ok \in BOOLEAN, InstallStep(done, ok)
    PROVE  RuntimeInv'
<1> DEFINE step == installSteps[rtStep + 1]
<1>1. rtStep \in 0..12 /\ rtStep < 13 /\ Up
  BY InstallOrder DEF InstallStep, RuntimeInv, RuntimeShapes, NotInstalling
<1>2. rtFiles' \subseteq Installed
  <2>1. rtFiles' = IF step \in Installed THEN rtFiles \cup {step} ELSE rtFiles
    BY DEF InstallStep, writeHostFileAtomic
  <2> HIDE DEF step
  <2> QED BY <2>1 DEF RuntimeInv, RuntimeShapes
<1>3. rtRoots' \in [disk : WatchRoots, loaded : WatchRoots]
  <2>1. \/ rtRoots' = [rtRoots EXCEPT !.disk = reconcileWatchDirectives]
        \/ rtRoots' = [rtRoots EXCEPT !.loaded = rtRoots.disk]
        \/ rtRoots' = rtRoots
    BY DEF InstallStep
  <2>2. reconcileWatchDirectives \in WatchRoots
    BY DEF reconcileWatchDirectives, WatchRoots, RuntimeInv, RuntimeShapes
  <2> QED BY <2>1, <2>2 DEF RuntimeInv, RuntimeShapes
<1>4. rtEnabled' \subseteq {"main", "watch"}
  BY DEF InstallStep, RuntimeInv, RuntimeShapes
<1>5. rtActive' \subseteq {"main", "watch"} /\ rtMounted' \in BOOLEAN
  BY InstallUnits
<1>6. /\ rtStep' = IF rtStep + 1 = 13 \/ ~ok THEN NotInstalling ELSE rtStep + 1
      /\ rtDone' = (rtDone \/ (rtStep + 1 = 13 /\ ok))
  BY InstallOrder DEF InstallStep
<1>7. rtStep' \in {NotInstalling} \cup 0..12 /\ rtDone' \in BOOLEAN
  BY <1>1, <1>6 DEF RuntimeInv, RuntimeShapes
<1>8. rtStale' \in BOOLEAN /\ NoStaleLeft'
  <2>1. rtStale' = IF step = "unstale" THEN FALSE ELSE rtStale
    BY DEF InstallStep, RemoveStaleDropIn
  <2>2. CASE rtStep = 7
    <3>1. step = "unstale" BY <2>2, InstallOrder
    <3> QED BY <2>1, <3>1 DEF NoStaleLeft
  <2>3. CASE rtStep # 7
    <3>1. rtStale \in BOOLEAN /\ (rtDone \/ rtStep \in 8..12 => rtStale = FALSE)
      BY DEF RuntimeInv, RuntimeShapes, NoStaleLeft
    <3>2. rtStep' \in 8..12 => rtStep \in 8..12
      BY <1>1, <1>6, <2>3 DEF NotInstalling
    <3>4. rtStep + 1 = 13 => rtStep \in 8..12 BY <1>1
    <3>5. rtDone' => rtDone \/ rtStep \in 8..12 BY <1>6, <3>4
    <3>3. rtStale' \in {FALSE, rtStale} BY <2>1
    <3> QED BY <3>1, <3>2, <3>3, <3>5 DEF NoStaleLeft
  <2> QED BY <2>2, <2>3
<1>9. BootKeeps' BY <1>1 DEF InstallStep, BootKeeps, Up
<1>10. RuntimeShapes'
  BY <1>2, <1>3, <1>4, <1>5, <1>7, <1>8 DEF InstallStep, RuntimeInv, RuntimeShapes
<1> QED BY <1>8, <1>9, <1>10 DEF RuntimeInv

LEMMA RuntimeStep == ASSUME RuntimeInv, RuntimeNext PROVE RuntimeInv'
<1> USE DEF RuntimeInv, RuntimeShapes, NoStaleLeft, BootKeeps
<1>1. CASE InstallHostRuntime BY <1>1 DEF InstallHostRuntime, Up, NotInstalling
<1>2. ASSUME NEW done \in BOOLEAN, NEW ok \in BOOLEAN, InstallStep(done, ok) PROVE RuntimeInv'
  BY <1>2, InstallStepKeeps
<1>3. CASE InstallFails BY <1>3 DEF InstallFails, NotInstalling
<1>4. CASE StopMain BY <1>4 DEF StopMain, Up
<1>5. CASE StartStackOnHost BY <1>5 DEF StartStackOnHost
<1>6. CASE PowerCycle
  <2>1. rtRoots' \in [disk : WatchRoots, loaded : WatchRoots] BY <1>6 DEF PowerCycle
  <2>2. rtActive' \subseteq {"main", "watch"} /\ rtBoot' \subseteq {"main", "docker"}
    BY <1>6 DEF PowerCycle
  <2>3. rtStep' = NotInstalling /\ rtMainOK' = FALSE /\ rtMounted' = FALSE
        /\ rtDocker' = FALSE /\ rtStack' = "none"
        /\ UNCHANGED <<rtFiles, rtStale, rtEnabled, rtReadable, rtAliases, rtAsked, rtDone>>
    BY <1>6 DEF PowerCycle
  <2>4. RuntimeShapes' BY <2>1, <2>2, <2>3
  <2>5. NoStaleLeft' BY <2>3 DEF NotInstalling
  <2>6. BootKeeps' BY <2>3
  <2> QED BY <2>4, <2>5, <2>6
<1>7. CASE BootDocker
  <2>1. (~rtStale /\ DockerMayStart) \in BOOLEAN OBVIOUS
  <2>2. rtDocker' \in BOOLEAN BY <1>7, <2>1 DEF BootDocker
  <2> QED BY <1>7, <2>2 DEF BootDocker
<1>8. ASSUME NEW done \in BOOLEAN, NEW ok \in BOOLEAN, BootMain(done, ok) PROVE RuntimeInv'
  <2>1. rtMounted' \in BOOLEAN /\ (done => rtMounted' = TRUE)
    BY <1>8, PassKeeps DEF BootMain
  <2> QED BY <1>8, <2>1 DEF BootMain
<1>9. ASSUME NEW done \in BOOLEAN, NEW ok \in BOOLEAN, NEW root \in {StackRoot} \cup rtAliases,
             Reconcile(root, done, ok)
      PROVE  RuntimeInv'
  <2>1. rtMounted' \in BOOLEAN /\ rtActive' \subseteq {"main", "watch"}
    BY <1>9, ReconcileKeeps DEF Reconcile
  <2> QED BY <1>9, <2>1 DEF Reconcile, WatchRoots, Up
<1>10. ASSUME NEW root \in {StackRoot} \cup rtAliases, requestHostRuntimeReconcile(root)
       PROVE  RuntimeInv'
  BY <1>10 DEF requestHostRuntimeReconcile, WatchRoots
<1>11. ASSUME NEW root \in AliasRoots, AddAlias(root) PROVE RuntimeInv'
  BY <1>11 DEF AddAlias
<1>12. CASE DirectoryTurns BY <1>12 DEF DirectoryTurns
<1> HIDE DEF RuntimeInv
<1> QED
  BY <1>1, <1>2, <1>3, <1>4, <1>5, <1>6, <1>7, <1>8, <1>9, <1>10, <1>11, <1>12 DEF RuntimeNext

LEMMA RuntimeInvariant == RuntimeSpec => []RuntimeInv
<1>1. RuntimeInit => RuntimeInv BY RuntimeInitially
<1>2. RuntimeInv /\ [RuntimeNext]_runtimeVars => RuntimeInv'
  <2> SUFFICES ASSUME RuntimeInv, [RuntimeNext]_runtimeVars PROVE RuntimeInv' OBVIOUS
  <2>1. CASE RuntimeNext BY <2>1, RuntimeStep
  <2>2. CASE UNCHANGED runtimeVars
    BY <2>2 DEF runtimeVars, RuntimeInv, RuntimeShapes, NoStaleLeft, BootKeeps
  <2> QED BY <2>1, <2>2
<1> QED BY <1>1, <1>2, PTL DEF RuntimeSpec

(* The files, units, roots and jobs of the host keep their shape           *)
(* (host_install.go, host_runtime.go).                                     *)
THEOREM RuntimeTyped == RuntimeSpec => []RuntimeTypeOK
<1>1. RuntimeInv => RuntimeTypeOK
  BY InstallOrder DEF RuntimeInv, RuntimeShapes, RuntimeTypeOK, WatchRoots
<1> QED BY <1>1, RuntimeInvariant, PTL

LEMMA SecretsStayUnder ==
    ASSUME RuntimeInv, RuntimeNext, rtStep' # rtStep \/ rtAsked' # rtAsked,
           rtMounted, rtReadable, rtBoot' = {}
    PROVE  rtMounted'
<1>1. CASE InstallHostRuntime BY <1>1 DEF InstallHostRuntime
<1>2. ASSUME NEW done \in BOOLEAN, NEW ok \in BOOLEAN, InstallStep(done, ok) PROVE rtMounted'
  BY <1>2, InstallUnits
<1>3. CASE InstallFails BY <1>3 DEF InstallFails
<1>4. CASE StopMain BY <1>4 DEF StopMain
<1>5. CASE StartStackOnHost BY <1>5 DEF StartStackOnHost
<1>6. CASE PowerCycle BY <1>6 DEF PowerCycle
<1>7. CASE BootDocker BY <1>7 DEF BootDocker
<1>8. ASSUME NEW done \in BOOLEAN, NEW ok \in BOOLEAN, BootMain(done, ok) PROVE rtMounted'
  BY <1>8 DEF BootMain
<1>9. ASSUME NEW done \in BOOLEAN, NEW ok \in BOOLEAN, NEW root \in {StackRoot} \cup rtAliases,
             Reconcile(root, done, ok)
      PROVE  rtMounted'
  BY <1>9, ReconcileKeeps DEF Reconcile
<1>10. ASSUME NEW root \in {StackRoot} \cup rtAliases, requestHostRuntimeReconcile(root)
       PROVE  rtMounted'
  BY <1>10 DEF requestHostRuntimeReconcile
<1>11. ASSUME NEW root \in AliasRoots, AddAlias(root) PROVE rtMounted'
  BY <1>11 DEF AddAlias
<1>12. CASE DirectoryTurns BY <1>12 DEF DirectoryTurns
<1> QED
  BY <1>1, <1>2, <1>3, <1>4, <1>5, <1>6, <1>7, <1>8, <1>9, <1>10, <1>11, <1>12 DEF RuntimeNext

LEMMA BootStartsDocker ==
    ASSUME RuntimeInv, BootDocker, rtDone
    PROVE  rtDocker' /\ (rtMainOK => rtStack' = "with")
<1>1. rtStale = FALSE BY DEF RuntimeInv, NoStaleLeft
<1>2. DockerMayStart BY DEF BootDocker, DockerMayStart
<1>3. rtDocker' = TRUE BY <1>1, <1>2 DEF BootDocker
<1>4. rtMainOK => rtMounted BY DEF RuntimeInv, BootKeeps, BootDocker
<1> QED BY <1>3, <1>4 DEF BootDocker

(* InstallHostRuntime, at whatever step it stops, and a reconciliation,    *)
(* well or badly, never take the secrets from under containers that run    *)
(* with them, unless the walk of host_runtime.go could not read the        *)
(* directory of the stack; and the boot after a completed installation     *)
(* starts Docker, with the secrets when they could be materialized.        *)
THEOREM RuntimeIsSafe == RuntimeSpec => RuntimeHolds
<1> DEFINE A == /\ rtStep' # rtStep \/ rtAsked' # rtAsked =>
                     (rtMounted /\ rtReadable /\ rtBoot' = {} => rtMounted')
                /\ BootDocker /\ rtDone => rtDocker' /\ (rtMainOK => rtStack' = "with")
<1>1. RuntimeInv /\ [RuntimeNext]_runtimeVars => [A]_runtimeVars
  BY SecretsStayUnder, BootStartsDocker
<1>2. RuntimeHolds <=> [][A]_runtimeVars BY DEF RuntimeHolds
<1> QED BY <1>1, <1>2, RuntimeInvariant, PTL DEF RuntimeSpec

-----------------------------------------------------------------------------
(***************************************************************************)
(* Watchers and folder links of the hosts.  Generations identify watchers, *)
(* so the one that ends cannot unregister another.  The links of a host    *)
(* that no request found under another name have the name of its row, or   *)
(* the next one while the only rename of it is between links and row.      *)
(***************************************************************************)
RetryPoints == {"none", "sleep", "dial", "opened", "take", "store", "notify"}
SeenPoints == {"toggle", "edit", "save", "load", "move", "place", "leave"}
SavePoints == {"toggle", "edit", "save"}
HostPoints == RetryPoints \cup SeenPoints \cup {"drop", "gone", "erase"}
HostConfs == [name : HostNames \cup {NoName}, on : BOOLEAN]
HostCalls == [at : HostPoints, id : HostIds, conf : HostConfs,
              then : {"none", "create", "toggle", "delete"}, seen : HostNames \cup {NoName}]
HostWatchers == [name : HostNames, gen : Nat, up : BOOLEAN, ctx : BOOLEAN]

RegShapes == hReg \subseteq HostNames

RowShapes == hRow \in [HostIds -> HostConfs] /\ hLink \in [HostIds -> HostNames \cup {NoName}]

HostShapes == RowShapes /\ RegShapes /\ hCall \in [Callers -> HostCalls]

(* What a caller carries at each of its steps.                             *)
Carried(c, q) ==
    /\ q.at # "none" => q.conf.name \in HostNames \ {NoName}
    /\ c = "retry" => q.then = "none" /\ q.at \in RetryPoints
    /\ c # "retry" => q.at # "sleep"
    /\ q.at \in SeenPoints => q.seen \in HostNames \ {NoName}
    /\ q.at = "toggle" => q.conf.name = q.seen
    /\ q.at = "edit" => q.conf.name # q.seen

HostCarried == \A c \in Callers : Carried(c, hCall[c])

HostRetries ==
    /\ hTries \in 0..(MaxRetries + 1)
    /\ hCall["retry"].at = "sleep" => hTries <= MaxRetries

WatchersAreTheirs ==
    /\ hWatcher \subseteq HostWatchers /\ IsFiniteSet(hWatcher)
    /\ hActive \in [HostNames -> Nat]
    /\ OneWatcher
    /\ \A v, w \in hWatcher : v.gen = w.gen => v = w

(* A request between the links and the row of a rename.                    *)
IsRename(q) == q.at = "save" /\ q.conf.name # q.seen

(* Rows that are there, or that a request is about to save, had links.     *)
RowsNamed ==
    /\ \A i \in HostIds : Alive(i) => hLink[i] # NoName
    /\ \A c \in Callers : hCall[c].at \in SavePoints => hLink[hCall[c].id] # NoName

LinksTold ==
    \A i \in HostIds \ hLostTrack : Alive(i) =>
      /\ \A c \in Callers : IsRename(hCall[c]) /\ hCall[c].id = i =>
           /\ hRow[i].name = hCall[c].seen /\ hLink[i] = hCall[c].conf.name
           /\ \A d \in Callers : IsRename(hCall[d]) /\ hCall[d].id = i => d = c
      /\ (\A c \in Callers : ~(IsRename(hCall[c]) /\ hCall[c].id = i)) => hLink[i] = hRow[i].name

HostLinked == RowsNamed /\ LinksTold

HostInv == HostShapes /\ HostCarried /\ HostRetries /\ WatchersAreTheirs /\ HostLinked

LEMMA NoCallIs ==
    /\ NoHostCall \in HostCalls /\ NoHostCall.at = "none" /\ NoHostCall.then = "none"
    /\ NoHostCall.conf = NoHostRow /\ ~IsRename(NoHostCall)
    /\ \A c \in Callers : Carried(c, NoHostCall)
<1>1. /\ NoHostCall \in HostCalls /\ NoHostCall.at = "none" /\ NoHostCall.then = "none"
      /\ NoHostCall.conf = NoHostRow
  BY HostRegistryAssumption
  DEF NoHostCall, HostCalls, HostPoints, RetryPoints, HostConfs, NoHostRow
<1>2. ~IsRename(NoHostCall) BY <1>1 DEF IsRename
<1>3. \A c \in Callers : Carried(c, NoHostCall)
  BY <1>1 DEF Carried, RetryPoints, SeenPoints
<1> QED BY <1>1, <1>2, <1>3

LEMMA HostStarts == HostInit => HostInv
<1> SUFFICES ASSUME HostInit PROVE HostInv OBVIOUS
<1>1. PICK names \in [HostIds -> HostNames \cup {NoName}] :
        /\ names[1] # NoName
        /\ hRow = [i \in HostIds |-> [name |-> names[i], on |-> names[i] # NoName]]
  BY DEF HostInit
<1>2. 1 \in HostIds /\ MaxRetries \in Nat BY HostRegistryAssumption
<1>3. hRow \in [HostIds -> HostConfs] /\ hRow[1].name \in HostNames
  BY <1>1, <1>2 DEF HostConfs
<1>4. /\ hLink \in [HostIds -> HostNames \cup {NoName}]
      /\ \A i \in HostIds : hLink[i] = hRow[i].name
  BY <1>1 DEF HostInit
<1>5. /\ RegShapes /\ hActive \in [HostNames -> Nat]
  BY <1>3 DEF HostInit, RegShapes
<1>6. /\ hCall \in [Callers -> HostCalls] /\ HostCarried
      /\ \A c \in Callers : hCall[c].at \in {"none", "sleep"}
  <2>1. PICK i \in HostIds \ {1} :
          hCall = [c \in Callers |-> IF c = "retry" /\ Alive(i)
                                      THEN [NoHostCall EXCEPT !.at = "sleep", !.id = i,
                                                          !.conf = hRow[i]]
                                      ELSE NoHostCall]
    BY DEF HostInit
  <2>3. CASE Alive(i)
    <3> DEFINE s == [NoHostCall EXCEPT !.at = "sleep", !.id = i, !.conf = hRow[i]]
    <3>1. s \in HostCalls /\ s.at = "sleep" /\ s.then = "none"
          /\ s.conf.name \in HostNames \ {NoName}
      BY <1>3, <2>3, NoCallIs
      DEF NoHostCall, HostCalls, HostPoints, RetryPoints, HostConfs, Alive
    <3>2. hCall = [c \in Callers |-> IF c = "retry" THEN s ELSE NoHostCall] BY <2>1, <2>3
    <3> HIDE DEF s
    <3>3. Carried("retry", s) BY <3>1 DEF Carried, RetryPoints, SeenPoints
    <3> QED BY NoCallIs, <3>1, <3>2, <3>3 DEF HostCarried
  <2>4. CASE ~Alive(i)
    <3>1. hCall = [c \in Callers |-> NoHostCall] BY <2>1, <2>4
    <3> QED BY <3>1, NoCallIs DEF HostCarried
  <2> QED BY <2>3, <2>4
<1>7. HostRetries BY <1>2 DEF HostInit, HostRetries
<1>8. WatchersAreTheirs
  <2> DEFINE w == [name |-> hRow[1].name, gen |-> 1, up |-> TRUE, ctx |-> TRUE]
  <2>1. w \in HostWatchers /\ hWatcher = {w} /\ w.gen = 1 /\ w.name = hRow[1].name
    BY <1>3 DEF HostWatchers, HostInit
  <2>2. hActive[hRow[1].name] = 1 BY <1>3 DEF HostInit
  <2>3. hActive \in [HostNames -> Nat] BY DEF HostInit
  <2> HIDE DEF w
  <2> QED BY <2>1, <2>2, <2>3, FS_Singleton DEF WatchersAreTheirs, OneWatcher
<1>9. HostLinked BY <1>4, <1>6 DEF HostLinked, RowsNamed, LinksTold, IsRename, Alive, SavePoints
<1> QED BY <1>3, <1>4, <1>5, <1>6, <1>7, <1>8, <1>9 DEF HostInv, HostShapes, RowShapes

-----------------------------------------------------------------------------
(* The watchers.                                                           *)
LEMMA CancelledWatchers ==
    ASSUME WatchersAreTheirs, NEW n \in HostNames
    PROVE  /\ Cancelled(n) \subseteq HostWatchers /\ IsFiniteSet(Cancelled(n))
           /\ \A v, w \in Cancelled(n) : v.gen = w.gen => v = w
           /\ \A w \in Cancelled(n) : w.ctx => w.name # n /\ w.gen = hActive[w.name]
           /\ \A w \in Cancelled(n) : \E v \in hWatcher : v.gen = w.gen
<1> DEFINE Off(w) == IF w.name = n /\ w.gen = hActive[n] THEN [w EXCEPT !.ctx = FALSE] ELSE w
<1>1. Cancelled(n) = {Off(w) : w \in hWatcher} BY DEF Cancelled
<1>2. IsFiniteSet(Cancelled(n))
  <2> DEFINE f == [w \in hWatcher |-> Off(w)]
  <2>1. f \in [hWatcher -> Cancelled(n)] /\ \A v \in Cancelled(n) : \E w \in hWatcher : f[w] = v
    BY <1>1
  <2>2. f \in Surjection(hWatcher, Cancelled(n))
    <3> HIDE DEF f
    <3> QED BY <2>1 DEF Surjection
  <2> HIDE DEF f
  <2> QED BY <2>2, FS_Surjection DEF WatchersAreTheirs
<1>3. \A w \in hWatcher : /\ Off(w) \in HostWatchers /\ Off(w).gen = w.gen
                          /\ Off(w).ctx => Off(w).name # n /\ Off(w).gen = hActive[Off(w).name]
  BY DEF WatchersAreTheirs, OneWatcher, HostWatchers
<1> HIDE DEF Off
<1> QED BY <1>1, <1>2, <1>3 DEF WatchersAreTheirs

(* There is always a generation no watcher has.                            *)
LEMMA NewGeneration ==
    ASSUME WatchersAreTheirs
    PROVE  Generation \in Nat /\ \A w \in hWatcher : w.gen # Generation
<1> DEFINE k == Cardinality(hWatcher)  gens == {w.gen : w \in hWatcher}
<1>1. IsFiniteSet(hWatcher) /\ k \in Nat BY FS_CardinalityType DEF WatchersAreTheirs
<1>2. IsFiniteSet(gens) /\ Cardinality(gens) <= k
  <2> DEFINE f == [w \in hWatcher |-> w.gen]
  <2>1. f \in [hWatcher -> gens] /\ \A g \in gens : \E w \in hWatcher : f[w] = g
    OBVIOUS
  <2>2. f \in Surjection(hWatcher, gens)
    <3> HIDE DEF f, gens
    <3> QED BY <2>1 DEF Surjection
  <2> HIDE DEF f, gens
  <2> QED BY <1>1, <2>2, FS_Surjection
<1>3. IsFiniteSet(1..(k + 1)) /\ Cardinality(1..(k + 1)) = k + 1
  <2> HIDE DEF k
  <2> QED BY <1>1, FS_Interval
<1>4. ~(1..(k + 1) \subseteq gens)
  <2> HIDE DEF k, gens
  <2> QED BY <1>1, <1>2, <1>3, FS_Subset, FS_CardinalityType
<1>5. \E g \in 1..(k + 1) : \A w \in hWatcher : w.gen # g BY <1>4
<1>6. Generation \in 1..(k + 1) /\ \A w \in hWatcher : w.gen # Generation
  BY <1>5 DEF Generation
<1> HIDE DEF k
<1> QED BY <1>1, <1>6

LEMMA WatchersReleased ==
    ASSUME WatchersAreTheirs, NEW n \in HostNames, release(n)
    PROVE  WatchersAreTheirs'
<1>1. hWatcher' = Cancelled(n) /\ hActive' = [hActive EXCEPT ![n] = 0] BY DEF release
<1> QED BY <1>1, CancelledWatchers DEF WatchersAreTheirs, OneWatcher, HostWatchers

LEMMA WatcherAdded ==
    ASSUME WatchersAreTheirs, NEW n \in HostNames, watch(n)
    PROVE  WatchersAreTheirs'
<1> DEFINE new == [name |-> n, gen |-> Generation, up |-> FALSE, ctx |-> TRUE]
<1>1. new \in HostWatchers /\ new.gen = Generation /\ new.name = n
  BY NewGeneration DEF HostWatchers
<1>2. hWatcher' = Cancelled(n) \cup {new} /\ hActive' = [hActive EXCEPT ![n] = Generation]
  BY DEF watch
<1> HIDE DEF new
<1>3. IsFiniteSet(hWatcher') BY <1>2, CancelledWatchers, FS_AddElement
<1>4. hWatcher' \subseteq HostWatchers /\ hActive' \in [HostNames -> Nat]
  BY <1>1, <1>2, CancelledWatchers, NewGeneration DEF WatchersAreTheirs
<1>5. \A w \in Cancelled(n) : w.gen # Generation /\ w.name \in HostNames
  BY CancelledWatchers, NewGeneration DEF HostWatchers
<1>6. \A v, w \in hWatcher' : v.gen = w.gen => v = w BY <1>1, <1>2, <1>5, CancelledWatchers
<1>7. OneWatcher'
  <2> SUFFICES ASSUME NEW w \in hWatcher', w.ctx PROVE w.gen = hActive'[w.name]
    BY DEF OneWatcher
  <2>1. CASE w = new BY <2>1, <1>1, <1>2 DEF WatchersAreTheirs
  <2>2. CASE w \in Cancelled(n) BY <2>2, <1>2, <1>5, CancelledWatchers DEF WatchersAreTheirs
  <2> QED BY <2>1, <2>2, <1>2
<1> QED BY <1>3, <1>4, <1>6, <1>7 DEF WatchersAreTheirs

LEMMA WatcherMoves ==
    ASSUME HostShapes, WatchersAreTheirs, NEW w \in hWatcher, WatcherStarts(w) \/ WatcherEnds(w)
    PROVE  WatchersAreTheirs'
<1>1. w \in HostWatchers /\ w.name \in HostNames BY DEF WatchersAreTheirs, HostWatchers
<1>2. CASE WatcherStarts(w)
  <2> DEFINE new == [w EXCEPT !.up = TRUE]
  <2>1. new \in HostWatchers /\ new.gen = w.gen /\ new.name = w.name /\ new.ctx = w.ctx
    BY <1>1 DEF HostShapes, RegShapes, HostWatchers
  <2>2. hWatcher' = (hWatcher \ {w}) \cup {new} /\ UNCHANGED hActive
    BY <1>2 DEF WatcherStarts
  <2> HIDE DEF new
  <2>3. IsFiniteSet(hWatcher')
    BY <2>2, FS_RemoveElement, FS_AddElement DEF WatchersAreTheirs
  <2> QED BY <2>1, <2>2, <2>3 DEF WatchersAreTheirs, OneWatcher
<1>3. CASE WatcherEnds(w)
  <2>1. hWatcher' = hWatcher \ {w} /\ hActive' = finished(w) BY <1>3 DEF WatcherEnds
  <2>2. IsFiniteSet(hWatcher') BY <2>1, FS_RemoveElement DEF WatchersAreTheirs
  <2>3. hActive' \in [HostNames -> Nat] BY <2>1, <1>1 DEF finished, WatchersAreTheirs
  <2>4. OneWatcher'
    <3> SUFFICES ASSUME NEW v \in hWatcher', v.ctx PROVE v.gen = hActive'[v.name]
      BY DEF OneWatcher
    <3>1. v \in hWatcher /\ v # w /\ v.gen # w.gen /\ v.gen = hActive[v.name]
      BY <2>1 DEF WatchersAreTheirs, OneWatcher
    <3> QED BY <3>1, <2>1, <1>1 DEF finished, WatchersAreTheirs, HostWatchers
  <2> QED BY <2>1, <2>2, <2>3, <2>4 DEF WatchersAreTheirs
<1> QED BY <1>2, <1>3

-----------------------------------------------------------------------------
(* The callers.                                                            *)
LEMMA CallIs ==
    ASSUME HostShapes, HostCarried, HostRetries, UNCHANGED hTries,
           NEW c \in Callers, NEW q \in HostCalls, Carried(c, q), q.at # "sleep", Call(c, q)
    PROVE  /\ hCall' \in [Callers -> HostCalls] /\ hCall'[c] = q
           /\ \A d \in Callers : d # c => hCall'[d] = hCall[d]
           /\ HostCarried' /\ HostRetries'
<1>1. /\ hCall' \in [Callers -> HostCalls] /\ hCall'[c] = q
      /\ \A d \in Callers : d # c => hCall'[d] = hCall[d]
  BY DEF Call, HostShapes
<1>2. HostCarried' BY <1>1 DEF HostCarried, Carried
<1>3. HostRetries' BY <1>1 DEF HostRetries, Callers
<1> QED BY <1>1, <1>2, <1>3

LEMMA StepIs ==
    ASSUME HostShapes, NEW c \in Callers, NEW at \in HostPoints
    PROVE  LET q == [hCall[c] EXCEPT !.at = at] IN
           /\ q \in HostCalls /\ q.at = at /\ q.id = hCall[c].id /\ q.conf = hCall[c].conf
           /\ q.then = hCall[c].then /\ q.seen = hCall[c].seen
<1>1. hCall[c] \in HostCalls BY DEF HostShapes
<1> QED BY <1>1 DEF HostCalls

(* What the folder links need of a step that leaves the names of rows and  *)
(* links that are still followed.                                          *)
LEMMA LinksStay ==
    ASSUME HostLinked, UNCHANGED hLink, hLostTrack \subseteq hLostTrack',
           \A i \in HostIds : hRow'[i].name # NoName => hLink[i] # NoName,
           \A i \in HostIds \ hLostTrack' :
             hRow'[i].name # NoName => hRow'[i].name = hRow[i].name,
           NEW c \in Callers, \A d \in Callers : d # c => hCall'[d] = hCall[d],
           ~IsRename(hCall[c]), ~IsRename(hCall'[c]),
           hCall'[c].at \in SavePoints => hLink[hCall'[c].id] # NoName
    PROVE  HostLinked'
<1>1. RowsNamed' BY DEF HostLinked, RowsNamed, Alive
<1>2. LinksTold'
  <2> SUFFICES ASSUME NEW i \in HostIds \ hLostTrack', hRow'[i].name # NoName
               PROVE
        /\ \A b \in Callers : IsRename(hCall'[b]) /\ hCall'[b].id = i =>
             /\ hRow'[i].name = hCall'[b].seen /\ hLink'[i] = hCall'[b].conf.name
             /\ \A d \in Callers : IsRename(hCall'[d]) /\ hCall'[d].id = i => d = b
        /\ (\A b \in Callers : ~(IsRename(hCall'[b]) /\ hCall'[b].id = i))
             => hLink'[i] = hRow'[i].name
    BY DEF LinksTold, Alive, IsRename
  <2>1. i \in HostIds \ hLostTrack /\ Alive(i) /\ hRow'[i].name = hRow[i].name
    BY DEF Alive
  <2>2. \A b \in Callers : \/ b # c /\ hCall'[b] = hCall[b]
                           \/ ~IsRename(hCall'[b]) /\ ~IsRename(hCall[b])
    OBVIOUS
  <2> QED BY <2>1, <2>2 DEF HostLinked, LinksTold
<1> QED BY <1>1, <1>2 DEF HostLinked

LEMMA LinksStayIfSame ==
    ASSUME HostLinked, UNCHANGED <<hRow, hLink, hLostTrack, hCall>>
    PROVE  HostLinked'
BY DEF HostLinked, RowsNamed, LinksTold, IsRename, Alive

HostRest == HostShapes /\ HostCarried /\ HostRetries /\ HostLinked

(* A caller goes on, and no row or link changes.                           *)
LEMMA CallerGoesOn ==
    ASSUME HostRest, NEW c \in Callers, NEW q \in HostCalls, Carried(c, q), q.at # "sleep",
           Call(c, q), ~IsRename(hCall[c]), ~IsRename(q),
           q.at \in SavePoints => hLink[q.id] # NoName,
           UNCHANGED <<hRow, hLink, hTries, hLostTrack>>, RegShapes'
    PROVE  HostRest'
<1>1. /\ hCall' \in [Callers -> HostCalls] /\ hCall'[c] = q
      /\ \A d \in Callers : d # c => hCall'[d] = hCall[d]
      /\ HostCarried' /\ HostRetries'
  BY CallIs DEF HostRest
<1>2. HostShapes' BY <1>1 DEF HostRest, HostShapes, RowShapes
<1>3. HostLinked' BY <1>1, LinksStay DEF HostRest, HostLinked, RowsNamed, Alive
<1> QED BY <1>1, <1>2, <1>3 DEF HostRest

LEMMA StepGoesOn ==
    ASSUME HostRest, NEW c \in Callers,
           NEW at \in HostPoints \ (SavePoints \cup {"none", "sleep"}), Step(c, at),
           hCall[c].at # "none", ~IsRename(hCall[c]),
           c = "retry" => at \in RetryPoints,
           at \in SeenPoints => hCall[c].at \in SeenPoints,
           UNCHANGED <<hRow, hLink, hTries, hLostTrack>>, RegShapes'
    PROVE  HostRest'
<1> DEFINE q == [hCall[c] EXCEPT !.at = at]
<1>1. /\ q \in HostCalls /\ q.at = at /\ q.id = hCall[c].id /\ q.conf = hCall[c].conf
      /\ q.then = hCall[c].then /\ q.seen = hCall[c].seen
  BY StepIs DEF HostRest
<1>2. Call(c, q) BY DEF Step
<1> HIDE DEF q
<1>3. Carried(c, hCall[c]) BY DEF HostRest, HostCarried
<1>4. Carried(c, q) BY <1>1, <1>3 DEF Carried, SavePoints
<1>5. ~IsRename(q) BY <1>1 DEF IsRename, SavePoints
<1> QED BY <1>1, <1>2, <1>4, <1>5, CallerGoesOn

LEMMA DoneGoesOn ==
    ASSUME HostRest, NEW c \in Callers, Done(c), ~IsRename(hCall[c]),
           UNCHANGED <<hRow, hLink, hTries, hLostTrack>>, RegShapes'
    PROVE  HostRest'
BY NoCallIs, CallerGoesOn DEF Done, SavePoints

LEMMA LoadHostStep ==
    ASSUME HostRest, NEW c \in Callers, loadHost(c)
    PROVE  HostRest'
<1>1. hCall[c] \in HostCalls /\ HostShapes /\ hCall[c].at = "dial" /\ ~IsRename(hCall[c])
      /\ Carried(c, hCall[c]) /\ UNCHANGED <<hRow, hLink, hReg, hTries, hLostTrack>>
  BY DEF loadHost, HostRest, HostShapes, IsRename, HostCarried
<1>2. CASE Step(c, "opened")
  <2>1. RegShapes' BY <1>1 DEF HostShapes, RegShapes
  <2> QED BY <1>1, <1>2, <2>1, StepGoesOn
      DEF HostPoints, RetryPoints, SeenPoints, SavePoints
<1>3. CASE c = "retry" /\ hTries < MaxRetries /\ Step(c, "sleep")
  <2> DEFINE q == [hCall[c] EXCEPT !.at = "sleep"]
  <2>1. q \in HostCalls /\ q.at = "sleep" /\ q.conf = hCall[c].conf /\ q.then = hCall[c].then
    BY <1>1, StepIs DEF HostPoints, RetryPoints
  <2>2. Call(c, q) BY <1>3 DEF Step
  <2> HIDE DEF q
  <2>3. /\ hCall' \in [Callers -> HostCalls] /\ hCall'[c] = q
        /\ \A d \in Callers : d # c => hCall'[d] = hCall[d]
    BY <1>1, <2>1, <2>2 DEF Call, HostShapes
  <2>4. Carried(c, q) BY <1>1, <1>3, <2>1 DEF Carried, RetryPoints, SeenPoints
  <2>5. HostShapes' BY <1>1, <1>3, <2>3 DEF HostShapes, RowShapes, RegShapes
  <2>6. HostCarried' BY <2>3, <2>4 DEF HostRest, HostCarried, Carried
  <2>7. HostRetries' BY <1>1, <1>3, <2>3, HostRegistryAssumption DEF HostRest, HostRetries
  <2>8. ~IsRename(q) /\ q.at \notin SavePoints BY <2>1 DEF IsRename, SavePoints
  <2>9. HostLinked'
    BY <1>1, <2>3, <2>8, LinksStay DEF HostRest, HostLinked, RowsNamed, Alive
  <2> QED BY <2>5, <2>6, <2>7, <2>9 DEF HostRest
<1>4. CASE Done(c)
  <2>1. RegShapes' BY <1>1, <1>4 DEF HostShapes, RegShapes
  <2> QED BY <1>1, <1>4, <2>1, DoneGoesOn
<1> QED BY <1>2, <1>3, <1>4 DEF loadHost

(* A caller that is not at a save, and the registry after a step of Add.   *)
LEMMA NotRenaming ==
    ASSUME NEW c \in Callers, hCall[c].at # "save" \/ hCall[c].conf.name = hCall[c].seen
    PROVE  ~IsRename(hCall[c])
BY DEF IsRename

LEMMA AddStep ==
    ASSUME HostRest, NEW c \in Callers, Add(c)
    PROVE  HostRest'
<1> DEFINE r == hCall[c]
           on == r.conf.on
<1>1. r \in HostCalls /\ HostShapes /\ r.at = "opened" /\ r.conf.name \in HostNames \ {NoName}
      /\ ~IsRename(r) /\ Carried(c, r)
  BY DEF Add, HostRest, HostShapes, HostCarried, Carried, IsRename
<1>2. /\ IF on THEN Step(c, "take") ELSE Done(c)
      /\ UNCHANGED <<hReg, hTries, hLostTrack>>
  BY DEF Add
<1>3. RegShapes' BY <1>1, <1>2 DEF HostShapes, RegShapes
<1>4. CASE r.then # "create"
  <2>1. UNCHANGED <<hRow, hLink>> BY <1>4 DEF Add
  <2>2. CASE on
    BY <1>1, <1>2, <1>3, <2>1, <2>2, StepGoesOn
    DEF HostPoints, RetryPoints, SeenPoints, SavePoints
  <2>3. CASE ~on BY <1>1, <1>2, <1>3, <2>1, <2>3, DoneGoesOn
  <2> QED BY <2>2, <2>3
<1>5. CASE r.then = "create"
  <2>1. PICK id \in HostIds : /\ hLink[id] = NoName
                              /\ hRow' = [hRow EXCEPT ![id] = r.conf]
                              /\ hLink' = [hLink EXCEPT ![id] = r.conf.name]
    BY <1>5 DEF Add
  <2>2. /\ hRow' \in [HostIds -> HostConfs] /\ hLink' \in [HostIds -> HostNames \cup {NoName}]
        /\ hRow'[id] = r.conf /\ hLink'[id] = r.conf.name
        /\ \A i \in HostIds : i # id => hRow'[i] = hRow[i] /\ hLink'[i] = hLink[i]
    BY <1>1, <2>1 DEF HostShapes, RowShapes, HostCalls
  <2>3. PICK q \in HostCalls : /\ Call(c, q) /\ Carried(c, q) /\ ~IsRename(q)
                               /\ q.at \in {"take", "none"}
    <3>1. CASE on
      <4> DEFINE q == [r EXCEPT !.at = "take"]
      <4>1. q \in HostCalls /\ q.at = "take" /\ q.conf = r.conf /\ q.then = r.then
        BY <1>1, StepIs DEF HostPoints, RetryPoints
      <4>2. Call(c, q) BY <1>2, <3>1 DEF Step
      <4> HIDE DEF q
      <4>3. Carried(c, q) /\ ~IsRename(q)
        BY <1>1, <4>1 DEF Carried, RetryPoints, SeenPoints, IsRename
      <4> QED BY <4>1, <4>2, <4>3
    <3>2. CASE ~on BY <1>2, <3>2, NoCallIs DEF Done
    <3> QED BY <3>1, <3>2
  <2>4. /\ hCall' \in [Callers -> HostCalls] /\ hCall'[c] = q
        /\ \A d \in Callers : d # c => hCall'[d] = hCall[d]
        /\ HostCarried' /\ HostRetries'
    BY <1>2, <2>3, CallIs DEF HostRest
  <2>5. HostShapes' BY <1>3, <2>2, <2>4 DEF HostShapes, RowShapes
  <2> HIDE DEF r
  <2>6. RowsNamed /\ LinksTold BY DEF HostRest, HostLinked
  <2>7. RowsNamed'
    BY <1>1, <2>2, <2>3, <2>4, <2>6 DEF RowsNamed, Alive, SavePoints, HostShapes, HostCalls
  <2>8. \A d \in Callers : IsRename(hCall'[d]) =>
          d # c /\ hCall'[d] = hCall[d] /\ hCall'[d].id # id
    BY <2>1, <2>3, <2>4, <2>6 DEF RowsNamed, IsRename, SavePoints
  <2>9. LinksTold'
    <3> SUFFICES ASSUME NEW i \in HostIds \ hLostTrack, hRow'[i].name # NoName
                 PROVE
          /\ \A b \in Callers : IsRename(hCall'[b]) /\ hCall'[b].id = i =>
               /\ hRow'[i].name = hCall'[b].seen /\ hLink'[i] = hCall'[b].conf.name
               /\ \A d \in Callers : IsRename(hCall'[d]) /\ hCall'[d].id = i => d = b
          /\ (\A b \in Callers : ~(IsRename(hCall'[b]) /\ hCall'[b].id = i))
               => hLink'[i] = hRow'[i].name
      BY <1>2 DEF LinksTold, Alive, IsRename
    <3>1. CASE i = id BY <2>2, <2>8, <3>1
    <3>2. CASE i # id
      <4>1. hRow'[i] = hRow[i] /\ hLink'[i] = hLink[i] /\ Alive(i) BY <2>2, <3>2 DEF Alive
      <4>2. \A d \in Callers : IsRename(hCall'[d]) <=> IsRename(hCall[d]) /\ d # c
        BY <2>3, <2>4
      <4>3. ~IsRename(hCall[c]) BY <1>1 DEF r
      <4> QED BY <2>4, <2>6, <2>8, <4>1, <4>2, <4>3 DEF LinksTold
    <3> QED BY <3>1, <3>2
  <2> QED BY <2>4, <2>5, <2>7, <2>9 DEF HostRest, HostLinked
<1> QED BY <1>4, <1>5

LEMMA DropsConnection ==
    ASSUME HostShapes, NEW n \in HostNames, LoadAndDelete(n)
    PROVE  RegShapes'
BY DEF LoadAndDelete, HostShapes, RegShapes

LEMMA AddRegisters ==
    ASSUME HostRest, NEW c \in Callers,
           AddFails(c) \/ AddTakes(c) \/ AddStores(c) \/ notifyConnected(c)
    PROVE  HostRest'
<1>1. hCall[c] \in HostCalls /\ HostShapes /\ Carried(c, hCall[c])
  BY DEF HostRest, HostShapes, HostCarried
<1>2. CASE AddFails(c)
  <2>1. RegShapes' BY <1>1, <1>2 DEF AddFails, HostShapes, RegShapes
  <2> QED BY <1>2, <2>1, NotRenaming, DoneGoesOn DEF AddFails
<1>3. CASE AddTakes(c)
  <2>1. hCall[c].conf.name \in HostNames BY <1>1, <1>3 DEF AddTakes, Carried
  <2>2. RegShapes' BY <1>1, <1>3, <2>1, DropsConnection DEF AddTakes
  <2> QED BY <1>3, <2>2, NotRenaming, StepGoesOn
      DEF AddTakes, HostPoints, RetryPoints, SeenPoints, SavePoints
<1>4. CASE AddStores(c)
  <2>1. RegShapes' BY <1>1, <1>4 DEF AddStores, Carried, HostShapes, RegShapes
  <2> QED BY <1>4, <2>1, NotRenaming, StepGoesOn
      DEF AddStores, HostPoints, RetryPoints, SeenPoints, SavePoints
<1>5. CASE notifyConnected(c)
  <2>1. RegShapes' BY <1>1, <1>5 DEF notifyConnected, HostShapes, RegShapes
  <2> QED BY <1>5, <2>1, NotRenaming, DoneGoesOn DEF notifyConnected
<1> QED BY <1>2, <1>3, <1>4, <1>5

-----------------------------------------------------------------------------
(* The retry and the requests of the operators.                            *)
LEMMA RetryStep ==
    ASSUME HostRest, retryLoad
    PROVE  HostRest'
<1>1. /\ "retry" \in Callers /\ hCall["retry"].at = "sleep"
      /\ UNCHANGED <<hRow, hLink, hReg, hLostTrack>> /\ hTries' = hTries + 1
  BY DEF retryLoad, Callers
<1>2. /\ hCall["retry"] \in HostCalls /\ HostShapes
      /\ Carried("retry", hCall["retry"]) /\ ~IsRename(hCall["retry"])
  BY <1>1 DEF HostRest, HostShapes, HostCarried, IsRename
<1>3. /\ hCall["retry"].conf.name \in HostNames \ {NoName} /\ hCall["retry"].then = "none"
  BY <1>1, <1>2 DEF Carried
<1>4. hTries <= MaxRetries /\ hTries \in Nat
  BY <1>1, HostRegistryAssumption DEF HostRest, HostRetries
<1>5. PICK q \in HostCalls : /\ Call("retry", q) /\ Carried("retry", q) /\ ~IsRename(q)
                             /\ q.at \in {"none", "dial"}
  <2>1. CASE \E id \in HostIds :
               /\ hRow[id].name = hCall["retry"].conf.name /\ hRow[id].on
               /\ Call("retry", [hCall["retry"] EXCEPT !.at = "dial", !.id = id,
                                                       !.conf = hRow[id]])
    <3>1. PICK id \in HostIds : /\ hRow[id].name = hCall["retry"].conf.name
                                /\ Call("retry", [hCall["retry"] EXCEPT !.at = "dial", !.id = id,
                                                                        !.conf = hRow[id]])
      BY <2>1
    <3> DEFINE q == [hCall["retry"] EXCEPT !.at = "dial", !.id = id, !.conf = hRow[id]]
    <3>2. q \in HostCalls /\ q.at = "dial" /\ q.then = "none"
          /\ q.conf.name \in HostNames \ {NoName}
      BY <1>2, <1>3, <3>1 DEF HostCalls, HostPoints, RetryPoints, HostShapes, RowShapes
    <3>3. Call("retry", q) BY <3>1
    <3> HIDE DEF q
    <3>4. Carried("retry", q) /\ ~IsRename(q)
      BY <3>2 DEF Carried, RetryPoints, SeenPoints, IsRename
    <3> QED BY <3>2, <3>3, <3>4
  <2>2. CASE Call("retry", NoHostCall) BY <1>1, <2>2, NoCallIs
  <2> QED BY <2>1, <2>2 DEF retryLoad
<1>6. /\ hCall' \in [Callers -> HostCalls] /\ hCall'["retry"] = q
      /\ \A d \in Callers : d # "retry" => hCall'[d] = hCall[d]
  BY <1>1, <1>2, <1>5 DEF Call, HostShapes
<1>7. HostShapes' BY <1>1, <1>2, <1>6 DEF HostShapes, RowShapes, RegShapes
<1>8. HostCarried' BY <1>5, <1>6 DEF HostRest, HostCarried, Carried
<1>9. HostRetries'
  <2>1. hTries' \in 0..(MaxRetries + 1) BY <1>1, <1>4, HostRegistryAssumption
  <2> QED BY <1>5, <1>6, <2>1 DEF HostRetries
<1>10. HostLinked'
  BY <1>1, <1>2, <1>5, <1>6, LinksStay
  DEF HostRest, HostLinked, RowsNamed, Alive, SavePoints
<1> QED BY <1>7, <1>8, <1>9, <1>10 DEF HostRest

(* A request is written down as the call of a caller.                      *)
LEMMA AskedIs ==
    ASSUME HostRest, NEW c \in Operators, NEW id \in HostIds, NEW conf \in HostConfs,
           NEW at \in {"dial", "drop", "toggle", "edit", "save"},
           NEW then \in {"none", "create", "toggle", "delete"},
           NEW seen \in HostNames \cup {NoName},
           conf.name \in HostNames \ {NoName},
           at \in SavePoints => seen # NoName /\ hLink[id] # NoName,
           at \in {"toggle", "save"} => conf.name = seen,
           at = "edit" => conf.name # seen,
           HostRequest(c), Asked(c, id, conf, at, then, seen), UNCHANGED requestVars
    PROVE  HostRest'
<1> DEFINE q == [at |-> at, id |-> id, conf |-> conf, then |-> then, seen |-> seen]
<1>1. q \in HostCalls /\ q.at = at /\ q.id = id /\ q.conf = conf /\ q.then = then /\ q.seen = seen
  BY DEF HostCalls, HostPoints, RetryPoints, SeenPoints
<1>2. Call(c, q) BY DEF Asked
<1> HIDE DEF q
<1>3. c \in Callers /\ c # "retry" BY DEF Callers, Operators
<1>4. Carried(c, q) /\ ~IsRename(q) /\ q.at # "sleep"
  BY <1>1, <1>3 DEF Carried, SeenPoints, SavePoints, IsRename
<1>5. RegShapes' BY DEF requestVars, HostRest, HostShapes, RegShapes
<1>6. ~IsRename(hCall[c]) BY DEF HostRequest, IsRename
<1> QED BY <1>1, <1>2, <1>3, <1>4, <1>5, <1>6, CallerGoesOn DEF requestVars

LEMMA HostRequested ==
    ASSUME HostRest, NEW c \in Operators,
           \/ \E id \in HostIds : ToggleReads(c, id) \/ DeleteHost(c, id)
           \/ \E n \in HostNames, on \in BOOLEAN :
                CreateHost(c, n, on) \/ \E id \in HostIds : EditHost(c, id, n, on)
    PROVE  HostRest'
<1>1. hRow \in [HostIds -> HostConfs]
      /\ \A id \in HostIds : Alive(id) => /\ hRow[id].name \in HostNames \ {NoName}
                                          /\ hLink[id] # NoName
  BY DEF HostRest, HostShapes, RowShapes, HostConfs, HostLinked, RowsNamed, Alive
<1>2. ASSUME NEW id \in HostIds, ToggleReads(c, id) PROVE HostRest'
  <2> DEFINE conf == [hRow[id] EXCEPT !.on = ~@]
  <2>1. Alive(id) /\ HostRequest(c) /\ UNCHANGED requestVars
        /\ Asked(c, id, conf, "toggle", "none", hRow[id].name)
    BY <1>2 DEF ToggleReads
  <2>2. conf \in HostConfs /\ conf.name = hRow[id].name BY <1>1 DEF HostConfs
  <2> HIDE DEF conf
  <2> QED BY <1>1, <2>1, <2>2, AskedIs
<1>3. ASSUME NEW id \in HostIds, DeleteHost(c, id) PROVE HostRest'
  <2>1. Alive(id) /\ HostRequest(c) /\ UNCHANGED requestVars
        /\ Asked(c, id, hRow[id], "drop", "delete", hRow[id].name)
    BY <1>3 DEF DeleteHost
  <2> QED BY <1>1, <2>1, AskedIs DEF SavePoints
<1>4. ASSUME NEW n \in HostNames, NEW on \in BOOLEAN, CreateHost(c, n, on) PROVE HostRest'
  <2> DEFINE conf == [name |-> n, on |-> on]
  <2>1. n # NoName /\ HostRequest(c) /\ UNCHANGED requestVars
        /\ Asked(c, 1, conf, "dial", "create", NoName)
    BY <1>4 DEF CreateHost
  <2>2. conf \in HostConfs /\ conf.name = n /\ 1 \in HostIds
    BY HostRegistryAssumption DEF HostConfs
  <2> HIDE DEF conf
  <2> QED BY <2>1, <2>2, AskedIs DEF SavePoints
<1>5. ASSUME NEW id \in HostIds, NEW n \in HostNames, NEW on \in BOOLEAN, EditHost(c, id, n, on)
      PROVE HostRest'
  <2> DEFINE conf == [name |-> n, on |-> on]
             at == IF n = hRow[id].name THEN "save" ELSE "edit"
  <2>1. n # NoName /\ Alive(id) /\ HostRequest(c) /\ UNCHANGED requestVars
        /\ Asked(c, id, conf, at, "none", hRow[id].name)
    BY <1>5 DEF EditHost
  <2>2. conf \in HostConfs /\ conf.name = n BY DEF HostConfs
  <2>3. /\ at \in {"save", "edit"} /\ (at = "save" => n = hRow[id].name)
        /\ (at = "edit" => n # hRow[id].name)
    OBVIOUS
  <2> HIDE DEF conf, at
  <2> QED BY <1>1, <2>1, <2>2, <2>3, AskedIs
<1> QED BY <1>2, <1>3, <1>4, <1>5

-----------------------------------------------------------------------------
(* The later steps of a deletion, a change of state and a rename.          *)
LEMMA RegistryStep ==
    ASSUME HostRest, NEW c \in Operators,
           \/ Drop(c) \/ notifyDisconnected(c) \/ EditLoads(c)
           \/ EditDeletes(c) \/ EditStores(c) \/ EditReleases(c)
    PROVE  HostRest'
<1>1. /\ c \in Callers /\ c # "retry" /\ hCall[c] \in HostCalls /\ HostShapes
      /\ Carried(c, hCall[c])
  BY DEF HostRest, HostShapes, HostCarried, Callers, Operators
<1>2. CASE Drop(c)
  <2>1. hCall[c].conf.name \in HostNames BY <1>1, <1>2 DEF Drop, Carried
  <2>2. RegShapes' BY <1>1, <1>2, <2>1, DropsConnection DEF Drop
  <2> QED BY <1>1, <1>2, <2>2, NotRenaming, StepGoesOn
      DEF Drop, HostPoints, RetryPoints, SeenPoints, SavePoints
<1>3. CASE notifyDisconnected(c)
  <2>1. RegShapes' BY <1>1, <1>3 DEF notifyDisconnected, HostShapes, RegShapes
  <2>2. PICK at \in {"erase", "dial"} : Step(c, at) BY <1>3 DEF notifyDisconnected
  <2>3. at \in HostPoints \ (SavePoints \cup {"none", "sleep"}) /\ at \notin SeenPoints
    BY DEF HostPoints, RetryPoints, SeenPoints, SavePoints
  <2>4. hCall[c].at = "gone" /\ UNCHANGED <<hRow, hLink, hTries, hLostTrack>>
    BY <1>3 DEF notifyDisconnected
  <2> QED BY <1>1, <2>1, <2>2, <2>3, <2>4, NotRenaming, StepGoesOn
<1>4. CASE EditLoads(c)
  <2>1. RegShapes' BY <1>1, <1>4 DEF EditLoads, requestVars, HostShapes, RegShapes
  <2>2. Step(c, "move") \/ Done(c) BY <1>4 DEF EditLoads
  <2>3. hCall[c].at = "load" /\ UNCHANGED <<hRow, hLink, hTries, hLostTrack>>
    BY <1>4 DEF EditLoads, requestVars
  <2>4. CASE Step(c, "move")
    BY <1>1, <2>1, <2>3, <2>4, NotRenaming, StepGoesOn DEF HostPoints, SeenPoints, SavePoints
  <2>5. CASE Done(c) BY <1>1, <2>1, <2>3, <2>5, NotRenaming, DoneGoesOn
  <2> QED BY <2>2, <2>4, <2>5
<1>5. CASE EditDeletes(c)
  <2>1. RegShapes' BY <1>1, <1>5 DEF EditDeletes, HostShapes, RegShapes
  <2> QED BY <1>1, <1>5, <2>1, NotRenaming, StepGoesOn
      DEF EditDeletes, HostPoints, SeenPoints, SavePoints
<1>6. CASE EditStores(c)
  <2>1. RegShapes' BY <1>1, <1>6 DEF EditStores, Carried, HostShapes, RegShapes
  <2> QED BY <1>1, <1>6, <2>1, NotRenaming, StepGoesOn
      DEF EditStores, HostPoints, SeenPoints, SavePoints
<1>7. CASE EditReleases(c)
  <2>1. RegShapes' BY <1>1, <1>7 DEF EditReleases, HostShapes, RegShapes
  <2> QED BY <1>1, <1>7, <2>1, NotRenaming, StepGoesOn
      DEF EditReleases, HostPoints, RetryPoints, SeenPoints, SavePoints
<1> QED BY <1>2, <1>3, <1>4, <1>5, <1>6, <1>7

LEMMA DeleteRowStep ==
    ASSUME HostRest, NEW c \in Operators, DeleteRow(c)
    PROVE  HostRest'
<1> DEFINE r == hCall[c]
<1>1. /\ c \in Callers /\ r \in HostCalls /\ HostShapes /\ r.at = "erase" /\ Done(c)
      /\ ~IsRename(r)
      /\ UNCHANGED <<hLink, hReg, hTries, hLostTrack>>
  BY DEF DeleteRow, HostRest, HostShapes, Callers, IsRename
<1>2. RegShapes' BY <1>1 DEF HostShapes, RegShapes
<1>3. CASE UNCHANGED hRow BY <1>1, <1>2, <1>3, DoneGoesOn
<1>4. CASE hRow' = [hRow EXCEPT ![r.id] = NoHostRow]
  <2>1. NoHostRow \in HostConfs /\ NoHostRow.name = NoName BY DEF NoHostRow, HostConfs
  <2>2. /\ hRow' \in [HostIds -> HostConfs]
        /\ \A i \in HostIds : hRow'[i] = hRow[i] \/ hRow'[i].name = NoName
    BY <1>1, <1>4, <2>1 DEF HostShapes, RowShapes, HostCalls
  <2>3. /\ hCall' \in [Callers -> HostCalls] /\ hCall'[c] = NoHostCall
        /\ \A d \in Callers : d # c => hCall'[d] = hCall[d]
        /\ HostCarried' /\ HostRetries'
    BY <1>1, NoCallIs, CallIs DEF Done, HostRest
  <2>4. HostShapes' BY <1>1, <1>2, <2>2, <2>3 DEF HostShapes, RowShapes
  <2> HIDE DEF r
  <2>5. HostLinked'
    BY <1>1, <2>2, <2>3, NoCallIs, LinksStay
    DEF r, HostRest, HostLinked, RowsNamed, Alive, SavePoints
  <2> QED BY <2>3, <2>4, <2>5 DEF HostRest
<1> QED BY <1>3, <1>4 DEF DeleteRow

(* A request saves its copy of a row that it did not rename.               *)
LEMMA SavesSameName ==
    ASSUME HostRest, NEW c \in Callers, hCall[c].at \in SavePoints,
           hCall[c].conf.name = hCall[c].seen,
           hRow' = [hRow EXCEPT ![hCall[c].id] = hCall[c].conf],
           hLostTrack' = hLostTrack \cup RowMoved(hCall[c]), UNCHANGED <<hLink, hTries>>,
           RegShapes', NEW q \in HostCalls, Call(c, q), Carried(c, q), q.at # "sleep",
           ~IsRename(q), q.at \notin SavePoints
    PROVE  HostRest'
<1> DEFINE r == hCall[c]
<1>1. r \in HostCalls /\ HostShapes /\ ~IsRename(r) /\ hLink[r.id] # NoName /\ r.id \in HostIds
  BY DEF HostRest, HostShapes, HostLinked, RowsNamed, IsRename, HostCalls
<1>2. /\ hCall' \in [Callers -> HostCalls] /\ hCall'[c] = q
      /\ \A d \in Callers : d # c => hCall'[d] = hCall[d]
      /\ HostCarried' /\ HostRetries'
  BY CallIs DEF HostRest
<1>3. /\ hRow' \in [HostIds -> HostConfs] /\ hRow'[r.id] = r.conf
      /\ \A i \in HostIds : i # r.id => hRow'[i] = hRow[i]
  BY <1>1 DEF HostShapes, RowShapes, HostCalls
<1>4. HostShapes' BY <1>1, <1>2, <1>3 DEF HostShapes, RowShapes
<1>5. \A i \in HostIds : hRow'[i].name # NoName => hLink[i] # NoName
  BY <1>1, <1>3 DEF HostRest, HostLinked, RowsNamed, Alive
<1>6. \A i \in HostIds \ hLostTrack' : hRow'[i].name = hRow[i].name
  BY <1>1, <1>3 DEF RowMoved
<1>7. HostLinked' BY <1>1, <1>2, <1>5, <1>6, LinksStay DEF HostRest
<1> QED BY <1>2, <1>4, <1>7 DEF HostRest

LEMMA ToggleStep ==
    ASSUME HostRest, NEW c \in Operators, Toggle(c)
    PROVE  HostRest'
<1> DEFINE r == hCall[c]
<1>1. /\ c \in Callers /\ c # "retry" /\ r \in HostCalls /\ HostShapes /\ r.at = "toggle"
      /\ Carried(c, r) /\ ~IsRename(r)
      /\ UNCHANGED <<hLink, hReg, hTries>>
  BY DEF Toggle, HostRest, HostShapes, HostCarried, Callers, Operators, IsRename
<1>2. RegShapes' BY <1>1 DEF HostShapes, RegShapes
<1>3. CASE /\ hRow' = [hRow EXCEPT ![r.id] = r.conf]
           /\ hLostTrack' = hLostTrack \cup RowMoved(r)
           /\ Step(c, IF r.conf.on THEN "dial" ELSE "drop")
  <2>1. PICK at \in {"dial", "drop"} : Step(c, at) BY <1>3
  <2> DEFINE q == [r EXCEPT !.at = at]
  <2>2. at \in HostPoints BY DEF HostPoints, RetryPoints
  <2>3. q \in HostCalls /\ q.at = at /\ q.conf = r.conf /\ q.then = r.then
    BY <1>1, <2>2, StepIs
  <2>4. Call(c, q) BY <2>1 DEF Step
  <2> HIDE DEF q
  <2>5. Carried(c, q) /\ ~IsRename(q) /\ q.at \notin SavePoints /\ q.at # "sleep"
    BY <1>1, <2>3 DEF Carried, SeenPoints, SavePoints, IsRename
  <2>6. r.conf.name = r.seen /\ r.at \in SavePoints BY <1>1 DEF Carried, SavePoints
  <2> QED BY <1>1, <1>2, <1>3, <2>3, <2>4, <2>5, <2>6, SavesSameName
<1>4. CASE Done(c) /\ UNCHANGED <<hRow, hLostTrack>> BY <1>1, <1>2, <1>4, DoneGoesOn
<1> QED BY <1>3, <1>4 DEF Toggle

(* The rename first moves the links, and is the only one of its host, or   *)
(* the host is no longer followed.                                         *)
LEMMA EditRenamesStep ==
    ASSUME HostRest, NEW c \in Operators, EditRenames(c)
    PROVE  HostRest'
<1> DEFINE r == hCall[c]
<1>1. /\ c \in Callers /\ c # "retry" /\ r \in HostCalls /\ HostShapes /\ r.at = "edit"
      /\ Carried(c, r) /\ ~IsRename(r)
      /\ UNCHANGED <<hRow, hReg, hTries>>
  BY DEF EditRenames, HostRest, HostShapes, HostCarried, Callers, Operators, IsRename
<1>2. RegShapes' BY <1>1 DEF HostShapes, RegShapes
<1>3. CASE Done(c) /\ UNCHANGED <<hLink, hLostTrack>> BY <1>1, <1>2, <1>3, DoneGoesOn
<1>4. CASE /\ hLink' = renameHost(r.seen, r.conf.name)
           /\ hLostTrack' = hLostTrack \cup RowMoved(r) \cup LinksMoved(r) \cup SharedBy(r, r.seen)
           /\ Step(c, "save")
  <2> DEFINE q == [r EXCEPT !.at = "save"]
  <2>1. /\ q \in HostCalls /\ q.at = "save" /\ q.conf = r.conf /\ q.then = r.then
        /\ q.id = r.id /\ q.seen = r.seen
    BY <1>1, StepIs DEF HostPoints, SeenPoints
  <2>2. Call(c, q) BY <1>4 DEF Step
  <2> HIDE DEF q
  <2>3. /\ r.conf.name \in HostNames \ {NoName} /\ r.seen \in HostNames \ {NoName}
        /\ r.conf.name # r.seen /\ r.id \in HostIds
    BY <1>1 DEF Carried, SeenPoints, HostCalls
  <2>4. Carried(c, q) BY <1>1, <2>1, <2>3 DEF Carried, SeenPoints
  <2>5. /\ hCall' \in [Callers -> HostCalls] /\ hCall'[c] = q
        /\ \A d \in Callers : d # c => hCall'[d] = hCall[d]
        /\ HostCarried' /\ HostRetries'
    BY <1>1, <2>1, <2>2, <2>4, CallIs DEF HostRest
  <2>6. /\ hLink' \in [HostIds -> HostNames \cup {NoName}]
        /\ \A i \in HostIds : hLink'[i] = IF hLink[i] = r.seen THEN r.conf.name ELSE hLink[i]
    BY <1>1, <1>4, <2>3 DEF renameHost, HostShapes, RowShapes
  <2>7. HostShapes' BY <1>1, <1>2, <2>5, <2>6 DEF HostShapes, RowShapes
  <2>8. \A i \in HostIds \ hLostTrack' :
          /\ i \notin hLostTrack
          /\ i = r.id => hRow[i].name = r.seen /\ hLink[i] = r.seen
          /\ i # r.id => hLink[i] # r.seen
    BY <1>4 DEF RowMoved, LinksMoved, SharedBy
  <2> HIDE DEF r
  <2>9. RowsNamed /\ LinksTold BY DEF HostRest, HostLinked
  <2>10. \A i \in HostIds : hLink[i] # NoName => hLink'[i] # NoName BY <2>3, <2>6
  <2>11. RowsNamed'
    <3>1. \A i \in HostIds : Alive(i)' => hLink'[i] # NoName
      BY <1>1, <2>9, <2>10 DEF RowsNamed, Alive
    <3>2. ASSUME NEW d \in Callers, hCall'[d].at \in SavePoints PROVE hLink'[hCall'[d].id] # NoName
      <4>1. hCall[d].at \in SavePoints /\ hCall'[d].id = hCall[d].id
        BY <1>1, <2>1, <2>5, <3>2 DEF SavePoints, r
      <4>2. hCall[d].id \in HostIds /\ hLink[hCall[d].id] # NoName
        BY <1>1, <2>9, <4>1 DEF RowsNamed, HostShapes, HostCalls
      <4> QED BY <2>10, <4>1, <4>2
    <3> QED BY <3>1, <3>2 DEF RowsNamed
  <2>12. LinksTold'
    <3> SUFFICES ASSUME NEW i \in HostIds \ hLostTrack', hRow'[i].name # NoName
                 PROVE
          /\ \A b \in Callers : IsRename(hCall'[b]) /\ hCall'[b].id = i =>
               /\ hRow'[i].name = hCall'[b].seen /\ hLink'[i] = hCall'[b].conf.name
               /\ \A d \in Callers : IsRename(hCall'[d]) /\ hCall'[d].id = i => d = b
          /\ (\A b \in Callers : ~(IsRename(hCall'[b]) /\ hCall'[b].id = i))
               => hLink'[i] = hRow'[i].name
      BY DEF LinksTold, Alive, IsRename
    <3>1. i \in HostIds \ hLostTrack /\ Alive(i) /\ hRow'[i] = hRow[i]
      BY <1>1, <2>8 DEF Alive
    <3>2. IsRename(hCall'[c]) BY <2>1, <2>3, <2>5 DEF IsRename
    <3>3. CASE i = r.id
      <4>1. \A d \in Callers : ~(IsRename(hCall[d]) /\ hCall[d].id = i)
        BY <2>8, <2>9, <3>1, <3>3 DEF LinksTold, IsRename
      <4>2. \A d \in Callers : IsRename(hCall'[d]) /\ hCall'[d].id = i => d = c
        BY <2>5, <4>1
      <4>3. IsRename(hCall'[c]) /\ hCall'[c].id = i BY <2>1, <2>5, <3>2, <3>3
      <4>4. hRow'[i].name = hCall'[c].seen /\ hLink'[i] = hCall'[c].conf.name
        BY <2>1, <2>5, <2>6, <2>8, <3>1, <3>3
      <4> QED BY <1>1, <4>2, <4>3, <4>4
    <3>4. CASE i # r.id
      <4>1. hLink'[i] = hLink[i] BY <2>6, <2>8, <3>4
      <4>2. hCall'[c].id # i /\ hCall[c].id # i BY <2>1, <2>5, <3>4 DEF r
      <4> QED BY <2>5, <2>9, <3>1, <4>1, <4>2 DEF LinksTold
    <3> QED BY <3>3, <3>4
  <2> QED BY <2>5, <2>7, <2>11, <2>12 DEF HostRest, HostLinked
<1> QED BY <1>3, <1>4 DEF EditRenames

LEMMA EditSavesStep ==
    ASSUME HostRest, NEW c \in Operators, EditSaves(c)
    PROVE  HostRest'
<1> DEFINE r == hCall[c]
<1>1. /\ c \in Callers /\ c # "retry" /\ r \in HostCalls /\ HostShapes /\ r.at = "save"
      /\ r.id \in HostIds /\ Carried(c, r)
      /\ UNCHANGED <<hReg, hTries>>
  BY DEF EditSaves, HostRest, HostShapes, HostCarried, HostCalls, Callers, Operators
<1>2. RegShapes' BY <1>1 DEF HostShapes, RegShapes
<1>3. /\ r.conf.name \in HostNames \ {NoName} /\ r.seen \in HostNames \ {NoName}
      /\ r.conf \in HostConfs
  BY <1>1 DEF Carried, SeenPoints, HostCalls
<1>4. RowsNamed /\ LinksTold BY DEF HostRest, HostLinked
<1>5. CASE r.conf.name = r.seen
  <2>1. Done(c) /\ UNCHANGED hLink BY <1>5 DEF EditSaves
  <2>2. ~IsRename(r) BY <1>5 DEF IsRename
  <2>3. CASE hRow' = [hRow EXCEPT ![r.id] = r.conf] /\ hLostTrack' = hLostTrack \cup RowMoved(r)
    <3>1. r.at \in SavePoints /\ NoHostCall.at \notin SavePoints BY <1>1, NoCallIs DEF SavePoints
    <3> QED BY <1>1, <1>2, <1>5, <2>1, <2>3, <3>1, NoCallIs, SavesSameName DEF Done
  <2>4. CASE UNCHANGED <<hRow, hLostTrack>> BY <1>1, <1>2, <2>1, <2>2, <2>4, DoneGoesOn
  <2> QED BY <1>5, <2>3, <2>4 DEF EditSaves
<1>6. ASSUME r.conf.name # r.seen
      PROVE  HostRest'
  <2>1. PICK q \in HostCalls : /\ Call(c, q) /\ Carried(c, q) /\ ~IsRename(q)
                               /\ q.at \in {"load", "none"}
    <3> DEFINE q == [r EXCEPT !.at = "load"]
    <3>1. q \in HostCalls /\ q.at = "load" /\ q.conf = r.conf /\ q.then = r.then /\ q.seen = r.seen
      BY <1>1, StepIs DEF HostPoints, SeenPoints
    <3>2. Step(c, "load") => Call(c, q) BY DEF Step
    <3> HIDE DEF q
    <3>3. Carried(c, q) /\ ~IsRename(q) BY <1>1, <1>3, <3>1 DEF Carried, SeenPoints, IsRename
    <3>4. Step(c, "load") \/ Done(c) BY <1>6 DEF EditSaves
    <3>5. CASE Step(c, "load") BY <3>1, <3>2, <3>3, <3>5
    <3>6. CASE Done(c) BY <1>1, <3>6, NoCallIs DEF Done
    <3> QED BY <3>4, <3>5, <3>6
  <2>2. /\ hCall' \in [Callers -> HostCalls] /\ hCall'[c] = q
        /\ \A d \in Callers : d # c => hCall'[d] = hCall[d]
        /\ HostCarried' /\ HostRetries'
    BY <1>1, <2>1, CallIs DEF HostRest
  <2>3. IsRename(r) BY <1>1, <1>6 DEF IsRename
  <2>4. /\ hRow' \in [HostIds -> HostConfs] /\ hLink' \in [HostIds -> HostNames \cup {NoName}]
        /\ hLostTrack \subseteq hLostTrack'
        /\ \A i \in HostIds : hLink[i] # NoName => hLink'[i] # NoName
        /\ \A i \in HostIds : i # r.id => hRow'[i] = hRow[i]
        /\ hRow'[r.id].name # NoName => hRow'[r.id] = hRow[r.id] \/ r.at \in SavePoints
        /\ \A i \in HostIds \ hLostTrack' :
             /\ i # r.id => hLink'[i] = hLink[i]
             /\ i = r.id =>
                  \/ /\ hRow'[i].name = r.conf.name /\ hLink'[i] = hLink[i]
                     /\ hRow[i].name = r.seen
                  \/ /\ hRow'[i] = hRow[i]
                     /\ hLink'[i] = IF hLink[i] = r.conf.name THEN r.seen ELSE hLink[i]
    <3>1. CASE /\ hRow' = [hRow EXCEPT ![r.id] = r.conf]
               /\ hLostTrack' = hLostTrack \cup RowMoved(r)
               /\ UNCHANGED hLink
      BY <1>1, <1>3, <3>1 DEF HostShapes, RowShapes, RowMoved, SavePoints
    <3>2. CASE /\ hLink' = renameHost(r.conf.name, r.seen)
               /\ hLostTrack' = hLostTrack \cup SharedBy(r, r.conf.name)
               /\ UNCHANGED hRow
      BY <1>1, <1>3, <3>2 DEF HostShapes, RowShapes, SharedBy, renameHost
    <3>3. CASE hLostTrack' = hLostTrack \cup {r.id} /\ UNCHANGED <<hRow, hLink>>
      BY <1>1, <1>3, <3>3 DEF HostShapes, RowShapes
    <3> QED BY <1>6, <3>1, <3>2, <3>3 DEF EditSaves
  <2>5. HostShapes' BY <1>2, <2>2, <2>4 DEF HostShapes, RowShapes
  <2>6. q.at \notin SavePoints /\ ~IsRename(q) BY <2>1 DEF SavePoints
  <2>7. hLink[r.id] # NoName BY <1>1, <1>4 DEF RowsNamed, SavePoints
  <2> HIDE DEF r
  <2>8. RowsNamed'
    <3>1. \A i \in HostIds : Alive(i)' => hLink'[i] # NoName
      BY <1>1, <1>4, <2>4, <2>7 DEF RowsNamed, Alive
    <3>2. ASSUME NEW d \in Callers, hCall'[d].at \in SavePoints PROVE hLink'[hCall'[d].id] # NoName
      <4>1. hCall[d].at \in SavePoints /\ hCall'[d] = hCall[d] BY <2>2, <2>6, <3>2
      <4>2. hCall[d].id \in HostIds /\ hLink[hCall[d].id] # NoName
        BY <1>1, <1>4, <4>1 DEF RowsNamed, HostShapes, HostCalls
      <4> QED BY <2>4, <4>1, <4>2
    <3> QED BY <3>1, <3>2 DEF RowsNamed
  <2>9. LinksTold'
    <3> SUFFICES ASSUME NEW i \in HostIds \ hLostTrack', hRow'[i].name # NoName
                 PROVE
          /\ \A b \in Callers : IsRename(hCall'[b]) /\ hCall'[b].id = i =>
               /\ hRow'[i].name = hCall'[b].seen /\ hLink'[i] = hCall'[b].conf.name
               /\ \A d \in Callers : IsRename(hCall'[d]) /\ hCall'[d].id = i => d = b
          /\ (\A b \in Callers : ~(IsRename(hCall'[b]) /\ hCall'[b].id = i))
               => hLink'[i] = hRow'[i].name
      BY DEF LinksTold, Alive, IsRename
    <3>1. i \in HostIds \ hLostTrack BY <2>4
    <3>2. CASE i = r.id
      <4>1. Alive(i) BY <1>3, <2>4, <3>2 DEF Alive
      <4>2. /\ hRow[i].name = r.seen /\ hLink[i] = r.conf.name
            /\ \A d \in Callers : IsRename(hCall[d]) /\ hCall[d].id = i => d = c
        BY <1>1, <1>4, <2>3, <3>1, <3>2, <4>1 DEF LinksTold, r
      <4>3. \A d \in Callers : ~(IsRename(hCall'[d]) /\ hCall'[d].id = i)
        BY <2>2, <2>6, <4>2
      <4>4. hLink'[i] = hRow'[i].name BY <2>4, <3>2, <4>2
      <4> QED BY <4>3, <4>4
    <3>3. CASE i # r.id
      <4>1. hLink'[i] = hLink[i] /\ hRow'[i] = hRow[i] /\ Alive(i) BY <2>4, <3>3 DEF Alive
      <4>2. hCall[c].id # i BY <3>3 DEF r
      <4>3. \A d \in Callers : IsRename(hCall'[d]) => d # c /\ hCall'[d] = hCall[d]
        BY <2>2, <2>6
      <4> QED BY <1>4, <2>2, <3>1, <4>1, <4>2, <4>3 DEF LinksTold
    <3> QED BY <3>2, <3>3
  <2> QED BY <2>2, <2>5, <2>8, <2>9 DEF HostRest, HostLinked
<1> QED BY <1>5, <1>6

(* Every step watches a name, releases one, or leaves the watchers alone.  *)
LEMMA CallerWatchers ==
    ASSUME HostRest, WatchersAreTheirs, NEW c \in Callers,
           Add(c) \/ notifyConnected(c) \/ notifyDisconnected(c) \/ EditReleases(c)
    PROVE  WatchersAreTheirs'
<1>1. Carried(c, hCall[c]) BY DEF HostRest, HostCarried
<1>2. UNCHANGED watchVars => WatchersAreTheirs'
  BY DEF watchVars, WatchersAreTheirs, OneWatcher
<1>3. CASE Add(c)
  <2>1. hCall[c].conf.name \in HostNames BY <1>1, <1>3 DEF Add, Carried
  <2> QED BY <1>2, <1>3, <2>1, WatchersReleased DEF Add
<1>4. CASE notifyConnected(c)
  BY <1>1, <1>4, WatcherAdded DEF notifyConnected, Carried
<1>5. CASE notifyDisconnected(c)
  BY <1>1, <1>5, WatchersReleased DEF notifyDisconnected, Carried
<1>6. CASE EditReleases(c)
  BY <1>1, <1>6, WatchersReleased DEF EditReleases, Carried, SeenPoints
<1> QED BY <1>3, <1>4, <1>5, <1>6

LEMMA HostStep == HostInv /\ [HostNext]_hostVars => HostInv'
<1> SUFFICES ASSUME HostInv, [HostNext]_hostVars PROVE HostInv' OBVIOUS
<1>1. HostRest /\ WatchersAreTheirs BY DEF HostInv, HostRest
<1>2. UNCHANGED watchVars => WatchersAreTheirs'
  BY <1>1 DEF watchVars, WatchersAreTheirs, OneWatcher
<1>3. HostRest' /\ WatchersAreTheirs' => HostInv' BY DEF HostInv, HostRest
<1>4. ASSUME NEW c \in Callers,
             \/ loadHost(c) \/ Add(c) \/ AddFails(c) \/ AddTakes(c) \/ AddStores(c)
             \/ notifyConnected(c)
      PROVE  HostInv'
  <2>1. HostRest' BY <1>1, <1>4, LoadHostStep, AddStep, AddRegisters
  <2>2. WatchersAreTheirs'
    BY <1>1, <1>2, <1>4, CallerWatchers DEF loadHost, AddFails, AddTakes, AddStores
  <2> QED BY <1>3, <2>1, <2>2
<1>5. CASE retryLoad BY <1>1, <1>2, <1>3, <1>5, RetryStep DEF retryLoad
<1>6. ASSUME NEW c \in Operators,
             \/ Drop(c) \/ notifyDisconnected(c) \/ EditLoads(c)
             \/ EditDeletes(c) \/ EditStores(c) \/ EditReleases(c)
      PROVE  HostInv'
  <2>1. HostRest' BY <1>1, <1>6, RegistryStep
  <2>2. c \in Callers BY DEF Callers
  <2>3. WatchersAreTheirs'
    BY <1>1, <1>2, <1>6, <2>2, CallerWatchers
    DEF Drop, EditLoads, EditDeletes, EditStores, requestVars, watchVars
  <2> QED BY <1>3, <2>1, <2>3
<1>7. ASSUME NEW c \in Operators, Toggle(c) \/ DeleteRow(c) \/ EditRenames(c) \/ EditSaves(c)
      PROVE  HostInv'
  <2>1. HostRest' BY <1>1, <1>7, ToggleStep, DeleteRowStep, EditRenamesStep, EditSavesStep
  <2>2. WatchersAreTheirs' BY <1>2, <1>7 DEF Toggle, DeleteRow, EditRenames, EditSaves
  <2> QED BY <1>3, <2>1, <2>2
<1>8. ASSUME NEW c \in Operators,
             \/ \E id \in HostIds : ToggleReads(c, id) \/ DeleteHost(c, id)
             \/ \E n \in HostNames, on \in BOOLEAN :
                  CreateHost(c, n, on) \/ \E id \in HostIds : EditHost(c, id, n, on)
      PROVE  HostInv'
  <2>1. HostRest' BY <1>1, <1>8, HostRequested
  <2>2. UNCHANGED requestVars BY <1>8 DEF ToggleReads, DeleteHost, CreateHost, EditHost
  <2> QED BY <1>2, <1>3, <2>1, <2>2 DEF requestVars, watchVars
<1>9. CASE \E w \in hWatcher : WatcherStarts(w) \/ WatcherEnds(w)
  <2>1. WatchersAreTheirs' BY <1>1, <1>9, WatcherMoves DEF HostRest
  <2>2. UNCHANGED <<hRow, hLink, hReg, hCall, hTries, hLostTrack>>
    BY <1>9 DEF WatcherStarts, WatcherEnds
  <2>3. HostShapes' /\ HostCarried' /\ HostRetries'
    BY <1>1, <2>2
    DEF HostRest, HostShapes, RowShapes, RegShapes, HostCarried, Carried, HostRetries
  <2>4. HostLinked' BY <1>1, <2>2, LinksStayIfSame DEF HostRest
  <2> QED BY <1>3, <2>1, <2>3, <2>4 DEF HostRest
<1>10. CASE UNCHANGED hostVars
  <2>1. HostShapes' /\ HostCarried' /\ HostRetries'
    BY <1>1, <1>10
    DEF hostVars, HostRest, HostShapes, RowShapes, RegShapes, HostCarried, Carried, HostRetries
  <2>2. HostLinked' BY <1>1, <1>10, LinksStayIfSame DEF hostVars, HostRest
  <2> QED BY <1>2, <1>3, <1>10, <2>1, <2>2 DEF hostVars, watchVars, HostRest
<1> QED BY <1>4, <1>5, <1>6, <1>7, <1>8, <1>9, <1>10 DEF HostNext

(* However connects, disconnects, renames and retries interleave, a host   *)
(* has at most one watcher that was not cancelled, which is the registered *)
(* one; and folder links name their host as its row does, unless a request *)
(* had read the row under another name, names were shared or the links     *)
(* could not be put back (app/host_watch.go, watch and release;            *)
(* host/service.go, Edit and Toggle).                                      *)
THEOREM HostsAreCoherent == HostSpec => []HostsCoherent
<1>1. HostInv => HostsCoherent
  <2> SUFFICES ASSUME HostInv PROVE LinksFollowRename
    BY DEF HostInv, WatchersAreTheirs, HostsCoherent
  <2>1. \A c \in Callers : hCall[c].at = "save" => c \in Operators
    BY DEF HostInv, HostCarried, Carried, Callers, RetryPoints
  <2> QED BY <2>1 DEF HostInv, HostLinked, LinksTold, LinksFollowRename, IsRename
<1> QED BY HostStarts, HostStep, <1>1, PTL DEF HostSpec

(* The rows, links, connections and watchers of hosts keep their types,    *)
(* and a host that cannot be reached is tried a bounded number of times    *)
(* (host/service.go, retryLoad).                                           *)
THEOREM HostsTyped == HostSpec => []HostTypeOK
<1>1. HostInv => HostTypeOK
  BY DEF HostInv, HostShapes, RowShapes, RegShapes, HostRetries, WatchersAreTheirs, HostConfs,
         HostWatchers, HostTypeOK
<1> QED BY HostStarts, HostStep, <1>1, PTL DEF HostSpec

-----------------------------------------------------------------------------
(***************************************************************************)
(* Events of a host.  What the watcher still has to hear, what the timer   *)
(* still has to trigger, what a refresh still has to read and a refresh    *)
(* that read the present labels are the four ways in which jobs that are   *)
(* out of date will be made anew.  The tracker forgets only what has not   *)
(* been seen for longer than the quiet period, unless it is over its cap.  *)
(***************************************************************************)
Happenings == [what : {"policy", "destroy", "die", "start", "restart"}, box : Boxes]
Tracks == [known : BOOLEAN, count : Nat, notified : Nat, seen : Nat]

LabelShapes ==
    /\ eVer \in Nat /\ eKnown \in 0..eVer
    /\ eventSteps \in 0..MaxEventSteps /\ eVer <= eventSteps
    /\ eRefresh \in [at : {"idle", "reading", "read"}, ver : Nat] /\ eRefresh.ver <= eVer
    /\ eList \in [at : {"idle", "read"}, ver : Nat] /\ eList.ver <= eVer
    /\ eTimer \in BOOLEAN /\ ePending \in BOOLEAN /\ eExcused \in BOOLEAN

QueueShapes ==
    /\ eStream \in {"up", "down", "off", "returning"}
    /\ eQueue \in Seq(Happenings) /\ Len(eQueue) <= EventQueue

TrackShapes ==
    /\ eCount \in [Boxes -> Nat] /\ eTrack \in [Boxes -> Tracks] /\ eLast \in [Boxes -> Nat]
    /\ eTime \in 1..MaxEventTime
    /\ Cardinality({b \in Boxes : eTrack[b].known}) <= RestartCap

Foretold == \E i \in 1..Len(eQueue) : eQueue[i].what \in {"policy", "destroy"}

LabelsFollow ==
    /\ eRefresh.at = "idle" => ~ePending
    /\ ~eExcused /\ eStream # "off" =>
         \/ Foretold \/ eTimer \/ ePending \/ eRefresh.at = "reading"
         \/ eRefresh.at = "read" /\ eRefresh.ver = eVer
         \/ eRefresh.at = "idle" /\ eKnown = eVer

FewBoxes == Cardinality(Boxes) <= RestartCap

LoopsQuiet ==
    /\ \A b \in Boxes : /\ eTrack[b].notified <= eTrack[b].seen /\ eTrack[b].seen <= eTime
                         /\ eLast[b] <= eTime
    /\ FewBoxes =>
         /\ ~eNotice.early
         /\ \A b \in Boxes : eLast[b] # Never /\ eTime - eLast[b] <= RestartGap =>
                              eTrack[b].notified = eLast[b]

EventInv == LabelShapes /\ QueueShapes /\ TrackShapes /\ LabelsFollow /\ LoopsQuiet

LEMMA EventStarts == EventInit => EventInv
<1> SUFFICES ASSUME EventInit PROVE EventInv OBVIOUS
<1>1. LabelShapes /\ LabelsFollow
  <2>1. /\ eVer = 0 /\ eKnown = 0 /\ eventSteps = 0 /\ eRefresh = Idle0 /\ eList = Idle0
        /\ eTimer = FALSE /\ ePending = FALSE /\ eExcused = FALSE
    BY DEF EventInit
  <2>2. /\ Idle0 \in [at : {"idle", "reading", "read"}, ver : Nat]
        /\ Idle0 \in [at : {"idle", "read"}, ver : Nat] /\ Idle0.at = "idle" /\ Idle0.ver = 0
    BY DEF Idle0
  <2>3. MaxEventSteps \in Nat BY HostEventsAssumption
  <2>4. eVer \in Nat /\ eKnown \in 0..eVer /\ eventSteps \in 0..MaxEventSteps /\ eVer <= eventSteps
    BY <2>1, <2>3
  <2>5. eRefresh \in [at : {"idle", "reading", "read"}, ver : Nat] /\ eRefresh.ver <= eVer
    BY <2>1, <2>2
  <2>6. eList \in [at : {"idle", "read"}, ver : Nat] /\ eList.ver <= eVer
    BY <2>1, <2>2
  <2>7. LabelShapes BY <2>1, <2>4, <2>5, <2>6 DEF LabelShapes
  <2> QED BY <2>1, <2>2, <2>7 DEF LabelsFollow
<1>2. eQueue = <<>> /\ eStream = "up" BY DEF EventInit
<1>3. QueueShapes BY <1>2, HostEventsAssumption DEF QueueShapes
<1>4. NoTrack \in Tracks /\ NoTrack.known = FALSE /\ NoTrack.notified = 0 /\ NoTrack.seen = 0
  BY DEF NoTrack, Tracks, Never
<1>5. \A b \in Boxes : eTrack[b] = NoTrack /\ eLast[b] = 0
  BY DEF EventInit, EventForgotten, Never
<1>6. {b \in Boxes : eTrack[b].known} = {} BY <1>4, <1>5
<1>7. Cardinality({b \in Boxes : eTrack[b].known}) = 0 BY <1>6, FS_EmptySet
<1>8. /\ eCount \in [Boxes -> Nat] /\ eTrack \in [Boxes -> Tracks] /\ eLast \in [Boxes -> Nat]
      /\ eTime = 1
  BY <1>4 DEF EventInit, EventForgotten, Never
<1>9. TrackShapes BY <1>7, <1>8, HostEventsAssumption DEF TrackShapes
<1>10. ~eNotice.early BY DEF EventInit, NoNotice
<1>11. LoopsQuiet BY <1>4, <1>5, <1>8, <1>10 DEF LoopsQuiet, Never
<1> QED BY <1>1, <1>3, <1>9, <1>11 DEF EventInv
-----------------------------------------------------------------------------
(* The tracker.                                                            *)
LEMMA KnownAreFinite ==
    ASSUME NEW track
    PROVE  /\ IsFiniteSet({b \in Boxes : track[b].known})
           /\ Cardinality({b \in Boxes : track[b].known}) \in Nat
           /\ Cardinality({b \in Boxes : track[b].known}) <= Cardinality(Boxes)
<1>1. {b \in Boxes : track[b].known} \subseteq Boxes OBVIOUS
<1> QED BY <1>1, FS_Subset, FS_CardinalityType, HostEventsAssumption

(* What pruneLocked leaves of a tracker.                                   *)
PrunedWell(track, kept) ==
    /\ kept \in [Boxes -> Tracks]
    /\ Cardinality({b \in Boxes : kept[b].known}) <= RestartCap
    /\ \A b \in Boxes : kept[b] = track[b] \/ kept[b] = NoTrack
    /\ FewBoxes => \A b \in Boxes : kept[b] = track[b] \/ eTime - track[b].seen >= RestartMemory

LEMMA PruneIs ==
    ASSUME NEW track \in [Boxes -> Tracks], NEW kept \in pruneLocked(track)
    PROVE  PrunedWell(track, kept)
<1> DEFINE young == [b \in Boxes |-> IF eTime - track[b].seen >= RestartMemory THEN NoTrack
                                     ELSE track[b]]
           known == {b \in Boxes : young[b].known}
           all == {b \in Boxes : track[b].known}
<1>1. NoTrack \in Tracks /\ NoTrack.known = FALSE BY DEF NoTrack, Tracks, Never
<1>2. young \in [Boxes -> Tracks] /\ known \subseteq all BY <1>1
<1>3. IsFiniteSet(all) /\ Cardinality(all) \in Nat /\ Cardinality(all) <= Cardinality(Boxes)
  BY KnownAreFinite
<1>4. IsFiniteSet(known) /\ Cardinality(known) \in Nat /\ Cardinality(known) <= Cardinality(all)
  <2> HIDE DEF known, all
  <2> QED BY <1>2, <1>3, FS_Subset, FS_CardinalityType
<1>5. Cardinality(Boxes) \in Nat /\ RestartCap \in Nat
  BY FS_CardinalityType, HostEventsAssumption
<1>6. CASE kept = young /\ Cardinality(known) <= RestartCap
  BY <1>2, <1>6 DEF PrunedWell
<1>7. CASE kept = track /\ ~(Cardinality(all) > RestartCap)
  BY <1>3, <1>5, <1>7 DEF PrunedWell
<1>8. CASE /\ Cardinality(all) > RestartCap
           /\ \E k \in SUBSET known : Cardinality(k) = RestartCap /\
                 kept = [b \in Boxes |-> IF b \in k THEN young[b] ELSE NoTrack]
  <2>1. PICK k \in SUBSET known : Cardinality(k) = RestartCap /\
          kept = [b \in Boxes |-> IF b \in k THEN young[b] ELSE NoTrack]
    BY <1>8
  <2>2. \A b \in Boxes : kept[b] = track[b] \/ kept[b] = NoTrack BY <2>1
  <2>3. {b \in Boxes : kept[b].known} = k BY <1>1, <2>1
  <2>4. kept \in [Boxes -> Tracks] BY <1>1, <1>2, <2>1
  <2>5. ~FewBoxes BY <1>3, <1>5, <1>8 DEF FewBoxes
  <2>6. Cardinality({b \in Boxes : kept[b].known}) <= RestartCap
    <3> DEFINE now == {b \in Boxes : kept[b].known}
    <3>1. now = k BY <2>3
    <3> HIDE DEF now
    <3>2. Cardinality(now) <= RestartCap BY <1>5, <2>1, <3>1
    <3> QED BY <3>2 DEF now
  <2> HIDE DEF young, known, all
  <2> QED BY <2>2, <2>4, <2>5, <2>6 DEF PrunedWell
<1>9. \/ /\ ~(Cardinality(all) > RestartCap) /\ kept \in {track, young}
      \/ /\ Cardinality(all) > RestartCap /\ Cardinality(known) <= RestartCap /\ kept = young
      \/ /\ Cardinality(all) > RestartCap
         /\ \E k \in SUBSET known : Cardinality(k) = RestartCap /\
               kept = [b \in Boxes |-> IF b \in k THEN young[b] ELSE NoTrack]
  BY DEF pruneLocked
<1> HIDE DEF young, known, all
<1> QED BY <1>3, <1>4, <1>5, <1>6, <1>7, <1>8, <1>9

(* Remember: the tracker with one state of one container in it.            *)
LEMMA RememberIs ==
    ASSUME TrackShapes, LoopsQuiet, NEW b \in Boxes, NEW state \in Tracks, Remember(b, state)
    PROVE  PrunedWell([eTrack EXCEPT ![b] = state], eTrack')
<1>1. [eTrack EXCEPT ![b] = state] \in [Boxes -> Tracks] BY DEF TrackShapes
<1> QED BY <1>1, PruneIs DEF Remember

-----------------------------------------------------------------------------
(* The queue of the watcher.                                               *)
LEMMA BroadcastIs ==
    ASSUME QueueShapes, NEW e \in Happenings, broadcast(<<e>>), UNCHANGED eStream
    PROVE  /\ QueueShapes' /\ (Foretold => Foretold')
           /\ e.what \in {"policy", "destroy"} /\ ~Dropped => Foretold'
<1>1. EventQueue \in Nat /\ Len(eQueue) \in Nat /\ Len(<<e>>) = 1
  BY HostEventsAssumption DEF QueueShapes
<1>2. CASE eStream = "up" /\ Len(eQueue) + 1 <= EventQueue
  <2>1. eQueue' = Append(eQueue, e) BY <1>1, <1>2 DEF broadcast, QueueShapes
  <2>2. /\ eQueue' \in Seq(Happenings) /\ Len(eQueue') = Len(eQueue) + 1
        /\ \A i \in 1..Len(eQueue) : eQueue'[i] = eQueue[i]
        /\ eQueue'[Len(eQueue) + 1] = e
    BY <2>1 DEF QueueShapes
  <2>3. QueueShapes' BY <1>1, <1>2, <2>2 DEF QueueShapes
  <2>4. \A i \in 1..Len(eQueue) : i \in 1..Len(eQueue') BY <1>1, <2>2
  <2>5. Len(eQueue) + 1 \in 1..Len(eQueue') BY <1>1, <2>2
  <2> QED BY <2>2, <2>3, <2>4, <2>5 DEF Foretold
<1>3. CASE ~(eStream = "up" /\ Len(eQueue) + 1 <= EventQueue)
  <2>1. eQueue' = eQueue BY <1>1, <1>3 DEF broadcast
  <2>2. Dropped BY <1>1, <1>3 DEF Dropped
  <2> QED BY <2>1, <2>2 DEF QueueShapes, Foretold
<1> QED BY <1>2, <1>3

LEMMA TailIs ==
    ASSUME QueueShapes, eQueue # <<>>, eQueue' = Tail(eQueue), UNCHANGED eStream
    PROVE  /\ Head(eQueue) \in Happenings /\ QueueShapes'
           /\ Foretold => Foretold' \/ Head(eQueue).what \in {"policy", "destroy"}
<1>1. /\ Len(eQueue) \in Nat \ {0} /\ Head(eQueue) = eQueue[1]
      /\ \A i \in 1..Len(eQueue) : eQueue[i] \in Happenings
  BY DEF QueueShapes
<1>2. /\ eQueue' \in Seq(Happenings) /\ Len(eQueue') = Len(eQueue) - 1
      /\ \A i \in 1..Len(eQueue) - 1 : eQueue'[i] = eQueue[i + 1]
  BY HeadTailProperties DEF QueueShapes
<1>3. 1 \in 1..Len(eQueue) BY <1>1
<1>4. Head(eQueue) \in Happenings BY <1>1, <1>3
<1>5. QueueShapes' BY <1>1, <1>2, HostEventsAssumption DEF QueueShapes
<1>6. ASSUME Foretold, ~(Head(eQueue).what \in {"policy", "destroy"}) PROVE Foretold'
  <2>1. PICK i \in 1..Len(eQueue) : eQueue[i].what \in {"policy", "destroy"} BY <1>6 DEF Foretold
  <2>2. i # 1 BY <1>1, <1>6, <2>1
  <2>3. i - 1 \in 1..Len(eQueue') /\ eQueue'[i - 1] = eQueue[(i - 1) + 1] /\ (i - 1) + 1 = i
    BY <1>1, <1>2, <2>1, <2>2
  <2> QED BY <2>1, <2>3 DEF Foretold
<1> QED BY <1>4, <1>5, <1>6

(* Steps of the host and the clock.                                        *)
LEMMA SameTracks ==
    ASSUME TrackShapes, LoopsQuiet, UNCHANGED restartVars, eCount' \in [Boxes -> Nat],
           UNCHANGED eTime
    PROVE  TrackShapes' /\ LoopsQuiet'
BY DEF TrackShapes, LoopsQuiet, FewBoxes, restartVars

LEMMA SameLabels ==
    ASSUME LabelShapes, LabelsFollow, UNCHANGED labelVars,
           eventSteps' \in 0..MaxEventSteps, eventSteps' >= eventSteps,
           eTimer' \in BOOLEAN,
           eStream' # "off" => eStream # "off",
           eStream' # "off" => (Foretold \/ eTimer => Foretold' \/ eTimer')
    PROVE  LabelShapes' /\ LabelsFollow'
<1>1. LabelShapes' BY DEF LabelShapes, labelVars
<1>2. LabelsFollow' BY DEF LabelsFollow, labelVars
<1> QED BY <1>1, <1>2

LEMMA HostEventSteps ==
    ASSUME LabelShapes, HostEvent
    PROVE  /\ eventSteps' \in 0..MaxEventSteps /\ eventSteps' >= eventSteps
           /\ eVer + 1 <= eventSteps'
BY HostEventsAssumption DEF HostEvent, LabelShapes

LEMMA LabelStep ==
    ASSUME EventInv, NEW b \in Boxes, Dies(b) \/ ComesBack(b) \/ Restarted(b)
    PROVE  EventInv'
<1>1. LabelShapes /\ QueueShapes /\ TrackShapes /\ LabelsFollow /\ LoopsQuiet BY DEF EventInv
<1>2. HostEvent /\ UNCHANGED <<labelVars, eStream, eTimer, restartVars, eTime>>
  BY DEF Dies, ComesBack, Restarted
<1>3. QueueShapes' /\ (Foretold => Foretold')
  <2>1. PICK what \in {"die", "start", "restart"} : broadcast(<<[what |-> what, box |-> b]>>)
    BY DEF Dies, ComesBack, Restarted
  <2>2. [what |-> what, box |-> b] \in Happenings BY <2>1 DEF Happenings
  <2> QED BY <1>1, <1>2, <2>1, <2>2, BroadcastIs
<1>4. eCount' \in [Boxes -> Nat]
  BY <1>1 DEF Dies, ComesBack, Restarted, TrackShapes
<1>5. eTimer' \in BOOLEAN /\ eTimer' = eTimer BY <1>1, <1>2 DEF LabelShapes
<1>6. LabelShapes' /\ LabelsFollow'
  BY <1>1, <1>2, <1>3, <1>5, SameLabels, HostEventSteps
<1>7. TrackShapes' /\ LoopsQuiet' BY <1>1, <1>2, <1>4, SameTracks
<1> QED BY <1>3, <1>6, <1>7 DEF EventInv

LEMMA LabelsChangeStep ==
    ASSUME EventInv, NEW b \in Boxes, NEW destroyed \in BOOLEAN, LabelsChange(b, destroyed)
    PROVE  EventInv'
<1>1. LabelShapes /\ QueueShapes /\ TrackShapes /\ LabelsFollow /\ LoopsQuiet BY DEF EventInv
<1> DEFINE e == [what |-> IF destroyed THEN "destroy" ELSE "policy", box |-> b]
<1>2. e \in Happenings /\ e.what \in {"policy", "destroy"} /\ broadcast(<<e>>)
  BY DEF LabelsChange, Happenings
<1> HIDE DEF e
<1>3. QueueShapes' /\ (~Dropped => Foretold')
  BY <1>1, <1>2, BroadcastIs DEF LabelsChange
<1>4. /\ HostEvent /\ eVer' = eVer + 1 /\ eExcused' = (eExcused \/ Dropped)
      /\ UNCHANGED <<eKnown, eStream, eTimer, eRefresh, ePending, eList, restartVars, eTime>>
  BY DEF LabelsChange
<1>5. LabelShapes'
  <2>1. eventSteps' \in 0..MaxEventSteps /\ eVer' <= eventSteps'
    BY <1>1, <1>4, HostEventSteps
  <2>2. eExcused' \in BOOLEAN BY <1>1, <1>4 DEF LabelShapes, Dropped, QueueShapes
  <2>3. eVer' \in Nat /\ eKnown' \in 0..eVer' /\ eRefresh.ver <= eVer' /\ eList.ver <= eVer'
    BY <1>1, <1>4 DEF LabelShapes
  <2> QED BY <1>1, <1>4, <2>1, <2>2, <2>3 DEF LabelShapes
<1>6. LabelsFollow' BY <1>1, <1>3, <1>4 DEF LabelsFollow
<1>7. eCount' \in [Boxes -> Nat] BY <1>1 DEF LabelsChange, TrackShapes
<1>8. TrackShapes' /\ LoopsQuiet' BY <1>1, <1>4, <1>7, SameTracks
<1> QED BY <1>3, <1>5, <1>6, <1>8 DEF EventInv

LEMMA StreamStep ==
    ASSUME EventInv, StreamTurns
    PROVE  EventInv'
<1>1. LabelShapes /\ QueueShapes /\ TrackShapes /\ LabelsFollow /\ LoopsQuiet BY DEF EventInv
<1>2. UNCHANGED <<labelVars, eQueue, eTimer, eCount, restartVars, eTime>>
      /\ eStream \in {"up", "down"} /\ eStream' \in {"up", "down"}
  BY DEF StreamTurns
<1>3. QueueShapes' /\ (Foretold => Foretold') BY <1>1, <1>2 DEF QueueShapes, Foretold
<1>4. eventSteps' \in 0..MaxEventSteps /\ eventSteps' >= eventSteps
  <2>1. CASE eStream = "up" BY <1>1, <2>1, HostEventSteps DEF StreamTurns
  <2>2. CASE eStream # "up"
    <3>1. eventSteps' = eventSteps BY <2>2 DEF StreamTurns
    <3> QED BY <1>1, <3>1, HostEventsAssumption DEF LabelShapes
  <2> QED BY <2>1, <2>2
<1>5. eTimer' \in BOOLEAN /\ eCount' \in [Boxes -> Nat]
  BY <1>1, <1>2 DEF LabelShapes, TrackShapes
<1>6. LabelShapes' /\ LabelsFollow' BY <1>1, <1>2, <1>3, <1>4, <1>5, SameLabels
<1>7. TrackShapes' /\ LoopsQuiet' BY <1>1, <1>2, <1>5, SameTracks
<1> QED BY <1>3, <1>6, <1>7 DEF EventInv

LEMMA TickStep ==
    ASSUME EventInv, Tick
    PROVE  EventInv'
<1>1. LabelShapes /\ QueueShapes /\ TrackShapes /\ LabelsFollow /\ LoopsQuiet BY DEF EventInv
<1>2. /\ UNCHANGED <<labelVars, eStream, eQueue, eTimer, eCount, restartVars, eventSteps>>
      /\ eTime < MaxEventTime /\ eTime' = eTime + 1
  BY DEF Tick
<1>3. LabelShapes' /\ LabelsFollow' /\ QueueShapes'
  BY <1>1, <1>2 DEF LabelShapes, LabelsFollow, QueueShapes, Foretold, labelVars
<1>4. TrackShapes' BY <1>1, <1>2, HostEventsAssumption DEF TrackShapes, restartVars
<1>5. LoopsQuiet'
  <2>1. \A b \in Boxes : /\ eTrack[b].notified \in Nat /\ eTrack[b].seen \in Nat /\ eLast[b] \in Nat
    BY <1>1 DEF TrackShapes, Tracks
  <2>2. eTime \in Nat /\ RestartGap \in Nat BY <1>1, HostEventsAssumption DEF TrackShapes
  <2> QED BY <1>1, <1>2, <2>1, <2>2 DEF LoopsQuiet, FewBoxes, restartVars
<1> QED BY <1>3, <1>4, <1>5 DEF EventInv

-----------------------------------------------------------------------------
(* The host goes and comes back.                                           *)
LEMMA ReleaseStep ==
    ASSUME EventInv, HostReleased
    PROVE  EventInv'
<1>1. LabelShapes /\ QueueShapes /\ TrackShapes /\ LabelsFollow /\ LoopsQuiet BY DEF EventInv
<1>2. /\ eStream' = "off" /\ HostEvent /\ eQueue' = <<>> /\ eTimer' = FALSE
      /\ eTrack' = EventForgotten /\ eNotice' = NoNotice /\ eLast' = [b \in Boxes |-> 0]
      /\ UNCHANGED <<labelVars, eCount, eTime>>
  BY DEF HostReleased, Never
<1>3. QueueShapes' BY <1>2, HostEventsAssumption DEF QueueShapes
<1>4. eventSteps' \in 0..MaxEventSteps /\ eventSteps' >= eventSteps
  BY <1>1, <1>2, HostEventSteps
<1>5. LabelShapes' /\ LabelsFollow' BY <1>1, <1>2, <1>4, SameLabels
<1>6. /\ NoTrack \in Tracks /\ NoTrack.known = FALSE /\ NoTrack.notified = 0
      /\ NoTrack.seen = 0
  BY DEF NoTrack, Tracks, Never
<1>7. /\ eTrack' \in [Boxes -> Tracks] /\ eLast' \in [Boxes -> Nat]
      /\ \A b \in Boxes : eTrack'[b] = NoTrack /\ eLast'[b] = 0
  BY <1>2, <1>6 DEF EventForgotten
<1>8. {b \in Boxes : eTrack'[b].known} = {} BY <1>6, <1>7
<1>9. Cardinality({b \in Boxes : eTrack'[b].known}) = 0 BY <1>8, FS_EmptySet
<1>10. TrackShapes' BY <1>1, <1>2, <1>7, <1>9, HostEventsAssumption DEF TrackShapes
<1>11. ~eNotice'.early BY <1>2 DEF NoNotice
<1>12. 0 <= eTime' BY <1>1, <1>2 DEF TrackShapes
<1>13. LoopsQuiet' BY <1>6, <1>7, <1>11, <1>12 DEF LoopsQuiet, Never
<1> QED BY <1>3, <1>5, <1>10, <1>13 DEF EventInv

LEMMA ReturnStep ==
    ASSUME EventInv, HostReturns \/ WatchAgain
    PROVE  EventInv'
<1>1. LabelShapes /\ QueueShapes /\ TrackShapes /\ LabelsFollow /\ LoopsQuiet BY DEF EventInv
<1>2. UNCHANGED <<eVer, eKnown, eList, eQueue, eTimer, eCount, restartVars, eTime, eventSteps>>
      /\ eStream' \in {"down", "returning"}
  BY DEF HostReturns, WatchAgain, labelVars
<1>3. QueueShapes' BY <1>1, <1>2 DEF QueueShapes
<1>4. TrackShapes' /\ LoopsQuiet' BY <1>1, <1>2, SameTracks DEF TrackShapes
<1>5. CASE WatchAgain
  <2>1. UNCHANGED labelVars /\ eStream # "off" BY <1>5 DEF WatchAgain
  <2>2. Foretold => Foretold' BY <1>2 DEF Foretold
  <2>3. LabelShapes' BY <1>1, <1>2, <2>1 DEF LabelShapes, labelVars
  <2>4. LabelsFollow' BY <1>1, <1>2, <2>1, <2>2 DEF LabelsFollow, labelVars
  <2> QED BY <1>3, <1>4, <2>3, <2>4 DEF EventInv
<1>6. CASE HostReturns
  <2>1. RequestRefresh /\ eExcused' = FALSE BY <1>6 DEF HostReturns
  <2>2. CASE eRefresh.at # "idle"
    <3>1. ePending' = TRUE /\ UNCHANGED eRefresh BY <2>1, <2>2 DEF RequestRefresh
    <3>2. LabelShapes' BY <1>1, <1>2, <2>1, <3>1 DEF LabelShapes
    <3>3. LabelsFollow' BY <2>2, <3>1 DEF LabelsFollow
    <3> QED BY <1>3, <1>4, <3>2, <3>3 DEF EventInv
  <2>3. CASE eRefresh.at = "idle"
    <3>1. eRefresh' = [at |-> "reading", ver |-> 0] /\ UNCHANGED ePending
      BY <2>1, <2>3 DEF RequestRefresh
    <3>2. /\ eRefresh' \in [at : {"idle", "reading", "read"}, ver : Nat]
          /\ eRefresh'.at = "reading" /\ eRefresh'.ver = 0
      BY <3>1
    <3>3. eRefresh'.ver <= eVer' BY <1>1, <1>2, <3>2 DEF LabelShapes
    <3>4. LabelShapes' BY <1>1, <1>2, <2>1, <3>1, <3>2, <3>3 DEF LabelShapes
    <3>5. LabelsFollow' BY <3>2 DEF LabelsFollow
    <3> QED BY <1>3, <1>4, <3>4, <3>5 DEF EventInv
  <2> QED BY <2>2, <2>3
<1> QED BY <1>5, <1>6

-----------------------------------------------------------------------------
(* The refresh of the jobs.                                                *)
LEMMA RefreshStep ==
    ASSUME EventInv,
           \/ RefreshHost \/ ReadInventory \/ ReconcileInventory \/ RefreshFails
           \/ ListInventory \/ ListReconciles
    PROVE  EventInv'
<1>1. LabelShapes /\ QueueShapes /\ TrackShapes /\ LabelsFollow /\ LoopsQuiet BY DEF EventInv
<1>2. UNCHANGED <<eStream, eQueue, eCount, restartVars, eTime>>
  BY DEF RefreshHost, ReadInventory, ReconcileInventory, RefreshFails, ListInventory,
         ListReconciles, restartVars
<1>3. QueueShapes' /\ (Foretold <=> Foretold') BY <1>1, <1>2 DEF QueueShapes, Foretold
<1>4. TrackShapes' /\ LoopsQuiet' BY <1>1, <1>2, SameTracks DEF TrackShapes
<1> DEFINE refreshes == [at : {"idle", "reading", "read"}, ver : Nat]
<1>5. \A at \in {"idle", "reading", "read"}, v \in Nat :
        [at |-> at, ver |-> v] \in refreshes /\ [at |-> at, ver |-> v].at = at
        /\ [at |-> at, ver |-> v].ver = v
  OBVIOUS
<1>6. Idle0 = [at |-> "idle", ver |-> 0] BY DEF Idle0
<1>7. eVer \in Nat BY <1>1 DEF LabelShapes
<1>8. CASE RefreshHost
  <2>1. /\ eTimer' = FALSE /\ RequestRefresh
        /\ UNCHANGED <<eVer, eKnown, eList, eExcused, eventSteps>>
    BY <1>8 DEF RefreshHost
  <2>2. CASE eRefresh.at # "idle"
    <3>1. ePending' = TRUE /\ UNCHANGED eRefresh BY <2>1, <2>2 DEF RequestRefresh
    <3>2. LabelShapes' BY <1>1, <2>1, <3>1 DEF LabelShapes
    <3>3. LabelsFollow' BY <1>2, <2>2, <3>1 DEF LabelsFollow
    <3> QED BY <1>3, <1>4, <3>2, <3>3 DEF EventInv
  <2>3. CASE eRefresh.at = "idle"
    <3>1. eRefresh' = [at |-> "reading", ver |-> 0] /\ UNCHANGED ePending
      BY <2>1, <2>3 DEF RequestRefresh
    <3>2. eRefresh' \in refreshes /\ eRefresh'.at = "reading" /\ eRefresh'.ver = 0
      BY <1>5, <3>1
    <3> HIDE DEF refreshes
    <3>3. LabelShapes'
      <4>1. UNCHANGED <<eVer, eKnown, ePending, eList, eExcused, eventSteps>> /\ eTimer' \in BOOLEAN
        BY <2>1, <3>1
      <4>2. eRefresh'.ver <= eVer' BY <1>7, <3>2, <4>1
      <4> QED BY <1>1, <3>2, <4>1, <4>2 DEF LabelShapes, refreshes
    <3>4. LabelsFollow' BY <1>2, <3>2 DEF LabelsFollow
    <3> QED BY <1>3, <1>4, <3>3, <3>4 DEF EventInv
  <2> QED BY <2>2, <2>3
<1>9. CASE ReadInventory
  <2>1. /\ eRefresh' = [at |-> "read", ver |-> eVer]
        /\ UNCHANGED <<eVer, eKnown, ePending, eList, eExcused, eTimer, eventSteps>>
    BY <1>9 DEF ReadInventory
  <2>2. eRefresh' \in refreshes /\ eRefresh'.at = "read" /\ eRefresh'.ver = eVer
    BY <1>5, <1>7, <2>1
  <2>3. LabelShapes' BY <1>1, <1>7, <2>1, <2>2 DEF LabelShapes
  <2>4. LabelsFollow' BY <1>2, <2>1, <2>2 DEF LabelsFollow
  <2> QED BY <1>3, <1>4, <2>3, <2>4 DEF EventInv
<1>10. ASSUME RefreshLoop
       PROVE  /\ ePending' = FALSE /\ eRefresh' \in refreshes /\ eRefresh'.ver = 0
              /\ eRefresh'.at = IF ePending THEN "reading" ELSE "idle"
  BY <1>5, <1>6, <1>10 DEF RefreshLoop
<1>11. CASE ReconcileInventory
  <2>1. /\ eRefresh.at = "read" /\ eKnown' = eRefresh.ver /\ RefreshLoop
        /\ eExcused' = (eExcused /\ eRefresh.ver # eVer)
        /\ UNCHANGED <<eVer, eList, eTimer, eventSteps>>
    BY <1>11 DEF ReconcileInventory
  <2>2. LabelShapes'
    <3>1. eKnown' \in 0..eVer' /\ eExcused' \in BOOLEAN BY <1>1, <2>1 DEF LabelShapes
    <3> QED BY <1>1, <1>7, <1>10, <2>1, <3>1 DEF LabelShapes
  <2>3. LabelsFollow' BY <1>1, <1>2, <1>3, <1>10, <2>1 DEF LabelsFollow
  <2> QED BY <1>3, <1>4, <2>2, <2>3 DEF EventInv
<1>12. CASE RefreshFails
  <2>1. eExcused' = TRUE /\ RefreshLoop /\ UNCHANGED <<eVer, eKnown, eList, eTimer, eventSteps>>
    BY <1>12 DEF RefreshFails
  <2>2. LabelShapes' BY <1>1, <1>7, <1>10, <2>1 DEF LabelShapes
  <2>3. LabelsFollow' BY <1>2, <1>10, <2>1 DEF LabelsFollow
  <2> QED BY <1>3, <1>4, <2>2, <2>3 DEF EventInv
<1>13. CASE ListInventory
  <2>1. /\ HostEvent /\ eList' = [at |-> "read", ver |-> eVer]
        /\ UNCHANGED <<eVer, eKnown, eRefresh, ePending, eExcused, eTimer>>
    BY <1>13 DEF ListInventory
  <2>2. eList' \in [at : {"idle", "read"}, ver : Nat] /\ eList'.ver = eVer BY <1>7, <2>1
  <2>3. eventSteps' \in 0..MaxEventSteps /\ eVer' <= eventSteps'
    BY <1>1, <1>7, <2>1, HostEventSteps DEF LabelShapes
  <2>4. LabelShapes' BY <1>1, <1>7, <2>1, <2>2, <2>3 DEF LabelShapes
  <2>5. LabelsFollow' BY <1>1, <1>2, <1>3, <2>1 DEF LabelsFollow
  <2> QED BY <1>3, <1>4, <2>4, <2>5 DEF EventInv
<1>14. CASE ListReconciles
  <2>1. /\ eList' = Idle0 /\ eKnown' = eList.ver /\ eExcused' = (eExcused \/ eList.ver < eVer)
        /\ UNCHANGED <<eVer, eRefresh, ePending, eTimer, eventSteps>>
    BY <1>14 DEF ListReconciles
  <2>2. eList.ver \in Nat /\ eList.ver <= eVer BY <1>1 DEF LabelShapes
  <2>3. eList' \in [at : {"idle", "read"}, ver : Nat] /\ eList'.ver = 0 BY <1>6, <2>1
  <2>4. eKnown' \in 0..eVer' /\ eExcused' \in BOOLEAN BY <1>1, <1>7, <2>1, <2>2 DEF LabelShapes
  <2>5. LabelShapes' BY <1>1, <1>7, <2>1, <2>3, <2>4 DEF LabelShapes
  <2>6. ~eExcused' => eKnown' = eVer'
    <3>1. ~eExcused' => ~(eList.ver < eVer) BY <2>1
    <3>2. ~(eList.ver < eVer) => eList.ver = eVer BY <1>7, <2>2
    <3> QED BY <2>1, <3>1, <3>2
  <2>7. LabelsFollow' BY <1>1, <1>2, <1>3, <2>1, <2>6 DEF LabelsFollow
  <2> QED BY <1>3, <1>4, <2>5, <2>7 DEF EventInv
<1> QED BY <1>8, <1>9, <1>11, <1>12, <1>13, <1>14
-----------------------------------------------------------------------------
(* What the watcher does with one event.                                   *)
LEMMA RememberedQuiet ==
    ASSUME TrackShapes, LoopsQuiet, NEW b \in Boxes, NEW state \in Tracks, Remember(b, state),
           state.seen = eTime, UNCHANGED <<eCount, eTime>>,
           eLast' \in [Boxes -> Nat],
           \A a \in Boxes : a # b => eLast'[a] = eLast[a],
           eLast'[b] = eLast[b] \/ eLast'[b] = eTime,
           state.notified <= eTime,
           FewBoxes /\ eLast'[b] # Never /\ eTime - eLast'[b] <= RestartGap =>
             state.notified = eLast'[b],
           FewBoxes => ~eNotice'.early
    PROVE  TrackShapes' /\ LoopsQuiet'
<1> DEFINE track == [eTrack EXCEPT ![b] = state]
<1>1. PrunedWell(track, eTrack') BY RememberIs
<1>2. /\ \A a \in Boxes : a # b => track[a] = eTrack[a]
      /\ track[b] = state
  BY DEF TrackShapes
<1> HIDE DEF track
<1>3. /\ \A a \in Boxes : /\ eTrack[a].notified \in Nat /\ eTrack[a].seen \in Nat
                          /\ eLast[a] \in Nat /\ eLast[a] <= eTime
                          /\ eTrack[a].notified <= eTrack[a].seen /\ eTrack[a].seen <= eTime
      /\ eTime \in Nat /\ RestartGap \in Nat /\ RestartMemory \in Nat /\ RestartMemory > RestartGap
      /\ state.notified \in Nat /\ state.seen \in Nat
  BY HostEventsAssumption DEF TrackShapes, LoopsQuiet, Tracks
<1>4. NoTrack.notified = 0 /\ NoTrack.seen = 0 BY DEF NoTrack, Never
<1>5. TrackShapes' BY <1>1 DEF PrunedWell, TrackShapes
<1>6. \A a \in Boxes : /\ track[a].notified <= track[a].seen /\ track[a].seen <= eTime
                       /\ track[a].notified \in Nat /\ track[a].seen \in Nat
  BY <1>2, <1>3
<1>7. \A a \in Boxes : /\ eTrack'[a].notified <= eTrack'[a].seen /\ eTrack'[a].seen <= eTime
                       /\ eLast'[a] <= eTime
  BY <1>1, <1>3, <1>4, <1>6 DEF PrunedWell
<1>8. ASSUME FewBoxes, NEW a \in Boxes, eLast'[a] # Never, eTime - eLast'[a] <= RestartGap
      PROVE  eTrack'[a].notified = eLast'[a]
  <2>1. track[a].notified = eLast'[a]
    <3>1. CASE a = b BY <1>2, <1>8, <3>1
    <3>2. CASE a # b BY <1>2, <1>8, <3>2 DEF LoopsQuiet
    <3> QED BY <3>1, <3>2
  <2>2. ~(eTime - track[a].seen >= RestartMemory) BY <1>3, <1>6, <1>8, <2>1
  <2> QED BY <1>1, <1>8, <2>1, <2>2 DEF PrunedWell
<1>9. LoopsQuiet' BY <1>7, <1>8 DEF LoopsQuiet, FewBoxes
<1> QED BY <1>5, <1>9

LEMMA WatchedTracks ==
    ASSUME TrackShapes, LoopsQuiet, NEW e \in Happenings, NEW readable \in BOOLEAN,
           UNCHANGED <<eCount, eTime>>,
           \/ e.what = "policy" /\ UNCHANGED eTrack /\ eNotice' = NoNotice /\ UNCHANGED eLast
           \/ e.what = "destroy" /\ eTrack' = [eTrack EXCEPT ![e.box] = NoTrack]
              /\ eNotice' = NoNotice /\ eLast' = [eLast EXCEPT ![e.box] = Never]
           \/ e.what = "restart" /\ notified(e.box) /\ Reported(e.box, FALSE)
           \/ /\ e.what = "die" /\ eNotice' = NoNotice /\ UNCHANGED eLast
              /\ IF readable THEN observe(e.box) ELSE UNCHANGED eTrack
           \/ /\ e.what = "start"
              /\ IF readable THEN restarted(e.box) ELSE UNCHANGED eTrack
              /\ IF readable /\ worthNotifying(e.box) THEN Reported(e.box, TRUE)
                 ELSE eNotice' = NoNotice /\ UNCHANGED eLast
    PROVE  TrackShapes' /\ LoopsQuiet'
<1> DEFINE b == e.box
<1>1. b \in Boxes /\ eTrack[b] \in Tracks /\ eLast[b] \in Nat /\ eCount[b] \in Nat
      /\ eTime \in Nat /\ RestartGap \in Nat /\ eLast \in [Boxes -> Nat]
      /\ eTrack[b].notified \in Nat /\ eTrack[b].seen \in Nat
  BY HostEventsAssumption DEF Happenings, TrackShapes, Tracks
<1>2. eTrack[b].notified <= eTime BY <1>1 DEF LoopsQuiet
<1>3. ~NoNotice.early BY DEF NoNotice
<1>4. /\ Seen(b) \in Tracks /\ Seen(b).seen = eTime /\ Seen(b).notified = eTrack[b].notified
  BY <1>1 DEF Seen, Tracks
<1>5. FewBoxes /\ eLast[b] # Never /\ eTime - eLast[b] <= RestartGap =>
        eTrack[b].notified = eLast[b]
  BY <1>1 DEF LoopsQuiet
<1>6. CASE UNCHANGED <<eTrack, eLast>> /\ eNotice' = NoNotice
  BY <1>3, <1>6 DEF TrackShapes, LoopsQuiet, FewBoxes
<1>7. CASE /\ eTrack' = [eTrack EXCEPT ![b] = NoTrack] /\ eNotice' = NoNotice
           /\ eLast' = [eLast EXCEPT ![b] = Never]
  <2>1. NoTrack \in Tracks /\ NoTrack.known = FALSE /\ NoTrack.notified = 0 /\ NoTrack.seen = 0
    BY DEF NoTrack, Tracks, Never
  <2>2. /\ eTrack' \in [Boxes -> Tracks] /\ eTrack'[b] = NoTrack
        /\ eLast' \in [Boxes -> Nat] /\ eLast'[b] = 0
        /\ \A a \in Boxes : a # b => eTrack'[a] = eTrack[a] /\ eLast'[a] = eLast[a]
    BY <1>1, <1>7, <2>1 DEF TrackShapes, Never
  <2>3. Cardinality({a \in Boxes : eTrack'[a].known}) <= RestartCap
    <3> DEFINE old == {a \in Boxes : eTrack[a].known}  new == {a \in Boxes : eTrack'[a].known}
    <3>1. new \subseteq old BY <2>1, <2>2
    <3>2. IsFiniteSet(old) /\ Cardinality(old) \in Nat /\ Cardinality(new) \in Nat BY KnownAreFinite
    <3>3. Cardinality(old) <= RestartCap BY DEF TrackShapes
    <3> HIDE DEF old, new
    <3>4. Cardinality(new) <= RestartCap
      BY <3>1, <3>2, <3>3, FS_Subset, HostEventsAssumption
    <3> QED BY <3>4 DEF new
  <2>4. TrackShapes' BY <2>2, <2>3 DEF TrackShapes
  <2>5. LoopsQuiet' BY <1>1, <1>3, <1>7, <2>1, <2>2 DEF LoopsQuiet, FewBoxes, Never
  <2> QED BY <2>4, <2>5
<1>8. ASSUME NEW automatic \in BOOLEAN, Reported(b, automatic)
      PROVE  /\ eLast' \in [Boxes -> Nat] /\ eLast'[b] = eTime
             /\ \A a \in Boxes : a # b => eLast'[a] = eLast[a]
  BY <1>1, <1>8 DEF Reported
<1>9. CASE notified(b) /\ Reported(b, FALSE)
  <2> DEFINE state == [Seen(b) EXCEPT !.notified = eTime]
  <2>1. state \in Tracks /\ state.seen = eTime /\ state.notified = eTime
    BY <1>1, <1>4 DEF Tracks
  <2>2. Remember(b, state) /\ eNotice' = NoNotice BY <1>9 DEF notified, Reported
  <2>3. /\ eLast' \in [Boxes -> Nat] /\ eLast'[b] = eTime
        /\ \A a \in Boxes : a # b => eLast'[a] = eLast[a]
    BY <1>8, <1>9
  <2>4. ~eNotice'.early BY <1>3, <2>2
  <2> HIDE DEF state, b
  <2> QED BY <1>1, <2>1, <2>2, <2>3, <2>4, RememberedQuiet
<1>10. CASE observe(b) /\ eNotice' = NoNotice /\ UNCHANGED eLast
  <2> DEFINE state == [Seen(b) EXCEPT !.count = eCount[b]]
  <2>1. state \in Tracks /\ state.seen = eTime /\ state.notified = eTrack[b].notified
    BY <1>1, <1>4 DEF Tracks
  <2>2. Remember(b, state) BY <1>10 DEF observe
  <2> HIDE DEF state, b
  <2> QED BY <1>1, <1>2, <1>3, <1>5, <1>10, <2>1, <2>2, RememberedQuiet
<1>11. ASSUME restarted(b)
       PROVE  \E state \in Tracks :
                /\ state.seen = eTime /\ Remember(b, state)
                /\ state.notified = IF worthNotifying(b) THEN eTime ELSE eTrack[b].notified
  <2> DEFINE state == [Seen(b) EXCEPT !.count = eCount[b],
                                      !.notified = IF worthNotifying(b) THEN eTime ELSE @]
  <2>1. state \in Tracks /\ state.seen = eTime
        /\ state.notified = IF worthNotifying(b) THEN eTime ELSE eTrack[b].notified
    <3>1. CASE worthNotifying(b) BY <1>1, <1>4, <3>1 DEF Tracks
    <3>2. CASE ~worthNotifying(b) BY <1>1, <1>4, <3>2 DEF Tracks
    <3> QED BY <3>1, <3>2
  <2>2. Remember(b, state) BY <1>11 DEF restarted
  <2> HIDE DEF state
  <2> QED BY <2>1, <2>2
<1>12. CASE restarted(b) /\ worthNotifying(b) /\ Reported(b, TRUE)
  <2>1. PICK state \in Tracks : /\ state.seen = eTime /\ Remember(b, state)
                                /\ state.notified = eTime
    BY <1>11, <1>12
  <2>2. FewBoxes => ~eNotice'.early
    <3>1. eNotice'.early = (eLast[b] # Never /\ eTime - eLast[b] <= RestartGap)
      BY <1>12 DEF Reported
    <3>2. eTrack[b].notified = Never \/ eTime - eTrack[b].notified > RestartGap
      BY <1>12 DEF worthNotifying
    <3>3. eNotice'.early => eLast[b] # Never /\ eTime - eLast[b] <= RestartGap BY <3>1
    <3>4. ~(FewBoxes /\ eLast[b] # Never /\ eTime - eLast[b] <= RestartGap)
      <4> SUFFICES ASSUME FewBoxes, eLast[b] # Never, eTime - eLast[b] <= RestartGap PROVE FALSE
        OBVIOUS
      <4>1. eTrack[b].notified = eLast[b] BY <1>5
      <4> HIDE DEF b
      <4> QED BY <1>1, <3>2, <4>1
    <3> QED BY <3>3, <3>4
  <2>3. /\ eLast' \in [Boxes -> Nat] /\ eLast'[b] = eTime
        /\ \A a \in Boxes : a # b => eLast'[a] = eLast[a]
    BY <1>8, <1>12
  <2> HIDE DEF b
  <2> QED BY <1>1, <2>1, <2>2, <2>3, RememberedQuiet
<1>13. CASE restarted(b) /\ ~worthNotifying(b) /\ eNotice' = NoNotice /\ UNCHANGED eLast
  <2>1. PICK state \in Tracks : /\ state.seen = eTime /\ Remember(b, state)
                                /\ state.notified = eTrack[b].notified
    BY <1>11, <1>13
  <2> HIDE DEF b
  <2> QED BY <1>1, <1>2, <1>3, <1>5, <1>13, <2>1, RememberedQuiet
<1> QED BY <1>6, <1>7, <1>9, <1>10, <1>12, <1>13

LEMMA WatcherStep ==
    ASSUME EventInv, NEW readable \in BOOLEAN, watchUpdatePolicyEvents(readable)
    PROVE  EventInv'
<1>1. LabelShapes /\ QueueShapes /\ TrackShapes /\ LabelsFollow /\ LoopsQuiet BY DEF EventInv
<1> DEFINE e == Head(eQueue)
<1>2. /\ eQueue # <<>> /\ eQueue' = Tail(eQueue)
      /\ eTimer' = (eTimer \/ e.what \in {"policy", "destroy"})
      /\ UNCHANGED <<labelVars, eStream, eCount, eTime, eventSteps>>
  BY DEF watchUpdatePolicyEvents
<1>3. /\ e \in Happenings /\ QueueShapes'
      /\ Foretold => Foretold' \/ e.what \in {"policy", "destroy"}
  BY <1>1, <1>2, TailIs
<1>4. TrackShapes' /\ LoopsQuiet'
  BY <1>1, <1>2, <1>3, WatchedTracks DEF watchUpdatePolicyEvents
<1>5. eTimer' \in BOOLEAN BY <1>1, <1>2 DEF LabelShapes
<1>6. eventSteps' \in 0..MaxEventSteps /\ eventSteps' >= eventSteps
  BY <1>1, <1>2, HostEventsAssumption DEF LabelShapes
<1>7. Foretold \/ eTimer => Foretold' \/ eTimer' BY <1>2, <1>3
<1>8. LabelShapes' /\ LabelsFollow' BY <1>1, <1>2, <1>5, <1>6, <1>7, SameLabels
<1> QED BY <1>3, <1>4, <1>8 DEF EventInv

LEMMA EventStep == EventInv /\ [EventNext]_eventVars => EventInv'
<1> SUFFICES ASSUME EventInv, [EventNext]_eventVars PROVE EventInv' OBVIOUS
<1>1. CASE UNCHANGED eventVars
  BY <1>1 DEF eventVars, labelVars, restartVars, EventInv, LabelShapes, QueueShapes, TrackShapes,
              LabelsFollow, LoopsQuiet, Foretold, FewBoxes
<1> QED BY <1>1, LabelStep, LabelsChangeStep, StreamStep, TickStep, WatcherStep, RefreshStep,
       ReleaseStep, ReturnStep
    DEF EventNext

(* The scheduled jobs catch up with every change of a label that reached   *)
(* the watcher, and with all of them when the host comes back; and one     *)
(* watcher reports a crash loop once in a quiet period                     *)
(* (updater/automation.go, RefreshHost; app/restart_tracker.go).           *)
THEOREM EventsAreHonest == EventSpec => []EventsHonest
<1>1. EventInv => EventsHonest
  <2> SUFFICES ASSUME EventInv PROVE RefreshFollows /\ CrashLoopQuiet BY DEF EventsHonest
  <2>1. RefreshFollows
    <3>1. eQueue = <<>> => ~Foretold BY DEF Foretold
    <3> QED BY <3>1 DEF EventInv, LabelsFollow, RefreshFollows
  <2>2. Cardinality(Boxes) \in Nat /\ RestartCap \in Nat
    BY FS_CardinalityType, HostEventsAssumption
  <2>3. CrashLoopQuiet BY <2>2 DEF EventInv, LoopsQuiet, FewBoxes, CrashLoopQuiet
  <2> QED BY <2>1, <2>3
<1> QED BY EventStarts, EventStep, <1>1, PTL DEF EventSpec

(* The watcher's queue and the tracker keep within their limits            *)
(* (events_hub.go, broadcast; restart_tracker.go, pruneLocked).            *)
THEOREM EventsTyped == EventSpec => []EventTypeOK
<1>1. EventInv => EventTypeOK
  <2> SUFFICES ASSUME EventInv PROVE EventTypeOK OBVIOUS
  <2>1. eVer \in 0..MaxEventSteps /\ eKnown \in 0..eVer
    BY HostEventsAssumption DEF EventInv, LabelShapes
  <2>2. eRefresh.at \in {"idle", "reading", "read"} BY DEF EventInv, LabelShapes
  <2> QED BY <2>1, <2>2 DEF EventInv, LabelShapes, QueueShapes, TrackShapes, EventTypeOK
<1> QED BY EventStarts, EventStep, <1>1, PTL DEF EventSpec

-----------------------------------------------------------------------------
(***************************************************************************)
(* Proofs about signing in (SignIn).                                       *)
(***************************************************************************)

SessionRow == [id : Nat, user : Logins, expires : Nat]
SignInCall == [at : {"none", "check", "session"}, user : Logins \cup {NoCall.user}]

(* The rows have ids of their own, and each was made before.               *)
SessionRows ==
    /\ IsFiniteSet(aSess) /\ aSess \subseteq SessionRow
    /\ \A s \in aSess : s.id <= aMade
    /\ \A s, t \in aSess : s.id = t.id => s = t

SignInInv ==
    /\ aNow \in Nat /\ aMade \in Nat /\ signIns \in Nat
    /\ aExpiry \in CookieExpiries
    /\ aTry \in [Logins -> [fails : Nat, last : Nat]]
    /\ aCall \in [SignInClients -> SignInCall]
    /\ \A c \in SignInClients : aCall[c].at # "none" => aCall[c].user \in Logins
    /\ SessionRows
-----------------------------------------------------------------------------
(* Ranks: in a finite set of rows with ids of their own, the n rows with   *)
(* the smallest ids are those with less than n rows before them.           *)
OlderIn(rows, s) == {t \in rows : t.id < s.id}

LEMMA OldestAreCounted ==
    ASSUME NEW M, IsFiniteSet(M), \A s \in M : s.id \in Nat,
           \A s, t \in M : s.id = t.id => s = t,
           NEW n \in Nat, n <= Cardinality(M)
    PROVE  Cardinality({s \in M : Cardinality(OlderIn(M, s)) < n}) = n
<1> DEFINE C == Cardinality(M)
           low == {s \in M : Cardinality(OlderIn(M, s)) < n}
           rank == [s \in M |-> Cardinality(OlderIn(M, s))]
<1>1. C \in Nat BY FS_CardinalityType
<1>2. ASSUME NEW s \in M
      PROVE  /\ IsFiniteSet(OlderIn(M, s)) /\ Cardinality(OlderIn(M, s)) \in Nat
             /\ Cardinality(OlderIn(M, s)) < C
  <2>1. OlderIn(M, s) \in SUBSET M /\ s \notin OlderIn(M, s) BY DEF OlderIn
  <2>2. IsFiniteSet(OlderIn(M, s)) /\ Cardinality(OlderIn(M, s)) <= C
        /\ Cardinality(OlderIn(M, s)) # C
    BY <2>1, FS_Subset
  <2>3. Cardinality(OlderIn(M, s)) \in Nat BY <2>2, FS_CardinalityType
  <2> QED BY <1>1, <2>2, <2>3
<1>3. ASSUME NEW s \in M, NEW t \in M, s.id < t.id
      PROVE  Cardinality(OlderIn(M, s)) < Cardinality(OlderIn(M, t))
  <2>1. /\ OlderIn(M, s) \in SUBSET OlderIn(M, t)
        /\ s \in OlderIn(M, t) /\ s \notin OlderIn(M, s)
    BY <1>3 DEF OlderIn
  <2>2. /\ Cardinality(OlderIn(M, s)) <= Cardinality(OlderIn(M, t))
        /\ Cardinality(OlderIn(M, s)) # Cardinality(OlderIn(M, t))
    BY <1>2, <2>1, FS_Subset
  <2> QED BY <1>2, <2>2
<1>4. \A s, t \in M : Cardinality(OlderIn(M, s)) = Cardinality(OlderIn(M, t)) => s = t
  <2> SUFFICES ASSUME NEW s \in M, NEW t \in M, s # t
               PROVE  Cardinality(OlderIn(M, s)) # Cardinality(OlderIn(M, t))
    OBVIOUS
  <2>1. s.id < t.id \/ t.id < s.id OBVIOUS
  <2> QED BY <1>2, <1>3, <2>1
<1>5. rank \in [M -> 0..C - 1] BY <1>1, <1>2
<1>6. rank \in Injection(M, 0..C - 1) BY <1>4, <1>5 DEF Injection, IsInjective
<1>7. IsFiniteSet(0..C - 1) /\ Cardinality(0..C - 1) = C
  <2> HIDE DEF C
  <2>1. 0 \in Int /\ C - 1 \in Int BY <1>1
  <2>2. /\ IsFiniteSet(0..C - 1)
        /\ Cardinality(0..C - 1) = IF 0 > C - 1 THEN 0 ELSE (C - 1) - 0 + 1
    BY <2>1, FS_Interval
  <2> QED BY <1>1, <2>2
<1>8. rank \in Surjection(M, 0..C - 1) BY <1>6, <1>7, FS_Injection
<1>9. \A i \in 0..C - 1 : \E s \in M : Cardinality(OlderIn(M, s)) = i
  BY <1>8 DEF Surjection
<1> DEFINE place == [s \in low |-> Cardinality(OlderIn(M, s))]
<1>10. place \in [low -> 0..n - 1] BY <1>2
<1>11. place \in Injection(low, 0..n - 1) BY <1>4, <1>10 DEF Injection, IsInjective
<1>12. ASSUME NEW i \in 0..n - 1 PROVE \E s \in low : place[s] = i
  <2>1. i \in 0..C - 1 /\ i < n BY <1>1
  <2>2. PICK s \in M : Cardinality(OlderIn(M, s)) = i BY <1>9, <2>1
  <2> QED BY <2>1, <2>2
<1>13. place \in Surjection(low, 0..n - 1) BY <1>10, <1>12 DEF Surjection
<1>14. IsFiniteSet(0..n - 1) /\ Cardinality(0..n - 1) = n BY FS_Interval
<1> QED BY <1>11, <1>13, <1>14, FS_Injection

LEMMA NewestStay ==
    ASSUME NEW M, IsFiniteSet(M), \A s \in M : s.id \in Nat,
           \A s, t \in M : s.id = t.id => s = t,
           NEW n \in Nat, n <= Cardinality(M)
    PROVE  LET low == {s \in M : Cardinality(OlderIn(M, s)) < n}
           IN /\ Cardinality(M \ low) = Cardinality(M) - n
              /\ \A s \in low, t \in M \ low : s.id < t.id
<1> DEFINE low == {s \in M : Cardinality(OlderIn(M, s)) < n}
<1>1. low \in SUBSET M /\ M \cap low = low OBVIOUS
<1>2. Cardinality(low) = n BY OldestAreCounted
<1>3. Cardinality(M \ low) = Cardinality(M) - n
  <2> HIDE DEF low
  <2>1. Cardinality(M \ low) = Cardinality(M) - Cardinality(M \cap low) BY FS_Difference
  <2> QED BY <1>1, <1>2, <2>1
<1>4. ASSUME NEW s \in low, NEW t \in M \ low PROVE s.id < t.id
  <2>1. s \in M /\ t \in M /\ s # t OBVIOUS
  <2>2. CASE t.id < s.id
    <3>1. OlderIn(M, t) \in SUBSET OlderIn(M, s) BY <2>1, <2>2 DEF OlderIn
    <3>2. OlderIn(M, s) \in SUBSET M /\ OlderIn(M, t) \in SUBSET M BY DEF OlderIn
    <3>3. IsFiniteSet(OlderIn(M, s)) /\ IsFiniteSet(OlderIn(M, t)) BY <3>2, FS_Subset
    <3>4. Cardinality(OlderIn(M, s)) \in Nat /\ Cardinality(OlderIn(M, t)) \in Nat
      BY <3>3, FS_CardinalityType
    <3>5. Cardinality(OlderIn(M, t)) <= Cardinality(OlderIn(M, s)) BY <3>1, <3>3, FS_Subset
    <3> QED BY <3>4, <3>5
  <2> QED BY <2>1, <2>2
<1> QED BY <1>3, <1>4

-----------------------------------------------------------------------------
LEMMA DelayNonEmpty ==
    /\ MaxSessions \in Nat \ {0} /\ CookieExpiries \subseteq Nat \ {0} /\ Accounts \subseteq Logins
    /\ AttemptTTL \in Nat \ {0}
BY SignInAssumption

LEMMA CallShapes ==
    /\ NoCall \in SignInCall /\ NoCall.at = "none"
    /\ \A q \in SignInCall, at \in {"none", "check", "session"} :
         /\ [q EXCEPT !.at = at] \in SignInCall
         /\ [q EXCEPT !.at = at].at = at /\ [q EXCEPT !.at = at].user = q.user
BY DEF NoCall, SignInCall

(* The requests other than c stay as they are.                             *)
LEMMA CallMoved ==
    ASSUME SignInInv, NEW c \in SignInClients, NEW q \in SignInCall,
           q.at # "none" => q.user \in Logins, aCall' = [aCall EXCEPT ![c] = q]
    PROVE  /\ aCall' \in [SignInClients -> SignInCall] /\ aCall'[c] = q
           /\ \A d \in SignInClients : aCall'[d].at # "none" => aCall'[d].user \in Logins
BY DEF SignInInv

LEMMA At2Moves ==
    ASSUME SignInInv, NEW c \in SignInClients, NEW at \in {"none", "check", "session"},
           aCall[c].at # "none", At2(c, at)
    PROVE  /\ aCall' \in [SignInClients -> SignInCall] /\ aCall'[c].at = at
           /\ \A d \in SignInClients : aCall'[d].at # "none" => aCall'[d].user \in Logins
<1> DEFINE q == [aCall[c] EXCEPT !.at = at]
<1>1. aCall[c] \in SignInCall /\ aCall[c].user \in Logins BY DEF SignInInv
<1>2. q \in SignInCall /\ q.at = at /\ q.user = aCall[c].user BY <1>1, CallShapes
<1>3. aCall' = [aCall EXCEPT ![c] = q] BY DEF At2
<1> HIDE DEF q
<1> QED BY <1>1, <1>2, <1>3, CallMoved

(* recordFailure: the name is counted, and only old entries are forgotten. *)
LEMMA FailureRecorded ==
    ASSUME SignInInv, NEW u \in Logins
    PROVE  /\ recordFailure(u) \in [Logins -> [fails : Nat, last : Nat]]
           /\ \A v \in Tracked : recordFailure(u)[v].fails = 0 => OldTry(v)
<1> DEFINE full == u \notin Tracked /\ Cardinality(Tracked) >= MaxTracked
           try == IF full THEN pruneAttempts(aTry) ELSE aTry
           new == [fails |-> IF OldTry(u) THEN 1 ELSE try[u].fails + 1, last |-> aNow]
<1>1. aTry \in [Logins -> [fails : Nat, last : Nat]] /\ aNow \in Nat BY DEF SignInInv
<1>2. /\ pruneAttempts(aTry) \in [Logins -> [fails : Nat, last : Nat]]
      /\ \A v \in Logins : pruneAttempts(aTry)[v] = aTry[v] \/ OldTry(v)
  BY <1>1 DEF pruneAttempts, NoTry, OldTry
<1>3. /\ try \in [Logins -> [fails : Nat, last : Nat]]
      /\ \A v \in Logins : try[v] = aTry[v] \/ OldTry(v)
  BY <1>1, <1>2
<1> HIDE DEF try
<1>4. (IF OldTry(u) THEN 1 ELSE try[u].fails + 1) \in Nat \ {0} BY <1>3
<1>5. new \in [fails : Nat, last : Nat] /\ new.fails # 0 BY <1>1, <1>4
<1>6. recordFailure(u) \in {try, [try EXCEPT ![u] = new]}
  BY DEF recordFailure, try
<1> HIDE DEF new
<1>7. ASSUME NEW v \in Tracked, recordFailure(u)[v].fails = 0 PROVE OldTry(v)
  <2>1. v \in Logins /\ aTry[v].fails # 0 BY <1>1 DEF Tracked
  <2>2. recordFailure(u)[v] \in {try[v], new} BY <1>3, <1>6, <2>1
  <2>3. recordFailure(u)[v] = try[v] BY <1>5, <1>7, <2>2
  <2> QED BY <1>3, <1>7, <2>1, <2>3
<1> QED BY <1>3, <1>5, <1>6, <1>7

(* NewSession: the rows keep ids of their own, and a row that still holds  *)
(* goes only for the full number of newer ones of its user.                *)
LEMMA SessionMade ==
    ASSUME SignInInv, NEW u \in Logins, aSess' = NewSession(u), aMade' = aMade + 1, aNow' = aNow
    PROVE  SessionRows' /\ LiveSessionKept
<1> DEFINE new == [id |-> aMade + 1, user |-> u, expires |-> aNow + aExpiry]
           live == {s \in aSess : ~Expired(s)} \cup {new}
           mine == {s \in live : s.user = u}
           over == Cardinality(mine) - MaxSessions
           evicted == IF over <= 0 THEN {}
                      ELSE {s \in mine : Cardinality(OlderIn(mine, s)) < over}
<1>1. aSess' = live \ evicted BY DEF NewSession, OlderIn
<1>2. /\ aNow \in Nat /\ aMade \in Nat /\ aExpiry \in Nat /\ aMade + 1 \in Nat
      /\ IsFiniteSet(aSess) /\ aSess \subseteq SessionRow
      /\ \A s \in aSess : s.id \in Nat /\ s.id <= aMade
      /\ \A s, t \in aSess : s.id = t.id => s = t
  BY DelayNonEmpty DEF SignInInv, SessionRows, SessionRow
<1>3. new \in SessionRow /\ new.id = aMade + 1 /\ new.expires >= aNow
  BY <1>2 DEF SessionRow
<1> HIDE DEF new
<1>4. live \subseteq aSess \cup {new} /\ live \subseteq SessionRow BY <1>2, <1>3
<1>5. IsFiniteSet(live)
  <2>1. IsFiniteSet(aSess \cup {new}) BY <1>2, FS_AddElement
  <2> QED BY <2>1, <1>4, FS_Subset
<1>6. \A s \in live : s.id \in Nat /\ s.id <= aMade + 1 /\ s.expires >= aNow
  BY <1>2, <1>3, <1>4 DEF Expired, SessionRow
<1>7. \A s, t \in live : s.id = t.id => s = t
  <2> SUFFICES ASSUME NEW s \in live, NEW t \in live, s.id = t.id PROVE s = t OBVIOUS
  <2>1. \A x \in aSess : x.id # new.id BY <1>2, <1>3
  <2>2. s \in aSess \/ s = new BY <1>4
  <2>3. t \in aSess \/ t = new BY <1>4
  <2> QED BY <1>2, <2>1, <2>2, <2>3
<1>8. /\ mine \in SUBSET live /\ IsFiniteSet(mine) /\ Cardinality(mine) \in Nat
      /\ \A s \in mine : s.user = u
      /\ \A s \in live : s.user = u => s \in mine
  BY <1>5, FS_Subset, FS_CardinalityType
<1> HIDE DEF live, mine
<1>9. evicted \subseteq mine OBVIOUS
<1>10. over > 0 => /\ Cardinality(mine \ evicted) = MaxSessions
                   /\ \A s \in evicted, t \in mine \ evicted : s.id < t.id
  <2> SUFFICES ASSUME over > 0
               PROVE  /\ Cardinality(mine \ evicted) = MaxSessions
                      /\ \A s \in evicted, t \in mine \ evicted : s.id < t.id
    OBVIOUS
  <2>1. over \in Nat /\ over <= Cardinality(mine) BY <1>8, DelayNonEmpty
  <2>2. evicted = {s \in mine : Cardinality(OlderIn(mine, s)) < over} BY <2>1
  <2>3. /\ \A s \in mine : s.id \in Nat
        /\ \A s, t \in mine : s.id = t.id => s = t
    BY <1>6, <1>7, <1>8
  <2>4. Cardinality(mine) - over = MaxSessions BY <1>8, DelayNonEmpty
  <2> HIDE DEF over, evicted
  <2>5. /\ Cardinality(mine \ evicted) = Cardinality(mine) - over
        /\ \A s \in evicted, t \in mine \ evicted : s.id < t.id
    BY <1>8, <2>1, <2>2, <2>3, NewestStay
  <2> QED BY <2>4, <2>5
<1>11. over <= 0 => evicted = {} OBVIOUS
<1>12. over > 0 \/ over <= 0 BY <1>8, DelayNonEmpty
<1> HIDE DEF over, evicted
<1>13. SessionRows'
  <2>1. aSess' \in SUBSET live BY <1>1
  <2>2. IsFiniteSet(aSess') BY <1>5, <2>1, FS_Subset
  <2> QED BY <1>4, <1>6, <1>7, <2>1, <2>2 DEF SessionRows
<1>14. LiveSessionKept
  <2> SUFFICES ASSUME NEW s \in aSess, VerifyToken(s), s \notin aSess'
               PROVE  Cardinality({t \in aSess' : t.user = s.user /\ t.id > s.id
                                                  /\ t.expires >= aNow}) = MaxSessions
    BY DEF LiveSessionKept
  <2>1. s \in live BY DEF VerifyToken, live
  <2>2. s \in evicted BY <1>1, <2>1
  <2>3. over > 0 BY <1>11, <1>12, <2>2
  <2>4. s.user = u /\ s.id \in Nat BY <1>6, <1>8, <1>9, <2>1, <2>2
  <2>5. {t \in aSess' : t.user = s.user /\ t.id > s.id /\ t.expires >= aNow} = mine \ evicted
    <3>1. ASSUME NEW t \in aSess', t.user = s.user PROVE t \in mine \ evicted
      BY <1>1, <1>8, <2>4, <3>1
    <3>2. ASSUME NEW t \in mine \ evicted
          PROVE  t \in aSess' /\ t.user = s.user /\ t.id > s.id /\ t.expires >= aNow
      <4>1. t \in live /\ t.user = u BY <1>8
      <4>2. t \in aSess' BY <1>1, <4>1
      <4>3. s.id < t.id /\ t.id \in Nat /\ t.expires >= aNow BY <1>6, <1>10, <2>2, <2>3, <4>1
      <4> QED BY <2>4, <4>1, <4>2, <4>3
    <3> QED BY <3>1, <3>2
  <2> QED BY <1>10, <2>3, <2>5
<1> QED BY <1>13, <1>14
-----------------------------------------------------------------------------
LEMMA NoneForgotten ==
    ASSUME \A u \in Logins : aTry'[u] = aTry[u] \/ OldTry(u)
    PROVE  FailuresRemembered
<1> SUFFICES ASSUME NEW u \in Tracked, aTry'[u].fails = 0 PROVE OldTry(u)
  BY DEF FailuresRemembered
<1>1. u \in Logins /\ aTry[u].fails > 0 BY DEF Tracked
<1>2. CASE OldTry(u) BY <1>2
<1>3. CASE aTry'[u] = aTry[u]
  <2>1. aTry[u].fails = 0 BY <1>3
  <2> QED BY <1>1, <2>1
<1> QED BY <1>1, <1>2, <1>3

LEMMA SessionsSame ==
    ASSUME SignInInv, UNCHANGED <<aSess, aMade>> PROVE SessionRows' /\ LiveSessionKept
BY DEF SignInInv, SessionRows, LiveSessionKept

LEMMA LoginStep ==
    ASSUME SignInInv, NEW c \in SignInClients, NEW u \in Logins, Login(c, u)
    PROVE  SignInInv' /\ LiveSessionKept /\ FailuresRemembered
<1> DEFINE q == [at |-> "check", user |-> u]
<1>1. /\ aTry' \in [Logins -> [fails : Nat, last : Nat]]
      /\ \A v \in Logins : aTry'[v] = aTry[v] \/ OldTry(v)
  BY DEF Login, SignInInv, NoTry
<1>2. aCall' \in {aCall, [aCall EXCEPT ![c] = q]} BY DEF Login
<1>3. q \in SignInCall /\ q.user \in Logins BY DEF SignInCall
<1> HIDE DEF q
<1>4. /\ aCall' \in [SignInClients -> SignInCall]
      /\ \A d \in SignInClients : aCall'[d].at # "none" => aCall'[d].user \in Logins
  <2>1. CASE aCall' = aCall BY <2>1 DEF SignInInv
  <2>2. CASE aCall' = [aCall EXCEPT ![c] = q] BY <2>2, <1>3, CallMoved
  <2> QED BY <1>2, <2>1, <2>2
<1>5. UNCHANGED <<aUsers, aSess, aNow, aExpiry, aMade>> /\ signIns' = signIns + 1
  BY DEF Login, Requested
<1>6. SignInInv' BY <1>1, <1>4, <1>5, SessionsSame DEF SignInInv
<1> QED BY <1>1, <1>5, <1>6, SessionsSame, NoneForgotten

LEMMA LoginFailsStep ==
    ASSUME SignInInv, NEW c \in SignInClients, LoginFails(c)
    PROVE  SignInInv' /\ LiveSessionKept /\ FailuresRemembered
<1>1. aCall[c].at = "check" /\ UNCHANGED <<aUsers, aSess, aNow, aExpiry, aMade, signIns>>
  BY DEF LoginFails
<1>2. aCall[c].user \in Logins BY <1>1 DEF SignInInv
<1>3. /\ aTry' \in [Logins -> [fails : Nat, last : Nat]]
      /\ \A v \in Tracked : aTry'[v].fails = 0 => OldTry(v)
  BY <1>2, FailureRecorded DEF LoginFails
<1>4. /\ aCall' \in [SignInClients -> SignInCall]
      /\ \A d \in SignInClients : aCall'[d].at # "none" => aCall'[d].user \in Logins
  BY <1>1, At2Moves DEF LoginFails
<1>5. SignInInv' BY <1>1, <1>3, <1>4, SessionsSame DEF SignInInv
<1> QED BY <1>1, <1>3, <1>5, SessionsSame DEF FailuresRemembered

LEMMA LoginSucceedsStep ==
    ASSUME SignInInv, NEW c \in SignInClients, LoginSucceeds(c)
    PROVE  SignInInv' /\ LiveSessionKept /\ FailuresRemembered
<1> DEFINE w == aCall[c].user
           try == [aTry EXCEPT ![w] = NoTry]
<1>1. /\ aCall[c].at = "check" /\ UNCHANGED <<aUsers, aSess, aNow, aExpiry, aMade, signIns>>
      /\ aTry' = pruneAttempts(try)
  BY DEF LoginSucceeds
<1>2. w \in Logins /\ aCall[c] \in SignInCall BY <1>1 DEF SignInInv
<1>3. try \in [Logins -> [fails : Nat, last : Nat]]
      /\ \A v \in Logins : v # w => try[v] = aTry[v]
  BY DEF SignInInv, NoTry
<1> HIDE DEF try
<1>4. /\ aTry' \in [Logins -> [fails : Nat, last : Nat]]
      /\ \A v \in Logins : v # w => aTry'[v] = aTry[v] \/ OldTry(v)
  BY <1>1, <1>3 DEF pruneAttempts, NoTry, OldTry
<1>5. /\ aCall' \in [SignInClients -> SignInCall] /\ aCall'[c].at = "session"
      /\ \A d \in SignInClients : aCall'[d].at # "none" => aCall'[d].user \in Logins
  BY <1>1, At2Moves DEF LoginSucceeds
<1>6. SignInInv' BY <1>1, <1>4, <1>5, SessionsSame DEF SignInInv
<1>7. FailuresRemembered
  <2> SUFFICES ASSUME NEW u \in Tracked, aTry'[u].fails = 0
               PROVE  OldTry(u) \/ (aCall[c] = [at |-> "check", user |-> u]
                                    /\ aCall'[c].at = "session")
    BY DEF FailuresRemembered
  <2>1. u \in Logins /\ aTry[u].fails > 0 BY DEF Tracked
  <2>2. CASE u = w
    <3>1. aCall[c] = [at |-> "check", user |-> u] BY <1>1, <1>2, <2>2 DEF SignInCall
    <3> QED BY <1>5, <3>1
  <2>3. CASE u # w
    <3>1. aTry'[u] # aTry[u]
      <4> SUFFICES ASSUME aTry'[u] = aTry[u] PROVE FALSE OBVIOUS
      <4>1. aTry[u].fails = 0 OBVIOUS
      <4> QED BY <2>1, <4>1
    <3> QED BY <1>4, <2>1, <2>3, <3>1
  <2> QED BY <2>2, <2>3
<1> QED BY <1>1, <1>6, <1>7, SessionsSame

LEMMA OIDCCallbackStep ==
    ASSUME SignInInv, NEW c \in SignInClients, NEW u \in Logins, OIDCCallback(c, u)
    PROVE  SignInInv' /\ LiveSessionKept /\ FailuresRemembered
<1> DEFINE q == [at |-> "session", user |-> u]
<1>1. /\ UNCHANGED <<aTry, aSess, aNow, aExpiry, aMade>> /\ signIns' = signIns + 1
      /\ aCall' = [aCall EXCEPT ![c] = q]
  BY DEF OIDCCallback, Requested
<1>2. q \in SignInCall /\ q.user \in Logins BY DEF SignInCall
<1> HIDE DEF q
<1>3. /\ aCall' \in [SignInClients -> SignInCall]
      /\ \A d \in SignInClients : aCall'[d].at # "none" => aCall'[d].user \in Logins
  BY <1>1, <1>2, CallMoved
<1>4. SignInInv' BY <1>1, <1>3, SessionsSame DEF SignInInv
<1> QED BY <1>1, <1>4, SessionsSame, NoneForgotten

LEMMA CreateSessionStep ==
    ASSUME SignInInv, NEW c \in SignInClients, CreateSession(c)
    PROVE  SignInInv' /\ LiveSessionKept /\ FailuresRemembered
<1>1. aCall[c].at = "session" /\ UNCHANGED <<aUsers, aTry, aNow, aExpiry, signIns>>
  BY DEF CreateSession
<1>2. aCall[c].user \in Logins BY <1>1 DEF SignInInv
<1>3. SessionRows' /\ LiveSessionKept /\ aMade' = aMade + 1
  BY <1>1, <1>2, SessionMade DEF CreateSession
<1>4. /\ aCall' \in [SignInClients -> SignInCall]
      /\ \A d \in SignInClients : aCall'[d].at # "none" => aCall'[d].user \in Logins
  BY <1>1, At2Moves DEF CreateSession
<1>5. SignInInv' BY <1>1, <1>3, <1>4 DEF SignInInv
<1> QED BY <1>1, <1>3, <1>5, NoneForgotten

LEMMA LogoutStep ==
    ASSUME SignInInv, NEW s \in aSess, Logout(s)
    PROVE  SignInInv' /\ LiveSessionKept /\ FailuresRemembered
<1>1. /\ aSess' = aSess \ {s} /\ UNCHANGED <<aUsers, aTry, aCall, aNow, aExpiry, aMade>>
      /\ signIns' = signIns + 1
  BY DEF Logout, Requested
<1>2. SessionRows'
  <2>1. aSess' \in SUBSET aSess BY <1>1
  <2>2. IsFiniteSet(aSess') BY <2>1, FS_Subset DEF SignInInv, SessionRows
  <2> QED BY <1>1, <2>1, <2>2 DEF SignInInv, SessionRows
<1>3. LiveSessionKept
  <2> SUFFICES ASSUME NEW t \in aSess, t \notin aSess' PROVE aSess' = aSess \ {t}
    BY DEF LiveSessionKept
  <2> QED BY <1>1
<1>4. SignInInv' BY <1>1, <1>2 DEF SignInInv
<1> QED BY <1>1, <1>3, <1>4, NoneForgotten

LEMMA RestartSignInStep ==
    ASSUME SignInInv, RestartSignIn
    PROVE  SignInInv' /\ LiveSessionKept /\ FailuresRemembered
<1>1. /\ UNCHANGED <<aSess, aNow, aMade>> /\ signIns' = signIns + 1
      /\ aTry' \in [Logins -> [fails : Nat, last : Nat]] /\ aExpiry' \in CookieExpiries
      /\ aCall' = [c \in SignInClients |-> NoCall]
  BY DEF RestartSignIn, Requested, NoTry
<1>2. \A c \in SignInClients : aCall'[c] = NoCall BY <1>1
<1>3. aCall' \in [SignInClients -> SignInCall] BY <1>1, CallShapes
<1>4. SignInInv' BY <1>1, <1>2, <1>3, CallShapes, SessionsSame DEF SignInInv
<1>5. FailuresRemembered BY <1>1, <1>2 DEF FailuresRemembered
<1> QED BY <1>1, <1>4, <1>5, SessionsSame

LEMMA SignInTickStep ==
    ASSUME SignInInv, SignInTick PROVE SignInInv' /\ LiveSessionKept /\ FailuresRemembered
<1>1. UNCHANGED <<aUsers, aTry, aSess, aCall, aExpiry, aMade, signIns>> /\ aNow' = aNow + 1
  BY DEF SignInTick
<1>2. SignInInv' BY <1>1, SessionsSame DEF SignInInv
<1> QED BY <1>1, <1>2, SessionsSame, NoneForgotten

LEMMA SignInStep ==
    ASSUME SignInInv, SignInNext PROVE SignInInv' /\ LiveSessionKept /\ FailuresRemembered
BY SignInTickStep, RestartSignInStep, LoginStep, OIDCCallbackStep, LoginFailsStep,
   LoginSucceedsStep, CreateSessionStep, LogoutStep DEF SignInNext

(* A session that still holds goes only by its own logout or for the full  *)
(* number of newer sessions of its user (the session store, NewSession),   *)
(* for any cap, number of users and sessions; and the failures of a name   *)
(* are forgotten only with its own correct password, its time or the       *)
(* process, whatever the other names do to the table (throttle.go).        *)
THEOREM SignInIsFair == SignInSpec => SignInFair
<1>1. SignInInit => SignInInv
  BY CallShapes, FS_EmptySet DEF SignInInit, SignInInv, SessionRows, NoTry
<1>2. SignInInv /\ [SignInNext]_signInVars => SignInInv'
  <2> SUFFICES ASSUME SignInInv, [SignInNext]_signInVars PROVE SignInInv' OBVIOUS
  <2>1. CASE SignInNext BY <2>1, SignInStep
  <2>2. CASE UNCHANGED signInVars BY <2>2 DEF signInVars, SignInInv, SessionRows
  <2> QED BY <2>1, <2>2
<1> DEFINE A == LiveSessionKept /\ FailuresRemembered
<1>3. SignInInv /\ [SignInNext]_signInVars => [A]_signInVars BY SignInStep
<1>4. SignInFair <=> [][A]_signInVars BY DEF SignInFair
<1> QED BY <1>1, <1>2, <1>3, <1>4, PTL DEF SignInSpec

-----------------------------------------------------------------------------
(* Every row and every failure was paid for by a request, and a request    *)
(* under way has yet to cost one.                                          *)
CallsPending == {c \in SignInClients : aCall[c].at # "none"}

SignInBounds ==
    /\ aUsers \subseteq Logins /\ aNow <= MaxSignInTime /\ signIns <= MaxSignIns
    /\ IsFiniteSet(CallsPending) /\ aMade + Cardinality(CallsPending) <= signIns
    /\ \A u \in Logins : /\ aTry[u].fails + Cardinality(CallsPending) <= signIns
                         /\ aTry[u].last <= aNow
    /\ \A s \in aSess : s.id # 0

LEMMA PendingGrows ==
    ASSUME SignInInv, SignInBounds, NEW c \in SignInClients, NEW q,
           q.at # "none", aCall[c].at = "none", aCall' = [aCall EXCEPT ![c] = q]
    PROVE  IsFiniteSet(CallsPending') /\ Cardinality(CallsPending') = Cardinality(CallsPending) + 1
<1>1. CallsPending' = CallsPending \cup {c} /\ c \notin CallsPending BY DEF CallsPending, SignInInv
<1> QED BY <1>1, FS_AddElement DEF SignInBounds

LEMMA PendingShrinks ==
    ASSUME SignInInv, SignInBounds, NEW c \in SignInClients, aCall[c].at # "none", At2(c, "none")
    PROVE  IsFiniteSet(CallsPending') /\ Cardinality(CallsPending') = Cardinality(CallsPending) - 1
<1>1. aCall'[c].at = "none" /\ aCall' \in [SignInClients -> SignInCall] BY At2Moves
<1>2. \A d \in SignInClients : d # c => aCall'[d] = aCall[d] BY DEF At2, SignInInv
<1>3. CallsPending' = CallsPending \ {c} /\ c \in CallsPending BY <1>1, <1>2 DEF CallsPending
<1> QED BY <1>3, FS_RemoveElement DEF SignInBounds

(* The table after a failure: one entry more of the name, or a first one.  *)
LEMMA FailureBounded ==
    ASSUME SignInInv, SignInBounds, NEW u \in Logins, NEW v \in Logins
    PROVE  /\ recordFailure(u)[v].fails <= aTry[v].fails + 1 \/ recordFailure(u)[v].fails = 1
           /\ recordFailure(u)[v].last <= aNow
<1> DEFINE full == u \notin Tracked /\ Cardinality(Tracked) >= MaxTracked
           try == IF full THEN pruneAttempts(aTry) ELSE aTry
           new == [fails |-> IF OldTry(u) THEN 1 ELSE try[u].fails + 1, last |-> aNow]
<1>1. aTry \in [Logins -> [fails : Nat, last : Nat]] /\ aNow \in Nat BY DEF SignInInv
<1>2. \A w \in Logins : pruneAttempts(aTry)[w] \in {aTry[w], NoTry} BY DEF pruneAttempts
<1>3. \A w \in Logins : try[w] \in {aTry[w], NoTry} BY <1>2
<1>4. DOMAIN try = Logins BY <1>1 DEF pruneAttempts
<1> HIDE DEF try
<1>5. /\ new.fails = 1 \/ new.fails = try[u].fails + 1
      /\ new.last = aNow
  OBVIOUS
<1>6. recordFailure(u) \in {try, [try EXCEPT ![u] = new]} BY DEF recordFailure, try
<1> HIDE DEF new
<1>7. recordFailure(u)[v] = try[v] \/ (v = u /\ recordFailure(u)[v] = new) BY <1>4, <1>6
<1>8. /\ try[v].fails \in Nat /\ try[v].fails <= aTry[v].fails /\ try[v].last <= aNow
      /\ aTry[v].fails \in Nat
  <2>1. NoTry.fails = 0 /\ NoTry.last = 0 BY DEF NoTry
  <2>2. aTry[v].fails \in Nat /\ aTry[v].last <= aNow BY <1>1 DEF SignInBounds
  <2> QED BY <1>1, <1>3, <2>1, <2>2
<1> QED BY <1>1, <1>5, <1>7, <1>8

LEMMA BoundsStep == ASSUME SignInInv, SignInBounds, [SignInNext]_signInVars PROVE SignInBounds'
<1> DEFINE P == Cardinality(CallsPending)
<1>0. /\ aTry \in [Logins -> [fails : Nat, last : Nat]] /\ aNow \in Nat /\ aMade \in Nat
      /\ signIns \in Nat /\ P \in Nat /\ MaxSignIns \in Nat /\ MaxSignInTime \in Nat
      /\ NoTry.fails = 0 /\ NoTry.last = 0 /\ aCall \in [SignInClients -> SignInCall]
  BY FS_CardinalityType, SignInAssumption DEF SignInInv, SignInBounds, NoTry
<1>1. CASE SignInTick
  <2>1. UNCHANGED <<aUsers, aTry, aSess, aCall, aMade, signIns>> /\ aNow' = aNow + 1
        /\ aNow < MaxSignInTime
    BY <1>1 DEF SignInTick
  <2> QED BY <1>0, <2>1 DEF SignInBounds, CallsPending
<1>2. CASE RestartSignIn
  <2>1. /\ aTry' = [u \in Logins |-> NoTry] /\ aCall' = [c \in SignInClients |-> NoCall]
        /\ aUsers' = aUsers \cup Accounts /\ UNCHANGED <<aSess, aNow, aMade>>
        /\ signIns < MaxSignIns /\ signIns' = signIns + 1
    BY <1>2 DEF RestartSignIn, Requested
  <2>2. CallsPending' = {} BY <2>1, CallShapes DEF CallsPending
  <2>3. IsFiniteSet(CallsPending') /\ Cardinality(CallsPending') = 0 BY <2>2, FS_EmptySet
  <2> HIDE DEF P
  <2>4. aMade <= signIns
    <3>1. P \in Nat /\ aMade + P <= signIns BY <1>0 DEF SignInBounds, P
    <3> QED BY <1>0, <3>1
  <2> QED BY <1>0, <2>1, <2>3, <2>4, DelayNonEmpty DEF SignInBounds
<1>3. ASSUME NEW c \in SignInClients, NEW u \in Logins, Login(c, u) PROVE SignInBounds'
  <2>1. /\ UNCHANGED <<aUsers, aSess, aNow, aMade>> /\ signIns < MaxSignIns /\ signIns' = signIns + 1
        /\ aTry' \in {aTry, [aTry EXCEPT ![u] = NoTry]} /\ aCall[c].at = "none"
        /\ aCall' = aCall \/ aCall' = [aCall EXCEPT ![c] = [at |-> "check", user |-> u]]
    BY <1>3 DEF Login, Requested
  <2>2. \A v \in Logins : aTry'[v].fails <= aTry[v].fails /\ aTry'[v].last <= aNow
                          /\ aTry'[v].fails \in Nat
    BY <1>0, <2>1 DEF SignInBounds
  <2>3. IsFiniteSet(CallsPending') /\ (Cardinality(CallsPending') = P \/ Cardinality(CallsPending') = P + 1)
    <3>1. CASE aCall' = aCall BY <3>1 DEF CallsPending, SignInBounds
    <3>2. CASE aCall' = [aCall EXCEPT ![c] = [at |-> "check", user |-> u]]
      BY <2>1, <3>2, PendingGrows
    <3> QED BY <2>1, <3>1, <3>2
  <2> QED BY <1>0, <2>1, <2>2, <2>3 DEF SignInBounds
<1>4. ASSUME NEW c \in SignInClients, NEW u \in Logins, OIDCCallback(c, u) PROVE SignInBounds'
  <2>1. /\ UNCHANGED <<aTry, aSess, aNow, aMade>> /\ signIns < MaxSignIns /\ signIns' = signIns + 1
        /\ aUsers' = aUsers \cup {u} /\ aCall[c].at = "none"
        /\ aCall' = [aCall EXCEPT ![c] = [at |-> "session", user |-> u]]
    BY <1>4 DEF OIDCCallback, Requested
  <2>2. IsFiniteSet(CallsPending') /\ Cardinality(CallsPending') = P + 1 BY <2>1, PendingGrows
  <2> QED BY <1>0, <2>1, <2>2 DEF SignInBounds
<1>5. ASSUME NEW c \in SignInClients, LoginFails(c) PROVE SignInBounds'
  <2>1. /\ UNCHANGED <<aUsers, aSess, aNow, aMade, signIns>> /\ aCall[c].at = "check"
        /\ At2(c, "none") /\ aTry' = recordFailure(aCall[c].user) /\ aCall[c].user \in Logins
    BY <1>5 DEF LoginFails, SignInInv
  <2>2. IsFiniteSet(CallsPending') /\ Cardinality(CallsPending') = P - 1 BY <2>1, PendingShrinks
  <2>3. Cardinality(CallsPending') \in Nat BY <2>2, FS_CardinalityType
  <2>4. \A v \in Logins : /\ aTry'[v].fails <= aTry[v].fails + 1 \/ aTry'[v].fails = 1
                          /\ aTry'[v].last <= aNow /\ aTry'[v].fails \in Nat
    BY <2>1, FailureBounded, FailureRecorded
  <2> QED BY <1>0, <2>1, <2>2, <2>3, <2>4 DEF SignInBounds
<1>6. ASSUME NEW c \in SignInClients, LoginSucceeds(c) PROVE SignInBounds'
  <2>1. /\ UNCHANGED <<aUsers, aSess, aNow, aMade, signIns>> /\ aCall[c].at = "check"
        /\ At2(c, "session") /\ aTry' = pruneAttempts([aTry EXCEPT ![aCall[c].user] = NoTry])
    BY <1>6 DEF LoginSucceeds
  <2>2. \A v \in Logins : aTry'[v] \in {aTry[v], NoTry} BY <1>0, <2>1 DEF pruneAttempts
  <2>3. aCall'[c].at = "session" BY <2>1, At2Moves
  <2>4. \A d \in SignInClients : d # c => aCall'[d] = aCall[d] BY <1>0, <2>1 DEF At2
  <2>5. CallsPending' = CallsPending BY <2>1, <2>3, <2>4 DEF CallsPending
  <2>6. \A v \in Logins : aTry'[v].fails <= aTry[v].fails /\ aTry'[v].last <= aNow
                          /\ aTry'[v].fails \in Nat
    BY <1>0, <2>2 DEF SignInBounds
  <2>7. IsFiniteSet(CallsPending') /\ Cardinality(CallsPending') = P BY <2>5 DEF SignInBounds
  <2>8. \A v \in Logins : aTry[v].fails \in Nat /\ aTry[v].fails + P <= signIns
    BY <1>0 DEF SignInBounds
  <2> HIDE DEF P
  <2>9. \A v \in Logins : aTry'[v].fails + P <= signIns BY <1>0, <2>6, <2>8
  <2>10. aMade + P <= signIns BY DEF SignInBounds, P
  <2> QED BY <1>0, <2>1, <2>6, <2>7, <2>9, <2>10 DEF SignInBounds
<1>7. ASSUME NEW c \in SignInClients, CreateSession(c) PROVE SignInBounds'
  <2>1. /\ UNCHANGED <<aUsers, aTry, aNow, signIns>> /\ aCall[c].at = "session"
        /\ At2(c, "none") /\ aMade' = aMade + 1 /\ aSess' = NewSession(aCall[c].user)
    BY <1>7 DEF CreateSession
  <2>2. IsFiniteSet(CallsPending') /\ Cardinality(CallsPending') = P - 1 BY <2>1, PendingShrinks
  <2>3. \A s \in aSess' : s \in aSess \/ s.id = aMade + 1 BY <2>1 DEF NewSession
  <2>4. \A s \in aSess' : s.id # 0 BY <1>0, <2>3 DEF SignInBounds
  <2>5. \A v \in Logins : aTry[v].fails \in Nat BY <1>0
  <2> QED BY <1>0, <2>1, <2>2, <2>4, <2>5 DEF SignInBounds
<1>8. ASSUME NEW s \in aSess, Logout(s) PROVE SignInBounds'
  <2>1. /\ UNCHANGED <<aUsers, aTry, aCall, aNow, aMade>> /\ aSess' \subseteq aSess
        /\ signIns < MaxSignIns /\ signIns' = signIns + 1
    BY <1>8 DEF Logout, Requested
  <2>2. CallsPending' = CallsPending BY <2>1 DEF CallsPending
  <2> QED BY <1>0, <2>1, <2>2 DEF SignInBounds
<1>9. CASE UNCHANGED signInVars BY <1>9 DEF signInVars, SignInBounds, CallsPending
<1> QED BY <1>1, <1>2, <1>3, <1>4, <1>5, <1>6, <1>7, <1>8, <1>9 DEF SignInNext

(* The rows, the failures and the clock keep their bounds; every row was   *)
(* paid for by a request (auth/service.go, throttle.go).                   *)
THEOREM SignInTyped == SignInSpec => []SignInTypeOK
<1>1. SignInInit => SignInInv
  BY CallShapes, FS_EmptySet DEF SignInInit, SignInInv, SessionRows, NoTry
<1>2. SignInInv /\ [SignInNext]_signInVars => SignInInv'
  <2> SUFFICES ASSUME SignInInv, [SignInNext]_signInVars PROVE SignInInv' OBVIOUS
  <2>1. CASE SignInNext BY <2>1, SignInStep
  <2>2. CASE UNCHANGED signInVars BY <2>2 DEF signInVars, SignInInv, SessionRows
  <2> QED BY <2>1, <2>2
<1>3. SignInInit => SignInBounds
  <2> SUFFICES ASSUME SignInInit PROVE SignInBounds OBVIOUS
  <2>1. CallsPending = {} BY CallShapes DEF SignInInit, CallsPending
  <2>2. IsFiniteSet(CallsPending) /\ Cardinality(CallsPending) = 0 BY <2>1, FS_EmptySet
  <2>3. \A u \in Logins : aTry[u].fails = 0 /\ aTry[u].last = 0 BY DEF SignInInit, NoTry
  <2>4. MaxSignInTime \in Nat /\ MaxSignIns \in Nat BY SignInAssumption
  <2>5. aUsers \subseteq Logins /\ aSess = {} /\ aNow = 0 /\ aMade = 0 /\ signIns = 0
    BY DelayNonEmpty DEF SignInInit
  <2> QED BY <2>2, <2>3, <2>4, <2>5 DEF SignInBounds
<1>4. SignInInv /\ SignInBounds => SignInTypeOK
  <2> SUFFICES ASSUME SignInInv, SignInBounds PROVE SignInTypeOK OBVIOUS
  <2> DEFINE P == Cardinality(CallsPending)
             F == 0..MaxSignIns
             T == 0..MaxSignInTime
  <2>1. P \in Nat /\ MaxSignIns \in Nat /\ MaxSignInTime \in Nat
    BY FS_CardinalityType, SignInAssumption DEF SignInBounds
  <2>2. /\ aMade + P <= signIns /\ signIns <= MaxSignIns /\ aNow <= MaxSignInTime
        /\ \A u \in Logins : aTry[u].fails + P <= signIns /\ aTry[u].last <= aNow
    BY DEF SignInBounds
  <2>3. aNow \in Nat /\ aMade \in Nat /\ signIns \in Nat /\ aTry \in [Logins -> [fails : Nat, last : Nat]]
    BY DEF SignInInv
  <2> HIDE DEF P
  <2>4. aNow \in T /\ aMade \in F BY <2>1, <2>2, <2>3
  <2>5. \A u \in Logins : aTry[u].fails \in F /\ aTry[u].last \in T BY <2>1, <2>2, <2>3
  <2> HIDE DEF F, T
  <2>6. \A u \in Logins : aTry[u] \in [fails : F, last : T] BY <2>3, <2>5
  <2>7. aTry \in [Logins -> [fails : F, last : T]] BY <2>3, <2>6
  <2>8. \A s \in aSess : s.id \in 1..aMade /\ s.user \in Logins /\ s.expires \in Nat
    BY <2>3 DEF SignInInv, SessionRows, SessionRow, SignInBounds
  <2>9. aUsers \subseteq Logins /\ aExpiry \in CookieExpiries BY DEF SignInBounds, SignInInv
  <2> QED BY <2>4, <2>7, <2>8, <2>9 DEF SignInTypeOK, F, T
<1> QED BY <1>1, <1>2, <1>3, <1>4, BoundsStep, PTL DEF SignInSpec

-----------------------------------------------------------------------------
(***************************************************************************)
(* Proofs about Notifications: for every set of channels and findings and  *)
(* any number of requests, scans and stops, a fingerprint that keeps a     *)
(* finding from being announced stands for a message that has reached the  *)
(* destination, and the former SMTP row becomes one channel at most.       *)
(*                                                                         *)
(* NotifiedOnce is not inductive.  The fingerprints a scan carries from    *)
(* loadChannelState to saveChannelState must have been told as well,       *)
(* whatever is saved meanwhile (ScanTold), and a migrated channel must be  *)
(* one that SupersededLegacy finds (LegacySmtp, MovedFound).  The number   *)
(* of deliveries plays no part, so the channels may be infinitely many.    *)
(***************************************************************************)

ChannelRows == [there : BOOLEAN, smtp : BOOLEAN, on : BOOLEAN, events : SUBSET EventKinds,
         moved : BOOLEAN]
Fingerprints == [av : Findings \cup {0}, er : Findings \cup {0}]
ScanShapes == [at : {"none", "load", "send", "save"}, left : SUBSET Destinations,
          rows : [Destinations -> ChannelRows], av : Findings \cup {0}, er : Findings \cup {0},
          k : Destinations, st : Fingerprints]

NotifyShape ==
    /\ nRow \in [Destinations -> ChannelRows]
    /\ nState \in [Destinations -> Fingerprints]
    /\ DOMAIN nTold = Destinations
    /\ nScan \in ScanShapes
    /\ nBoot \in {"migrate", "delete", "up"}

(* The destination has received what the fingerprints f stand for.         *)
Received(k, f) ==
    /\ f.av # 0 => <<"av", f.av>> \in nTold[k]
    /\ f.er # 0 => <<"er", f.er>> \in nTold[k]

StateTold == \A k \in Destinations : Received(k, nState[k])

(* What a scan has read, or is about to save, has been told too.           *)
ScanTold == nScan.at \in {"send", "save"} => Received(nScan.k, nScan.st)

LegacySmtp == nRow[0].there => nRow[0].smtp

(* A migrated channel is one the migration finds when it starts over.      *)
MovedFound == \A k \in ChannelIds : nRow[k].moved => nRow[k].there /\ nRow[k].smtp

MovedOnce == \A i, j \in ChannelIds : nRow[i].moved /\ nRow[j].moved => i = j

NotifyInv == NotifyShape /\ StateTold /\ ScanTold /\ LegacySmtp /\ MovedFound /\ MovedOnce
-----------------------------------------------------------------------------
LEMMA WebhookApart == 0 \notin ChannelIds /\ 0 \in Destinations /\ ChannelIds \subseteq Destinations
  BY NotificationsAssumption DEF Destinations

LEMMA Empties ==
    /\ NoChannelRow \in ChannelRows /\ ~NoChannelRow.moved /\ ~NoChannelRow.there
    /\ Forgotten \in Fingerprints /\ Forgotten.av = 0 /\ Forgotten.er = 0
    /\ NoScan \in ScanShapes /\ NoScan.at = "none"
  BY WebhookApart DEF NoChannelRow, Forgotten, NoScan, ChannelRows, Fingerprints, ScanShapes

(* The next destination of a scan is one of those it has left.             *)
LEMMA NextDestination ==
    ASSUME NEW L \in SUBSET Destinations, L # {}
    PROVE  (CHOOSE x \in L : \A y \in L : x <= y) \in L
<1>1. L \subseteq Nat
  BY NotificationsAssumption DEF Destinations
<1> DEFINE R == {ss \in Nat \X Nat : ss[1] < ss[2]}
<1>2. IsWellFoundedOn(R, Nat)
  BY NatLessThanWellFounded, Zenon DEF OpToRel
<1> HIDE DEF R
<1>3. PICK x \in L : \A y \in L : ~(<<y, x>> \in R)
  BY <1>1, <1>2, WFMin
<1>4. \A y \in L : ~(y < x)
  BY <1>1, <1>3 DEF R
<1>5. \A y \in L : x <= y
  BY <1>1, <1>4
<1> QED
  BY <1>5

(* Saving or removing a row forgets its fingerprints: what is left has     *)
(* been told.                                                              *)
LEMMA RowPut ==
    ASSUME NotifyInv, NEW k \in Destinations, NEW r \in ChannelRows, PutRow(k, r),
           UNCHANGED <<nTold, nScan>>, nBoot' \in {"migrate", "delete", "up"},
           k = 0 => (r.there => r.smtp),
           r.moved => r.there /\ r.smtp /\ \A i \in ChannelIds : ~nRow[i].moved
    PROVE  NotifyInv'
<1>1. /\ nRow' = [nRow EXCEPT ![k] = r]
      /\ nState' = [nState EXCEPT ![k] = Forgotten]
  BY DEF PutRow
<1>2. NotifyShape'
  BY <1>1, Empties DEF NotifyInv, NotifyShape
<1>3. StateTold'
  BY <1>1, Empties DEF NotifyInv, NotifyShape, StateTold, Received
<1>4. ScanTold'
  BY DEF NotifyInv, ScanTold, Received
<1>5. LegacySmtp' /\ MovedFound' /\ MovedOnce'
  BY <1>1, WebhookApart DEF NotifyInv, NotifyShape, LegacySmtp, MovedFound, MovedOnce
<1> QED
  BY <1>2, <1>3, <1>4, <1>5 DEF NotifyInv

(* What an operator does to a row.                                         *)
LEMMA RequestsKeep ==
    ASSUME NotifyInv,
           \/ \E u, e \in BOOLEAN : Save(u, e)
           \/ \E k \in ChannelIds, smtp, on \in BOOLEAN,
                 ev \in {{"available"}, {"failure"}, EventKinds} : SaveChannel(k, smtp, on, ev)
           \/ \E k \in ChannelIds : DeleteChannel(k)
    PROVE  NotifyInv'
<1>0. nBoot \in {"migrate", "delete", "up"}
  BY DEF NotifyInv, NotifyShape
<1>1. ASSUME NEW u \in BOOLEAN, NEW e \in BOOLEAN, Save(u, e) PROVE NotifyInv'
  <2> DEFINE r == [there |-> TRUE, smtp |-> TRUE, on |-> TRUE, moved |-> FALSE,
                   events |-> normalizeEventTypes(u, e)]
  <2>1. r \in ChannelRows /\ r.smtp /\ ~r.moved
    BY DEF ChannelRows, normalizeEventTypes, EventKinds
  <2>2. PutRow(0, r) /\ UNCHANGED <<nTold, nScan, nBoot>>
    BY <1>1 DEF Save
  <2> HIDE DEF r
  <2> QED
    BY <1>0, <2>1, <2>2, RowPut, WebhookApart
<1>2. ASSUME NEW k \in ChannelIds, NEW smtp \in BOOLEAN, NEW on \in BOOLEAN,
             NEW ev \in {{"available"}, {"failure"}, EventKinds}, SaveChannel(k, smtp, on, ev)
      PROVE NotifyInv'
  <2> DEFINE r == [there |-> TRUE, smtp |-> smtp, on |-> on, events |-> ev, moved |-> FALSE]
  <2>1. r \in ChannelRows /\ ~r.moved
    BY DEF ChannelRows, EventKinds
  <2>2. PutRow(k, r) /\ UNCHANGED <<nTold, nScan, nBoot>>
    BY <1>2 DEF SaveChannel
  <2> HIDE DEF r
  <2> QED
    BY <1>0, <2>1, <2>2, RowPut, WebhookApart
<1>3. ASSUME NEW k \in ChannelIds, DeleteChannel(k) PROVE NotifyInv'
  <2>1. PutRow(k, NoChannelRow) /\ UNCHANGED <<nTold, nScan, nBoot>>
    BY <1>3 DEF DeleteChannel
  <2> QED
    BY <1>0, <2>1, RowPut, WebhookApart, Empties
<1> QED
  BY <1>1, <1>2, <1>3

(* The migration, stopped anywhere and started over.                       *)
LEMMA MigrationKeeps ==
    ASSUME NotifyInv, MigrateLegacySMTPConfigs
    PROVE  NotifyInv'
<1>0. UNCHANGED <<nTold, nScan>>
  BY DEF MigrateLegacySMTPConfigs
<1>1. ASSUME NEW k \in ChannelIds, nRow[0].there, ~SupersededLegacy,
             PutRow(k, [nRow[0] EXCEPT !.moved = TRUE]), nBoot' = "delete"
      PROVE  NotifyInv'
  <2> DEFINE r == [nRow[0] EXCEPT !.moved = TRUE]
  <2>1. r \in ChannelRows /\ r.there /\ r.smtp
    BY <1>1, WebhookApart DEF NotifyInv, NotifyShape, ChannelRows, LegacySmtp
  <2>2. \A i \in ChannelIds : ~nRow[i].moved
    BY <1>1 DEF NotifyInv, MovedFound, SupersededLegacy
  <2>3. PutRow(k, r)
    BY <1>1
  <2> HIDE DEF r
  <2> QED
    BY <1>0, <1>1, <2>1, <2>2, <2>3, RowPut, WebhookApart
<1>2. ASSUME nRow' = [nRow EXCEPT ![0] = NoChannelRow], nBoot' = "up", UNCHANGED nState
      PROVE  NotifyInv'
  <2>1. NotifyShape'
    BY <1>0, <1>2, Empties DEF NotifyInv, NotifyShape
  <2>2. StateTold' /\ ScanTold'
    BY <1>0, <1>2 DEF NotifyInv, StateTold, ScanTold, Received
  <2>3. LegacySmtp' /\ MovedFound' /\ MovedOnce'
    BY <1>2, WebhookApart, Empties DEF NotifyInv, NotifyShape, LegacySmtp, MovedFound, MovedOnce
  <2> QED
    BY <2>1, <2>2, <2>3 DEF NotifyInv
<1>3. ASSUME nBoot' = "up", UNCHANGED <<nRow, nState>>
      PROVE  NotifyInv'
  BY <1>0, <1>3 DEF NotifyInv, NotifyShape, StateTold, ScanTold, Received, LegacySmtp,
                    MovedFound, MovedOnce
<1> QED
  BY <1>1, <1>2, <1>3 DEF MigrateLegacySMTPConfigs
-----------------------------------------------------------------------------
(* A step of a scan leaves the rows alone.                                 *)
LEMMA ScanStep ==
    ASSUME NotifyInv, UNCHANGED <<nRow, nBoot>>,
           nState' \in [Destinations -> Fingerprints], DOMAIN nTold' = Destinations,
           nScan' \in ScanShapes, StateTold', ScanTold'
    PROVE  NotifyInv'
  BY DEF NotifyInv, NotifyShape, LegacySmtp, MovedFound, MovedOnce

LEMMA NotifyScanKeeps ==
    ASSUME NotifyInv, NEW av \in Findings \cup {0}, NEW er \in Findings \cup {0},
           NotifyScan(av, er)
    PROVE  NotifyInv'
<1>1. nScan' = [NoScan EXCEPT !.at = "load", !.left = enabledDestinations, !.rows = nRow,
                              !.av = av, !.er = er]
  BY DEF NotifyScan
<1>2. nScan' \in ScanShapes /\ nScan'.at = "load"
  BY <1>1, Empties, ZenonT(60) DEF NotifyInv, NotifyShape, ScanShapes, enabledDestinations, NoScan
<1> QED
  BY <1>2, ScanStep DEF NotifyScan, NotifyInv, NotifyShape, StateTold, ScanTold, Received

LEMMA LoadKeeps ==
    ASSUME NotifyInv, loadChannelState
    PROVE  NotifyInv'
<1>0. /\ nScan \in ScanShapes /\ nState \in [Destinations -> Fingerprints]
      /\ UNCHANGED <<nRow, nState, nTold, nBoot>>
  BY DEF NotifyInv, NotifyShape, loadChannelState
<1>1. CASE nScan.left = {}
  <2>1. nScan' = NoScan
    BY <1>1 DEF loadChannelState
  <2> QED
    BY <1>0, <2>1, Empties, ScanStep DEF NotifyInv, NotifyShape, StateTold, ScanTold, Received
<1>2. CASE nScan.left # {}
  <2> DEFINE k == CHOOSE x \in nScan.left : \A y \in nScan.left : x <= y
  <2>1. nScan' = [nScan EXCEPT !.at = "send", !.left = @ \ {k}, !.k = k, !.st = nState[k]]
    BY <1>2 DEF loadChannelState
  <2>2. nScan.left \in SUBSET Destinations
    BY <1>0 DEF ScanShapes
  <2>3. k \in Destinations
    BY <1>2, <2>2, NextDestination
  <2> HIDE DEF k
  <2>4. nScan' \in ScanShapes /\ nScan'.k = k /\ nScan'.st = nState[k]
    BY <1>0, <2>1, <2>3 DEF ScanShapes
  <2>5. ScanTold'
    BY <1>0, <2>3, <2>4 DEF NotifyInv, StateTold, ScanTold, Received
  <2> QED
    BY <1>0, <2>4, <2>5, ScanStep DEF NotifyInv, NotifyShape, StateTold, Received
<1> QED
  BY <1>1, <1>2

LEMMA RowResetKeeps ==
    ASSUME NotifyInv, resetResolvedChannelFingerprints
    PROVE  NotifyInv'
<1> DEFINE k == nScan.k
           f == [av |-> IF nScan.av = 0 THEN 0 ELSE nState[k].av,
                 er |-> IF nScan.er = 0 THEN 0 ELSE nState[k].er]
<1>0. /\ nScan \in ScanShapes /\ k \in Destinations /\ nState \in [Destinations -> Fingerprints]
      /\ UNCHANGED <<nRow, nTold, nBoot>> /\ nScan' = [nScan EXCEPT !.at = "load"]
  BY DEF NotifyInv, NotifyShape, ScanShapes, resetResolvedChannelFingerprints
<1>1. nState' = [nState EXCEPT ![k] = f]
  BY <1>0 DEF resetResolvedChannelFingerprints
<1>2. nScan' \in ScanShapes /\ nScan'.at = "load"
  BY <1>0 DEF ScanShapes
<1>3. f \in Fingerprints
  BY <1>0 DEF Fingerprints
<1>4. Received(k, f)
  BY <1>0 DEF NotifyInv, StateTold, Received
<1> HIDE DEF f, k
<1>5. StateTold'
  BY <1>0, <1>1, <1>4 DEF NotifyInv, StateTold, Received
<1> QED
  BY <1>0, <1>1, <1>2, <1>3, <1>5, ScanStep DEF NotifyInv, NotifyShape, ScanTold

(* A fingerprint is noted only for what the destination has received.      *)
LEMMA SendKeeps ==
    ASSUME NotifyInv, send
    PROVE  NotifyInv'
<1>0. /\ nScan \in ScanShapes /\ nScan.k \in Destinations /\ nScan.st \in Fingerprints
      /\ nScan.at = "send"
      /\ nState \in [Destinations -> Fingerprints] /\ DOMAIN nTold = Destinations
      /\ UNCHANGED <<nRow, nState, nBoot>>
  BY DEF NotifyInv, NotifyShape, ScanShapes, send
<1>1. PICK reached \in BOOLEAN, sent \in BOOLEAN :
         /\ NetworkSend(reached, sent)
         /\ nScan' = [nScan EXCEPT !.at = "save", !.st = Noted(sent)]
         /\ nTold' = IF ~reached THEN nTold
                     ELSE [nTold EXCEPT ![nScan.k] = @ \cup
                             (IF notifyAvailable THEN {<<"av", nScan.av>>} ELSE {}) \cup
                             (IF notifyErrors THEN {<<"er", nScan.er>>} ELSE {})]
  BY DEF send
<1>2. DOMAIN nTold' = Destinations /\ \A k \in Destinations : nTold[k] \subseteq nTold'[k]
  BY <1>0, <1>1
<1>3. Noted(sent) \in Fingerprints
  BY <1>0 DEF Noted, Fingerprints, ScanShapes
<1>4. nScan' \in ScanShapes /\ nScan'.k = nScan.k /\ nScan'.st = Noted(sent)
  BY <1>0, <1>1, <1>3 DEF ScanShapes
<1>5. StateTold'
  BY <1>0, <1>2 DEF NotifyInv, StateTold, Received
<1>6. Received(nScan.k, nScan.st)
  BY <1>0 DEF NotifyInv, ScanTold
<1>7. ScanTold'
  <2>1. CASE ~sent
    <3>1. Noted(sent).av = nScan.st.av /\ Noted(sent).er = nScan.st.er
      BY <2>1 DEF Noted
    <3> QED
      BY <1>0, <1>2, <1>4, <1>6, <3>1 DEF ScanTold, Received
  <2>2. CASE sent
    <3>1. nTold' = [nTold EXCEPT ![nScan.k] = @ \cup
                             (IF notifyAvailable THEN {<<"av", nScan.av>>} ELSE {}) \cup
                             (IF notifyErrors THEN {<<"er", nScan.er>>} ELSE {})]
      BY <1>1, <2>2 DEF NetworkSend
    <3>2. notifyAvailable => <<"av", nScan.av>> \in nTold'[nScan.k]
      BY <1>0, <3>1
    <3>3. notifyErrors => <<"er", nScan.er>> \in nTold'[nScan.k]
      BY <1>0, <3>1
    <3>4. /\ Noted(sent).av = IF notifyAvailable THEN nScan.av ELSE nScan.st.av
          /\ Noted(sent).er = IF notifyErrors THEN nScan.er ELSE nScan.st.er
      BY <2>2 DEF Noted
    <3>5. /\ Noted(sent).av # 0 => <<"av", Noted(sent).av>> \in nTold'[nScan.k]
          /\ Noted(sent).er # 0 => <<"er", Noted(sent).er>> \in nTold'[nScan.k]
      BY <1>0, <1>2, <1>6, <3>2, <3>3, <3>4 DEF Received
    <3> QED
      BY <1>4, <3>5 DEF ScanTold, Received
  <2> QED
    BY <2>1, <2>2
<1> QED
  BY <1>0, <1>2, <1>4, <1>5, <1>7, ScanStep

LEMMA SaveKeeps ==
    ASSUME NotifyInv, saveChannelState
    PROVE  NotifyInv'
<1>0. /\ nScan \in ScanShapes /\ nScan.k \in Destinations /\ nScan.st \in Fingerprints
      /\ nState \in [Destinations -> Fingerprints] /\ DOMAIN nTold = Destinations
      /\ UNCHANGED <<nRow, nTold, nBoot>> /\ nScan' = [nScan EXCEPT !.at = "load"]
      /\ nState' = [nState EXCEPT ![nScan.k] = nScan.st]
  BY DEF NotifyInv, NotifyShape, ScanShapes, saveChannelState
<1>1. nScan' \in ScanShapes /\ nScan'.at = "load"
  BY <1>0 DEF ScanShapes
<1>2. Received(nScan.k, nScan.st)
  BY DEF NotifyInv, ScanTold, saveChannelState
<1>3. StateTold'
  BY <1>0, <1>2 DEF NotifyInv, StateTold, Received
<1> QED
  BY <1>0, <1>1, <1>3, ScanStep DEF ScanTold
-----------------------------------------------------------------------------
LEMMA NotifyStarts == NotifyInit => NotifyInv
<1> SUFFICES ASSUME NotifyInit PROVE NotifyInv
  OBVIOUS
<1>1. PICK r \in ChannelRows :
        /\ nRow = [k \in Destinations |-> IF k = 0 THEN r ELSE NoChannelRow]
        /\ r.there => r.smtp
  BY Empties, ZenonT(60) DEF NotifyInit, NoChannelRow, ChannelRows, EventKinds
<1>2. NotifyShape
  BY <1>1, Empties DEF NotifyInit, NotifyShape
<1>3. StateTold /\ ScanTold
  BY Empties DEF NotifyInit, StateTold, ScanTold, Received
<1>4. LegacySmtp /\ MovedFound /\ MovedOnce
  <2>1. nRow[0] = r BY <1>1, WebhookApart
  <2>2. \A k \in ChannelIds : ~nRow[k].moved BY <1>1, WebhookApart, Empties
  <2> QED BY <1>1, <2>1, <2>2 DEF LegacySmtp, MovedFound, MovedOnce
<1> QED
  BY <1>2, <1>3, <1>4 DEF NotifyInv

LEMMA NotifyKept == NotifyInv /\ [NotifyNext]_notifyVars => NotifyInv'
<1> SUFFICES ASSUME NotifyInv, [NotifyNext]_notifyVars PROVE NotifyInv'
  OBVIOUS
<1>1. ASSUME UNCHANGED <<nRow, nState, nTold, nScan, nBoot>> PROVE NotifyInv'
  BY <1>1 DEF NotifyInv, NotifyShape, StateTold, ScanTold, Received, LegacySmtp, MovedFound,
              MovedOnce
<1>2. CASE UNCHANGED notifyVars
  BY <1>1, <1>2 DEF notifyVars
<1>3. ASSUME NEW ok \in BOOLEAN, NEW failed \in BOOLEAN, NotifyExecution(ok, failed)
      PROVE  NotifyInv'
  BY <1>1, <1>3 DEF NotifyExecution
<1>4. ASSUME NEW kind, Enqueue(kind) PROVE NotifyInv'
  BY <1>1, <1>4 DEF Enqueue
<1>5. CASE Publish
  BY <1>1, <1>5 DEF Publish
<1>6. CASE NotifyStop
  <2>1. /\ nScan' = NoScan /\ nBoot' = "migrate" /\ UNCHANGED <<nRow, nState, nTold>>
    BY <1>6 DEF NotifyStop
  <2> QED
    BY <2>1, Empties DEF NotifyInv, NotifyShape, StateTold, ScanTold, Received, LegacySmtp,
                         MovedFound, MovedOnce
<1> QED
  BY <1>2, <1>3, <1>4, <1>5, <1>6, RequestsKeep, MigrationKeeps, NotifyScanKeeps, LoadKeeps,
     RowResetKeeps, SendKeeps, SaveKeeps DEF NotifyNext

(* What is not announced again has been announced, and the former SMTP row *)
(* becomes one channel only, for any number of channels, findings and      *)
(* steps (smtp.go, NotifyScan; channels.go, MigrateLegacySMTPConfigs).     *)
THEOREM AnnouncedOnce == NotifySpec => []NotifiedOnce
<1>1. NotifyInv => NotifiedOnce
  BY DEF NotifyInv, StateTold, Received, MovedOnce, NotifiedOnce
<1> QED
  BY <1>1, NotifyStarts, NotifyKept, PTL DEF NotifySpec

-----------------------------------------------------------------------------
(* The types.  What is recorded at a time is a number because the table    *)
(* never holds more than finitely many rows.                               *)
Tabled == IsFiniteSet({k \in Destinations : nRow[k].there})

NotifyBounded ==
    /\ nQueue \in Seq({"success", "failure"}) /\ Len(nQueue) <= NotifyQueue
    /\ nLog \in 0..MaxDeliveries /\ nSteps \in 0..MaxNotifySteps

NotifyTypeInv == NotifyInv /\ Tabled /\ NotifyBounded

LEMMA RowsTabled ==
    ASSUME NotifyInv, Tabled, NEW k \in Destinations, NEW r, nRow' = [nRow EXCEPT ![k] = r]
    PROVE  Tabled'
<1> DEFINE T == {i \in Destinations : nRow[i].there}
<1>1. IsFiniteSet(T \cup {k}) BY FS_AddElement DEF Tabled
<1>2. {i \in Destinations : nRow'[i].there} \subseteq T \cup {k} BY DEF NotifyInv, NotifyShape
<1>3. IsFiniteSet({i \in Destinations : nRow'[i].there}) BY <1>1, <1>2, FS_Subset
<1> QED BY <1>3 DEF Tabled

LEMMA CountTabled ==
    ASSUME Tabled, NEW D \in SUBSET {k \in Destinations : nRow[k].there}
    PROVE  Cardinality(D) \in Nat
BY FS_Subset, FS_CardinalityType DEF Tabled

LEMMA Recorded ==
    ASSUME NotifyBounded, NEW n \in Nat, recordDelivery(n)
    PROVE  nLog' \in 0..MaxDeliveries
BY NotificationsAssumption DEF NotifyBounded, recordDelivery

LEMMA TableKept == NotifyInv /\ Tabled /\ [NotifyNext]_notifyVars => Tabled'
<1> SUFFICES ASSUME NotifyInv, Tabled, [NotifyNext]_notifyVars PROVE Tabled' OBVIOUS
<1>1. CASE \E k \in Destinations, r \in ChannelRows \cup {[nRow[0] EXCEPT !.moved = TRUE]} :
             nRow' = [nRow EXCEPT ![k] = r]
  BY <1>1, RowsTabled
<1>2. CASE UNCHANGED nRow BY <1>2 DEF Tabled
<1>3. ASSUME NEW u \in BOOLEAN, NEW e \in BOOLEAN, Save(u, e) PROVE Tabled'
  BY <1>3, RowsTabled, WebhookApart DEF Save, PutRow
<1>4. ASSUME NEW k \in ChannelIds, NEW smtp \in BOOLEAN, NEW on \in BOOLEAN, NEW ev,
             SaveChannel(k, smtp, on, ev)
      PROVE  Tabled'
  BY <1>4, RowsTabled, WebhookApart DEF SaveChannel, PutRow
<1>5. ASSUME NEW k \in ChannelIds, DeleteChannel(k) PROVE Tabled'
  BY <1>5, RowsTabled, WebhookApart DEF DeleteChannel, PutRow
<1>6. CASE MigrateLegacySMTPConfigs
  <2>1. \/ \E k \in ChannelIds : nRow' = [nRow EXCEPT ![k] = [nRow[0] EXCEPT !.moved = TRUE]]
        \/ nRow' = [nRow EXCEPT ![0] = NoChannelRow]
        \/ UNCHANGED nRow
    BY <1>6 DEF MigrateLegacySMTPConfigs, PutRow
  <2> QED BY <2>1, <1>1, <1>2, WebhookApart, Empties
<1>7. CASE \/ \E av, er \in Findings \cup {0} : NotifyScan(av, er)
           \/ loadChannelState \/ resetResolvedChannelFingerprints \/ send \/ saveChannelState
           \/ \E ok, failed \in BOOLEAN : NotifyExecution(ok, failed)
           \/ \E kind \in {"success", "failure"} : Enqueue(kind)
           \/ Publish \/ NotifyStop \/ UNCHANGED notifyVars
  <2>1. UNCHANGED nRow
    BY <1>7 DEF NotifyScan, loadChannelState, resetResolvedChannelFingerprints, send,
                saveChannelState, NotifyExecution, Enqueue, Publish, NotifyStop, notifyVars
  <2> QED BY <2>1, <1>2
<1> QED BY <1>3, <1>4, <1>5, <1>6, <1>7 DEF NotifyNext

LEMMA NotifyBoundsKept ==
    NotifyInv /\ Tabled /\ NotifyBounded /\ [NotifyNext]_notifyVars => NotifyBounded'
<1> SUFFICES ASSUME NotifyInv, Tabled, NotifyBounded, [NotifyNext]_notifyVars
             PROVE  NotifyBounded'
  OBVIOUS
<1>0. nSteps < MaxNotifySteps /\ nSteps' = nSteps + 1 => nSteps' \in 0..MaxNotifySteps
  BY NotificationsAssumption DEF NotifyBounded
<1>1. ASSUME UNCHANGED nQueue, UNCHANGED nLog, NotifyAct \/ UNCHANGED nSteps
      PROVE  NotifyBounded'
  BY <1>0, <1>1 DEF NotifyAct, NotifyBounded
<1>2. CASE \/ \E u, e \in BOOLEAN : Save(u, e)
           \/ \E k \in ChannelIds, smtp, on \in BOOLEAN,
                 ev \in {{"available"}, {"failure"}, EventKinds} : SaveChannel(k, smtp, on, ev)
           \/ \E k \in ChannelIds : DeleteChannel(k)
           \/ MigrateLegacySMTPConfigs
           \/ \E av, er \in Findings \cup {0} : NotifyScan(av, er)
           \/ loadChannelState \/ resetResolvedChannelFingerprints \/ saveChannelState
           \/ UNCHANGED notifyVars
  <2>1. UNCHANGED <<nQueue, nLog>> /\ (NotifyAct \/ UNCHANGED nSteps)
    BY <1>2 DEF Save, SaveChannel, DeleteChannel, MigrateLegacySMTPConfigs, NotifyScan,
                loadChannelState, resetResolvedChannelFingerprints, saveChannelState, notifyVars
  <2> QED BY <2>1, <1>1
<1>3. CASE send
  <2>1. recordDelivery(1) /\ UNCHANGED <<nQueue, nSteps>> BY <1>3 DEF send
  <2> QED BY <2>1, Recorded DEF NotifyBounded
<1>4. ASSUME NEW ok \in BOOLEAN, NEW failed \in BOOLEAN, NotifyExecution(ok, failed)
      PROVE  NotifyBounded'
  <2>1. PICK kinds : recordDelivery(Cardinality({k \in enabledDestinations :
                                                   nRow[k].events \cap kinds # {}}))
    BY <1>4 DEF NotifyExecution
  <2>2. Cardinality({k \in enabledDestinations : nRow[k].events \cap kinds # {}}) \in Nat
    BY CountTabled DEF enabledDestinations
  <2>3. nLog' \in 0..MaxDeliveries BY <2>1, <2>2, Recorded
  <2>4. UNCHANGED nQueue /\ NotifyAct BY <1>4 DEF NotifyExecution
  <2> QED BY <2>3, <2>4, <1>0 DEF NotifyBounded, NotifyAct
<1>5. ASSUME NEW kind \in {"success", "failure"}, Enqueue(kind) PROVE NotifyBounded'
  <2>1. /\ nQueue' = IF Len(nQueue) < NotifyQueue THEN Append(nQueue, kind) ELSE nQueue
        /\ UNCHANGED nLog /\ NotifyAct
    BY <1>5 DEF Enqueue
  <2>2. nQueue' \in Seq({"success", "failure"}) /\ Len(nQueue') <= NotifyQueue
    BY <2>1, NotificationsAssumption DEF NotifyBounded
  <2> QED BY <2>1, <2>2, <1>0 DEF NotifyBounded, NotifyAct
<1>6. CASE Publish
  <2>1. /\ nQueue # <<>> /\ nQueue' = Tail(nQueue) /\ UNCHANGED nSteps
        /\ recordDelivery(Cardinality({k \in enabledDestinations : Head(nQueue) \in nRow[k].events}))
    BY <1>6 DEF Publish
  <2>2. Cardinality({k \in enabledDestinations : Head(nQueue) \in nRow[k].events}) \in Nat
    BY CountTabled DEF enabledDestinations
  <2>3. nLog' \in 0..MaxDeliveries BY <2>1, <2>2, Recorded
  <2>4. nQueue' \in Seq({"success", "failure"}) /\ Len(nQueue') = Len(nQueue) - 1
    BY <2>1, HeadTailProperties DEF NotifyBounded
  <2>5. Len(nQueue) \in Nat BY LenProperties DEF NotifyBounded
  <2>6. Len(nQueue') <= NotifyQueue BY <2>4, <2>5, NotificationsAssumption DEF NotifyBounded
  <2> QED BY <2>1, <2>3, <2>4, <2>6 DEF NotifyBounded
<1>7. CASE NotifyStop
  <2>1. nQueue' = <<>> /\ UNCHANGED nLog /\ nSteps < MaxNotifySteps /\ nSteps' = nSteps + 1
    BY <1>7 DEF NotifyStop
  <2>2. nQueue' \in Seq({"success", "failure"}) /\ Len(nQueue') = 0 BY <2>1, EmptySeq
  <2> QED BY <2>1, <2>2, <1>0, NotificationsAssumption DEF NotifyBounded
<1> QED BY <1>2, <1>3, <1>4, <1>5, <1>6, <1>7 DEF NotifyNext

LEMMA NotifyTypeStarts == NotifyInit => NotifyTypeInv
<1> SUFFICES ASSUME NotifyInit PROVE NotifyTypeInv OBVIOUS
<1>1. NotifyInv BY NotifyStarts
<1>2. PICK r : nRow = [k \in Destinations |-> IF k = 0 THEN r ELSE NoChannelRow]
  BY DEF NotifyInit
<1>3. {k \in Destinations : nRow[k].there} \subseteq {0} BY <1>2, Empties
<1>4. Tabled BY <1>3, FS_Singleton, FS_Subset DEF Tabled
<1>5. Len(nQueue) = 0 /\ nQueue \in Seq({"success", "failure"}) BY EmptySeq DEF NotifyInit
<1>6. NotifyBounded BY <1>5, NotificationsAssumption DEF NotifyInit, NotifyBounded
<1> QED BY <1>1, <1>4, <1>6 DEF NotifyTypeInv

LEMMA NotifyTypeKept == NotifyTypeInv /\ [NotifyNext]_notifyVars => NotifyTypeInv'
BY NotifyKept, TableKept, NotifyBoundsKept DEF NotifyTypeInv

LEMMA NotifyIsTyped == NotifyTypeInv => NotifyTypeOK
BY DEF NotifyTypeInv, NotifyInv, NotifyShape, NotifyBounded, NotifyTypeOK, ChannelRows, Fingerprints,
       ScanShapes

(* The rows, the fingerprints, the scan and the bounded queue keep their   *)
(* types, and the log of deliveries never exceeds its limit (service.go,   *)
(* recordDelivery; events.go, Enqueue drops what the queue cannot hold).   *)
THEOREM NotifyTyped == NotifySpec => []NotifyTypeOK
<1> QED BY NotifyTypeStarts, NotifyTypeKept, NotifyIsTyped, PTL DEF NotifySpec

-----------------------------------------------------------------------------
(***************************************************************************)
(* The file browser (FileBrowser).  A helper binary belongs to the one     *)
(* request that runs it or is about to remove it, or a call about it       *)
(* failed or Dockman stopped; a helper container belongs to its request or *)
(* is stuck.                                                               *)
(***************************************************************************)

IsBrowse(q) ==
    q = [at |-> q.at, kind |-> q.kind, op |-> q.op, path |-> q.path, left |-> q.left,
         place |-> q.place, native |-> q.native, gone |-> q.gone]

Browse(q) ==
    /\ IsBrowse(q) /\ q.native \in BOOLEAN
    /\ q.at \in {"idle", "install", "run", "clean"}
    /\ q.at = "install" \/ q.native => q.kind = "container"
    /\ q.at = "install" => ~q.native

Holds(q) == q.at \in {"run", "clean"} /\ q.kind = "container" /\ ~q.native

Found(r, q) ==
    q.at = "run" /\ ~q.native /\ ~q.gone =>
      IF q.kind = "volume" THEN r \in bVols ELSE Binary(r, q.place) \in bBins

Owned(b) ==
    b \in bExcused \/ \E r \in BrowserRequests : b = Binary(r, bReq[r].place) /\ Holds(bReq[r])

VolumeOwned(r) == (bReq[r].at # "idle" /\ bReq[r].kind = "volume") \/ r \in bStuck

BrowserInv ==
    /\ bReq = [r \in BrowserRequests |-> bReq[r]]
    /\ \A r \in BrowserRequests : Browse(bReq[r]) /\ Found(r, bReq[r])
    /\ bVols \subseteq BrowserRequests
    /\ \A b \in bBins : Owned(b)
    /\ \A r \in bVols : VolumeOwned(r)

(* What a step of one request does to the requests.                        *)
LEMMA OneRequest ==
    ASSUME BrowserInv, NEW r \in BrowserRequests, NEW rec, Browsing(r, rec)
    PROVE  /\ (bReq = [s \in BrowserRequests |-> bReq[s]])'
           /\ bReq'[r] = rec
           /\ \A s \in BrowserRequests : s # r => bReq'[s] = bReq[s]
BY DEF BrowserInv, Browsing

LEMMA NameDiffers ==
    ASSUME NEW r, NEW s, NEW p, NEW q, Binary(r, p) = Binary(s, q)
    PROVE  r = s /\ p = q
<1>1. Binary(r, p).name = r /\ Binary(s, q).name = s BY DEF Binary, helperName
<1>2. Binary(r, p).place = p /\ Binary(s, q).place = q BY DEF Binary
<1> QED BY <1>1, <1>2

LEMMA IdleBrowse == Browse(NoBrowse) /\ NoBrowse.at = "idle" /\ NoBrowse.kind = "none" /\ ~NoBrowse.native
BY DEF Browse, IsBrowse, NoBrowse

(* The parts of the invariant after a step of the request r that leaves    *)
(* the files alone: binaries may be added, or removed if they are r's own. *)
LEMMA BrowseStep ==
    ASSUME BrowserInv, NEW r \in BrowserRequests, NEW rec, Browsing(r, rec),
           Browse(rec), Found(r, rec)',
           \A s \in BrowserRequests : \A p : s # r /\ Binary(s, p) \in bBins => Binary(s, p) \in bBins',
           bVols' \subseteq BrowserRequests,
           \A s \in BrowserRequests : s # r => (s \in bVols <=> s \in bVols'),
           \A b \in bBins' : b \in bBins \/ b \in bExcused' \/ (b = Binary(r, rec.place) /\ Holds(rec)),
           Holds(bReq[r]) =>
             \/ Holds(rec) /\ rec.place = bReq[r].place
             \/ Binary(r, bReq[r].place) \notin bBins'
             \/ Binary(r, bReq[r].place) \in bExcused',
           \A b \in bExcused : b \in bExcused' \/ (b = Binary(r, rec.place) /\ Holds(rec)),
           \A s \in bStuck : s # r => s \in bStuck',
           r \in bVols' => (rec.at # "idle" /\ rec.kind = "volume") \/ r \in bStuck'
    PROVE  BrowserInv'
<1>1. /\ (bReq = [s \in BrowserRequests |-> bReq[s]])' /\ bReq'[r] = rec
      /\ \A s \in BrowserRequests : s # r => bReq'[s] = bReq[s]
  BY OneRequest
<1>2. ASSUME NEW s \in BrowserRequests PROVE (Browse(bReq[s]) /\ Found(s, bReq[s]))'
  <2>1. CASE s = r BY <1>1, <2>1 DEF Found, Browse, IsBrowse
  <2>2. CASE s # r
    <3>1. Browse(bReq[s]) /\ Found(s, bReq[s]) /\ bReq'[s] = bReq[s] BY <1>1, <2>2 DEF BrowserInv
    <3>2. Browse(bReq[s])' BY <3>1 DEF Browse, IsBrowse
    <3>3. Found(s, bReq[s])' BY <2>2, <3>1 DEF Found, Binary, helperName
    <3> QED BY <3>2, <3>3
  <2> QED BY <2>1, <2>2
<1>3. ASSUME NEW b \in bBins' PROVE Owned(b)'
  <2>1. CASE b = Binary(r, rec.place) /\ Holds(rec) BY <1>1, <2>1 DEF Owned, Holds, Binary, helperName
  <2>2. CASE b \in bExcused' BY <2>2 DEF Owned
  <2>3. CASE b \in bBins /\ b \notin bExcused' /\ ~(b = Binary(r, rec.place) /\ Holds(rec))
    <3>1. b \notin bExcused BY <2>3
    <3>2. PICK s \in BrowserRequests : b = Binary(s, bReq[s].place) /\ Holds(bReq[s])
      BY <2>3, <3>1 DEF Owned, BrowserInv
    <3>3. CASE s # r BY <1>1, <3>2, <3>3 DEF Owned, Holds, Binary, helperName
    <3>4. CASE s = r BY <1>3, <2>3, <3>2, <3>4
    <3> QED BY <3>3, <3>4
  <2> QED BY <1>3, <2>1, <2>2, <2>3
<1>4. ASSUME NEW s \in bVols' PROVE VolumeOwned(s)'
  <2>1. CASE s = r BY <1>1, <1>4, <2>1 DEF VolumeOwned
  <2>2. CASE s # r
    <3>1. s \in BrowserRequests /\ s \in bVols /\ VolumeOwned(s) BY <2>2 DEF BrowserInv
    <3>2. bReq'[s] = bReq[s] BY <1>1, <2>2, <3>1
    <3> QED BY <2>2, <3>1, <3>2 DEF VolumeOwned
  <2> QED BY <2>1, <2>2
<1> QED BY <1>1, <1>2, <1>3, <1>4 DEF BrowserInv

LEMMA NativeBrowse ==
    ASSUME NEW q, IsBrowse(q), NEW n, n = [q EXCEPT !.at = "run", !.native = TRUE]
    PROVE  IsBrowse(n) /\ n.at = "run" /\ n.kind = q.kind /\ n.native = TRUE
BY DEF IsBrowse

LEMMA NextPlace ==
    ASSUME NEW q, IsBrowse(q), NEW n, n = [q EXCEPT !.left = Tail(@)]
    PROVE  IsBrowse(n) /\ n.at = q.at /\ n.kind = q.kind /\ n.native = q.native
BY DEF IsBrowse

(* A request is taken on: it holds nothing yet, or a helper container.     *)
LEMMA BeginStep ==
    ASSUME BrowserInv, NEW r \in BrowserRequests, NEW op, NEW p,
           prepareBrowserTarget(r, op, p) \/ createVolumeBrowserTarget(r, op)
    PROVE  BrowserInv'
<1>1. /\ Browse(bReq[r]) /\ bReq[r].at = "idle" /\ bVols \subseteq BrowserRequests
      /\ UNCHANGED <<bBins, bExcused, bStuck>> /\ ~Holds(bReq[r])
  BY DEF BrowserInv, prepareBrowserTarget, createVolumeBrowserTarget, Holds
<1>2. CASE prepareBrowserTarget(r, op, p)
  <2> DEFINE helper == op \notin {"upload", "download"} /\ ~containerPathReadOnly(p)
             chosen == [NoBrowse EXCEPT !.at = IF helper THEN "install" ELSE "run",
                                        !.kind = "container", !.op = op, !.path = p,
                                        !.left = IF helper THEN helperDestinations(p) ELSE <<>>,
                                        !.native = ~helper]
  <2>1. PICK rec : rec = chosen /\ Browsing(r, rec) /\ UNCHANGED bVols
    BY <1>2 DEF prepareBrowserTarget
  <2> HIDE DEF helper
  <2>2. /\ IsBrowse(rec) /\ rec.at = (IF helper THEN "install" ELSE "run")
        /\ rec.kind = "container" /\ rec.native = ~helper
    BY <2>1 DEF NoBrowse, IsBrowse
  <2>3. helper \in BOOLEAN BY DEF helper
  <2>4. Browse(rec) /\ (rec.at = "run" => rec.native) /\ rec.at # "idle" BY <2>2, <2>3 DEF Browse
  <2>5. Found(r, rec)' BY <2>4 DEF Found
  <2>6. r \in bVols' => r \in bStuck' BY <1>1, <2>1 DEF BrowserInv, VolumeOwned
  <2> QED BY <1>1, <2>1, <2>4, <2>5, <2>6, BrowseStep
<1>3. CASE createVolumeBrowserTarget(r, op)
  <2>0. PICK at \in {"run", "clean"} :
          Browsing(r, [NoBrowse EXCEPT !.at = at, !.kind = "volume", !.op = op])
    BY <1>3 DEF createVolumeBrowserTarget
  <2>1. PICK rec : rec = [NoBrowse EXCEPT !.at = at, !.kind = "volume", !.op = op]
                   /\ Browsing(r, rec)
    BY <2>0
  <2>2. Browsing(r, rec) /\ bVols' = bVols \cup {r} BY <1>3, <2>1 DEF createVolumeBrowserTarget
  <2>3. IsBrowse(rec) /\ rec.at = at /\ rec.kind = "volume" /\ rec.native = FALSE
    BY <2>1 DEF NoBrowse, IsBrowse
  <2>4. Browse(rec) BY <2>3 DEF Browse
  <2>5. Found(r, rec)' BY <2>2, <2>3 DEF Found
  <2> QED BY <1>1, <2>2, <2>3, <2>4, <2>5, BrowseStep
<1> QED BY <1>2, <1>3

(* A helper is copied: it is the request's own, or a call about it failed. *)
LEMMA CopyStep ==
    ASSUME BrowserInv, NEW r \in BrowserRequests, installFileHelper(r)
    PROVE  BrowserInv'
<1> PICK q : q = bReq[r] OBVIOUS
<1> PICK p : p = Head(q.left) OBVIOUS
<1>1. /\ Browse(q) /\ q.at = "install" /\ q.kind = "container" /\ (VolumeOwned(r) \/ r \notin bVols)
      /\ UNCHANGED <<bVols, bStuck>> /\ bVols \subseteq BrowserRequests /\ ~Holds(q)
  BY DEF BrowserInv, installFileHelper, Holds, Browse
<1>2. r \in bVols' => r \in bStuck' BY <1>1 DEF VolumeOwned
<1>3. \/ /\ Browsing(r, [q EXCEPT !.at = "run", !.native = TRUE])
         /\ UNCHANGED <<bBins, bExcused>>
      \/ Browsing(r, [q EXCEPT !.left = Tail(@)]) /\ UNCHANGED <<bBins, bExcused>>
      \/ /\ Browsing(r, [q EXCEPT !.at = "run", !.place = p])
         /\ bBins' = bBins \cup {Binary(r, p)} /\ bExcused' = bExcused \ {Binary(r, p)}
      \/ /\ Browsing(r, [q EXCEPT !.left = Tail(@)])
         /\ bBins' = bBins \cup {Binary(r, p)} /\ bExcused' = bExcused \cup {Binary(r, p)}
  BY DEF installFileHelper
<1>4. CASE Browsing(r, [q EXCEPT !.at = "run", !.native = TRUE]) /\ UNCHANGED <<bBins, bExcused>>
  <2>2. PICK rec : rec = [q EXCEPT !.at = "run", !.native = TRUE] /\ Browsing(r, rec) BY <1>4
  <2>1. IsBrowse(rec) /\ rec.at = "run" /\ rec.kind = q.kind /\ rec.native = TRUE
    BY <1>1, <2>2, NativeBrowse DEF Browse
  <2>3. Browse(rec) /\ Found(r, rec)' BY <1>1, <2>1 DEF Browse, Found
  <2> QED BY <1>1, <1>2, <1>4, <2>2, <2>3, BrowseStep
<1>5. CASE /\ Browsing(r, [q EXCEPT !.left = Tail(@)])
           /\ \/ UNCHANGED <<bBins, bExcused>>
              \/ bBins' = bBins \cup {Binary(r, p)} /\ bExcused' = bExcused \cup {Binary(r, p)}
  <2>2. PICK rec : rec = [q EXCEPT !.left = Tail(@)] /\ Browsing(r, rec) BY <1>5
  <2>1. IsBrowse(rec) /\ rec.at = q.at /\ rec.kind = q.kind /\ rec.native = q.native
    BY <1>1, <2>2, NextPlace DEF Browse
  <2>3. Browse(rec) /\ Found(r, rec)' BY <1>1, <2>1 DEF Browse, Found
  <2>4. /\ \A b \in bBins' : b \in bBins \/ b \in bExcused'
        /\ bBins \subseteq bBins' /\ bExcused \subseteq bExcused'
    BY <1>5
  <2> QED BY <1>1, <1>2, <2>2, <2>3, <2>4, BrowseStep
<1>6. CASE /\ Browsing(r, [q EXCEPT !.at = "run", !.place = p])
           /\ bBins' = bBins \cup {Binary(r, p)} /\ bExcused' = bExcused \ {Binary(r, p)}
  <2>2. PICK rec : rec = [q EXCEPT !.at = "run", !.place = p] /\ Browsing(r, rec) BY <1>6
  <2>1. /\ IsBrowse(rec) /\ rec.at = "run" /\ rec.place = p /\ rec.kind = q.kind
        /\ rec.native = q.native
    BY <1>1, <2>2 DEF Browse, IsBrowse
  <2>3. Browse(rec) /\ Holds(rec) BY <1>1, <2>1 DEF Browse, Holds
  <2>4. Found(r, rec)' BY <1>1, <1>6, <2>1 DEF Found, Binary, helperName
  <2>5. /\ \A b \in bBins' : b \in bBins \/ b = Binary(r, rec.place)
        /\ \A b \in bExcused : b \in bExcused' \/ b = Binary(r, rec.place)
        /\ bBins \subseteq bBins'
    BY <1>6, <2>1
  <2> QED BY <1>1, <1>2, <2>2, <2>3, <2>4, <2>5, BrowseStep
<1> QED BY <1>3, <1>4, <1>5, <1>6

(* A request on a container works, by its helper or by the container's     *)
(* tools, and cleans up after itself.                                      *)
LEMMA WorkStep ==
    ASSUME BrowserInv, NEW r \in BrowserRequests,
           runFileHelper(r) \/ nativeFileAction(r) \/ BrowserCleanup(r)
    PROVE  BrowserInv'
<1> PICK q : q = bReq[r] OBVIOUS
<1>1. /\ Browse(q) /\ Found(r, q) /\ (VolumeOwned(r) \/ r \notin bVols)
      /\ UNCHANGED <<bVols, bStuck>> /\ bVols \subseteq BrowserRequests
      /\ q.kind = "container" /\ q.at # "idle"
  BY DEF BrowserInv, runFileHelper, nativeFileAction, BrowserCleanup, Browse
<1>3. r \in bVols' => r \in bStuck' BY <1>1 DEF VolumeOwned
<1>4. CASE runFileHelper(r)
  <2>1. PICK rec : rec = [q EXCEPT !.at = "clean"] /\ Browsing(r, rec) BY <1>4 DEF runFileHelper
  <2>2. /\ IsBrowse(rec) /\ rec.at = "clean" /\ rec.kind = q.kind /\ rec.place = q.place
        /\ rec.native = q.native
    BY <1>1, <2>1 DEF Browse, IsBrowse
  <2>3. Browse(rec) /\ Found(r, rec)' BY <1>1, <2>2 DEF Browse, Found
  <2>4. (bBins' = bBins \/ bBins' = bBins \ {Binary(r, q.place)}) /\ bExcused' = bExcused
    BY <1>4 DEF runFileHelper
  <2>5. Holds(q) => Holds(rec) /\ rec.place = q.place BY <2>2 DEF Holds
  <2>6. \A s \in BrowserRequests : \A p : s # r /\ Binary(s, p) \in bBins => Binary(s, p) \in bBins'
    BY <2>4, NameDiffers
  <2> QED BY <1>1, <1>3, <2>1, <2>3, <2>4, <2>5, <2>6, BrowseStep
<1>5. CASE nativeFileAction(r)
  <2>1. PICK rec : rec = NoBrowse /\ Browsing(r, rec) BY <1>5 DEF nativeFileAction
  <2>2. Browse(rec) /\ Found(r, rec)' /\ ~Holds(rec) BY <2>1, IdleBrowse DEF Found, Holds
  <2>3. UNCHANGED <<bBins, bExcused>> /\ ~Holds(q) BY <1>5 DEF nativeFileAction, Holds
  <2> QED BY <1>1, <1>3, <2>1, <2>2, <2>3, BrowseStep
<1>6. CASE BrowserCleanup(r)
  <2>1. PICK rec : rec = NoBrowse /\ Browsing(r, rec) BY <1>6 DEF BrowserCleanup
  <2>2. Browse(rec) /\ Found(r, rec)' /\ ~Holds(rec) BY <2>1, IdleBrowse DEF Found, Holds
  <2>3. \/ bBins' = bBins \ {Binary(r, q.place)} /\ bExcused' = bExcused
        \/ bExcused' = bExcused \cup {Binary(r, q.place)} /\ bBins' = bBins
    BY <1>6 DEF BrowserCleanup
  <2>4. \A s \in BrowserRequests : \A p : s # r /\ Binary(s, p) \in bBins => Binary(s, p) \in bBins'
    BY <2>3, NameDiffers
  <2> QED BY <1>1, <1>3, <2>1, <2>2, <2>3, <2>4, BrowseStep
<1> QED BY <1>4, <1>5, <1>6

(* A request on a volume ends with its container removed, or excused.      *)
LEMMA VolumeStep ==
    ASSUME BrowserInv, NEW r \in BrowserRequests, RunOnVolume(r) \/ RemoveVolumeHelper(r)
    PROVE  BrowserInv'
<1> PICK q : q = bReq[r] OBVIOUS
<1>1. /\ Browse(q) /\ UNCHANGED <<bBins, bExcused>> /\ bVols \subseteq BrowserRequests
      /\ q.kind = "volume" /\ q.at # "idle" /\ ~Holds(q)
  BY DEF BrowserInv, RunOnVolume, RemoveVolumeHelper, Holds
<1>2. CASE RunOnVolume(r)
  <2>1. PICK rec : rec = [q EXCEPT !.at = "clean"] /\ Browsing(r, rec) BY <1>2 DEF RunOnVolume
  <2>2. IsBrowse(rec) /\ rec.at = "clean" /\ rec.kind = q.kind /\ rec.native = q.native
    BY <1>1, <2>1 DEF Browse, IsBrowse
  <2>3. Browse(rec) /\ Found(r, rec)' BY <1>1, <2>2 DEF Browse, Found
  <2>4. UNCHANGED <<bVols, bStuck>> BY <1>2 DEF RunOnVolume
  <2> QED BY <1>1, <2>1, <2>2, <2>3, <2>4, BrowseStep
<1>3. CASE RemoveVolumeHelper(r)
  <2>1. PICK rec : rec = NoBrowse /\ Browsing(r, rec) BY <1>3 DEF RemoveVolumeHelper
  <2>2. Browse(rec) /\ Found(r, rec)' /\ ~Holds(rec) BY <2>1, IdleBrowse DEF Found, Holds
  <2>3. \/ bVols' = bVols \ {r} /\ bStuck' = bStuck \ {r}
        \/ bStuck' = bStuck \cup {r} /\ bVols' = bVols
    BY <1>3 DEF RemoveVolumeHelper
  <2> QED BY <1>1, <2>1, <2>2, <2>3, BrowseStep
<1> QED BY <1>2, <1>3

(* The container stops, starts or is recreated; Dockman is restarted.      *)
LEMMA OutsideStep ==
    ASSUME BrowserInv, ContainerTurns \/ ContainerRecreated \/ CleanupFileBrowserHelpers
    PROVE  BrowserInv'
<1>1. bVols \subseteq BrowserRequests BY DEF BrowserInv
<1>2. CASE ContainerTurns
  BY <1>2 DEF ContainerTurns, BrowserInv, Owned, VolumeOwned, Browse, IsBrowse, Found, Holds,
              Binary, helperName
<1>3. CASE ContainerRecreated
  <2>1. /\ bReq' = [r \in BrowserRequests |-> [bReq[r] EXCEPT !.gone = bReq[r].at # "idle"]]
        /\ bBins' = {} /\ bVols' = bVols /\ bStuck' = bStuck
    BY <1>3 DEF ContainerRecreated
  <2>2. ASSUME NEW r \in BrowserRequests
        PROVE  /\ (Browse(bReq[r]) /\ Found(r, bReq[r]))'
               /\ bReq'[r].at = bReq[r].at /\ bReq'[r].kind = bReq[r].kind
    <3>1. PICK q : q = bReq[r] OBVIOUS
    <3>2. PICK n : n = [q EXCEPT !.gone = q.at # "idle"] OBVIOUS
    <3>3. bReq'[r] = n BY <2>1, <3>1, <3>2
    <3>4. Browse(q) BY <3>1 DEF BrowserInv
    <3>5. IsBrowse(n) /\ n.at = q.at /\ n.kind = q.kind /\ n.native = q.native
      BY <3>2, <3>4 DEF Browse, IsBrowse
    <3>6. n.gone = (q.at # "idle") BY <3>2, <3>4 DEF Browse, IsBrowse
    <3>7. Browse(n) BY <3>4, <3>5 DEF Browse
    <3>8. n.at = "run" => n.gone BY <3>5, <3>6
    <3> QED BY <3>1, <3>3, <3>5, <3>7, <3>8 DEF Found, Browse, IsBrowse
  <2>3. ASSUME NEW r \in bVols PROVE VolumeOwned(r)'
    <3>1. r \in BrowserRequests /\ VolumeOwned(r) BY <1>1 DEF BrowserInv
    <3> QED BY <2>1, <2>2, <3>1 DEF VolumeOwned
  <2>4. (bReq = [r \in BrowserRequests |-> bReq[r]])' BY <2>1
  <2> QED BY <1>1, <2>1, <2>2, <2>3, <2>4 DEF BrowserInv
<1>4. CASE CleanupFileBrowserHelpers
  <2>1. bVols' \in SUBSET bVols /\ bStuck' = bVols' /\ bExcused' = bBins
    BY <1>4 DEF CleanupFileBrowserHelpers
  <2>2. bReq' = [r \in BrowserRequests |-> NoBrowse] /\ bBins' = bBins
    BY <1>4 DEF CleanupFileBrowserHelpers
  <2>3. \A r \in BrowserRequests : bReq'[r] = NoBrowse BY <2>2
  <2>4. \A r \in BrowserRequests : (Browse(bReq[r]) /\ Found(r, bReq[r]))'
    BY <2>3, IdleBrowse DEF Browse, IsBrowse, Found
  <2>5. \A b \in bBins' : Owned(b)' BY <2>1, <2>2 DEF Owned
  <2>6. \A r \in bVols' : VolumeOwned(r)' BY <2>1 DEF VolumeOwned
  <2>7. (bReq = [r \in BrowserRequests |-> bReq[r]])' BY <2>2
  <2> QED BY <1>1, <2>1, <2>4, <2>5, <2>6, <2>7 DEF BrowserInv
<1> QED BY <1>2, <1>3, <1>4

LEMMA BrowserStarts == BrowserInit => BrowserInv
<1> SUFFICES ASSUME BrowserInit PROVE BrowserInv OBVIOUS
<1>1. bReq = [r \in BrowserRequests |-> NoBrowse] /\ bBins = {} /\ bVols = {} BY DEF BrowserInit
<1>3. \A r \in BrowserRequests : Browse(bReq[r]) /\ Found(r, bReq[r]) BY <1>1, IdleBrowse DEF Found
<1> QED BY <1>1, <1>3 DEF BrowserInv

LEMMA BrowserKeeps == BrowserInv /\ [BrowserNext]_browserVars => BrowserInv'
<1> SUFFICES ASSUME BrowserInv, [BrowserNext]_browserVars PROVE BrowserInv' OBVIOUS
<1>1. CASE UNCHANGED browserVars
  BY <1>1 DEF browserVars, BrowserInv, Owned, VolumeOwned, Browse, IsBrowse, Found, Holds,
              Binary, helperName
<1>2. CASE BrowserNext BY <1>2, BeginStep, CopyStep, WorkStep, VolumeStep, OutsideStep DEF BrowserNext
<1> QED BY <1>1, <1>2

LEMMA BrowserIsOwned == BrowserInv => HelperOwned
<1> SUFFICES ASSUME BrowserInv PROVE HelperOwned OBVIOUS
<1>1. \A r \in BrowserRequests : Found(r, bReq[r]) BY DEF BrowserInv
<1>2. ASSUME NEW b \in bBins PROVE InUse(b) \/ b \in bExcused
  <2>1. SUFFICES ASSUME b \notin bExcused PROVE InUse(b) OBVIOUS
  <2>2. PICK r \in BrowserRequests : b = Binary(r, bReq[r].place) /\ Holds(bReq[r])
    BY <2>1 DEF BrowserInv, Owned
  <2> QED BY <2>2 DEF InUse, Holds, Binary
<1>3. \A r \in bVols : bReq[r].kind = "volume" \/ r \in bStuck BY DEF BrowserInv, VolumeOwned
<1> QED BY <1>1, <1>2, <1>3 DEF HelperOwned, Found

(* A request finds the helper it was given, whatever the other requests    *)
(* do, and a helper nobody uses is left only where its copy, its probe or  *)
(* its removal failed, or a stop of Dockman kept it from being removed     *)
(* (file_browser_http.go: installFileHelper, CleanupFileBrowserHelpers).   *)
THEOREM HelpersAreOwned == BrowserSpec => []HelperOwned
<1>1. BrowserInit => BrowserInv BY BrowserStarts
<1>2. BrowserInv /\ [BrowserNext]_browserVars => BrowserInv' BY BrowserKeeps
<1>3. BrowserInv => HelperOwned BY BrowserIsOwned
<1> QED BY <1>1, <1>2, <1>3, PTL DEF BrowserSpec

-----------------------------------------------------------------------------
(* The types: a request names a path there is, and no operation takes the  *)
(* files out of their three contents.                                      *)
PathsNamed == \A r \in BrowserRequests : bReq[r].path \in BrowsedPaths

BrowserTypeInv ==
    /\ BrowserInv /\ PathsNamed
    /\ bTree \in [BrowsedPaths -> 0..2] /\ bUp \in BOOLEAN /\ browserSteps \in 0..MaxBrowserSteps

LEMMA EffectTyped ==
    ASSUME NEW q, q.path \in BrowsedPaths, bTree \in [BrowsedPaths -> 0..2]
    PROVE  Effect(q) \in [BrowsedPaths -> 0..2]
<1> DEFINE N == 0..2
<1>0. 0 \in N /\ 1 \in N /\ 2 \in N OBVIOUS
<1>1. bTree \in [BrowsedPaths -> N] /\ bTree[q.path] \in N OBVIOUS
<1> PICK o : o = Other(q.path) OBVIOUS
<1> HIDE DEF N
<1>2. [bTree EXCEPT ![q.path] = IF @ = 0 THEN 1 ELSE @] \in [BrowsedPaths -> N] BY <1>0, <1>1
<1>3. [bTree EXCEPT ![q.path] = 0] \in [BrowsedPaths -> N] BY <1>0, <1>1
<1>4. [bTree EXCEPT ![o] = bTree[q.path], ![q.path] = 0] \in [BrowsedPaths -> N] BY <1>0, <1>1
<1>5. [bTree EXCEPT ![q.path] = 2] \in [BrowsedPaths -> N] BY <1>0, <1>1
<1>6. Effect(q) \in [BrowsedPaths -> N]
  BY <1>1, <1>2, <1>3, <1>4, <1>5 DEF Effect, containerFilesUpload
<1> QED BY <1>6 DEF N

LEMMA PathKept ==
    ASSUME BrowserInv, PathsNamed, NEW r \in BrowserRequests, NEW rec, Browsing(r, rec),
           rec.path \in BrowsedPaths
    PROVE  PathsNamed'
BY OneRequest DEF PathsNamed

LEMMA PathsKept == BrowserInv /\ PathsNamed /\ [BrowserNext]_browserVars => PathsNamed'
<1> SUFFICES ASSUME BrowserInv, PathsNamed, [BrowserNext]_browserVars PROVE PathsNamed' OBVIOUS
<1>0. NoBrowse.path \in BrowsedPaths BY DEF NoBrowse, BrowsedPaths
<1>1. ASSUME NEW r \in BrowserRequests, NEW op, NEW p \in BrowsedPaths, prepareBrowserTarget(r, op, p)
      PROVE  PathsNamed'
  <2> DEFINE helper == op \notin {"upload", "download"} /\ ~containerPathReadOnly(p)
  <2>1. PICK rec : /\ Browsing(r, rec)
                   /\ rec = [NoBrowse EXCEPT !.at = IF helper THEN "install" ELSE "run",
                                             !.kind = "container", !.op = op, !.path = p,
                                             !.left = IF helper THEN helperDestinations(p) ELSE <<>>,
                                             !.native = ~helper]
    BY <1>1 DEF prepareBrowserTarget
  <2> HIDE DEF helper
  <2>2. rec.path = p BY <2>1 DEF NoBrowse
  <2> QED BY <2>1, <2>2, PathKept
<1>2. ASSUME NEW r \in BrowserRequests, NEW op, createVolumeBrowserTarget(r, op) PROVE PathsNamed'
  <2>1. PICK at : Browsing(r, [NoBrowse EXCEPT !.at = at, !.kind = "volume", !.op = op])
    BY <1>2 DEF createVolumeBrowserTarget
  <2>2. PICK rec : rec = [NoBrowse EXCEPT !.at = at, !.kind = "volume", !.op = op]
                   /\ Browsing(r, rec)
    BY <2>1
  <2>3. rec.path = NoBrowse.path BY <2>2 DEF NoBrowse
  <2> QED BY <1>0, <2>2, <2>3, PathKept
<1>3. ASSUME NEW r \in BrowserRequests,
             \/ installFileHelper(r) \/ runFileHelper(r) \/ nativeFileAction(r)
             \/ BrowserCleanup(r) \/ RunOnVolume(r) \/ RemoveVolumeHelper(r)
      PROVE  PathsNamed'
  <2> PICK q : q = bReq[r] OBVIOUS
  <2>1. IsBrowse(q) /\ q.path \in BrowsedPaths BY DEF BrowserInv, Browse, PathsNamed
  <2>2. PICK p : p = Head(q.left) OBVIOUS
  <2>3. \/ Browsing(r, [q EXCEPT !.at = "run", !.native = TRUE])
        \/ Browsing(r, [q EXCEPT !.left = Tail(@)])
        \/ Browsing(r, [q EXCEPT !.at = "run", !.place = p])
        \/ Browsing(r, [q EXCEPT !.at = "clean"])
        \/ Browsing(r, NoBrowse)
    BY <1>3, <2>2 DEF installFileHelper, runFileHelper, nativeFileAction, BrowserCleanup,
                      RunOnVolume, RemoveVolumeHelper
  <2>4. ASSUME NEW rec, rec = [q EXCEPT !.at = "run", !.native = TRUE]
                        \/ rec = [q EXCEPT !.left = Tail(@)]
                        \/ rec = [q EXCEPT !.at = "run", !.place = p]
                        \/ rec = [q EXCEPT !.at = "clean"]
        PROVE  rec.path = q.path
    BY <2>1, <2>4 DEF IsBrowse
  <2>5. PICK rec : /\ Browsing(r, rec)
                   /\ \/ rec = [q EXCEPT !.at = "run", !.native = TRUE]
                      \/ rec = [q EXCEPT !.left = Tail(@)]
                      \/ rec = [q EXCEPT !.at = "run", !.place = p]
                      \/ rec = [q EXCEPT !.at = "clean"]
                      \/ rec = NoBrowse
    BY <2>3
  <2> QED BY <1>0, <2>1, <2>4, <2>5, PathKept
<1>4. CASE ContainerTurns \/ UNCHANGED browserVars
  BY <1>4 DEF ContainerTurns, browserVars, PathsNamed
<1>5. CASE ContainerRecreated
  <2>1. bReq' = [r \in BrowserRequests |-> [bReq[r] EXCEPT !.gone = bReq[r].at # "idle"]]
    BY <1>5 DEF ContainerRecreated
  <2>2. ASSUME NEW r \in BrowserRequests PROVE bReq'[r].path = bReq[r].path
    <3>1. PICK q : q = bReq[r] OBVIOUS
    <3>2. PICK n : n = [q EXCEPT !.gone = q.at # "idle"] OBVIOUS
    <3>3. bReq'[r] = n BY <2>1, <3>1, <3>2
    <3>4. IsBrowse(q) BY <3>1 DEF BrowserInv, Browse
    <3> QED BY <3>1, <3>2, <3>3, <3>4 DEF IsBrowse
  <2> QED BY <2>2 DEF PathsNamed
<1>6. CASE CleanupFileBrowserHelpers
  BY <1>0, <1>6 DEF CleanupFileBrowserHelpers, PathsNamed
<1> QED BY <1>1, <1>2, <1>3, <1>4, <1>5, <1>6 DEF BrowserNext

LEMMA TreeKept ==
    ASSUME BrowserTypeInv, [BrowserNext]_browserVars
    PROVE  /\ bTree' \in [BrowsedPaths -> 0..2] /\ bUp' \in BOOLEAN
           /\ browserSteps' \in 0..MaxBrowserSteps
<1>0. BrowserEvent => browserSteps' \in 0..MaxBrowserSteps
  BY FileBrowserAssumption DEF BrowserEvent, BrowserTypeInv
<1>1. CASE \/ \E r \in BrowserRequests :
                \/ \E op \in {"list", "create", "rename", "delete", "upload", "download"},
                      p \in BrowsedPaths : prepareBrowserTarget(r, op, p)
                \/ \E op \in {"list", "delete"} : createVolumeBrowserTarget(r, op)
                \/ installFileHelper(r) \/ BrowserCleanup(r)
                \/ RunOnVolume(r) \/ RemoveVolumeHelper(r)
           \/ CleanupFileBrowserHelpers \/ UNCHANGED browserVars
  <2>1. UNCHANGED <<bTree, bUp>> /\ (BrowserEvent \/ UNCHANGED browserSteps)
    BY <1>1 DEF prepareBrowserTarget, createVolumeBrowserTarget, installFileHelper, BrowserCleanup,
                RunOnVolume, RemoveVolumeHelper, CleanupFileBrowserHelpers, browserVars
  <2> QED BY <1>0, <2>1 DEF BrowserTypeInv
<1>2. ASSUME NEW r \in BrowserRequests, runFileHelper(r) \/ nativeFileAction(r)
      PROVE  /\ bTree' \in [BrowsedPaths -> 0..2] /\ UNCHANGED <<bUp, browserSteps>>
  <2>1. Effect(bReq[r]) \in [BrowsedPaths -> 0..2] BY EffectTyped DEF BrowserTypeInv, PathsNamed
  <2>2. bTree' \in {Effect(bReq[r]), bTree} /\ UNCHANGED <<bUp, browserSteps>>
    BY <1>2 DEF runFileHelper, nativeFileAction
  <2> QED BY <2>1, <2>2 DEF BrowserTypeInv
<1>3. CASE ContainerTurns \/ ContainerRecreated
  <2>1. UNCHANGED bTree /\ bUp' \in BOOLEAN /\ BrowserEvent
    BY <1>3 DEF ContainerTurns, ContainerRecreated
  <2> QED BY <1>0, <2>1 DEF BrowserTypeInv
<1> QED BY <1>1, <1>2, <1>3 DEF BrowserNext, BrowserTypeInv

LEMMA BrowserTypeKept == BrowserTypeInv /\ [BrowserNext]_browserVars => BrowserTypeInv'
BY BrowserKeeps, PathsKept, TreeKept DEF BrowserTypeInv

LEMMA BrowserTypeStarts == BrowserInit => BrowserTypeInv
<1> SUFFICES ASSUME BrowserInit PROVE BrowserTypeInv OBVIOUS
<1>1. PathsNamed BY DEF BrowserInit, PathsNamed, NoBrowse, BrowsedPaths
<1>2. bTree \in [BrowsedPaths -> 0..2] BY DEF BrowserInit
<1> QED BY <1>1, <1>2, BrowserStarts, FileBrowserAssumption DEF BrowserInit, BrowserTypeInv

LEMMA BrowserIsTyped == BrowserTypeInv => BrowserTypeOK
BY DEF BrowserTypeInv, BrowserInv, Browse, BrowserTypeOK

(* The files, the requests and the helper containers keep their types,     *)
(* whatever the operations do to the files (file_browser_http.go).         *)
THEOREM BrowserTyped == BrowserSpec => []BrowserTypeOK
<1> QED BY BrowserTypeStarts, BrowserTypeKept, BrowserIsTyped, PTL DEF BrowserSpec

-----------------------------------------------------------------------------
(***************************************************************************)
(* The cleaner (PruneSchedule).  An operator is told that cleaning is off  *)
(* only while the row says so, and every job reads the row when it fires,  *)
(* wherever in the scheduler it was left.                                  *)
(***************************************************************************)

PrunePlaces == {"none", "saved", "schedule", "register", "job", "store", "stop"}
PruneCalls == [at : PrunePlaces, row : Rows, job : Nat]

PruneShapes ==
    /\ pMade \in Nat /\ pCall \in [PruneClients -> PruneCalls]
    /\ \A c \in PruneClients : pCall[c].job \in 0..pMade
    /\ pRun \in [at : {"none", "prune"}, what : SUBSET PruneKinds, left : SUBSET PruneKinds,
                 off : BOOLEAN]

PruneInv == PruneTypeOK /\ PruneShapes /\ (pOff => ~pRow.on) /\ OffMeansOff

LEMMA CallsShape ==
    ASSUME PruneShapes, NEW c \in PruneClients, NEW r \in PruneCalls, NEW made \in Nat,
           made >= pMade, r.job \in 0..made, Calls(c, r)
    PROVE  /\ pCall' \in [PruneClients -> PruneCalls]
           /\ \A d \in PruneClients : pCall'[d].job \in 0..made
<1>1. pCall' = [pCall EXCEPT ![c] = r] BY DEF Calls
<1> QED BY <1>1 DEF PruneShapes

LEMMA NoPruneShape == NoPrune \in PruneCalls /\ NoPrune.job = 0
BY DEF NoPrune, PruneCalls, PrunePlaces, Rows

LEMMA EditConfigStep ==
    ASSUME PruneInv, NEW c \in PruneClients, NEW row \in Rows, EditConfig(c, row)
    PROVE  PruneInv'
<1> DEFINE r == [at |-> "saved", row |-> row, job |-> 0]
<1>1. r \in PruneCalls /\ r.job \in 0..pMade
  BY DEF PruneCalls, PrunePlaces, PruneInv, PruneShapes
<1>2. /\ Calls(c, r) /\ pRow' = row /\ pOff' = (pOff /\ ~row.on)
      /\ UNCHANGED <<pTask, pJobs, pMade, pRun, pWaste>>
      /\ pruneSteps' \in 0..MaxPruneSteps
  BY PruneScheduleAssumption DEF EditConfig, PruneEvent, PruneInv, PruneTypeOK
<1> HIDE DEF r
<1>3. /\ pCall' \in [PruneClients -> PruneCalls]
      /\ \A d \in PruneClients : pCall'[d].job \in 0..pMade
  BY <1>1, <1>2, CallsShape DEF PruneInv, PruneShapes
<1>4. pOff' \in BOOLEAN /\ (pOff' => ~pRow'.on) BY <1>2
<1> QED BY <1>2, <1>3, <1>4 DEF PruneInv, PruneTypeOK, PruneShapes, OffMeansOff

(* What a request does after the row was saved.                            *)
LEMMA RequestStep ==
    ASSUME PruneInv, NEW c \in PruneClients,
           \/ ReadBack(c) \/ RunWithScheduler(c) \/ ScheduleJob(c) \/ StoreTask(c)
           \/ StopScheduler(c) \/ RunScheduledNow(c)
    PROVE  PruneInv'
<1> DEFINE q == pCall[c]
<1>1. q \in PruneCalls /\ q.job \in 0..pMade /\ pMade \in Nat /\ pTask \in 0..pMade
      /\ pJobs \subseteq 1..pMade
  BY DEF PruneInv, PruneShapes, PruneTypeOK
<1>2. /\ UNCHANGED <<pRow, pRun, pWaste>> /\ pruneSteps' \in 0..MaxPruneSteps
  BY PruneScheduleAssumption
  DEF ReadBack, RunWithScheduler, ScheduleJob, StoreTask, StopScheduler, RunScheduledNow,
      PruneEvent, PruneInv, PruneTypeOK
<1>q. pOff' \in BOOLEAN /\ (pOff' => ~pRow.on)
  <2>1. pOff \in BOOLEAN /\ (pOff => ~pRow.on) BY DEF PruneInv, PruneTypeOK
  <2>2. pOff' = pOff \/ StopScheduler(c)
    BY DEF ReadBack, RunWithScheduler, ScheduleJob, StoreTask, RunScheduledNow
  <2>3. StopScheduler(c) => pOff' \in BOOLEAN /\ (pOff' => pOff \/ ~pRow.on)
    BY DEF StopScheduler
  <2> QED BY <2>1, <2>2, <2>3
<1>3. /\ pMade' \in Nat /\ pTask' \in 0..pMade' /\ pJobs' \subseteq 1..pMade'
      /\ pCall' \in [PruneClients -> PruneCalls]
      /\ \A d \in PruneClients : pCall'[d].job \in 0..pMade'
  <2>1. ASSUME NEW r \in PruneCalls, r.job \in 0..pMade, Calls(c, r), UNCHANGED pMade,
               pTask' \in 0..pMade, pJobs' \subseteq 1..pMade
        PROVE  /\ pMade' \in Nat /\ pTask' \in 0..pMade' /\ pJobs' \subseteq 1..pMade'
               /\ pCall' \in [PruneClients -> PruneCalls]
               /\ \A d \in PruneClients : pCall'[d].job \in 0..pMade'
    BY <1>1, <2>1, CallsShape DEF PruneInv
  <2>2. CASE ReadBack(c)
    <3> DEFINE r == [q EXCEPT !.at = IF pRow.on THEN "schedule" ELSE "stop"]
    <3>1. r \in PruneCalls /\ r.job = q.job BY <1>1 DEF PruneCalls, PrunePlaces
    <3> HIDE DEF r
    <3> QED BY <1>1, <2>1, <2>2, <3>1 DEF ReadBack, r
  <2>3. CASE RunWithScheduler(c)
    <3> DEFINE r == [q EXCEPT !.at = "job", !.job = pTask]
    <3>0. pTask \in Nat BY <1>1
    <3>1. r \in PruneCalls /\ r.job = pTask BY <1>1, <3>0 DEF PruneCalls, PrunePlaces
    <3>2. (Calls(c, r) \/ Calls(c, NoPrune)) /\ UNCHANGED <<pTask, pJobs, pMade>>
      BY <2>3 DEF RunWithScheduler
    <3> HIDE DEF r
    <3> QED BY <1>1, <2>1, <3>1, <3>2, NoPruneShape
  <2>4. CASE ScheduleJob(c)
    <3>1. CASE q.job # 0
      <4> DEFINE r == [q EXCEPT !.at = "store"]
      <4>1. r \in PruneCalls /\ r.job = q.job BY <1>1 DEF PruneCalls, PrunePlaces
      <4>2. (Calls(c, r) \/ Calls(c, NoPrune)) /\ UNCHANGED <<pTask, pJobs, pMade>>
        BY <2>4, <3>1 DEF ScheduleJob
      <4> HIDE DEF r
      <4> QED BY <1>1, <2>1, <4>1, <4>2, NoPruneShape
    <3>2. CASE q.job = 0
      <4> DEFINE made == pMade + 1
                 r == [q EXCEPT !.at = "store", !.job = made]
      <4>1. made \in Nat /\ made >= pMade /\ 0..pMade \subseteq 0..made /\ 1..pMade \subseteq 1..made
            /\ made \in 1..made
        BY <1>1
      <4>2. pMade' = made /\ pJobs' = pJobs \cup {made} /\ pTask' = pTask /\ Calls(c, r)
        BY <2>4, <3>2 DEF ScheduleJob
      <4> HIDE DEF made
      <4>3. r \in PruneCalls /\ r.job = made BY <1>1, <4>1 DEF PruneCalls, PrunePlaces
      <4> HIDE DEF r
      <4> QED BY <1>1, <4>1, <4>2, <4>3, CallsShape DEF PruneInv
    <3> QED BY <3>1, <3>2
  <2>5. CASE StoreTask(c) BY <1>1, <2>1, <2>5, NoPruneShape DEF StoreTask
  <2>6. CASE StopScheduler(c) BY <1>1, <2>1, <2>6, NoPruneShape DEF StopScheduler
  <2>7. CASE RunScheduledNow(c)
    <3> DEFINE r == [at |-> "register", row |-> pRow, job |-> 0]
    <3>1. r \in PruneCalls /\ r.job = 0
      BY DEF PruneCalls, PrunePlaces, PruneInv, PruneTypeOK
    <3> HIDE DEF r
    <3> QED BY <1>1, <2>1, <2>7, <3>1 DEF RunScheduledNow, r
  <2> QED BY <2>2, <2>3, <2>4, <2>5, <2>6, <2>7
<1> QED BY <1>2, <1>q, <1>3 DEF PruneInv, PruneTypeOK, PruneShapes, OffMeansOff

LEMMA RunStep ==
    ASSUME PruneInv, clean \/ AddResult \/ \E k \in PruneKinds : Prune(k) \/ RunOnce({k})
    PROVE  PruneInv'
<1>1. /\ UNCHANGED <<pRow, pTask, pJobs, pMade, pCall, pOff>> /\ pruneSteps' \in 0..MaxPruneSteps
      /\ pWaste' \subseteq PruneKinds
  BY PruneScheduleAssumption
  DEF clean, AddResult, Prune, RunOnce, PruneEvent, PruneInv, PruneTypeOK
<1>2. /\ pRun' \in [at : {"none", "prune"}, what : SUBSET PruneKinds, left : SUBSET PruneKinds,
                    off : BOOLEAN]
      /\ pRun'.at = "prune" => ~pRun'.off
  <2>1. CASE pRun' = NoPruneRun BY <2>1 DEF NoPruneRun
  <2>2. CASE clean /\ pRun' # NoPruneRun
    <3>1. /\ pRun' = [at |-> "prune", what |-> pruneWanted, left |-> pruneWanted, off |-> pOff]
          /\ pruneWanted # {}
      BY <2>2 DEF clean
    <3>2. pRow.on /\ pruneWanted \subseteq PruneKinds
      BY <3>1 DEF pruneWanted, PruneInv, PruneTypeOK, Rows
    <3>3. pOff = FALSE BY <3>2 DEF PruneInv, PruneTypeOK
    <3> HIDE DEF pruneWanted
    <3> QED BY <3>1, <3>2, <3>3
  <2>3. ASSUME NEW k \in PruneKinds, Prune(k)
        PROVE  /\ pRun' \in [at : {"none", "prune"}, what : SUBSET PruneKinds,
                             left : SUBSET PruneKinds, off : BOOLEAN]
               /\ pRun'.at = "prune" => ~pRun'.off
    BY <2>3 DEF Prune, PruneInv, PruneShapes, OffMeansOff
  <2>4. ASSUME NEW k \in PruneKinds, RunOnce({k})
        PROVE  /\ pRun' \in [at : {"none", "prune"}, what : SUBSET PruneKinds,
                             left : SUBSET PruneKinds, off : BOOLEAN]
               /\ pRun'.at = "prune" => ~pRun'.off
    BY <2>4 DEF RunOnce
  <2> QED BY <2>1, <2>2, <2>3, <2>4 DEF AddResult
<1> QED BY <1>1, <1>2 DEF PruneInv, PruneTypeOK, PruneShapes, OffMeansOff

LEMMA PruneStarts == PruneInit => PruneInv
<1> SUFFICES ASSUME PruneInit PROVE PruneInv OBVIOUS
<1>1. pMade = 1 /\ pMade \in Nat /\ pruneSteps \in 0..MaxPruneSteps /\ pWaste \subseteq PruneKinds
  BY PruneScheduleAssumption DEF PruneInit
<1>2. /\ pRow \in Rows /\ pTask \in 0..1 /\ pJobs \subseteq 1..1
      /\ pOff \in BOOLEAN /\ (pOff => ~pRow.on)
  <2>1. PICK on \in BOOLEAN :
          /\ pRow = [on |-> on, cron |-> 1, what |-> PruneKinds]
          /\ pTask = (IF on THEN 1 ELSE 0)
          /\ pJobs = (IF on THEN {1} ELSE {})
          /\ pOff = ~on
    BY DEF PruneInit
  <2>2. pRow \in Rows /\ pRow.on = on BY <2>1 DEF Rows
  <2>3. pTask \in 0..1 /\ pJobs \subseteq 1..1 BY <2>1
  <2>4. pOff \in BOOLEAN /\ (pOff => ~on) BY <2>1
  <2> QED BY <2>2, <2>3, <2>4
<1>3. /\ pCall \in [PruneClients -> PruneCalls]
      /\ \A c \in PruneClients : pCall[c].job \in 0..1
  BY NoPruneShape DEF PruneInit
<1>4. /\ pRun \in [at : {"none", "prune"}, what : SUBSET PruneKinds, left : SUBSET PruneKinds,
                   off : BOOLEAN]
      /\ pRun.at = "none"
  BY DEF PruneInit, NoPruneRun
<1> QED BY <1>1, <1>2, <1>3, <1>4 DEF PruneInv, PruneTypeOK, PruneShapes, OffMeansOff

LEMMA ScheduleKeeps == PruneInv /\ [PruneNext]_pruneVars => PruneInv'
<1> SUFFICES ASSUME PruneInv, [PruneNext]_pruneVars PROVE PruneInv' OBVIOUS
<1>1. CASE UNCHANGED pruneVars
  BY <1>1 DEF pruneVars, PruneInv, PruneTypeOK, PruneShapes, OffMeansOff
<1> QED BY <1>1, EditConfigStep, RequestStep, RunStep DEF PruneNext

(* Once an operator was told that cleaning is off, no job that fires later *)
(* prunes anything until somebody turns it on, whatever jobs concurrent    *)
(* requests left in the scheduler (cleaner/service.go: EditConfig, clean). *)
THEOREM OffStaysOff == PruneSpec => [](PruneTypeOK /\ OffMeansOff)
<1>1. PruneInit => PruneInv BY PruneStarts
<1>2. PruneInv /\ [PruneNext]_pruneVars => PruneInv' BY ScheduleKeeps
<1>3. PruneInv => PruneTypeOK /\ OffMeansOff BY DEF PruneInv
<1> QED BY <1>1, <1>2, <1>3, PTL DEF PruneSpec

-----------------------------------------------------------------------------
(***************************************************************************)
(* Live sessions (LiveSessions).  The handler closes what a session holds  *)
(* before its cleanup removes the container, so the end of the cleanup is  *)
(* the end of everything; and a session never changes what it is.          *)
(***************************************************************************)

LivePlaces == {"none", "make", "start", "connect", "port", "open", "close", "clean", "done"}
LiveRecords ==
    [at : LivePlaces, kind : LiveKinds, self : BOOLEAN, socket : BOOLEAN, conn : BOOLEAN,
     reader : BOOLEAN, box : {"none", "created", "up"}, url : BOOLEAN,
     fault : {"none", "setup", "removal", "stop"}]

(* What a session holds, and that the policy allowed it.                   *)
Released(r) ==
    /\ r.at \in {"clean", "done"} => ~r.conn /\ ~r.reader /\ ~r.url
    /\ r.at = "done" => ~r.socket /\ (r.box # "none" => r.fault # "none")
Allowed(allow, r) ==
    ~allow /\ r.at \notin {"none", "done"} =>
      r.kind # "debug" /\ ~(r.self /\ r.kind \in {"exec", "shell"})
LiveSound(allow, r) == r \in LiveRecords /\ Released(r) /\ Allowed(allow, r)

LiveInv ==
    /\ lvAllow \in BOOLEAN /\ liveSteps \in 0..MaxLiveSteps
    /\ lv \in [LiveIds -> LiveRecords]
    /\ \A q \in LiveIds : LiveSound(lvAllow, lv[q])

LEMMA OneMoves ==
    ASSUME LiveInv, NEW q \in LiveIds, NEW r, LiveSound(lvAllow, r), Moves(q, r)
    PROVE  LiveInv'
BY DEF Moves, LiveInv, LiveSound

LEMMA OneOpens ==
    ASSUME LiveInv, NEW q \in LiveIds, NEW kind, NEW self, NEW r, LiveSound(lvAllow, r),
           Opens(q, kind, self, r)
    PROVE  LiveInv'
<1>1. liveSteps' \in 0..MaxLiveSteps BY LiveAssumption DEF Opens, LiveInv
<1> QED BY <1>1 DEF Opens, LiveInv, LiveSound

(* A session that is opened is what the policy was asked about, or less.   *)
LEMMA OpenStep ==
    ASSUME LiveInv, NEW q \in LiveIds, NEW self \in BOOLEAN,
           OpenExec(q, self) \/ OpenShell(q, self) \/ OpenLogs(q, self) \/ OpenViewer(q)
    PROVE  LiveInv'
<1>1. ASSUME NEW kind \in LiveKinds, NEW asked \in LiveKinds,
             asked = kind \/ asked = "debug", NEW at \in {"connect", "make", "open", "close"},
             NEW s \in BOOLEAN, NEW r \in LiveRecords,
             r.kind = kind /\ r.self = s /\ r.at = at /\ r.box = "none",
             Opens(q, asked, s, r)
      PROVE  LiveInv'
  <2>1. execAllowed(asked, s) /\ lvAllow \in BOOLEAN BY <1>1 DEF Opens, LiveInv
  <2>2. Allowed(lvAllow, r) BY <1>1, <2>1 DEF execAllowed, Allowed, LiveKinds
  <2>3. LiveSound(lvAllow, r) BY <1>1, <2>2 DEF LiveSound, Released
  <2> QED BY <1>1, <2>3, OneOpens
<1>2. ASSUME NEW kind \in LiveKinds, NEW s \in BOOLEAN, NEW at \in {"connect", "make", "open", "close"}
      PROVE  LET r == Opened(kind, s, at) IN
             r \in LiveRecords /\ r.kind = kind /\ r.self = s /\ r.at = at /\ r.box = "none"
  BY <1>2 DEF Opened, NoLive, LiveRecords, LiveKinds, LivePlaces
<1>3. CASE OpenExec(q, self) BY <1>1, <1>2, <1>3 DEF OpenExec, LiveKinds
<1>4. CASE OpenShell(q, self) BY <1>1, <1>2, <1>4 DEF OpenShell, LiveKinds
<1>5. CASE OpenViewer(q)
  <2> DEFINE r == Opened("viewer", FALSE, "make")
  <2>1. r \in LiveRecords /\ r.kind = "viewer" /\ r.self = FALSE /\ r.at = "make" /\ r.box = "none"
    BY DEF Opened, NoLive, LiveRecords, LiveKinds, LivePlaces
  <2>2. Opens(q, "viewer", FALSE, r) BY <1>5 DEF OpenViewer
  <2> HIDE DEF r
  <2> QED BY <1>1, <2>1, <2>2 DEF LiveKinds
<1>6. CASE OpenLogs(q, self)
  <2> DEFINE r == [Opened("logs", self, "open") EXCEPT !.conn = TRUE, !.reader = TRUE]
             s == [Opened("logs", self, "close") EXCEPT !.conn = TRUE, !.socket = FALSE]
  <2>1. r \in LiveRecords /\ r.kind = "logs" /\ r.self = self /\ r.at = "open" /\ r.box = "none"
    BY DEF Opened, NoLive, LiveRecords, LiveKinds, LivePlaces
  <2>2. s \in LiveRecords /\ s.kind = "logs" /\ s.self = self /\ s.at = "close" /\ s.box = "none"
    BY DEF Opened, NoLive, LiveRecords, LiveKinds, LivePlaces
  <2>3. Opens(q, "logs", self, r) \/ Opens(q, "logs", self, s) BY <1>6 DEF OpenLogs
  <2> HIDE DEF r, s
  <2> QED BY <1>1, <2>1, <2>2, <2>3 DEF LiveKinds
<1> QED BY <1>3, <1>4, <1>5, <1>6

(* A session that goes on stays what it is.                                *)
LEMMA GoOnStep ==
    ASSUME LiveInv, NEW q \in LiveIds, NEW r \in LiveRecords, Moves(q, r),
           lv[q].at \notin {"none", "done"}, r.kind = lv[q].kind, r.self = lv[q].self,
           Released(r)
    PROVE  LiveInv'
<1>1. Allowed(lvAllow, r) BY DEF LiveInv, LiveSound, Allowed
<1> QED BY <1>1, OneMoves DEF LiveSound

LEMMA SetupStep ==
    ASSUME LiveInv, NEW q \in LiveIds,
           \/ ContainerExecDebug(q) \/ StartSession(q)
           \/ AttachExec(q) \/ AttachDebug(q) \/ StartShell(q) \/ ServeViewer(q)
    PROVE  LiveInv'
<1> DEFINE p == lv[q]
<1>1. p \in LiveRecords /\ p.at \in {"make", "start", "connect", "port"}
  BY DEF LiveInv, ContainerExecDebug, StartSession, MakeBox, AttachExec, AttachDebug, StartShell,
         Attach, ServeViewer
<1>2. \/ Moves(q, [p EXCEPT !.at = "close", !.fault = "setup"])
      \/ Moves(q, [p EXCEPT !.at = "start", !.box = "created"])
      \/ Moves(q, [p EXCEPT !.at = "connect", !.box = "up"])
      \/ Moves(q, [p EXCEPT !.at = "port", !.box = "up"])
      \/ Moves(q, [p EXCEPT !.at = "open", !.conn = TRUE, !.reader = TRUE])
      \/ Moves(q, [p EXCEPT !.at = "open", !.url = TRUE])
  BY DEF ContainerExecDebug, StartSession, MakeBox, AttachExec, AttachDebug, StartShell,
         Attach, ServeViewer, SetupFails
<1>3. ASSUME NEW r \in LiveRecords, Moves(q, r), r.kind = p.kind, r.self = p.self,
             r.at \in {"close", "start", "connect", "port", "open"}
      PROVE  LiveInv'
  BY <1>1, <1>3, GoOnStep DEF Released
<1> HIDE DEF p
<1>4. ASSUME NEW at \in {"close", "start", "connect", "port", "open"}
      PROVE  /\ LET r == [p EXCEPT !.at = at, !.fault = "setup"] IN
                r \in LiveRecords /\ r.kind = p.kind /\ r.self = p.self /\ r.at = at
             /\ LET r == [p EXCEPT !.at = at, !.box = "created"] IN
                r \in LiveRecords /\ r.kind = p.kind /\ r.self = p.self /\ r.at = at
             /\ LET r == [p EXCEPT !.at = at, !.box = "up"] IN
                r \in LiveRecords /\ r.kind = p.kind /\ r.self = p.self /\ r.at = at
             /\ LET r == [p EXCEPT !.at = at, !.conn = TRUE, !.reader = TRUE] IN
                r \in LiveRecords /\ r.kind = p.kind /\ r.self = p.self /\ r.at = at
             /\ LET r == [p EXCEPT !.at = at, !.url = TRUE] IN
                r \in LiveRecords /\ r.kind = p.kind /\ r.self = p.self /\ r.at = at
  BY <1>1, <1>4 DEF LiveRecords, LivePlaces
<1> QED BY <1>2, <1>3, <1>4

(* One side ends, and the handler follows.                                 *)
LEMMA EndStep ==
    ASSUME LiveInv, NEW q \in LiveIds,
           \/ ExecStops(q) \/ ShellStops(q) \/ LogsStop(q) \/ ClientLeaves(q)
           \/ LoopEnds(q) \/ ViewerEnds(q) \/ CloseLive(q)
    PROVE  LiveInv'
<1> DEFINE p == lv[q]
<1>1. p \in LiveRecords /\ Released(p) BY DEF LiveInv, LiveSound
<1>2. CASE ExecStops(q) \/ ShellStops(q) \/ LogsStop(q)
  <2>1. PICK socket \in BOOLEAN :
          Moves(q, [p EXCEPT !.reader = FALSE, !.socket = @ /\ socket, !.box = "none"])
    BY <1>2 DEF ExecStops, ShellStops, LogsStop, FarEndStops
  <2>2. p.at = "open" BY <1>2 DEF ExecStops, ShellStops, LogsStop, FarEndStops
  <2> DEFINE both == p.socket /\ socket
             r == [p EXCEPT !.reader = FALSE, !.socket = both, !.box = "none"]
  <2>3. Moves(q, r) BY <2>1
  <2>4. both \in BOOLEAN BY <1>1 DEF LiveRecords
  <2> HIDE DEF both
  <2>5. r \in LiveRecords /\ r.kind = p.kind /\ r.self = p.self /\ r.at = "open"
    BY <1>1, <2>2, <2>4 DEF LiveRecords
  <2> HIDE DEF r
  <2> QED BY <2>2, <2>3, <2>5, GoOnStep DEF Released
<1>3. CASE ClientLeaves(q)
  <2> DEFINE r == [p EXCEPT !.socket = FALSE]
  <2>1. p.at # "none" /\ p.socket /\ Moves(q, r) BY <1>3 DEF ClientLeaves
  <2>2. p.at # "done" BY <1>1, <2>1 DEF Released
  <2>3. /\ r \in LiveRecords /\ r.kind = p.kind /\ r.self = p.self /\ r.at = p.at
        /\ r.conn = p.conn /\ r.reader = p.reader /\ r.url = p.url
    BY <1>1 DEF LiveRecords
  <2> HIDE DEF r
  <2> QED BY <1>1, <2>1, <2>2, <2>3, GoOnStep DEF Released
<1>4. CASE LoopEnds(q) \/ ViewerEnds(q)
  <2> DEFINE r == [p EXCEPT !.at = "close"]
  <2>1. p.at = "open" /\ Moves(q, r) BY <1>4 DEF LoopEnds, ViewerEnds
  <2>2. r \in LiveRecords /\ r.kind = p.kind /\ r.self = p.self /\ r.at = "close"
    BY <1>1 DEF LiveRecords, LivePlaces
  <2> HIDE DEF r
  <2> QED BY <2>1, <2>2, GoOnStep DEF Released
<1>5. CASE CloseLive(q)
  <2> DEFINE r == [p EXCEPT !.at = "clean", !.conn = FALSE, !.reader = FALSE, !.url = FALSE]
  <2>1. p.at = "close" /\ Moves(q, r) BY <1>5 DEF CloseLive
  <2>2. /\ r \in LiveRecords /\ r.kind = p.kind /\ r.self = p.self /\ r.at = "clean"
        /\ ~r.conn /\ ~r.reader /\ ~r.url
    BY <1>1 DEF LiveRecords, LivePlaces
  <2> HIDE DEF r
  <2> QED BY <2>1, <2>2, GoOnStep DEF Released
<1> QED BY <1>2, <1>3, <1>4, <1>5

LEMMA CleanStep ==
    ASSUME LiveInv, NEW q \in LiveIds, CleanLive(q) \/ CloseViewer(q)
    PROVE  LiveInv'
<1> DEFINE p == lv[q]
           box == IF p.fault = "setup" THEN p.box ELSE "none"
           r == [p EXCEPT !.at = "done", !.socket = FALSE, !.box = box]
           s == [p EXCEPT !.at = "done", !.socket = FALSE, !.fault = "removal"]
<1>1. p \in LiveRecords /\ Released(p) /\ p.at = "clean"
  BY DEF LiveInv, LiveSound, CleanLive, CloseViewer, Cleaned
<1>2. Moves(q, r) \/ Moves(q, s) BY DEF CleanLive, CloseViewer, Cleaned
<1>3. box \in {"none", "created", "up"} /\ (box # "none" => p.fault # "none")
  BY <1>1 DEF LiveRecords
<1> HIDE DEF box
<1>4. /\ r \in LiveRecords /\ r.kind = p.kind /\ r.self = p.self /\ r.at = "done" /\ ~r.socket
      /\ r.conn = p.conn /\ r.reader = p.reader /\ r.url = p.url /\ r.box = box
      /\ r.fault = p.fault
  BY <1>1, <1>3 DEF LiveRecords, LivePlaces
<1>5. /\ s \in LiveRecords /\ s.kind = p.kind /\ s.self = p.self /\ s.at = "done" /\ ~s.socket
      /\ s.conn = p.conn /\ s.reader = p.reader /\ s.url = p.url /\ s.fault = "removal"
  BY <1>1 DEF LiveRecords, LivePlaces
<1> HIDE DEF r, s
<1>6. Released(r) /\ Released(s) BY <1>1, <1>3, <1>4, <1>5 DEF Released
<1> QED BY <1>1, <1>2, <1>4, <1>5, <1>6, GoOnStep

LEMMA StopStep == ASSUME LiveInv, StopLive PROVE LiveInv'
<1>1. ASSUME NEW q \in LiveIds PROVE LiveSound(lvAllow', lv'[q]) /\ lv'[q] \in LiveRecords
  <2>1. lv[q] \in LiveRecords /\ Released(lv[q]) BY DEF LiveInv, LiveSound
  <2>2. CASE lv[q].at \in {"none", "done"}
    <3>1. lv'[q] = lv[q] BY <2>2 DEF StopLive
    <3> QED BY <2>1, <2>2, <3>1 DEF LiveSound, Allowed
  <2>3. CASE lv[q].at \notin {"none", "done"}
    <3> DEFINE r == [NoLive EXCEPT !.at = "done", !.kind = lv[q].kind, !.self = lv[q].self,
                                   !.box = lv[q].box, !.fault = "stop"]
    <3>1. lv'[q] = r BY <2>3 DEF StopLive
    <3>2. /\ r \in LiveRecords /\ r.at = "done" /\ ~r.socket /\ ~r.conn /\ ~r.reader /\ ~r.url
          /\ r.fault = "stop"
      BY <2>1 DEF LiveRecords, LivePlaces, NoLive
    <3> HIDE DEF r
    <3> QED BY <3>1, <3>2 DEF LiveSound, Released, Allowed
  <2> QED BY <2>2, <2>3
<1>2. lv' = [q \in LiveIds |-> lv'[q]] BY DEF StopLive
<1>3. lv' \in [LiveIds -> LiveRecords] BY <1>1, <1>2
<1>4. lvAllow' \in BOOLEAN BY DEF StopLive
<1>5. liveSteps' \in 0..MaxLiveSteps
  <2>1. liveSteps < MaxLiveSteps /\ liveSteps' = liveSteps + 1 BY DEF StopLive
  <2> QED BY <2>1, LiveAssumption DEF LiveInv
<1> QED BY <1>1, <1>3, <1>4, <1>5 DEF LiveInv

LEMMA LiveStarts == LiveInit => LiveInv
<1>1. NoLive \in LiveRecords /\ NoLive.at = "none"
  BY DEF NoLive, LiveRecords, LiveKinds, LivePlaces
<1>2. \A allow : LiveSound(allow, NoLive) BY <1>1 DEF LiveSound, Released, Allowed
<1> QED BY <1>1, <1>2, LiveAssumption DEF LiveInit, LiveInv

LEMMA LiveKeeps == LiveInv /\ [LiveNext]_liveVars => LiveInv'
<1> SUFFICES ASSUME LiveInv, [LiveNext]_liveVars PROVE LiveInv' OBVIOUS
<1>1. CASE UNCHANGED liveVars BY <1>1 DEF liveVars, LiveInv
<1>2. ASSUME NEW q \in LiveIds, OpenViewer(q) PROVE LiveInv'
  <2>1. TRUE \in BOOLEAN OBVIOUS
  <2> QED BY <1>2, <2>1, OpenStep
<1> QED BY <1>1, <1>2, OpenStep, SetupStep, EndStep, CleanStep, StopStep DEF LiveNext

(* A session that is over holds nothing, whichever side ended first, and a *)
(* container it made stays only after a fault that was reported; and while *)
(* the policy is closed no live session is a shell inside Dockman or on    *)
(* its host (handler_http.go: containerExec, checkExecAllowed).            *)
THEOREM SessionsAreSafe == LiveSpec => []SessionsSafe
<1>1. LiveInit => LiveInv BY LiveStarts
<1>2. LiveInv /\ [LiveNext]_liveVars => LiveInv' BY LiveKeeps
<1>3. LiveInv => SessionsSafe
  BY DEF LiveInv, LiveSound, Released, Allowed, SessionsSafe, NothingHeld, PolicyHolds
<1> QED BY <1>1, <1>2, <1>3, PTL DEF LiveSpec

(* The handlers of live sessions are at one of their steps, each with the  *)
(* container it made (handler_http.go, hostshell_http.go, debug.go).       *)
THEOREM SessionsTyped == LiveSpec => []LiveTypeOK
<1>1. LiveInit => LiveInv BY LiveStarts
<1>2. LiveInv /\ [LiveNext]_liveVars => LiveInv' BY LiveKeeps
<1>3. LiveInv => LiveTypeOK BY DEF LiveInv, LiveSound, LiveRecords, LivePlaces, LiveTypeOK
<1> QED BY <1>1, <1>2, <1>3, PTL DEF LiveSpec

-----------------------------------------------------------------------------
(***************************************************************************)
(* Following a log (LogStream).  The reader's mark is the last line that   *)
(* went through the channel, and once there is one, every later stream     *)
(* starts right after it: nothing of the tail is asked for again, and      *)
(* nothing between is left out.                                            *)
(***************************************************************************)

LogShapes ==
    /\ LogTypeOK /\ gSince \in Nat /\ gAll \in BOOLEAN /\ gNext \in Nat
    /\ gLines \in Seq(Nat) /\ gSent \in Seq(Nat) /\ gLast <= gLog

Consecutive(s) == \A i \in 2..Len(s) : s[i] = s[i - 1] + 1
Ends(s, n) == s # <<>> => s[Len(s)] = n
Viewed == gSent \o gLines

(* Where the next line comes from, once there was one.                     *)
Resumes ==
    /\ gAt = "reading" => gNext > 0
    /\ gAt = "reading" /\ gLast > 0 => gNext = gLast + 1
    /\ gAt \in {"open", "wait"} /\ gLast > 0 => gSince = gLast + 1 /\ gAll

LogInv ==
    /\ LogShapes /\ Resumes
    /\ Consecutive(Viewed) /\ (gClient => Ends(Viewed, gLast))
    /\ gLast = 0 => Viewed = <<>>

LEMMA TailIsPositive == LogsTail \in Nat \ {0}
<1> DEFINE share == StreamTail \div StreamCount
<1>1. share \in Int BY LogAssumption
<1> HIDE DEF share
<1>2. LogsTail = LET per == IF share < TailFloor THEN TailFloor ELSE share
                 IN IF per < StreamTail THEN per ELSE StreamTail
  BY DEF LogsTail, share
<1> QED BY <1>1, <1>2, LogAssumption

LEMMA StartIs ==
    ASSUME LogShapes
    PROVE  /\ StreamStart \in Nat /\ StreamStart > 0
           /\ gAll /\ gSince > 1 => StreamStart = gSince
<1>1. gLog \in Nat /\ gSince \in Nat /\ gAll \in BOOLEAN BY LogAssumption DEF LogShapes, LogTypeOK
<1> DEFINE tail == IF gAll \/ gLog < LogsTail THEN 1 ELSE gLog - LogsTail + 1
<1>2. tail \in Nat /\ tail > 0 /\ (gAll => tail = 1) BY <1>1, TailIsPositive
<1>3. StreamStart = IF gSince > tail THEN gSince ELSE tail BY DEF StreamStart
<1> HIDE DEF tail
<1> QED BY <1>1, <1>2, <1>3

LEMMA AppendSeen ==
    ASSUME NEW s \in Seq(Nat), NEW n \in Nat, Consecutive(s), NEW last, Ends(s, last),
           s # <<>> => n = last + 1
    PROVE  Consecutive(Append(s, n)) /\ Ends(Append(s, n), n)
<1>1. /\ Append(s, n) \in Seq(Nat) /\ Len(Append(s, n)) = Len(s) + 1 /\ Len(s) \in Nat
      /\ \A i \in 1..Len(s) : Append(s, n)[i] = s[i]
      /\ Append(s, n)[Len(s) + 1] = n
  BY AppendProperties
<1>2. ASSUME NEW i \in 2..(Len(s) + 1) PROVE Append(s, n)[i] = Append(s, n)[i - 1] + 1
  <2>1. CASE i \in 2..Len(s)
    <3>1. i \in 1..Len(s) /\ i - 1 \in 1..Len(s) BY <1>1, <2>1
    <3> QED BY <1>1, <2>1, <3>1 DEF Consecutive
  <2>2. CASE i = Len(s) + 1
    <3>1. Len(s) \in 1..Len(s) /\ i - 1 = Len(s) /\ Len(s) # 0 BY <1>1, <2>2
    <3>2. s # <<>> BY <3>1, EmptySeq
    <3>3. s[Len(s)] = last /\ n = last + 1 BY <3>2 DEF Ends
    <3> QED BY <1>1, <2>2, <3>1, <3>3
  <2> QED BY <1>1, <2>1, <2>2
<1> QED BY <1>1, <1>2 DEF Consecutive, Ends

LEMMA PrefixSeen ==
    ASSUME NEW s \in Seq(Nat), NEW t \in Seq(Nat), Consecutive(s \o t)
    PROVE  Consecutive(s \o <<>>)
<1>1. /\ Len(s \o t) = Len(s) + Len(t) /\ Len(s) \in Nat /\ Len(t) \in Nat
      /\ \A i \in 1..Len(s) : (s \o t)[i] = s[i]
  BY ConcatProperties
<1>2. s \o <<>> = s BY ConcatEmptySeq
<1>3. ASSUME NEW i \in 2..Len(s) PROVE s[i] = s[i - 1] + 1
  <2>1. i \in 1..Len(s) /\ i - 1 \in 1..Len(s) /\ i \in 2..Len(s \o t) BY <1>1
  <2> QED BY <1>1, <2>1 DEF Consecutive
<1> QED BY <1>2, <1>3 DEF Consecutive

(* A line written through the channel, and one taken out of it.            *)
LEMMA EnterSeen ==
    ASSUME NEW s \in Seq(Nat), NEW t \in Seq(Nat), NEW n \in Nat
    PROVE  s \o t \in Seq(Nat) /\ s \o Append(t, n) = Append(s \o t, n)
<1>1. <<n>> \in Seq(Nat) /\ Append(t, n) = t \o <<n>> BY AppendIsConcat
<1>2. s \o t \in Seq(Nat) BY ConcatProperties
<1>3. Append(s \o t, n) = (s \o t) \o <<n>> BY <1>2, AppendIsConcat
<1>4. (s \o t) \o <<n>> = s \o (t \o <<n>>) BY <1>1, ConcatAssociative
<1> QED BY <1>1, <1>2, <1>3, <1>4

LEMMA Regroup ==
    ASSUME NEW s \in Seq(Nat), NEW h \in Seq(Nat), NEW u \in Seq(Nat)
    PROVE  (s \o h) \o u = s \o (h \o u)
BY ConcatAssociative

LEMMA MoveSeen ==
    ASSUME NEW s \in Seq(Nat), NEW t \in Seq(Nat), t # <<>>
    PROVE  Append(s, Head(t)) \o Tail(t) = s \o t
<1> DEFINE x == Head(t)
           u == Tail(t)
<1>1. /\ x \in Nat /\ u \in Seq(Nat) /\ Len(u) = Len(t) - 1
      /\ \A i \in 1..Len(u) : u[i] = t[i + 1]
  BY HeadTailProperties
<1>2. Len(t) \in Nat /\ x = t[1] OBVIOUS
<1> HIDE DEF x, u
<1> DEFINE h == <<x>>
<1>3. h \in Seq(Nat) /\ Len(h) = 1 /\ h[1] = x BY <1>1
<1>4. Append(s, x) = s \o h BY <1>1, AppendIsConcat
<1> HIDE DEF h
<1>a. h \o u \in Seq(Nat) /\ Len(h \o u) = Len(h) + Len(u)
  BY <1>1, <1>3, ConcatProperties
<1>c. h \in Seq(Nat) /\ u \in Seq(Nat) BY <1>1, <1>3
<1>b. \A i \in 1..(Len(h) + Len(u)) :
        (h \o u)[i] = IF i <= Len(h) THEN h[i] ELSE u[i - Len(h)]
  BY <1>c, ConcatProperties, Zenon
<1>5. /\ h \o u \in Seq(Nat) /\ Len(h \o u) = Len(t)
      /\ \A i \in 1..Len(t) : (h \o u)[i] = IF i <= 1 THEN h[i] ELSE u[i - 1]
  <2>1. Len(h) = 1 /\ Len(u) = Len(t) - 1 /\ Len(h) + Len(u) = Len(t) BY <1>1, <1>2, <1>3
  <2>2. \A i \in 1..Len(t) : (h \o u)[i] = IF i <= 1 THEN h[i] ELSE u[i - 1] BY <1>b, <2>1
  <2> QED BY <1>a, <2>1, <2>2
<1>6. ASSUME NEW i \in 1..Len(t) PROVE (h \o u)[i] = t[i]
  <2>1. CASE i = 1 BY <1>2, <1>3, <1>5, <2>1
  <2>2. CASE i > 1
    <3>1. i - 1 \in 1..Len(u) BY <1>1, <1>2, <2>2
    <3>2. u[i - 1] = t[(i - 1) + 1] /\ (i - 1) + 1 = i BY <1>1, <3>1
    <3> QED BY <1>2, <1>5, <2>2, <3>2
  <2>3. i \in Nat /\ (i = 1 \/ i > 1) BY <1>2
  <2> QED BY <2>1, <2>2, <2>3
<1>7. h \o u = t BY <1>2, <1>5, <1>6, SeqEqual
<1>8. (s \o h) \o u = s \o (h \o u) BY <1>c, Regroup, Zenon
<1> QED BY <1>4, <1>7, <1>8 DEF x, u

(* The container, and the steps of the reader that touch no line.          *)
LEMMA QuietStep ==
    ASSUME LogInv, \/ WriteLine \/ StopBox \/ StartAgain \/ openContainerLogsOnce
                   \/ ReadFails \/ StreamEnds \/ Reopen
    PROVE  LogInv'
<1>1. LogShapes /\ Resumes BY DEF LogInv
<1>2. UNCHANGED <<gFollow, gLast, gLines, gSent, gClient>>
  BY DEF WriteLine, StopBox, StartAgain, openContainerLogsOnce, ReadFails, StreamEnds, Reopen,
         gReader, gBox
<1>3. (Consecutive(Viewed) /\ (gClient => Ends(Viewed, gLast)) /\ (gLast = 0 => Viewed = <<>>))'
  BY <1>2 DEF LogInv, Viewed
<1>4. CASE WriteLine \/ StopBox \/ StartAgain
  <2>1. UNCHANGED <<gAt, gSince, gAll, gNext, gDelay>> BY <1>4 DEF WriteLine, StopBox, StartAgain, gReader
  <2>2. gLog' \in 0..MaxLines /\ gStops' \in 0..MaxStops /\ gLog' >= gLog
    BY <1>1, <1>4, LogAssumption DEF WriteLine, StopBox, StartAgain, LogShapes, LogTypeOK
  <2>3. LogShapes' BY <1>1, <1>2, <2>1, <2>2, LogAssumption DEF LogShapes, LogTypeOK
  <2>4. Resumes' BY <1>1, <1>2, <2>1 DEF Resumes
  <2> QED BY <1>3, <2>3, <2>4 DEF LogInv
<1>5. CASE openContainerLogsOnce
  <2>1. gAt = "open" /\ UNCHANGED <<gLog, gStops, gSince, gAll, gDelay>>
        /\ ((gAt' = "reading" /\ gNext' = StreamStart) \/ (gAt' = "failed" /\ gNext' = gNext))
    BY <1>5 DEF openContainerLogsOnce, gBox
  <2>2. LogShapes' BY <1>1, <1>2, <2>1, StartIs DEF LogShapes, LogTypeOK
  <2>3. gLast \in Nat BY <1>1, LogAssumption DEF LogShapes, LogTypeOK
  <2>4. gLast > 0 => StreamStart = gLast + 1
    BY <1>1, <2>1, <2>3, StartIs DEF Resumes
  <2>5. Resumes' BY <1>1, <1>2, <2>1, <2>4, StartIs DEF Resumes
  <2> QED BY <1>3, <2>2, <2>5 DEF LogInv
<1>6. CASE ReadFails \/ Reopen
  <2>1. /\ UNCHANGED <<gLog, gStops, gSince, gAll, gNext, gDelay>>
        /\ gAt' = "failed" \/ (gAt = "wait" /\ gAt' = "open")
    BY <1>6 DEF ReadFails, Reopen, gBox
  <2>2. LogShapes' BY <1>1, <1>2, <2>1 DEF LogShapes, LogTypeOK
  <2>3. Resumes' BY <1>1, <1>2, <2>1 DEF Resumes
  <2> QED BY <1>3, <2>2, <2>3 DEF LogInv
<1>7. CASE StreamEnds
  <2>1. UNCHANGED <<gLog, gStops, gNext>> BY <1>7 DEF StreamEnds, gBox
  <2>2. gLast \in Nat /\ gSince \in Nat /\ gAll \in BOOLEAN /\ gDelay \in {1, 2, 4, 8, 10}
    BY <1>1, LogAssumption DEF LogShapes, LogTypeOK
  <2>3. CASE gFollow
    <3>1. /\ gAt' = "wait" /\ gSince' = (IF gLast > 0 THEN gLast + 1 ELSE gSince)
          /\ gAll' = (IF gLast > 0 THEN TRUE ELSE gAll)
          /\ gDelay' = (IF gLast >= gSince /\ gLast > 0 THEN 1
                        ELSE IF gDelay * 2 > 10 THEN 10 ELSE gDelay * 2)
      BY <1>7, <2>3 DEF StreamEnds, Resume
    <3>2. gDelay' \in {1, 2, 4, 8, 10}
      <4>1. (IF gDelay * 2 > 10 THEN 10 ELSE gDelay * 2) \in {1, 2, 4, 8, 10} BY <2>2
      <4> QED BY <3>1, <4>1
    <3>3. gSince' \in Nat /\ gAll' \in BOOLEAN
      <4>1. CASE gLast > 0 BY <2>2, <3>1, <4>1
      <4>2. CASE ~(gLast > 0) BY <2>2, <3>1, <4>2
      <4> QED BY <4>1, <4>2
    <3>4. LogShapes' BY <1>1, <1>2, <2>1, <3>1, <3>2, <3>3 DEF LogShapes, LogTypeOK
    <3>5. Resumes' BY <1>2, <2>2, <3>1 DEF Resumes
    <3> QED BY <1>3, <3>4, <3>5 DEF LogInv
  <2>4. CASE ~gFollow
    <3>1. gAt' = "ended" /\ UNCHANGED <<gSince, gAll, gDelay>> BY <1>7, <2>4 DEF StreamEnds
    <3>2. LogShapes' BY <1>1, <1>2, <2>1, <3>1 DEF LogShapes, LogTypeOK
    <3>3. Resumes' BY <3>1 DEF Resumes
    <3> QED BY <1>3, <3>2, <3>3 DEF LogInv
  <2> QED BY <2>3, <2>4
<1> QED BY <1>4, <1>5, <1>6, <1>7

(* A line is delivered: the one after the last.                            *)
LEMMA EmitStep == ASSUME LogInv, emitTracked PROVE LogInv'
<1>1. /\ LogShapes /\ Resumes /\ Consecutive(Viewed) /\ gClient /\ Ends(Viewed, gLast)
      /\ (gLast = 0 => Viewed = <<>>) /\ gAt = "reading" /\ gNext <= gLog /\ Len(gLines) < LineBuffer
  BY DEF LogInv, emitTracked
<1>2. /\ gLines' = Append(gLines, gNext) /\ gNext' = gNext + 1
      /\ gLast' = (IF gNext > gLast THEN gNext ELSE gLast)
      /\ UNCHANGED <<gUp, gLog, gStops, gFollow, gAt, gSince, gAll, gDelay, gSent, gClient>>
  BY DEF emitTracked, gBox
<1>3. gNext \in Nat /\ gNext > 0 /\ gLast \in Nat /\ gLog \in 0..MaxLines /\ gLines \in Seq(Nat)
      /\ gSent \in Seq(Nat) /\ (gLast > 0 => gNext = gLast + 1)
  BY <1>1, LogAssumption DEF LogShapes, LogTypeOK, Resumes
<1>4. gLast' = gNext BY <1>2, <1>3
<1>5. Viewed \in Seq(Nat) /\ Viewed' = Append(Viewed, gNext)
  BY <1>2, <1>3, EnterSeen DEF Viewed
<1>6. Viewed # <<>> => gNext = gLast + 1 BY <1>1, <1>3
<1> HIDE DEF Viewed
<1>7. Consecutive(Viewed') /\ Ends(Viewed', gNext) BY <1>1, <1>3, <1>5, <1>6, AppendSeen
<1>8. LogShapes'
  <2>1. gLines' \in Seq(Nat) /\ Len(gLines') = Len(gLines) + 1 /\ Len(gLines) \in Nat
    BY <1>2, <1>3, AppendProperties
  <2>2. Len(gLines') <= LineBuffer BY <1>1, <2>1, LogAssumption
  <2>3. gLast' \in 0..MaxLines /\ gLast' <= gLog /\ gNext' \in Nat BY <1>1, <1>2, <1>3, <1>4, LogAssumption
  <2> QED BY <1>1, <1>2, <2>1, <2>2, <2>3 DEF LogShapes, LogTypeOK
<1>9. Resumes' BY <1>1, <1>2, <1>3, <1>4 DEF Resumes
<1>10. Consecutive(Viewed)' /\ (gClient => Ends(Viewed, gLast))' /\ (gLast = 0 => Viewed = <<>>)'
  BY <1>3, <1>4, <1>7 DEF Consecutive, Ends
<1> QED BY <1>8, <1>9, <1>10 DEF LogInv

LEMMA SendStep ==
    ASSUME LogInv, SendLine \/ ClientCloses
    PROVE  LogInv'
<1>1. LogShapes /\ Resumes /\ gLines \in Seq(Nat) /\ gSent \in Seq(Nat) /\ Len(gLines) <= LineBuffer
      /\ LineBuffer \in Nat
  BY LogAssumption DEF LogInv, LogShapes, LogTypeOK
<1>2. CASE SendLine
  <2>1. /\ gLines # <<>> /\ gSent' = Append(gSent, Head(gLines)) /\ gLines' = Tail(gLines)
        /\ UNCHANGED <<gLog, gStops, gFollow, gAt, gSince, gAll, gNext, gLast, gDelay, gClient>>
    BY <1>2 DEF SendLine, gBox, gReader
  <2>2. /\ Head(gLines) \in Nat /\ Tail(gLines) \in Seq(Nat) /\ Len(Tail(gLines)) = Len(gLines) - 1
        /\ Len(gLines) \in Nat
    BY <1>1, <2>1, HeadTailProperties
  <2>3. gSent' \in Seq(Nat) /\ gLines' \in Seq(Nat) /\ Len(gLines') <= LineBuffer
    BY <1>1, <2>1, <2>2, AppendProperties
  <2>4. Viewed' = Viewed BY <1>1, <2>1, MoveSeen DEF Viewed
  <2>5. LogShapes' BY <1>1, <2>1, <2>3 DEF LogShapes, LogTypeOK
  <2>6. Resumes' BY <1>1, <2>1 DEF Resumes
  <2> QED BY <2>1, <2>4, <2>5, <2>6 DEF LogInv, Consecutive, Ends
<1>3. CASE ClientCloses
  <2>1. /\ ~gClient' /\ gAt' = "ended" /\ gLines' = <<>>
        /\ UNCHANGED <<gLog, gStops, gFollow, gSince, gAll, gNext, gLast, gDelay, gSent>>
    BY <1>3 DEF ClientCloses, gBox
  <2>2. LogShapes' BY <1>1, <2>1, EmptySeq DEF LogShapes, LogTypeOK
  <2>3. Resumes' BY <2>1 DEF Resumes
  <2>4. Viewed' = gSent \o <<>> BY <2>1 DEF Viewed
  <2>5. Consecutive(gSent \o <<>>) BY <1>1, PrefixSeen DEF LogInv, Viewed
  <2>6. gLast = 0 => gSent \o <<>> = <<>>
    <3>1. ASSUME gSent \o gLines = <<>> PROVE gSent \o <<>> = <<>>
      <4>1. Len(gSent) + Len(gLines) = 0 /\ Len(gSent) \in Nat /\ Len(gLines) \in Nat
        BY <1>1, <3>1, ConcatProperties, EmptySeq
      <4>2. gSent = <<>> BY <1>1, <4>1, EmptySeq
      <4> QED BY <4>2, ConcatEmptySeq, EmptySeq
    <3> QED BY <3>1 DEF LogInv, Viewed
  <2> QED BY <2>1, <2>2, <2>3, <2>4, <2>5, <2>6 DEF LogInv, Consecutive, Ends
<1> QED BY <1>2, <1>3

LEMMA LogStarts == LogInit => LogInv
<1> SUFFICES ASSUME LogInit PROVE LogInv OBVIOUS
<1>1. Len(<<>>) = 0 /\ <<>> \in Seq(Nat) /\ <<>> \o <<>> = <<>> BY EmptySeq, ConcatEmptySeq
<1>2. /\ gLines = <<>> /\ gSent = <<>> /\ gLast = 0 /\ gAt = "open" /\ gSince = 0 /\ gAll = FALSE
      /\ gNext = 0 /\ gDelay = 1 /\ gStops = 0 /\ gLog \in 0..1
  BY DEF LogInit
<1>a. gLog \in 0..MaxLines /\ gLog \in Nat /\ 0 \in 0..MaxLines /\ 0 \in 0..MaxStops BY <1>2, LogAssumption
<1>b. LogTypeOK BY <1>1, <1>a, <1>2, LogAssumption DEF LogTypeOK
<1>c. gLines \in Seq(Nat) /\ gSent \in Seq(Nat) BY <1>1, <1>2
<1>d. gLast <= gLog BY <1>a, <1>2
<1>e. gSince \in Nat /\ gAll \in BOOLEAN /\ gNext \in Nat BY <1>2
<1>3. LogShapes BY <1>b, <1>c, <1>d, <1>e DEF LogShapes
<1>4. Resumes BY <1>2 DEF Resumes
<1>5. Viewed = <<>> BY <1>1, <1>2 DEF Viewed
<1>6. Consecutive(Viewed) BY <1>1, <1>5 DEF Consecutive
<1>7. Ends(Viewed, gLast) BY <1>5 DEF Ends
<1> QED BY <1>3, <1>4, <1>5, <1>6, <1>7 DEF LogInv

LEMMA LogKeeps == LogInv /\ [LogNext]_logVars => LogInv'
<1> SUFFICES ASSUME LogInv, [LogNext]_logVars PROVE LogInv' OBVIOUS
<1>1. CASE UNCHANGED logVars
  BY <1>1 DEF logVars, LogInv, LogShapes, LogTypeOK, Resumes, Viewed, Consecutive, Ends
<1> QED BY <1>1, QuietStep, EmitStep, SendStep DEF LogNext

(* From its first line on the viewer misses nothing and repeats nothing,   *)
(* over stops, starts and reopened streams, and the reader's mark is the   *)
(* last line it has (logs_stream.go: streamContainerLogs, emitTracked).    *)
THEOREM LogIsContiguous == LogSpec => []LogContiguous
<1>1. LogInit => LogInv BY LogStarts
<1>2. LogInv /\ [LogNext]_logVars => LogInv' BY LogKeeps
<1>3. LogInv => LogContiguous BY DEF LogInv, Viewed, Consecutive, Ends, LogContiguous
<1> QED BY <1>1, <1>2, <1>3, PTL DEF LogSpec

(* The delays, the counters and the channel keep their bounds              *)
(* (logs_stream.go: reopenDelay, the channel of ContainerLogsStream).      *)
THEOREM LogTyped == LogSpec => []LogTypeOK
<1>1. LogInit => LogInv BY LogStarts
<1>2. LogInv /\ [LogNext]_logVars => LogInv' BY LogKeeps
<1>3. LogInv => LogTypeOK BY DEF LogInv, LogShapes
<1> QED BY <1>1, <1>2, <1>3, PTL DEF LogSpec

-----------------------------------------------------------------------------
(***************************************************************************)
(* The search for versions (VersionDiscovery).  A catalog that is kept or  *)
(* answered begins the registry's own list: the one scan that reads it has *)
(* exactly the pages it has counted, and those that wait began no later    *)
(* than the reading may take.                                              *)
(***************************************************************************)

IsLook(q) ==
    q = [at |-> q.at, want |-> q.want, page |-> q.page, token |-> q.token, got |-> q.got,
         use |-> q.use, since |-> q.since, read |-> q.read]

Look(q) ==
    /\ IsLook(q) /\ q.at \in {"none", "read", "wait", "answered", "error"}
    /\ q.page \in Nat /\ q.since \in Nat /\ q.read \in Nat

(* The first n tags of the registry.                                       *)
Begins(u, n) == u \in Seq(Tags) /\ Len(u) = n /\ n <= Len(vTags) /\ \A i \in 1..n : u[i] = vTags[i]

Listed(u) == Len(u) >= 1 /\ Begins(u, Len(u))

(* A scan that reads, one that waits for it, one that has its answer.      *)
Stands(s, q) ==
    /\ q.since <= vNow
    /\ q.at = "read" => s = vLead /\ Begins(q.got, q.page)
    /\ q.at = "wait" => vLead # 0
    /\ q.at # "none" => q.want \in Wants
    /\ q.at = "answered" => Listed(q.use) /\ q.since - q.read < VersionTTL

Kept == vCache.till \in Nat /\ vCache.read \in Nat
        /\ (vCache.till # 0 => Listed(vCache.tags) /\ vCache.till = vCache.read + VersionTTL)

Leading ==
    vLead # 0 => /\ vLead \in Scans /\ vScan[vLead].at = "read"
                 /\ vNow - vScan[vLead].since <= LookupTimeout

Catalog ==
    /\ vTags \in Seq(Tags) /\ Len(vTags) >= 1
    /\ \A i, j \in 1..Len(vTags) : vTags[i] = vTags[j] => i = j

VersionInv ==
    /\ vScan = [s \in Scans |-> vScan[s]] /\ Catalog /\ Kept /\ Leading
    /\ vNow \in 1..MaxVersionTime /\ vSteps \in 0..MaxVersionSteps
    /\ \A s \in Scans : Look(vScan[s]) /\ Stands(s, vScan[s])

LEMMA FreshLook ==
    ASSUME NEW w, NEW n, n = [NoVersionScan EXCEPT !.want = w, !.since = vNow, !.read = vNow]
    PROVE  /\ IsLook(n) /\ n.page = 0 /\ n.got = <<>> /\ n.since = vNow /\ n.read = vNow
           /\ n.want = w
<1>1. IsLook(NoVersionScan) /\ NoVersionScan.page = 0 /\ NoVersionScan.got = <<>>
  BY DEF NoVersionScan, IsLook
<1>2. PICK z : z = NoVersionScan OBVIOUS
<1> QED BY <1>1, <1>2 DEF IsLook

LEMMA NothingBegins == Catalog => Begins(<<>>, 0)
BY EmptySeq DEF Begins, Catalog

(* The registry's list only grows.                                         *)
LEMMA ListGrows ==
    ASSUME Catalog, NEW t \in Tags, vTags' = Append(vTags, t), ~Contains(vTags, t)
    PROVE  /\ Catalog'
           /\ \A u, n : n \in Nat /\ Begins(u, n) => Begins(u, n)'
           /\ \A u : Listed(u) => Listed(u)'
<1>1. /\ vTags' \in Seq(Tags) /\ Len(vTags') = Len(vTags) + 1 /\ Len(vTags) \in Nat
      /\ \A i \in 1..Len(vTags) : vTags'[i] = vTags[i]
      /\ vTags'[Len(vTags) + 1] = t
  BY AppendProperties, LenProperties DEF Catalog
<1>2. \A i \in 1..Len(vTags) : vTags[i] # t BY DEF Contains
<1>3. Catalog' BY <1>1, <1>2 DEF Catalog
<1>4. \A u, n : n \in Nat /\ Begins(u, n) => Begins(u, n)' BY <1>1 DEF Begins
<1>5. \A u : u \in Seq(Tags) => Len(u) \in Nat BY LenProperties
<1>6. \A u : Listed(u) => Listed(u)' BY <1>4, <1>5 DEF Listed, Begins
<1> QED BY <1>3, <1>4, <1>6

(* A scan begins.                                                          *)
LEMMA ScanStartKeeps ==
    ASSUME VersionInv, NEW s \in Scans, NEW want \in Wants, StartScan(s, want)
    PROVE  VersionInv'
<1> DEFINE new == [NoVersionScan EXCEPT !.want = want, !.since = vNow, !.read = vNow]
<1>1. /\ vNow \in Nat /\ vSteps' \in 0..MaxVersionSteps /\ UNCHANGED <<vTags, vCache, vNow>>
      /\ vScan[s].at = "none"
  BY VersionAssumption DEF VersionInv, StartScan, VersionStep
<1>2. (\A u, n : Begins(u, n) => Begins(u, n)') /\ (\A u : Listed(u) => Listed(u)')
  <2>1. \A u, n : Begins(u, n) => Begins(u, n)' BY <1>1 DEF Begins
  <2>2. ASSUME NEW u, Listed(u) PROVE Listed(u)'
    <3>1. Len(u) >= 1 /\ Begins(u, Len(u)) BY <2>2 DEF Listed
    <3> QED BY <2>1, <3>1 DEF Listed
  <2> QED BY <2>1, <2>2
<1>3. Catalog' /\ Kept' /\ vNow' \in 1..MaxVersionTime BY <1>1, <1>2 DEF VersionInv, Catalog, Kept
<1>4. PICK n : n = [NoVersionScan EXCEPT !.want = want, !.since = vNow, !.read = vNow] OBVIOUS
<1>5. /\ IsLook(n) /\ n.page = 0 /\ n.got = <<>> /\ n.since = vNow /\ n.read = vNow
      /\ n.want = want
  BY <1>4, FreshLook
<1>6. PICK q :
        /\ vScan' = [vScan EXCEPT ![s] = q]
        /\ IsLook(q) /\ q.page = 0 /\ q.got = <<>> /\ q.since = vNow /\ q.read \in Nat
        /\ q.want = want
        /\ q.at \in {"answered", "read", "wait"}
        /\ q.at = "answered" => vNow < vCache.till /\ q.use = vCache.tags /\ q.read = vCache.read
                                /\ vLead' = vLead
        /\ q.at = "read" => vLead = 0 /\ vLead' = s
        /\ q.at = "wait" => vLead # 0 /\ vLead' = vLead
  <2>1. CASE vNow < vCache.till
    <3>1. PICK q : q = [n EXCEPT !.at = "answered", !.use = vCache.tags, !.read = vCache.read]
      OBVIOUS
    <3>2. vScan' = [vScan EXCEPT ![s] = q] /\ UNCHANGED vLead
      BY <2>1, <1>4, <3>1 DEF StartScan
    <3>3. vCache.read \in Nat BY DEF VersionInv, Kept
    <3>4. /\ IsLook(q) /\ q.page = 0 /\ q.got = <<>> /\ q.since = vNow /\ q.at = "answered"
          /\ q.use = vCache.tags /\ q.read = vCache.read /\ q.want = want
      BY <1>5, <3>1 DEF IsLook
    <3> QED BY <2>1, <3>2, <3>3, <3>4
  <2>2. CASE ~(vNow < vCache.till)
    <3>1. PICK a : a = IF vLead = 0 THEN "read" ELSE "wait" OBVIOUS
    <3>2. PICK q : q = [n EXCEPT !.at = a] OBVIOUS
    <3>3. /\ vScan' = [vScan EXCEPT ![s] = q]
          /\ vLead' = IF vLead = 0 THEN s ELSE vLead
      BY <2>2, <1>4, <3>1, <3>2 DEF StartScan
    <3>4. /\ IsLook(q) /\ q.page = 0 /\ q.got = <<>> /\ q.since = vNow /\ q.at = a
          /\ q.read = vNow /\ q.want = want
      BY <1>5, <3>2 DEF IsLook
    <3> QED BY <1>1, <3>1, <3>3, <3>4
  <2> QED BY <2>1, <2>2
<1>7. /\ vScan' = [vScan EXCEPT ![s] = q] /\ vScan'[s] = q
      /\ \A x \in Scans : x # s => vScan'[x] = vScan[x]
      /\ vScan' = [x \in Scans |-> vScan'[x]]
  BY <1>6 DEF VersionInv
<1>8. 0 \notin Scans /\ vNow - vNow <= LookupTimeout BY <1>1, VersionAssumption
<1>9. Leading'
  <2>1. CASE q.at = "read" BY <1>1, <1>6, <1>7, <1>8, <2>1 DEF Leading
  <2>2. CASE q.at # "read"
    <3>1. vLead' = vLead BY <1>6, <2>2
    <3>2. vLead # 0 => vLead # s BY <1>1 DEF VersionInv, Leading
    <3> QED BY <1>1, <1>7, <3>1, <3>2 DEF VersionInv, Leading
  <2> QED BY <2>1, <2>2
<1>10. Stands(s, q)'
  <2>1. q.since <= vNow' BY <1>1, <1>6
  <2>2. q.at = "read" => s = vLead' /\ Begins(q.got, q.page)'
    BY <1>2, <1>6, NothingBegins DEF VersionInv
  <2>3. q.at = "wait" => vLead' # 0 BY <1>6
  <2>4. q.at = "answered" => Listed(q.use)' /\ q.since - q.read < VersionTTL
    BY <1>1, <1>2, <1>6, VersionAssumption DEF VersionInv, Kept
  <2> QED BY <1>6, <2>1, <2>2, <2>3, <2>4 DEF Stands
<1>11. ASSUME NEW x \in Scans, x # s PROVE Stands(x, vScan[x])'
  <2>1. Stands(x, vScan[x]) /\ vScan'[x] = vScan[x] BY <1>7, <1>11 DEF VersionInv
  <2>2. vScan[x].at = "read" => vLead # 0 /\ vLead' = vLead
    BY <1>6, <1>8, <2>1 DEF Stands
  <2>3. vScan[x].at = "wait" => vLead' # 0 BY <1>6, <1>8, <2>1 DEF Stands
  <2> QED BY <1>1, <1>2, <2>1, <2>2, <2>3 DEF Stands
<1>12. \A x \in Scans : (Look(vScan[x]) /\ Stands(x, vScan[x]))'
  BY <1>6, <1>7, <1>10, <1>11 DEF VersionInv, Look, IsLook
<1> QED BY <1>1, <1>3, <1>7, <1>9, <1>12 DEF VersionInv

(* A step of one scan under way.                                           *)
LEMMA OneLook ==
    ASSUME VersionInv, NEW s \in Scans, NEW q, vScan' = [vScan EXCEPT ![s] = q],
           UNCHANGED <<vTags, vCache, vLead, vNow, vSteps>>, Look(q), Stands(s, q),
           vScan[s].at = "read" => q.at = "read" /\ q.since = vScan[s].since
    PROVE  VersionInv'
<1>1. /\ vScan'[s] = q /\ \A x \in Scans : x # s => vScan'[x] = vScan[x]
      /\ vScan' = [x \in Scans |-> vScan'[x]]
  BY DEF VersionInv
<1>2. Catalog' /\ Kept' BY DEF VersionInv, Catalog, Kept, Listed, Begins
<1>3. Leading' BY <1>1 DEF VersionInv, Leading
<1>4. \A x \in Scans : Look(vScan[x])' BY <1>1 DEF VersionInv, Look, IsLook
<1>5. \A x : \A y : Stands(x, y) => Stands(x, y)' BY DEF Stands, Listed, Begins
<1>6. \A x \in Scans : Stands(x, vScan[x])' BY <1>1, <1>5 DEF VersionInv
<1>7. vNow' \in 1..MaxVersionTime /\ vSteps' \in 0..MaxVersionSteps BY DEF VersionInv
<1> QED BY <1>1, <1>2, <1>3, <1>4, <1>6, <1>7 DEF VersionInv

(* Where a scan stands and what it has, but for what a step changes.       *)
LEMMA LookStep ==
    ASSUME VersionInv, NEW s \in Scans,
           anonymousBearerToken(s) \/ requestRegistryTagsPage(s) \/ WaiterLeaves(s)
    PROVE  VersionInv'
<1> PICK o : o = vScan[s] OBVIOUS
<1>1. Look(o) /\ Stands(s, o) /\ Catalog /\ vScan = [x \in Scans |-> vScan[x]] BY DEF VersionInv
<1>2. CASE anonymousBearerToken(s)
  <2>1. PICK q : q = [o EXCEPT !.token = TRUE, !.page = o.page] OBVIOUS
  <2>2. vScan' = [vScan EXCEPT ![s] = q] /\ UNCHANGED <<vTags, vCache, vLead, vNow, vSteps>>
    BY <1>1, <1>2, <2>1 DEF anonymousBearerToken, RetryWithToken
  <2>3. /\ IsLook(q) /\ q.at = o.at /\ q.page = o.page /\ q.got = o.got /\ q.use = o.use
        /\ q.since = o.since /\ q.read = o.read /\ q.want = o.want
    BY <1>1, <2>1 DEF Look, IsLook
  <2>4. Look(q) /\ Stands(s, q) BY <1>1, <2>3 DEF Look, Stands
  <2> QED BY <2>2, <2>3, <2>4, OneLook
<1>3. CASE requestRegistryTagsPage(s)
  <2>1. PICK tag : tag = vTags[o.page + 1] OBVIOUS
  <2>2. PICK got : got = IF Contains(o.got, tag) THEN o.got ELSE Append(o.got, tag) OBVIOUS
  <2>3. PICK q : q = [o EXCEPT !.got = got, !.page = @ + 1] OBVIOUS
  <2>4. /\ vScan' = [vScan EXCEPT ![s] = q] /\ UNCHANGED <<vTags, vCache, vLead, vNow, vSteps>>
        /\ o.at = "read" /\ o.page < Len(vTags)
    BY <1>1, <1>3, <2>1, <2>2, <2>3 DEF requestRegistryTagsPage
  <2>5. /\ IsLook(q) /\ q.at = o.at /\ q.page = o.page + 1 /\ q.got = got /\ q.use = o.use
        /\ q.since = o.since /\ q.read = o.read /\ q.want = o.want
    BY <1>1, <2>3 DEF Look, IsLook
  <2>6. Begins(got, o.page + 1)
    <3>1. /\ Begins(o.got, o.page) /\ o.page \in Nat /\ Len(vTags) \in Nat /\ o.page + 1 \in 1..Len(vTags)
      BY <1>1, <2>4, LenProperties DEF Stands, Look, Catalog
    <3>2. ~Contains(o.got, tag) BY <1>1, <2>1, <3>1 DEF Contains, Begins, Catalog
    <3>3. got = Append(o.got, tag) /\ tag \in Tags
      BY <1>1, <2>1, <2>2, <3>1, <3>2, ElementOfSeq DEF Catalog
    <3>4. /\ got \in Seq(Tags) /\ Len(got) = o.page + 1 /\ got[o.page + 1] = tag
          /\ \A i \in 1..o.page : got[i] = o.got[i]
      BY <3>1, <3>3, AppendProperties DEF Begins
    <3>5. \A i \in 1..o.page : got[i] = vTags[i] BY <3>1, <3>4 DEF Begins
    <3>6. got[o.page + 1] = vTags[o.page + 1] BY <2>1, <3>4
    <3>7. o.page + 1 <= Len(vTags) BY <3>1
    <3>8. \A i \in 1..(o.page + 1) : got[i] = vTags[i]
      <4> TAKE i \in 1..(o.page + 1)
      <4>1. i \in 1..o.page \/ i = o.page + 1 BY <3>1
      <4> QED BY <3>5, <3>6, <4>1
    <3> QED BY <3>4, <3>7, <3>8 DEF Begins
  <2>7. Look(q) /\ Stands(s, q) BY <1>1, <2>4, <2>5, <2>6 DEF Look, Stands
  <2> QED BY <2>4, <2>5, <2>7, OneLook
<1>4. CASE WaiterLeaves(s)
  <2>1. PICK q : q = [o EXCEPT !.at = "error"] OBVIOUS
  <2>2. /\ vScan' = [vScan EXCEPT ![s] = q] /\ UNCHANGED <<vTags, vCache, vLead, vNow, vSteps>>
        /\ o.at = "wait"
    BY <1>1, <1>4, <2>1 DEF WaiterLeaves
  <2>3. /\ IsLook(q) /\ q.at = "error" /\ q.page = o.page /\ q.since = o.since /\ q.read = o.read
        /\ q.want = o.want
    BY <1>1, <2>1 DEF Look, IsLook
  <2>4. Look(q) /\ Stands(s, q) BY <1>1, <2>2, <2>3 DEF Look, Stands
  <2> QED BY <2>2, <2>4, OneLook
<1> QED BY <1>2, <1>3, <1>4

(* The reading is over, with its catalog or with an error.                 *)
LEMMA SettleKeeps ==
    ASSUME VersionInv, NEW s \in Scans, vScan[s].at = "read", NEW ok \in BOOLEAN, NEW tags,
           Settle(s, ok, tags), UNCHANGED <<vTags, vNow, vSteps>>, ok => Listed(tags)
    PROVE  VersionInv'
<1> PICK o : o = vScan[s] OBVIOUS
<1>1. /\ Look(o) /\ Stands(s, o) /\ vLead = s /\ Catalog /\ vNow \in 1..MaxVersionTime
      /\ vSteps \in 0..MaxVersionSteps /\ vLead # 0
  BY VersionAssumption DEF VersionInv, Stands
<1>2. vNow - o.since <= LookupTimeout BY <1>1 DEF VersionInv, Leading
<1>3. (\A u : Listed(u) => Listed(u)') /\ Catalog' BY <1>1 DEF Listed, Begins, Catalog
<1>4. Kept'
  <2>1. CASE ok
    <3>1. vCache' = [tags |-> tags, till |-> o.since + VersionTTL, read |-> o.since]
      BY <2>1 DEF Settle
    <3> QED BY <1>1, <1>3, <2>1, <3>1, VersionAssumption DEF Kept, Look
  <2>2. CASE ~ok
    <3>1. vCache' = vCache BY <2>2 DEF Settle
    <3> QED BY <1>3, <3>1 DEF VersionInv, Kept
  <2> QED BY <2>1, <2>2
<1>5. vLead' = 0 /\ Leading' BY DEF Settle, Leading
<1>6. vScan' = [x \in Scans |-> vScan'[x]] BY DEF Settle
<1>7. ASSUME NEW r \in Scans PROVE (Look(vScan[r]) /\ Stands(r, vScan[r]))'
  <2> PICK p : p = vScan[r] OBVIOUS
  <2>1. Look(p) /\ Stands(r, p) /\ (r = s => p.at = "read") BY DEF VersionInv
  <2>2. CASE r = s \/ p.at = "wait"
    <3>1. PICK a : a = IF ok THEN "answered" ELSE "error" OBVIOUS
    <3>2. PICK q : q = [p EXCEPT !.at = a, !.use = tags, !.read = o.since] OBVIOUS
    <3>3. vScan'[r] = q BY <2>2, <3>1, <3>2 DEF Settle
    <3>4. /\ IsLook(q) /\ q.at = a /\ q.page = p.page /\ q.use = tags /\ q.since = p.since
          /\ q.read = o.since /\ q.want = p.want
      BY <2>1, <3>2 DEF Look, IsLook
    <3>5. Look(q) BY <1>1, <2>1, <3>1, <3>4 DEF Look
    <3>6. p.since <= vNow /\ p.since \in Nat /\ o.since \in Nat BY <1>1, <2>1 DEF Stands, Look
    <3>7. p.since - o.since < VersionTTL BY <1>1, <1>2, <3>6, VersionAssumption
    <3>8. a = "answered" => ok /\ Listed(tags)' BY <1>3, <3>1
    <3>9. a # "read" /\ a # "wait" BY <3>1
    <3>10. p.want \in Wants BY <2>1, <2>2 DEF Stands
    <3>11. Stands(r, q)' BY <3>10, <3>4, <3>6, <3>7, <3>8, <3>9 DEF Stands
    <3> QED BY <3>3, <3>5, <3>11 DEF Look, IsLook
  <2>3. CASE ~(r = s \/ p.at = "wait")
    <3>1. vScan'[r] = p BY <2>3 DEF Settle
    <3>2. p.at # "read" BY <1>1, <2>1, <2>3 DEF Stands
    <3>3. Stands(r, p)' BY <1>3, <2>1, <2>3, <3>2 DEF Stands
    <3> QED BY <2>1, <3>1, <3>3 DEF Look, IsLook
  <2> QED BY <2>2, <2>3
<1> QED BY <1>1, <1>3, <1>4, <1>5, <1>6, <1>7 DEF VersionInv

LEMMA ReadingEnds ==
    ASSUME VersionInv, NEW s \in Scans, registryTagsWithClient(s) \/ ReadError(s)
    PROVE  VersionInv'
<1>1. CASE registryTagsWithClient(s)
  <2>1. /\ vScan[s].at = "read" /\ Settle(s, TRUE, vScan[s].got) /\ UNCHANGED <<vTags, vNow, vSteps>>
        /\ vScan[s].page >= MaxTagPages \/ vScan[s].page >= Len(vTags)
    BY <1>1 DEF registryTagsWithClient
  <2>2. Begins(vScan[s].got, vScan[s].page) /\ vScan[s].page \in Nat BY <2>1 DEF VersionInv, Stands, Look
  <2>3. Len(vTags) \in Nat /\ Len(vTags) >= 1 BY LenProperties DEF VersionInv, Catalog
  <2>4. vScan[s].page >= 1 BY <2>1, <2>2, <2>3, VersionAssumption
  <2>5. Listed(vScan[s].got) BY <2>2, <2>4 DEF Listed, Begins
  <2> QED BY <2>1, <2>5, SettleKeeps
<1>2. CASE ReadError(s)
  BY <1>2, SettleKeeps DEF ReadError
<1> QED BY <1>1, <1>2

(* The registry and the clock.                                             *)
LEMMA OutsideKeeps ==
    ASSUME VersionInv, VersionTick \/ \E t \in Tags : PublishTag(t)
    PROVE  VersionInv'
<1>1. \A x : Look(x) => Look(x)' BY DEF Look, IsLook
<1>2. ASSUME NEW t \in Tags, PublishTag(t) PROVE VersionInv'
  <2>1. /\ vTags' = Append(vTags, t) /\ ~Contains(vTags, t) /\ UNCHANGED <<vCache, vLead, vScan, vNow>>
        /\ vSteps' \in 0..MaxVersionSteps
    BY <1>2, VersionAssumption DEF PublishTag, VersionStep, VersionInv
  <2>2. /\ Catalog' /\ \A u, n : n \in Nat /\ Begins(u, n) => Begins(u, n)'
        /\ \A u : Listed(u) => Listed(u)'
    BY <2>1, ListGrows DEF VersionInv
  <2>3. Kept' /\ Leading' BY <2>1, <2>2 DEF VersionInv, Kept, Leading
  <2>4. \A x \in Scans : Look(vScan[x])' /\ Stands(x, vScan[x])'
    BY <2>1, <2>2 DEF VersionInv, Stands, Look, IsLook
  <2> QED BY <2>1, <2>2, <2>3, <2>4 DEF VersionInv
<1>3. CASE VersionTick
  <2>1. /\ UNCHANGED <<vTags, vCache, vLead, vScan, vSteps>> /\ vNow' = vNow + 1
        /\ vLead # 0 => vNow - vScan[vLead].since < LookupTimeout
        /\ vNow < MaxVersionTime /\ vNow \in Nat /\ vNow' \in 1..MaxVersionTime
    BY <1>3, VersionAssumption DEF VersionTick, VersionInv
  <2>2. \A u : Listed(u) => Listed(u)' BY <2>1 DEF Listed, Begins
  <2>3. \A u, n : Begins(u, n) => Begins(u, n)' BY <2>1 DEF Begins
  <2>4. Catalog' /\ Kept' BY <2>1, <2>2 DEF VersionInv, Catalog, Kept
  <2>5. Leading'
    <3>1. ASSUME vLead # 0 PROVE vNow' - vScan[vLead].since <= LookupTimeout
      <4>1. vScan[vLead].since \in Nat BY <3>1 DEF VersionInv, Leading, Look
      <4> QED BY <2>1, <3>1, <4>1, VersionAssumption
    <3> QED BY <2>1, <3>1 DEF VersionInv, Leading
  <2>6. \A x \in Scans : Look(vScan[x])' /\ Stands(x, vScan[x])'
    BY <2>1, <2>2, <2>3 DEF VersionInv, Stands, Look, IsLook
  <2> QED BY <2>1, <2>4, <2>5, <2>6 DEF VersionInv
<1> QED BY <1>2, <1>3

LEMMA VersionStarts == VersionInit => VersionInv
<1> SUFFICES ASSUME VersionInit PROVE VersionInv OBVIOUS
<1>1. vTags = <<VersionOrder[Len(VersionOrder) - 1]>> /\ vNow = 1 /\ vSteps = 0 /\ vLead = 0
  BY DEF VersionInit
<1>2. PICK t : t = VersionOrder[Len(VersionOrder) - 1] OBVIOUS
<1>3. t \in Tags
  <2>1. Len(VersionOrder) - 1 \in 1..Len(VersionOrder) BY VersionAssumption, LenProperties
  <2> QED BY <1>2, <2>1, VersionAssumption, ElementOfSeq DEF Tags
<1>4. Catalog BY <1>1, <1>2, <1>3 DEF Catalog
<1>5. Kept /\ Leading BY DEF VersionInit, Kept, Leading
<1>6. Look(NoVersionScan) /\ NoVersionScan.at = "none" /\ NoVersionScan.since = 0
  BY DEF NoVersionScan, Look, IsLook
<1>7. \A s \in Scans : Look(vScan[s]) /\ Stands(s, vScan[s])
  BY <1>1, <1>6 DEF VersionInit, Stands
<1>8. vScan = [s \in Scans |-> vScan[s]] BY DEF VersionInit
<1> QED BY <1>1, <1>4, <1>5, <1>7, <1>8, VersionAssumption DEF VersionInv

LEMMA VersionKept == VersionInv /\ [VersionNext]_versionVars => VersionInv'
<1> SUFFICES ASSUME VersionInv, [VersionNext]_versionVars PROVE VersionInv' OBVIOUS
<1>1. CASE UNCHANGED versionVars
  BY <1>1 DEF versionVars, VersionInv, Catalog, Kept, Leading, Look, IsLook, Stands, Listed, Begins
<1>2. CASE VersionNext
  BY <1>2, ScanStartKeeps, LookStep, ReadingEnds, OutsideKeeps DEF VersionNext
<1> QED BY <1>1, <1>2

LEMMA VersionIsTyped == VersionInv => VersionTypeOK
BY DEF VersionInv, VersionTypeOK, Look, Leading

LEMMA CatalogIsWhole == VersionInv => CatalogWhole
<1> SUFFICES ASSUME VersionInv, NEW s \in Scans, vScan[s].at = "answered"
             PROVE  /\ IsPrefix(vScan[s].use, vTags) /\ Len(vScan[s].use) >= 1
                    /\ vScan[s].since - vScan[s].read < VersionTTL
  BY DEF CatalogWhole
<1> PICK u : u = vScan[s].use OBVIOUS
<1>1. Listed(u) /\ vScan[s].since - vScan[s].read < VersionTTL BY DEF VersionInv, Stands
<1>2. /\ u \in Seq(Tags) /\ vTags \in Seq(Tags) /\ Len(u) \in Nat /\ Len(u) <= Len(vTags)
      /\ Len(u) >= 1 /\ \A i \in 1..Len(u) : u[i] = vTags[i]
  BY <1>1, LenProperties DEF Listed, Begins, VersionInv, Catalog
<1>3. SubSeq(u, 1, Len(u)) = SubSeq(vTags, 1, Len(u))
  BY <1>2
<1> QED BY <1>1, <1>2, <1>3 DEF IsPrefix

(* The shared catalog keeps its types (version.go, tags).                  *)
THEOREM VersionTyped == VersionSpec => []VersionTypeOK
<1> QED BY VersionStarts, VersionKept, VersionIsTyped, PTL DEF VersionSpec

(* Every answer holds the registry's first pages, none lost to a token's   *)
(* detour or to another scan, and rests on a reading that began within the *)
(* time to live (version.go, tags; registry.go, registryTagsWithClient).   *)
THEOREM CatalogsAreWhole == VersionSpec => []CatalogWhole
<1> QED BY VersionStarts, VersionKept, CatalogIsWhole, PTL DEF VersionSpec

-----------------------------------------------------------------------------
(* The newest tag.  The order of the tags is the one compareSemanticTag    *)
(* has; that the comparison gives a catalog this order is what a run can   *)
(* check, and a hypothesis here.                                           *)
SemanticOrder ==
    \A i, j \in DOMAIN VersionOrder :
        compareSemanticTag(VersionOrder[i], VersionOrder[j]) > 0 <=> i > j

Fits(want, t) ==
    /\ want.pre \/ t.pre = <<>>
    /\ compareSemanticTag(t, want.cur) > 0
    /\ versionPolicyAllows(want.cur, t, want.policy)

Better(want, best, t) ==
    IF Fits(want, t) /\ \A b \in best : compareSemanticTag(t, b) > 0 THEN {t} ELSE best

(* A pass over the first n tags.                                           *)
Pass(want, tags, n, g) ==
    g = [k \in 0..n |-> IF k = 0 THEN {} ELSE Better(want, g[k - 1], tags[k])]

LEMMA PassFrom ==
    ASSUME NEW want, NEW tags, NEW m \in Nat \ {0}, NEW g, Pass(want, tags, m - 1, g)
    PROVE  \E h : Pass(want, tags, m, h)
<1> PICK last : last = Better(want, g[m - 1], tags[m]) OBVIOUS
<1> PICK h : h = [k \in 0..m |-> IF k = m THEN last ELSE g[k]] OBVIOUS
<1>1. \A k \in 0..(m - 1) : g[k] = IF k = 0 THEN {} ELSE Better(want, g[k - 1], tags[k])
  BY DEF Pass
<1>2. \A k \in 0..(m - 1) : h[k] = g[k] OBVIOUS
<1>3. h[m] = last /\ m - 1 \in 0..(m - 1) OBVIOUS
<1>4. ASSUME NEW k \in 0..m
      PROVE  h[k] = IF k = 0 THEN {} ELSE Better(want, h[k - 1], tags[k])
  <2>1. CASE k = m BY <1>2, <1>3, <2>1
  <2>2. CASE k # m
    <3>1. k \in 0..(m - 1) /\ (k # 0 => k - 1 \in 0..(m - 1)) BY <2>2
    <3>2. h[k] = g[k] /\ (k # 0 => h[k - 1] = g[k - 1]) BY <1>2, <3>1
    <3> QED BY <1>1, <3>1, <3>2
  <2> QED BY <2>1, <2>2
<1>5. h = [k \in 0..m |-> IF k = 0 THEN {} ELSE Better(want, h[k - 1], tags[k])] BY <1>4
<1> QED BY <1>5 DEF Pass

(* What fails for no first number fails for none.                          *)
LEMMA LeastNat ==
    ASSUME NEW B \in SUBSET Nat, B # {}
    PROVE  \E m \in B : m = 0 \/ m - 1 \notin B
<1> DEFINE R == {ss \in Nat \X Nat : ss[1] < ss[2]}
<1>1. IsWellFoundedOn(R, Nat)
  BY NatLessThanWellFounded, Zenon DEF OpToRel
<1> HIDE DEF R
<1>2. PICK m \in B : \A y \in B : ~(<<y, m>> \in R) BY <1>1, WFMin
<1>3. \A y \in B : ~(y < m) BY <1>2 DEF R
<1> QED BY <1>3

LEMMA PassExists ==
    ASSUME NEW want, NEW tags, NEW n \in Nat
    PROVE  \E g : Pass(want, tags, n, g)
<1> DEFINE B == {m \in Nat : ~\E g : Pass(want, tags, m, g)}
<1>1. SUFFICES ASSUME B # {} PROVE FALSE OBVIOUS
<1>2. PICK m \in B : m = 0 \/ m - 1 \notin B BY <1>1, LeastNat
<1>3. CASE m = 0
  <2>1. PICK g : g = [k \in 0..0 |-> {}] OBVIOUS
  <2>2. g = [k \in 0..0 |-> IF k = 0 THEN {} ELSE Better(want, g[k - 1], tags[k])] BY <2>1
  <2> QED BY <1>2, <1>3, <2>2 DEF Pass
<1>4. CASE m # 0
  <2>1. m - 1 \in Nat /\ m - 1 \notin B /\ m \in Nat \ {0} BY <1>2, <1>4
  <2>2. PICK g : Pass(want, tags, m - 1, g) BY <2>1
  <2> QED BY <1>2, <2>1, <2>2, PassFrom
<1> QED BY <1>3, <1>4

(* newestAllowedTag is the end of a pass.                                  *)
LEMMA NewestPass ==
    ASSUME NEW want, NEW tags, Len(tags) \in Nat
    PROVE  \E g : Pass(want, tags, Len(tags), g) /\ newestAllowedTag(want, tags) = g[Len(tags)]
<1> DEFINE f == CHOOSE g : g = [n \in 0..Len(tags) |->
                    IF n = 0 THEN {}
                    ELSE IF /\ want.pre \/ tags[n].pre = <<>>
                            /\ compareSemanticTag(tags[n], want.cur) > 0
                            /\ versionPolicyAllows(want.cur, tags[n], want.policy)
                            /\ \A b \in g[n - 1] : compareSemanticTag(tags[n], b) > 0
                         THEN {tags[n]} ELSE g[n - 1]]
<1>1. newestAllowedTag(want, tags) = f[Len(tags)] BY DEF newestAllowedTag
<1>2. f = CHOOSE g : Pass(want, tags, Len(tags), g)
  BY DEF Pass, Better, Fits
<1> HIDE DEF f
<1>3. Pass(want, tags, Len(tags), f) BY <1>2, PassExists
<1> QED BY <1>1, <1>3

LEMMA AgeOrders ==
    ASSUME SemanticOrder, NEW t \in Tags, NEW u \in Tags
    PROVE  /\ Age(t) \in Nat /\ Age(u) \in Nat
           /\ compareSemanticTag(t, u) > 0 <=> Age(t) > Age(u)
           /\ Age(t) = Age(u) => t = u
<1>1. DOMAIN VersionOrder = 1..Len(VersionOrder) /\ Len(VersionOrder) \in Nat
  BY VersionAssumption, LenProperties
<1>2. \A x \in Tags : Age(x) \in DOMAIN VersionOrder /\ VersionOrder[Age(x)] = x
  BY DEF Age, Tags, Range
<1>3. compareSemanticTag(VersionOrder[Age(t)], VersionOrder[Age(u)]) > 0 <=> Age(t) > Age(u)
  BY <1>2 DEF SemanticOrder
<1> QED BY <1>1, <1>2, <1>3

Fitting(want, tags, n) == {tags[i] : i \in {j \in 1..n : Fits(want, tags[j])}}
Newest(T) == {t \in T : \A u \in T : Age(u) <= Age(t)}

LEMMA NewestGrows ==
    ASSUME SemanticOrder, NEW T \in SUBSET Tags, NEW t \in Tags, T # {} => Newest(T) # {}
    PROVE  /\ Newest(T \cup {t}) = IF \A b \in Newest(T) : compareSemanticTag(t, b) > 0
                                   THEN {t} ELSE Newest(T)
           /\ Newest(T \cup {t}) # {}
<1>1. \A u \in T : /\ u \in Tags /\ Age(u) \in Nat
                   /\ compareSemanticTag(t, u) > 0 <=> Age(t) > Age(u)
                   /\ Age(t) = Age(u) => t = u
  BY AgeOrders
<1>2. Age(t) \in Nat BY AgeOrders
<1>3. CASE \A b \in Newest(T) : compareSemanticTag(t, b) > 0
  <2>1. \A u \in T : Age(u) < Age(t)
    <3>1. SUFFICES ASSUME NEW u \in T PROVE Age(u) < Age(t) OBVIOUS
    <3>2. PICK b \in Newest(T) : TRUE BY <3>1
    <3>3. b \in T /\ Age(u) <= Age(b) BY <3>1, <3>2 DEF Newest
    <3> QED BY <1>1, <1>2, <1>3, <3>1, <3>2, <3>3
  <2>2. Newest(T \cup {t}) = {t} BY <1>1, <1>2, <2>1 DEF Newest
  <2> QED BY <1>3, <2>2
<1>4. CASE ~\A b \in Newest(T) : compareSemanticTag(t, b) > 0
  <2>1. PICK b \in Newest(T) : ~(compareSemanticTag(t, b) > 0) BY <1>4
  <2>2. b \in T /\ Age(t) <= Age(b) /\ \A u \in T : Age(u) <= Age(b)
    BY <1>1, <1>2, <2>1 DEF Newest
  <2>3. ASSUME NEW x \in Newest(T) PROVE x \in Newest(T \cup {t})
    <3>1. x \in T /\ Age(b) <= Age(x) /\ \A u \in T : Age(u) <= Age(x) BY <2>2, <2>3 DEF Newest
    <3>2. Age(t) <= Age(x) BY <1>1, <1>2, <2>2, <3>1
    <3> QED BY <3>1, <3>2 DEF Newest
  <2>4. ASSUME NEW x \in Newest(T \cup {t}) PROVE x \in Newest(T)
    <3>1. x \in T \cup {t} /\ Age(b) <= Age(x) /\ \A u \in T : Age(u) <= Age(x)
      BY <2>2, <2>4 DEF Newest
    <3>2. x \in T
      <4>1. CASE x = t
        <5>1. Age(t) = Age(b) BY <1>1, <1>2, <2>2, <3>1, <4>1
        <5> QED BY <1>1, <2>2, <4>1, <5>1
      <4> QED BY <3>1, <4>1
    <3> QED BY <3>1, <3>2 DEF Newest
  <2>5. Newest(T \cup {t}) = Newest(T) BY <2>3, <2>4
  <2> QED BY <1>4, <2>1, <2>5
<1> QED BY <1>3, <1>4

(* What a pass has kept is the newest of what it has seen that fits.       *)
PassHolds(want, tags, g, n) ==
    /\ g[n] = Newest(Fitting(want, tags, n))
    /\ Fitting(want, tags, n) # {} => Newest(Fitting(want, tags, n)) # {}

LEMMA PassStep ==
    ASSUME SemanticOrder, NEW want, NEW tags \in Seq(Tags), NEW g, Pass(want, tags, Len(tags), g),
           NEW n \in 1..Len(tags), PassHolds(want, tags, g, n - 1)
    PROVE  PassHolds(want, tags, g, n)
<1> DEFINE T == Fitting(want, tags, n - 1)
<1>0. Len(tags) \in Nat /\ n \in Nat /\ n - 1 \in Nat BY LenProperties
<1>1. PICK t : t = tags[n] OBVIOUS
<1>2. t \in Tags /\ T \in SUBSET Tags
  <2>1. \A i \in 1..Len(tags) : tags[i] \in Tags BY ElementOfSeq
  <2>2. \A i \in 1..(n - 1) : i \in 1..Len(tags) BY <1>0
  <2> QED BY <1>1, <2>1, <2>2 DEF Fitting
<1>3. g[n] = Better(want, g[n - 1], t)
  <2>1. n \in 0..Len(tags) /\ n # 0 BY <1>0
  <2> QED BY <1>1, <2>1 DEF Pass
<1>4. Fitting(want, tags, n) = IF Fits(want, t) THEN T \cup {t} ELSE T
  <2>1. \A i : i \in 1..n <=> i \in 1..(n - 1) \/ i = n BY <1>0
  <2>2. n \in 1..n BY <1>0
  <2> QED BY <1>1, <2>1, <2>2 DEF Fitting
<1>5. g[n - 1] = Newest(T) /\ (T # {} => Newest(T) # {}) BY DEF PassHolds
<1> HIDE DEF T
<1>6. CASE Fits(want, t)
  <2>1. Fitting(want, tags, n) = T \cup {t} BY <1>4, <1>6
  <2>2. g[n] = IF \A b \in Newest(T) : compareSemanticTag(t, b) > 0 THEN {t} ELSE Newest(T)
    BY <1>3, <1>5, <1>6 DEF Better
  <2> QED BY <1>2, <1>5, <2>1, <2>2, NewestGrows DEF PassHolds
<1>7. CASE ~Fits(want, t)
  <2>1. Fitting(want, tags, n) = T BY <1>4, <1>7
  <2>2. g[n] = g[n - 1] BY <1>3, <1>7 DEF Better
  <2> QED BY <1>5, <2>1, <2>2 DEF PassHolds
<1> QED BY <1>6, <1>7

LEMMA PassNewest ==
    ASSUME SemanticOrder, NEW want, NEW tags \in Seq(Tags), NEW g, Pass(want, tags, Len(tags), g)
    PROVE  g[Len(tags)] = Newest(Fitting(want, tags, Len(tags)))
<1>0. Len(tags) \in Nat BY LenProperties
<1> DEFINE B == {n \in 0..Len(tags) : ~PassHolds(want, tags, g, n)}
<1>1. B = {}
  <2>1. SUFFICES ASSUME B # {} PROVE FALSE OBVIOUS
  <2>2. B \in SUBSET Nat BY <1>0
  <2> HIDE DEF B
  <2>3. PICK n \in B : n = 0 \/ n - 1 \notin B BY <2>1, <2>2, LeastNat
  <2> USE DEF B
  <2>4. CASE n = 0
    <3>1. g[0] = {} BY <1>0 DEF Pass
    <3>2. Fitting(want, tags, 0) = {} BY DEF Fitting
    <3>3. Newest({}) = {} BY DEF Newest
    <3> QED BY <2>3, <2>4, <3>1, <3>2, <3>3 DEF PassHolds
  <2>5. CASE n # 0
    <3>1. n \in 1..Len(tags) /\ n - 1 \in 0..Len(tags) BY <1>0, <2>3, <2>5
    <3>2. PassHolds(want, tags, g, n - 1) BY <2>3, <2>5, <3>1
    <3>3. PassHolds(want, tags, g, n) BY <3>1, <3>2, PassStep
    <3> QED BY <2>3, <3>3
  <2> QED BY <2>4, <2>5
<1>2. Len(tags) \in 0..Len(tags) BY <1>0
<1> QED BY <1>1, <1>2 DEF PassHolds

(* The tag a scan shows is the newest that its policy leaves.              *)
LEMMA NewestIsShown == SemanticOrder /\ VersionInv => NewestShown
<1> SUFFICES ASSUME SemanticOrder, VersionInv, NEW s \in Scans, vScan[s].at = "answered"
             PROVE  newestAllowedTag(vScan[s].want, vScan[s].use) =
                      Newest({t \in Range(vScan[s].use) :
                                /\ Age(t) > Age(vScan[s].want.cur)
                                /\ (vScan[s].want.pre \/ t.pre = <<>>)
                                /\ versionPolicyAllows(vScan[s].want.cur, t, vScan[s].want.policy)})
  BY Zenon DEF NewestShown, Newest
<1> PICK want : want = vScan[s].want OBVIOUS
<1> PICK tags : tags = vScan[s].use OBVIOUS
<1>1. want \in Wants /\ tags \in Seq(Tags) BY DEF VersionInv, Stands, Listed, Begins
<1>2. want.cur \in Tags BY <1>1, VersionAssumption DEF Tags
<1>3. Len(tags) \in Nat /\ DOMAIN tags = 1..Len(tags) /\ \A i \in 1..Len(tags) : tags[i] \in Tags
  BY <1>1, LenProperties, ElementOfSeq
<1>4. newestAllowedTag(want, tags) = Newest(Fitting(want, tags, Len(tags)))
  BY <1>1, <1>3, NewestPass, PassNewest
<1>5. \A t \in Tags : compareSemanticTag(t, want.cur) > 0 <=> Age(t) > Age(want.cur)
  BY <1>2, AgeOrders
<1>6. Fitting(want, tags, Len(tags)) =
        {t \in Range(tags) : /\ Age(t) > Age(want.cur)
                             /\ (want.pre \/ t.pre = <<>>)
                             /\ versionPolicyAllows(want.cur, t, want.policy)}
  BY <1>3, <1>5 DEF Fitting, Fits, Range
<1> QED BY <1>4, <1>6

(* Where compareSemanticTag orders the tags, a scan shows the newest one   *)
(* its policy allows, whatever order the registry lists them in            *)
(* (version.go, newestAllowedTag: one pass that keeps the best so far).    *)
THEOREM NewestIsFound ==
    ASSUME SemanticOrder
    PROVE  VersionSpec => []NewestShown
<1>1. VersionInv => NewestShown BY NewestIsShown
<1> QED BY <1>1, VersionStarts, VersionKept, PTL DEF VersionSpec
=============================================================================
