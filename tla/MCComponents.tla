---------------------------- MODULE MCComponents ----------------------------
(***************************************************************************)
(* The components that keep their own state, each explored alone: `scene`  *)
(* is the component that moves, the others stay in one initial state.      *)
(***************************************************************************)
EXTENDS GitAutomation, GitLinks, GitHistory, GitRepository, GitPolicy, GitDeletion,
        GitRecovery, GitWebhook, GitProvision, StackSecrets, HostRuntime, Notifications,
        EditorFiles, StackLocks, BuildJobs, ComposeActions, HostRegistry, HostEvents,
        FileBrowser, PruneSchedule, SignIn, LiveSessions, LogStream, VersionDiscovery

VARIABLE scene

CONSTANTS stackA, stackB, stackX   \* stacks of a Folder Link
-----------------------------------------------------------------------------
(* Values of constants that a configuration file cannot write.             *)
HooksOfRepositories == (1 :> "r1") @@ (2 :> "r1") @@ (3 :> "r2")

SecretStacks == <<"a", "b">>
ReferencedSecrets == {<<"a", "k">>}

EditorAliases == [p \in FilePaths |-> "compose"]
EditorFolds == [p \in FilePaths |-> IF p = "Q" THEN "q" ELSE p]

BrowsedShapes == {[ro |-> FALSE, rw |-> FALSE, exec |-> {"root"}],
                  [ro |-> TRUE, rw |-> TRUE, exec |-> {"mount"}]}

(* 1 < 1.1.0-rc.2 < 1.1 < 2.0.0.                                           *)
TagOf(n, precision, pre) == [n |-> n, precision |-> precision, pre |-> pre]
RC == <<[num |-> FALSE, v |-> 1], [num |-> TRUE, v |-> 2]>>
CatalogTags == <<TagOf(<<1, 0, 0>>, 1, <<>>), TagOf(<<1, 1, 0>>, 3, RC),
                 TagOf(<<1, 1, 0>>, 2, <<>>), TagOf(<<2, 0, 0>>, 3, <<>>)>>
WantedTags == {[cur |-> CatalogTags[1], policy |-> "minor", pre |-> TRUE],
               [cur |-> CatalogTags[1], policy |-> "major", pre |-> FALSE]}
-----------------------------------------------------------------------------
(* A component that does not move starts from one of its initial states.   *)
ComponentsInit ==
    /\ scene \in {"automation", "links", "history", "repository", "policy", "deletion",
                  "recovery", "webhook", "provision", "secrets", "runtime", "notify",
                  "files", "locks", "builds", "compose", "hosts", "events", "browser",
                  "prune", "signin", "live", "logs", "versions"}
    /\ AutoInit /\ LinksInit /\ HistoryInit /\ DelInit /\ RecInit /\ HookInit /\ LockInit
    /\ ComposeInit /\ EventInit /\ VersionInit
    /\ RepoInit /\ (scene # "repository" =>
                       cred = "none" /\ ~remoteBranch /\ repoRow = "none")
    /\ PolicyInit /\ (scene # "policy" =>
                         /\ profile = "all_files" /\ inc = {} /\ ~large
                         /\ ignores = [s \in Sides |-> {}])
    /\ ProvInit /\ (scene # "provision" =>
                       vDir = "absent" /\ vMode = 0 /\ vOwner = 0 /\ vFile = 0)
    /\ SecInit /\ (scene # "secrets" => \A s \in SStacks : ~sStack[s].marker)
    /\ RuntimeInit /\ (scene # "runtime" => ~rtStale)
    /\ NotifyInit /\ (scene # "notify" => ~nRow[0].there)
    /\ FileInit /\ fFile["q"] = 1 /\ (scene # "files" => \A p \in FilePaths : fFile[p] = 1)
    /\ BuildInit /\ (scene # "builds" => bCaps = 0)
    /\ HostInit /\ hRow[1].name = "a" /\ (scene # "hosts" => hRow[2].name = NoName)
    /\ BrowserInit /\ (scene # "browser" => ~bShape.ro)
    /\ PruneInit /\ (scene # "prune" => ~pRow.on)
    /\ SignInInit /\ (scene # "signin" => aExpiry = 1)
    /\ LiveInit /\ (scene # "live" => ~lvAllow)
    /\ LogInit /\ (scene # "logs" => ~gUp /\ gLog = 0 /\ ~gFollow)

ComponentsNext ==
    /\ \/ scene = "automation" /\ AutoNext
       \/ scene = "links" /\ LinksNext
       \/ scene = "history" /\ HistoryNext
       \/ scene = "repository" /\ RepoNext
       \/ scene = "policy" /\ PolicyNext
       \/ scene = "deletion" /\ DelNext
       \/ scene = "recovery" /\ RecNext
       \/ scene = "webhook" /\ HookNext
       \/ scene = "provision" /\ ProvNext
       \/ scene = "secrets" /\ SecNext
       \/ scene = "runtime" /\ RuntimeNext
       \/ scene = "notify" /\ NotifyNext
       \/ scene = "files" /\ FileNext
       \/ scene = "locks" /\ LockNext
       \/ scene = "builds" /\ BuildNext
       \/ scene = "compose" /\ ComposeNext
       \/ scene = "hosts" /\ HostNext
       \/ scene = "events" /\ EventNext
       \/ scene = "browser" /\ BrowserNext
       \/ scene = "prune" /\ PruneNext
       \/ scene = "signin" /\ SignInNext
       \/ scene = "live" /\ LiveNext
       \/ scene = "logs" /\ LogNext
       \/ scene = "versions" /\ VersionNext
    /\ UNCHANGED scene
    /\ scene # "automation" => UNCHANGED autoVars
    /\ scene # "links" => UNCHANGED linkVars
    /\ scene # "history" => UNCHANGED historyVars
    /\ scene # "repository" => UNCHANGED repoVars
    /\ scene # "policy" => UNCHANGED policyVars
    /\ scene # "deletion" => UNCHANGED delVars
    /\ scene # "recovery" => UNCHANGED recVars
    /\ scene # "webhook" => UNCHANGED hookVars
    /\ scene # "provision" => UNCHANGED provVars
    /\ scene # "secrets" => UNCHANGED secVars
    /\ scene # "runtime" => UNCHANGED runtimeVars
    /\ scene # "notify" => UNCHANGED notifyVars
    /\ scene # "files" => UNCHANGED fileVars
    /\ scene # "locks" => UNCHANGED lockVars
    /\ scene # "builds" => UNCHANGED buildVars
    /\ scene # "compose" => UNCHANGED composeVars
    /\ scene # "hosts" => UNCHANGED hostVars
    /\ scene # "events" => UNCHANGED eventVars
    /\ scene # "browser" => UNCHANGED browserVars
    /\ scene # "prune" => UNCHANGED pruneVars
    /\ scene # "signin" => UNCHANGED signInVars
    /\ scene # "live" => UNCHANGED liveVars
    /\ scene # "logs" => UNCHANGED logVars
    /\ scene # "versions" => UNCHANGED versionVars

componentVars ==
    <<scene, autoVars, linkVars, historyVars, repoVars, policyVars, delVars, recVars,
      hookVars, provVars, secVars, runtimeVars, notifyVars, fileVars, lockVars, buildVars,
      composeVars, hostVars, eventVars, browserVars, pruneVars, signInVars, liveVars,
      logVars, versionVars>>

ComponentsSpec == ComponentsInit /\ [][ComponentsNext]_componentVars
-----------------------------------------------------------------------------
(* The types of the component that moves.                                  *)
ComponentsTypeOK ==
    /\ scene = "automation" => AutoTypeOK
    /\ scene = "links" => LinksTypeOK
    /\ scene = "history" => HistoryTypeOK
    /\ scene = "repository" => RepoTypeOK
    /\ scene = "policy" => PolicyTypeOK
    /\ scene = "deletion" => DelTypeOK
    /\ scene = "recovery" => RecTypeOK
    /\ scene = "webhook" => HookTypeOK
    /\ scene = "provision" => ProvTypeOK
    /\ scene = "secrets" => SecTypeOK
    /\ scene = "runtime" => RuntimeTypeOK
    /\ scene = "notify" => NotifyTypeOK
    /\ scene = "files" => FileTypeOK
    /\ scene = "locks" => LockTypeOK
    /\ scene = "builds" => BuildTypeOK
    /\ scene = "compose" => ComposeTypeOK
    /\ scene = "hosts" => HostTypeOK
    /\ scene = "events" => EventTypeOK
    /\ scene = "browser" => BrowserTypeOK
    /\ scene = "prune" => PruneTypeOK
    /\ scene = "signin" => SignInTypeOK
    /\ scene = "live" => LiveTypeOK
    /\ scene = "logs" => LogTypeOK
    /\ scene = "versions" => VersionTypeOK

(* The invariants below are each about one component; asking them only of  *)
(* the component that moves saves time and loses nothing, since the others *)
(* stay where they start.                                                  *)

(* What Git synchronisation shows is so: a deployment reported as going on *)
(* is going on, a repository that is ready has its credential, what was    *)
(* ignored stays out and every view of the policy agrees, and the backup a *)
(* restore reads outlives the safety backup it makes (automation.go,       *)
(* repository.go, unreadable.go, policy_tree.go, backup.go).               *)
GitHonest ==
    /\ scene = "automation" => InFlightIsRunning
    /\ scene = "repository" => ReadyHasCredential
    /\ scene = "policy" => PolicyHonest
    /\ scene = "recovery" => SourceKept

(* What the actions on a stack report is so: an update reconciles what it  *)
(* says it did, and a build's answer is the outcome of that build          *)
(* (update_compose.go, protected_update.go, docker_build_jobs.go).         *)
StackActionsHonest ==
    /\ scene = "compose" => ComposeHonest
    /\ scene = "builds" => BuildHonest

(* A host has one watcher, its links follow its renames, and its events    *)
(* reach who asked, crash loops once (host/service.go, events_hub.go).     *)
HostsSound ==
    /\ scene = "hosts" => HostsCoherent
    /\ scene = "events" => EventsHonest

(* The helpers of file browsing are their owner's, a pruning that was      *)
(* switched off does not run, a live session that ended holds nothing, a   *)
(* followed log has no gap and no line twice, and the version shown is the *)
(* newest of a whole catalog.                                              *)
ServicesHonest ==
    /\ scene = "browser" => HelperOwned
    /\ scene = "prune" => OffMeansOff
    /\ scene = "live" => SessionsSafe
    /\ scene = "logs" => LogContiguous
    /\ scene = "versions" => VersionsSound
=============================================================================
