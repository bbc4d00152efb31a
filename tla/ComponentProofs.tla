--------------------------- MODULE ComponentProofs ---------------------------
(***************************************************************************)
(* The components together (MCComponents): one moves and the others stay   *)
(* where they started, so a behavior of all is, for each, a behavior of    *)
(* its own, and what is proved of each component holds of them together.   *)
(***************************************************************************)
EXTENDS MCComponents, GitRepositoriesProofs, GitFilesProofs, StackProofs, ServicesProofs

LEMMA ComponentsStart ==
    ComponentsInit =>
      /\ AutoInit /\ LinksInit /\ HistoryInit /\ RepoInit /\ PolicyInit /\ DelInit
      /\ RecInit /\ HookInit /\ ProvInit /\ SecInit /\ RuntimeInit /\ NotifyInit
      /\ FileInit /\ LockInit /\ BuildInit /\ ComposeInit /\ HostInit /\ EventInit
      /\ BrowserInit /\ PruneInit /\ SignInInit /\ LiveInit /\ LogInit /\ VersionInit
BY DEF ComponentsInit

LEMMA AutomationAlone == ComponentsSpec => AutoSpec
<1>1. [ComponentsNext]_componentVars => [AutoNext]_autoVars BY DEF ComponentsNext, componentVars
<1> QED BY <1>1, ComponentsStart, PTL DEF ComponentsSpec, AutoSpec

LEMMA LinksAlone == ComponentsSpec => LinksSpec
<1>1. [ComponentsNext]_componentVars => [LinksNext]_linkVars BY DEF ComponentsNext, componentVars
<1> QED BY <1>1, ComponentsStart, PTL DEF ComponentsSpec, LinksSpec

LEMMA HistoryAlone == ComponentsSpec => HistorySpec
<1>1. [ComponentsNext]_componentVars => [HistoryNext]_historyVars BY DEF ComponentsNext, componentVars
<1> QED BY <1>1, ComponentsStart, PTL DEF ComponentsSpec, HistorySpec

LEMMA RepositoryAlone == ComponentsSpec => RepoSpec
<1>1. [ComponentsNext]_componentVars => [RepoNext]_repoVars BY DEF ComponentsNext, componentVars
<1> QED BY <1>1, ComponentsStart, PTL DEF ComponentsSpec, RepoSpec

LEMMA PolicyAlone == ComponentsSpec => PolicySpec
<1>1. [ComponentsNext]_componentVars => [PolicyNext]_policyVars BY DEF ComponentsNext, componentVars
<1> QED BY <1>1, ComponentsStart, PTL DEF ComponentsSpec, PolicySpec

LEMMA DeletionAlone == ComponentsSpec => DelSpec
<1>1. [ComponentsNext]_componentVars => [DelNext]_delVars BY DEF ComponentsNext, componentVars
<1> QED BY <1>1, ComponentsStart, PTL DEF ComponentsSpec, DelSpec

LEMMA RecoveryAlone == ComponentsSpec => RecSpec
<1>1. [ComponentsNext]_componentVars => [RecNext]_recVars BY DEF ComponentsNext, componentVars
<1> QED BY <1>1, ComponentsStart, PTL DEF ComponentsSpec, RecSpec

LEMMA WebhooksAlone == ComponentsSpec => HookSpec
<1>1. [ComponentsNext]_componentVars => [HookNext]_hookVars BY DEF ComponentsNext, componentVars
<1> QED BY <1>1, ComponentsStart, PTL DEF ComponentsSpec, HookSpec

LEMMA ProvisioningAlone == ComponentsSpec => ProvSpec
<1>1. [ComponentsNext]_componentVars => [ProvNext]_provVars BY DEF ComponentsNext, componentVars
<1> QED BY <1>1, ComponentsStart, PTL DEF ComponentsSpec, ProvSpec

LEMMA SecretsAlone == ComponentsSpec => SecSpec
<1>1. [ComponentsNext]_componentVars => [SecNext]_secVars BY DEF ComponentsNext, componentVars
<1> QED BY <1>1, ComponentsStart, PTL DEF ComponentsSpec, SecSpec

LEMMA RuntimeAlone == ComponentsSpec => RuntimeSpec
<1>1. [ComponentsNext]_componentVars => [RuntimeNext]_runtimeVars BY DEF ComponentsNext, componentVars
<1> QED BY <1>1, ComponentsStart, PTL DEF ComponentsSpec, RuntimeSpec

LEMMA NotificationsAlone == ComponentsSpec => NotifySpec
<1>1. [ComponentsNext]_componentVars => [NotifyNext]_notifyVars BY DEF ComponentsNext, componentVars
<1> QED BY <1>1, ComponentsStart, PTL DEF ComponentsSpec, NotifySpec

LEMMA FilesAlone == ComponentsSpec => FileSpec
<1>1. [ComponentsNext]_componentVars => [FileNext]_fileVars BY DEF ComponentsNext, componentVars
<1> QED BY <1>1, ComponentsStart, PTL DEF ComponentsSpec, FileSpec

LEMMA LocksAlone == ComponentsSpec => LockSpec
<1>1. [ComponentsNext]_componentVars => [LockNext]_lockVars BY DEF ComponentsNext, componentVars
<1> QED BY <1>1, ComponentsStart, PTL DEF ComponentsSpec, LockSpec

LEMMA BuildsAlone == ComponentsSpec => BuildSpec
<1>1. [ComponentsNext]_componentVars => [BuildNext]_buildVars BY DEF ComponentsNext, componentVars
<1> QED BY <1>1, ComponentsStart, PTL DEF ComponentsSpec, BuildSpec

LEMMA ComposeAlone == ComponentsSpec => ComposeSpec
<1>1. [ComponentsNext]_componentVars => [ComposeNext]_composeVars BY DEF ComponentsNext, componentVars
<1> QED BY <1>1, ComponentsStart, PTL DEF ComponentsSpec, ComposeSpec

LEMMA HostsAlone == ComponentsSpec => HostSpec
<1>1. [ComponentsNext]_componentVars => [HostNext]_hostVars BY DEF ComponentsNext, componentVars
<1> QED BY <1>1, ComponentsStart, PTL DEF ComponentsSpec, HostSpec

LEMMA EventsAlone == ComponentsSpec => EventSpec
<1>1. [ComponentsNext]_componentVars => [EventNext]_eventVars BY DEF ComponentsNext, componentVars
<1> QED BY <1>1, ComponentsStart, PTL DEF ComponentsSpec, EventSpec

LEMMA BrowserAlone == ComponentsSpec => BrowserSpec
<1>1. [ComponentsNext]_componentVars => [BrowserNext]_browserVars BY DEF ComponentsNext, componentVars
<1> QED BY <1>1, ComponentsStart, PTL DEF ComponentsSpec, BrowserSpec

LEMMA PruningAlone == ComponentsSpec => PruneSpec
<1>1. [ComponentsNext]_componentVars => [PruneNext]_pruneVars BY DEF ComponentsNext, componentVars
<1> QED BY <1>1, ComponentsStart, PTL DEF ComponentsSpec, PruneSpec

LEMMA SignInAlone == ComponentsSpec => SignInSpec
<1>1. [ComponentsNext]_componentVars => [SignInNext]_signInVars BY DEF ComponentsNext, componentVars
<1> QED BY <1>1, ComponentsStart, PTL DEF ComponentsSpec, SignInSpec

LEMMA SessionsAlone == ComponentsSpec => LiveSpec
<1>1. [ComponentsNext]_componentVars => [LiveNext]_liveVars BY DEF ComponentsNext, componentVars
<1> QED BY <1>1, ComponentsStart, PTL DEF ComponentsSpec, LiveSpec

LEMMA LogsAlone == ComponentsSpec => LogSpec
<1>1. [ComponentsNext]_componentVars => [LogNext]_logVars BY DEF ComponentsNext, componentVars
<1> QED BY <1>1, ComponentsStart, PTL DEF ComponentsSpec, LogSpec

LEMMA VersionsAlone == ComponentsSpec => VersionSpec
<1>1. [ComponentsNext]_componentVars => [VersionNext]_versionVars BY DEF ComponentsNext, componentVars
<1> QED BY <1>1, ComponentsStart, PTL DEF ComponentsSpec, VersionSpec
-----------------------------------------------------------------------------
(* Every component keeps its types, whichever of them moves and for every  *)
(* value of the constants.                                                 *)
THEOREM ComponentsAreTyped == ComponentsSpec => []ComponentsTypeOK
<1>1. ComponentsSpec => [](AutoTypeOK /\ LinksTypeOK /\ HistoryTypeOK /\ RepoTypeOK /\ PolicyTypeOK /\ DelTypeOK)
  BY AutomationAlone, LinksAlone, HistoryAlone, RepositoryAlone, PolicyAlone,
     DeletionAlone, AutomationInFlight, LinksAreCoherent, HistoryTyped,
     RepositoryTyped, IgnoredIsHonest, DeletionsTyped, PTL
<1>2. ComponentsSpec => [](RecTypeOK /\ HookTypeOK /\ ProvTypeOK /\ SecTypeOK /\ RuntimeTypeOK /\ NotifyTypeOK)
  BY RecoveryAlone, WebhooksAlone, ProvisioningAlone, SecretsAlone,
     RuntimeAlone, NotificationsAlone, RestoreKeepsItsSource, WebhooksTyped,
     ProvisioningTyped, AssignmentsAreHonest, RuntimeTyped, NotifyTyped, PTL
<1>3. ComponentsSpec => [](FileTypeOK /\ LockTypeOK /\ BuildTypeOK /\ ComposeTypeOK /\ HostTypeOK /\ EventTypeOK)
  BY FilesAlone, LocksAlone, BuildsAlone, ComposeAlone, HostsAlone,
     EventsAlone, EditorFilesTyped, LocksTypeCorrect, BuildsTyped,
     ComposeTyped, HostsTyped, EventsTyped, PTL
<1>4. ComponentsSpec => [](BrowserTypeOK /\ PruneTypeOK /\ SignInTypeOK /\ LiveTypeOK /\ LogTypeOK /\ VersionTypeOK)
  BY BrowserAlone, PruningAlone, SignInAlone, SessionsAlone, LogsAlone,
     VersionsAlone, BrowserTyped, OffStaysOff, SignInTyped, SessionsTyped,
     LogTyped, VersionTyped, PTL
<1>5. /\ AutoTypeOK /\ LinksTypeOK /\ HistoryTypeOK /\ RepoTypeOK /\ PolicyTypeOK /\ DelTypeOK
      /\ RecTypeOK /\ HookTypeOK /\ ProvTypeOK /\ SecTypeOK /\ RuntimeTypeOK /\ NotifyTypeOK
      /\ FileTypeOK /\ LockTypeOK /\ BuildTypeOK /\ ComposeTypeOK /\ HostTypeOK /\ EventTypeOK
      /\ BrowserTypeOK /\ PruneTypeOK /\ SignInTypeOK /\ LiveTypeOK /\ LogTypeOK /\ VersionTypeOK
      => ComponentsTypeOK
  BY DEF ComponentsTypeOK
<1> QED BY <1>1, <1>2, <1>3, <1>4, <1>5, PTL

(* What Git synchronization shows is so: a deployment reported as going on *)
(* is going on, a repository that is ready has its credential, what was    *)
(* ignored stays out, and the backup a restore reads outlives the safety   *)
(* backup it makes (automation.go, repository.go, unreadable.go,           *)
(* policy_tree.go, backup.go); with the exceptions that ReadyHasCredential *)
(* and PolicyHonest state.                                                 *)
THEOREM GitIsHonest == ComponentsSpec => []GitHonest
<1>1. InFlightIsRunning /\ ReadyHasCredential /\ PolicyHonest /\ SourceKept => GitHonest
  BY DEF GitHonest
<1> QED
  BY <1>1, AutomationAlone, RepositoryAlone, PolicyAlone, RecoveryAlone, AutomationInFlight,
     ReadyRepositoryHasCredential, IgnoredIsHonest, RestoreKeepsItsSource, PTL

(* What the actions on a stack report is so: an update reconciles what it  *)
(* says it did, and a capped build has the limits of its builder, unless   *)
(* an earlier builder could not be removed (update_compose.go,             *)
(* protected_update.go, build_limits.go, build_jobs.go).                   *)
THEOREM StackActionsAreHonest == ComponentsSpec => []StackActionsHonest
<1>1. ComposeHonest /\ BuildHonest => StackActionsHonest BY DEF StackActionsHonest
<1> QED BY <1>1, ComposeAlone, BuildsAlone, ComposeIsHonest, BuildsAreHonest, PTL

(* A host has one watcher, its links follow its renames, its jobs follow   *)
(* its labels, and one watcher reports a crash loop once (host/service.go, *)
(* events_hub.go); with the exceptions LinksFollowRename and               *)
(* CrashLoopQuiet state.                                                   *)
THEOREM HostsAreSound == ComponentsSpec => []HostsSound
<1>1. HostsCoherent /\ EventsHonest => HostsSound BY DEF HostsSound
<1> QED BY <1>1, HostsAlone, EventsAlone, HostsAreCoherent, EventsAreHonest, PTL

(* A helper is its request's, unless its copy, its probe or its removal    *)
(* failed; a pruning that was switched off does not run, a live session    *)
(* that ended holds nothing, a followed log has no gap and no line twice,  *)
(* and the version shown is the newest of a whole catalog, where           *)
(* compareSemanticTag orders its tags.                                     *)
THEOREM ServicesAreHonest ==
    ASSUME SemanticOrder
    PROVE  ComponentsSpec => []ServicesHonest
<1>1. HelperOwned /\ OffMeansOff /\ SessionsSafe /\ LogContiguous /\ NewestShown /\ CatalogWhole
        => ServicesHonest
  BY DEF ServicesHonest, VersionsSound
<1>2. VersionSpec => []NewestShown BY NewestIsFound
<1> QED
  BY <1>1, <1>2, BrowserAlone, PruningAlone, SessionsAlone, LogsAlone, VersionsAlone,
     HelpersAreOwned, OffStaysOff, SessionsAreSafe, LogIsContiguous, CatalogsAreWhole, PTL
=============================================================================
