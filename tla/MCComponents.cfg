SPECIFICATION ComponentsSpec

CONSTANTS
    stackA = stackA  stackB = stackB  stackX = stackX
    \* GitAutomation
    GitStacks = {stackA, stackB}  FirstTargets = {stackA}  DeployNewStacks = TRUE  DeployRollback = TRUE
    MaxCommits = 1  MaxEvents = 1
    \* GitLinks
    OuterStacks = {stackA, stackX}  InnerStacks = {stackX}  MaxLinkSteps = 3
    \* GitHistory, GitRepository, GitPolicy, GitDeletion
    MaxHistory = 5
    MaxRepoSteps = 5  SSHRemote = FALSE
    MaxHeldOut = 1
    MaxPolicySteps = 3  PolicyPaths = {"compose", "data/x"}
    MaxDelSteps = 5
    \* GitRecovery, GitWebhook, GitProvision
    MaxRecSteps = 3  MaxBackups = 3  Retention = 1
    MaxRotations = 1  Hooked = {"r1", "r2"}  RepoOf <- HooksOfRepositories  QueueSize = 1
    MaxProvSteps = 4
    \* StackSecrets, HostRuntime
    StackOrder <- SecretStacks  SecretNames = {"k", "l"}  Referenced <- ReferencedSecrets
    HistoryLimit = 1  MaxSecretSteps = 2
    AliasRoots = {"alias"}  MaxRuntimeSteps = 4
    \* Notifications
    ChannelIds = {1, 2}  Findings = {1}  NotifyQueue = 1  MaxDeliveries = 2  MaxNotifySteps = 2
    \* EditorFiles
    FilePaths = {"p", "q", "Q"}  AliasOf <- EditorAliases  FoldOf <- EditorFolds
    Editors = {"s", "t"}  RenameGuarded = {"Q"}  EventBuffer = 1  MaxFileSteps = 3
    \* StackLocks
    Actors = {"p", "q", "r"}  StackKeys = {"a"}  LockIds = {1, 2, 3, 4}
    \* BuildJobs
    BuildIds = {1, 2}  BuildSlots = 2  MaxPending = 2  MaxRetained = 1  LogLimit = 1
    BuildCaps = {0, 1}  MaxOutput = 1  MaxBuildSteps = 4
    \* ComposeActions
    Services = {"x", "y"}  ComposeOnly = {"y"}  MaxComposeSteps = 2
    \* HostRegistry, HostEvents
    HostIds = {1, 2}  HostNames = {"a", "b"}  MaxRetries = 1  MaxHostSteps = 2
    Boxes = {"b"}  EventQueue = 2  RestartGap = 1  RestartMemory = 2  RestartCap = 1
    MaxEventTime = 2  MaxEventSteps = 4
    \* FileBrowser, PruneSchedule
    BrowserRequests = {"p", "q"}  MaxBrowserSteps = 2  BrowserShapes <- BrowsedShapes
    PruneClients = {1, 2}  PruneKinds = {"images"}  MaxPruneSteps = 4
    \* SignIn, LiveSessions
    Logins = {"u", "x"}  Accounts = {"u"}  SignInClients = {1, 2}  FreeAttempts = 1
    MaxDelay = 2  AttemptTTL = 1  MaxTracked = 1  MaxSessions = 2  CookieExpiries = {1, 3}
    MaxSignInTime = 2  MaxSignIns = 4
    LiveIds = {1, 2}  MaxLiveSteps = 2
    \* LogStream, VersionDiscovery
    StreamTail = 2  StreamCount = 2  TailFloor = 1  LineBuffer = 2  MaxLines = 4  MaxStops = 2
    VersionOrder <- CatalogTags  Wants <- WantedTags  Scans = {1, 2}  MaxTagPages = 2
    VersionTTL = 2  LookupTimeout = 1  MaxVersionTime = 3  MaxVersionSteps = 3

INVARIANTS
    ComponentsTypeOK  GitHonest AcceptedIsSeen ProvisionSafe AssignHonest
    NotifiedOnce  HostsSound ServicesHonest

PROPERTIES
    NoEditLost DecisionKept NotResurrected SharedBeforeReplaced UnreadNeverOverwritten
    DeletionSafe RecoveryUndoable NoLostSecret RuntimeHolds NothingReplacedUnseen
    SerializesActions SignInFair

CHECK_DEADLOCK FALSE
