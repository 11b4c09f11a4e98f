SPECIFICATION HostSpec
SYMMETRY SameCommands
CONSTANTS
    Savers = {l1, l2}
    Forms = {"enabled", "observe", "refs", "rail"}
    GatePushes = {"p1"}
    MaxSaves = 2
    MaxSaveFaults = 1
    Frames = {"f1", "f2"}
    KitNames = {"kit"}
    OwnKits = {"mine"}
    KitFrames <- TwoKits
    GroupTokens = {"@g"}
    Checks = {"c1"}
    Edits <- AllEdits
    AtRegistration <- OldRegistration
    Editors = {l1, l2}
    MaxEditRequests = 2
    MaxEditFaults = 1
    Admins = {l1, l2}
    MaxAdminRequests = 3
    MaxAdminFaults = 1
    SshKeys = {"k1", "k2"}
    ScopedRepos = {"r"}
    Clerks = {l1, l2}
    MaxClerkRequests = 2
    MaxClerkFaults = 1
    Invocations = {"i1"}
    Compactors = {l1, l2}
    MaxEntries <- LongRun
    MaxFiles = 1
    PartLimit = 2
    LogLimit = 2
    MaxCompactions = 2
    MaxAuditFaults = 1
    Hooks = {"h1"}
    Ingesters = {l1, l2}
    MaxLogEntries = 2
    MaxPrunes = 1
    MaxIngests = 2
    MaxLogFaults = 1
    Claimants = {l1, l2}
    Names = {"n1", "n2"}
    MaxTokens = 2
    MaxSetups = 3
    MaxAccountFaults = 1
    ScanFrames = {"key", "stray"}
    ScanLinters = {"todo", "vet"}
    RepoCodeLinters = {"vet"}
    MildChecks = {"stray"}
    CategoryOf <- ScanNames
    TreeFiles = {"p", "q"}
    Trees <- PushedTrees
    Selections <- SomeSelections
    Exemptions <- SomeExemptions
    FirstSettings <- LintersOn
    FirstLists <- SomeLists
    WhitelistForms = {"w1", "w2"}
    MaxScanEdits = 2
    QueueRecords = {"m1", "m2"}
    Rewriters = {l1, l2}
    MaxRewrites = 2
    MaxQueueFaults = 1
    l1 = l1
    l2 = l2
    Findings = {"g"}
    Grave = {"g"}
    Commands = {l1, l2}
    Scopes = {"project"}
    DeferDates = {0, 3}
    MaxCommands = 3
    MaxTreeEdits = 1
    MaxMoments = 3
    MaxLedgerFaults = 1
    u1 = u1
    u2 = u2
    OwnLines = {u1, u2}
    LongLines = {u2}
    Shims <- OneShim
    Installers = {l1, l2}
    MaxInstalls = 2
    MaxDisturbances = 1
    Directories <- FrameDirs
    ProjectNames = {"x"}
    Slugs = {"s"}
    Authors = {l1, l2}
    Builtin <- LibraryFrames
    MaxWorks = 3
    MaxDays = 2
    MaxWorkFaults = 1
    Stagers = {l1, l2}
    SweepEvery = 1
    MaxTicks = 3
    MaxStagingEdits = 1
    MaxStagingFaults = 1
    Browsers = {l1, l2}
    Lifetime = 1
    Window = 2
    Limit = 1
    MaxLogins = 3
    MaxRequests = 2
    MaxFrontTicks = 2
    MaxFrontFaults = 1
    RepoOrder <- Logs
    PushKinds <- DecidedPushes
    Estimated = {1}
    ScoredFrames = {1}
    Excused <- Ignored
    Readers = {l1, l2}
    BareRepos = {"a", "b"}
    TopLimit = 1
    DefaultRows = 1
    RowCap = 1
    Backstop = 2
    MinPushes = 2
    RefreshEvery = 1
    MaxPushes = 2
    MaxQuestions = 2
    MaxStatTicks = 2
    MaxStatFaults = 1
    Hosts <- SomeHosts
    Alternatives <- OtherFacts
    Nested = {"agent/example", "feature/x"}
    MaxHostEdits = 2
    MaxReports = 1
    Mirrored = {"app", "web"}
    Urls = {"a", "aw", "hub"}
    GitHubUrls = {"hub"}
    PrefixPairs <- AnOwnersNames
    FirstUpstream <- TwoUpstreams
    FirstPulls <- OnePullEach
    PullPage = 1
    ScanPage = 1
    MaxDeliveries = 2
    MaxNotices = 3
    MaxForgeEvents = 2
    MaxForgeFaults = 1
INVARIANTS
    HostTypeOK
    RestPreserved
    ServedIsGated
    SomeWayOut
    OnlyTheGranted
    EntriesKept
    EntriesOnce
    EvidenceKept
    IndexComplete
    OneAdmin
    NothingSlips
    QueueKeeps
    UserLinesKept
    FramesKept
    ArchivedStaysOut
    SweptInTime
    GuessesBounded
    AdmittedOnly
    NotStale
    AnswersAgree
    CleanMeansServed
    FixGrants
    RightRepository
    TakenMeansTold
PROPERTIES
    SectionsSurvive
    PushConsented
    RemovedStaysOut
    WordsKept
CHECK_DEADLOCK FALSE
