\* Each component of a server that keeps state of its own.
SPECIFICATION ServicesSpec
CONSTANTS
    Parts = {"migrations", "vectors", "backups", "tracked", "pages", "compile", "verdict", "recall", "update", "start", "stop", "jobs", "gate", "auth"}
    a = a
    b = b
    m1 = m1
    m2 = m2
    m3 = m3
    s1 = s1
    s2 = s2
    Openers = {a, b}
    Rows = {"note", "drawer", "relates"}
    KindOf <- MCKindOf
    NoOpener = NoOpener
    Releases = {0, 8, 27}
    Shared = {22}
    MaxOpens = 3
    MaxRev = 2
    Keep = 2
    Notes = {n1, n2}
    Servers = {a, b}
    Models = {"A", "B"}
    AutosaveEvery = 2
    MaxEdits = 2
    MaxStarts = 3
    NoIndex = NoIndex
    Torn = Torn
    MaxRows = 2
    MaxThreads = 2
    Garbage = Garbage
    NoLog = NoLog
    Unopened = Unopened
    Retention = 2
    MaxCommits = 2
    MaxBackupClock = 5
    Apps = {c1}
    KeyNames = {k1}
    Tools = {"t1"}
    Pid <- MCPid
    Half = Half
    Missing = Missing
    MaxApps = 1
    MaxPairs = 2
    MaxExpired = 1
    MaxAuthFaults = 1
    Handlers = {a, b}
    Addresses = {"here"}
    Limit = 1
    Window = 2
    PruneEvery = 2
    OAuthMode = TRUE
    Arriving <- MCArriving
    MaxTicks = 2
    MaxRequests = 4
    Slugs = {s1, s2}
    WikiCalls = {a, b}
    Gone = Gone
    MaxTexts = 2
    MaxWikiTime = 1
    MaxWikiEdits = 1
    Sources = {m1, m2, m3}
    BatchLimit = 2
    MaxCompileTime = 3
    MaxSourceChanges = 2
    Items = {i1}
    Drawers = {d1}
    Texts = {tA, tB}
    None = None
    NoTxn = NoTxn
    Pulls = {a, b}
    PullServer <- MCPullServer
    MaxStoreChanges = 4
    MaxPullFaults = 1
    Updates = {a, b}
    Nobody = Nobody
    MaxCommit = 3
    MaxUpdateFaults = 2
    Starts = {a, b}
    Restores = {r}
    NoServer = NoServer
    MaxKills = 1
    Loops = {"sync"}
    Watchers = {"watcher"}
    HttpServers = {"peer"}
    StopOrder <- MCStopOrder
    MaxLifespans = 2
    MaxJoinTimeouts = 1
    Schedulers = {a, b}
    DigestInterval = 2
    Day = 3
    MaxClock = 4
    MaxJobFaults = 1
    SyncedRows = {r1, r2}
    Categories = {a, b}
    NoRecord = NoRecord
    Grace = 1
    MaxRowWrites = 2
    MaxNow = 2
    Remembrances = {m1, m2, m3}
    NoSearch = NoSearch
    Orders <- MCOrders
    ChunkOrders <- MCChunkOrders
    Strategies = {"balanced"}
    OptIns = {FALSE, TRUE}
    ResultLimit = 2
    Budget = 1
    OverFetch = 2
    Fanout = 2
    Bridge = 1
    Created <- MCCreated
    Size <- MCSize
    SharesEntity <- MCShares
    SameDocument <- MCSame
    MaxDays = 1
    MaxSearches = 2
    MaxRecallChanges = 1
SYMMETRY Actors
CONSTRAINTS FewOpens FewMishaps FewPages FewSearches
CHECK_DEADLOCK FALSE
INVARIANTS
    Upgraded
    SearchesTrue
    RestoreSafe
    OneCurrent
    ReadsAreFresh
    NotServedAgain
    UpdatesSafe
    StopsClean
    CredentialsHold
    LimitsHold
    DigestsRight
    DominantFirst
PROPERTIES
    SnapshotFirst
    ServesAlone
    FaultsAreHoles
    AnswersRight
