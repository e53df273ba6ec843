\* Imports, reminders and watched files, each a small instance of its
\* own.  Imports are bounded, so they come to rest when they are used up.
SPECIFICATION BackgroundFairSpec
CONSTANTS
    Parts = {"imports", "reminders", "watch"}
    p1 = p1
    NoWorker = NoWorker
    Workers = {w1, w2}
    Processes = {p1}
    Home <- OneProcess
    Contents = {a, b}
    Chunks = 2
    MaxImports = 3
    MaxFailures = 2
    Servers = {s1, s2}
    NoServer = NoServer
    Mems = {m1, m2}
    MaxTime = 2
    MaxChanges = 3
    MaxServerCrashes = 1
    Files = {f, g}
    Texts = {x, y}
    Drafts = {z}
    Absent = Absent
    NoImport = NoImport
    MaxWrites = 3
    MaxWatchFaults = 1
CHECK_DEADLOCK FALSE
INVARIANTS
    RecordsRight
    ImportedWhole
    DeliveriesRight
    FoundAsTheyAre
PROPERTIES
    ImportsEnd
    NoneForgotten
    Settles
