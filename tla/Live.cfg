\* Two nodes under fairness; the hub commits one write at a time and may fail
\* on any one record.  Batches of one record.  One name under which searches
\* are saved and deleted, and one server that polls them.  No symmetry, because
\* of the liveness properties.
SPECIFICATION LiveFairSpec
CONSTANTS
    Parts = {"sync", "search"}
    r1 = r1
    r2 = r2
    r3 = r3
    q1 = q1
    q2 = q2
    Nodes = {n1, n2}
    NoNode = NoNode
    Mems = {m1, m2}
    BatchSize = 1
    PageSize = 1
    HubWriters = 1
    MaxStamp = 2
    MaxFaults = 1
    HubMayReject = TRUE
    NodeMayReject = FALSE
    None = None
    Pollers = {"s1"}
    Names = {"n1"}
    Findable = {r1, r2, r3}
    Initial = {r1}
    Queries = {q1, q2}
    Match <- Matches
    Saves <- AllSaves
    PollLimit = 2
    MaxIds = 1
    MaxSaves = 3
    MaxSearchFailures = 1
INVARIANTS
    NothingStranded
    AnnouncedOnce
PROPERTIES
    Convergence
    NewsOnly
