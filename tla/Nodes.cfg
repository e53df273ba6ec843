\* Three memories that the tools, the dashboard and the embedder change, one
\* that two threads receive while a user edits it, and one that three nodes
\* exchange, with one nap or one lost answer.
SPECIFICATION NodesSpec
CONSTANTS
    Parts = {"memory", "upsert", "peers"}
    m1 = m1
    m2 = m2
    x = x
    Memories = {m1, m2, m3}
    Contents = {x, y}
    Objects = {o1, o2}
    Workers = {"web"}
    NoOne = NoOne
    Stored <- MCStored
    Soft = TRUE
    MaxCalls = 3
    MaxRevisions = 2
    Threads = {u1, u2}
    Tags = {t1, t2}
    MaxStamp = 3
    MaxOutbox = 5
    Peers = {a, b, c}
    PeerRecords = {m1}
    Refused = {}
    BatchSize = 1
    MaxBatches = 1
    PageSize = 1
    OutboxDays = 1
    TombstoneDays = 1
    MaxPeerWrites = 2
    MaxDay = 2
    MaxFaults = 1
    AtOnce = 1
SYMMETRY Alike
CHECK_DEADLOCK FALSE
INVARIANTS
    OutboxRight
    NewestKept
    TagsKept
    FactsSettled
    KeptText
    IndexCurrent
    StillDue
    StaysDeleted
