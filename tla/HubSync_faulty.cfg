\* Two nodes, batches of two; the hub runs two transactions at a time, and the
\* upsert of any one pulled record may fail.
CONSTANTS
    Nodes = {n1, n2}
    NoNode = NoNode
    Mems = {m1, m2}
    BatchSize = 2
    PageSize = 1
    HubWriters = 2
    MaxStamp = 3
    MaxFaults = 1
    HubMayReject = FALSE
    NodeMayReject = TRUE
SPECIFICATION Spec
SYMMETRY Symmetry
INVARIANTS NothingLost PassedIsHeld
PROPERTY LastWriteWins
