\* Two nodes; the hub may fail to store one record of a batch of two.
CONSTANTS
    Nodes = {n1, n2}
    NoNode = NoNode
    Mems = {m1, m2}
    BatchSize = 2
    PageSize = 1
    HubWriters = 1
    MaxStamp = 2
    MaxFaults = 1
    HubMayReject = TRUE
    NodeMayReject = FALSE
SPECIFICATION Spec
SYMMETRY Symmetry
INVARIANT NothingLost
