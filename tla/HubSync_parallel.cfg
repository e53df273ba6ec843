\* Three nodes, no fault at all; the hub runs two transactions at a time.
CONSTANTS
    Nodes = {n1, n2, n3}
    NoNode = NoNode
    Mems = {m1, m2}
    BatchSize = 1
    PageSize = 1
    HubWriters = 2
    MaxStamp = 2
    MaxFaults = 0
    HubMayReject = FALSE
    NodeMayReject = FALSE
SPECIFICATION Spec
SYMMETRY Symmetry
INVARIANT NothingStranded
