\* Two nodes and one memory; the cursor may be reset while its pull runs.
CONSTANTS
    Nodes = {n1, n2}
    NoNode = NoNode
    Mems = {m1}
    BatchSize = 1
    PageSize = 1
    HubWriters = 1
    MaxStamp = 1
    MaxFaults = 1
    HubMayReject = FALSE
    NodeMayReject = FALSE
SPECIFICATION Spec
PROPERTY RewindFromStart
