\* A peer refuses as many rows as one call of _push_outbox sends.
SPECIFICATION PeerFairSpec
CONSTANTS
 Peers = {a,b}
 PeerRecords = {m,p}
 Refused = {p}
 BatchSize = 1
 MaxBatches = 1
 PageSize = 1
 OutboxDays = 1
 TombstoneDays = 1
 MaxPeerWrites = 3
 MaxDay = 0
 MaxFaults = 0
 AtOnce = 2
CHECK_DEADLOCK FALSE
PROPERTY BacklogDrains
