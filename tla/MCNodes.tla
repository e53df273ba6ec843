------------------------------- MODULE MCNodes -------------------------------
(* The records of nodes: those that the tools and the dashboard of a node  *)
(* change, one that threads of a node store as they receive it, and one    *)
(* that nodes without a hub exchange; on small instances, for TLC.  A      *)
(* behaviour is the behaviour of the `part` it begins with.                *)
EXTENDS MemoryLife, LocalUpsert, PeerSync, TLC

CONSTANTS Parts, m1, m2, x   \* the parts that run; two memories, a text
VARIABLE part

\* One side of a captured conversation, and an imported memory.
MCStored == m1 :> "capture" @@ m2 :> "import"
Alike == Permutations(Peers) \cup Permutations(Threads) \cup Permutations(Tags)

NodesInit == /\ part \in Parts /\ MemInit /\ Init /\ PeerInit
             /\ part # "memory" => \A m \in DOMAIN Stored : memRow[m].text = x
ChangesMemories == part = "memory" /\ MemNext /\ UNCHANGED <<part, vars, peerVars>>
Exchanges == part = "peers" /\ PeerNext /\ UNCHANGED <<part, memVars, vars>>
Receives == part = "upsert" /\ Next /\ UNCHANGED <<part, memVars, peerVars>>
NodesNext == ChangesMemories \/ Receives \/ Exchanges
NodesSpec == NodesInit /\ [][NodesNext]_<<part, memVars, vars, peerVars>>
=============================================================================
