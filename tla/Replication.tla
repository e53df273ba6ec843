----------------------------- MODULE Replication -----------------------------
(***************************************************************************)
(* What synchronisation promises, whatever carries it: a store of memories *)
(* replicated under last-write-wins.  A writer stamps its write above every *)
(* earlier one; a replica changes otherwise only by adopting a version     *)
(* that some writer wrote and that is newer than its own.  No replica goes *)
(* back to an older version, and no replica holds one nobody wrote.        *)
(***************************************************************************)
EXTENDS Naturals

CONSTANTS Replicas,  \* where memories are stored
          Writers,   \* the replicas where users write
          Mems,      \* memory ids
          Stamps     \* the stamps of versions, numbers above 0; a replica
                     \* that does not hold a memory has 0 for it

VARIABLES store,     \* store[r][m]: stamp of the version r holds of m
          versions   \* every version written so far, as [mem, ts]

Init ==
    /\ store = [r \in Replicas |-> [m \in Mems |-> 0]]
    /\ versions = {}

\* A user of w writes m; the new stamp is above all earlier ones.
Write(w, m) ==
    \E ts \in Stamps :
        /\ \A v \in versions : ts > v.ts
        /\ versions' = versions \cup {[mem |-> m, ts |-> ts]}
        /\ store' = [store EXCEPT ![w][m] = ts]

\* r learns of a version that is newer than the one it holds.
Adopt(r, v) ==
    /\ v.ts > store[r][v.mem]
    /\ store' = [store EXCEPT ![r][v.mem] = v.ts]
    /\ UNCHANGED versions

Next ==
    \/ \E w \in Writers, m \in Mems : Write(w, m)
    \/ \E r \in Replicas, v \in versions : Adopt(r, v)

Spec == Init /\ [][Next]_<<store, versions>>
=============================================================================
