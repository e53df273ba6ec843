------------------------------ MODULE MCHubSync ------------------------------
(* HubSync on small instances, for TLC.                                    *)
EXTENDS HubSync, TLC

\* Nodes are alike and memories are alike; only for runs without liveness.
Symmetry == Permutations(Nodes) \cup Permutations(Mems)
=============================================================================
