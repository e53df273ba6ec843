-------------------------------- MODULE MCLive --------------------------------
(* What must happen sooner or later between a node and its hub, and in the  *)
(* poll of saved searches, on small instances, for TLC.  A behaviour is the *)
(* behaviour of the `part` it begins with, and the fairness is the one of   *)
(* that part.                                                               *)
EXTENDS HubSync, SavedSearch, TLC

CONSTANTS Parts,               \* the parts that run
          r1, r2, r3, q1, q2   \* memories and queries of the searches
VARIABLE part

\* The first query matches as much as a poll looks at, the second more.
Matches == q1 :> {r1, r2} @@ q2 :> {r1, r2, r3}
\* What users save: any query, watched or not.
AllSaves == [query : Queries, watch : BOOLEAN]

live == <<part, vars, searchVars>>

LiveInit == part \in Parts /\ Init /\ SearchInit

Syncs == part = "sync" /\ Next /\ UNCHANGED <<part, searchVars>>
Searches == part = "search" /\ SearchNext /\ UNCHANGED <<part, vars>>

LiveNext == Syncs \/ Searches

LiveFairSpec ==
    /\ LiveInit /\ [][LiveNext]_live
    /\ \A n \in Nodes : WF_vars(part = "sync" /\ SyncStep(n))
    /\ WF_vars(part = "sync" /\ HubStep)
    /\ WF_searchVars(part = "search" /\ Interval)
    /\ \A s \in Pollers : WF_searchVars(part = "search" /\ PollStep(s))

=============================================================================
