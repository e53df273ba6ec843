----------------------------- MODULE MCGraphSync -----------------------------
(* GraphSync on small instances, for TLC.                                  *)
EXTENDS GraphSync, TLC

CONSTANTS a, b, k, l

VARIABLE offline   \* nodes that are not there in this behaviour

\* Two users who know an entity by different aliases, as different things, and
\* mention it alone or with another one.
TwoViews == {<<E, v[1], v[2]>> : E \in {{1}, {1, 3}}, v \in {<<{a}, k>>, <<{b}, l>>}}

\* Two users who disagree on an entity, and one who mentions another.
ThreeViews == {<<{1}, {a}, k>>, <<{1}, {b}, l>>, <<{2}, {a, b}, NoKind>>}

AllViews == TwoViews \cup ThreeViews

\* Two nodes know nothing, or three have the rows of two entities and the
\* memory's links to them.
MCInit ==
    /\ Init
    /\ \/ /\ \E n \in Nodes : offline = {n}
          /\ \A e \in Entities : hub[e].ts = 0
       \/ offline = {} /\ \A e \in Entities : hubLink[e] > 0

\* Each of the three makes one of the mentions.
OneEach(n, f) ==
    /\ f \in ThreeViews
    /\ \A e \in Entities : said[n][e] = {}
    /\ \A m \in Nodes, e \in f[1] : ~(f[2] \subseteq said[m][e])

MCMention(n, f) ==
    /\ Mention(n, f[1], f[2], f[3])
    /\ IF offline = {} THEN OneEach(n, f)
                      ELSE writes < 2 /\ f \in TwoViews /\ n \notin offline

MCNext ==
    /\ UNCHANGED offline
    /\ \/ \E n \in Nodes, f \in Facts : MCMention(n, f)
       \/ writes' = writes /\ Next /\ \A n \in offline : pc'[n] = pc[n]
    /\ offline = {} => faults' = 0

MCSpec == MCInit /\ [][MCNext]_<<vars, offline>>

\* Nodes are alike, and so are the two views.
Symmetry == Permutations(Nodes) \cup {(a :> b) @@ (b :> a) @@ (k :> l) @@ (l :> k)}
=============================================================================
