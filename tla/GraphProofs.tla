----------------------------- MODULE GraphProofs -----------------------------
(***************************************************************************)
(* Proofs about the synchronisation of the entity graph, for any nodes,    *)
(* entities, aliases, kinds, sizes of a page, mentions and faults.         *)
(*                                                                         *)
(* The argument follows a row.  A node's own row is made of what the hub   *)
(* has and of what its outbox still holds (OwnRow); the page it is storing *)
(* holds rows of the hub, the present ones or ones of which the hub will   *)
(* offer a later one (PageRow); so once the hub's row is no longer due to  *)
(* the node, the node has taken it in (Digest).                            *)
(***************************************************************************)
EXTENDS GraphSync, TLAPS

USE DEF nodeVars, pullVars, hubVars, history, GoTo

-----------------------------------------------------------------------------
(* The inductive invariant.                                                *)

Proper == {r \in Records : r.ts > 0 /\ (r.tab = "entities" => r.id \in Entities)}

\* The records of n that the hub may still get: of its outbox, and of requests under way.
Mine(n) == pending[n] \cup UNION {q.todo : q \in {x \in reqs : x.node = n}}

\* The hub knows what the record says.
AtHub(r) ==
    IF r.tab = "entities"
    THEN /\ r.ts <= hub[r.id].ts /\ r.aliases \subseteq hub[r.id].aliases
         /\ r.kind = NoKind \/ hub[r.id].kind # NoKind
    ELSE hubLink[r.id] > 0

Storing(n) == pc[n] \in {"apply", "store"}

Shaped ==
    /\ \A n \in Nodes : /\ pending[n] \subseteq Proper /\ batch[n] \subseteq Proper
                        /\ page[n] \subseteq {r \in Proper : r.tab = tab[n]}
                        /\ page[n] # {} => Storing(n)
    /\ \A q \in reqs : q.todo \subseteq Proper

\* No stamp is ahead of the clock, and no two nodes gave out the same one.
Stamped ==
    /\ \A n \in Nodes : \A r \in Mine(n) : r.ts <= clock
    /\ \A e \in Entities : hub[e].ts <= clock
    /\ \A e \in Targets : hubLink[e] <= clock
    /\ \A n \in Nodes : top[n][1] <= clock
    /\ \A n \in Nodes, t \in Tables : cursor[n][t][1] <= clock
    /\ \A n, m \in Nodes : n # m => \A r \in Mine(n), s \in Mine(m) : r.ts # s.ts

\* A node waits for one answer, and what has left that request is at the hub.
Sending ==
    /\ \A q \in reqs : q.heard => /\ pc[q.node] = "sent"
                                  /\ \A r \in batch[q.node] \ q.todo : AtHub(r)
    /\ \A q, p \in reqs : q.heard /\ p.heard /\ q.node = p.node => q = p

Paging ==
    \A n \in Nodes : Storing(n) =>
        /\ After(top[n], cursor[n][tab[n]])
        /\ \A r \in page[n] : After(Pos(r), cursor[n][tab[n]]) /\ AtHub(r)

\* What a node has added since the upsert read is known as mixed; the rest is as it was read.
Reading ==
    \A n \in Nodes : pc[n] = "store" =>
        /\ \A p \in pending[n] :
              p.tab = tab[n] /\ p.ts > mark[n] => <<n, tab[n], p.id>> \in mixed
        /\ \A r \in page[n] :
              tab[n] = "entities" /\ IsFirst(n, r) /\ <<n, "entities", r.id>> \notin mixed
                => snap[n] = ent[n][r.id]

\* What a row of a node is made of.
OwnRow(n, e) ==
    LET about(r) == r.tab = "entities" /\ r.id = e IN
    /\ said[n][e] \subseteq ent[n][e].aliases
    /\ \A x \in ent[n][e].aliases :
          x \in hub[e].aliases \/ \E r \in pending[n] : about(r) /\ x \in r.aliases
    /\ ent[n][e].kind # NoKind /\ hub[e].kind = NoKind
          => \E r \in pending[n] : about(r) /\ r.kind # NoKind
    /\ ent[n][e].ts > hub[e].ts => \E r \in pending[n] : about(r) /\ r.ts = ent[n][e].ts
    /\ \A r \in Mine(n) : about(r) =>
          /\ r.aliases \subseteq ent[n][e].aliases /\ r.ts <= ent[n][e].ts
          /\ r.kind # NoKind => ent[n][e].kind # NoKind
          /\ r.ts = ent[n][e].ts => r.kind \in {NoKind, ent[n][e].kind}
    /\ hub[e].origin = n => hub[e].ts <= ent[n][e].ts
    /\ hub[e].ts = ent[n][e].ts /\ hub[e].origin # n => hub[e].kind \in {NoKind, ent[n][e].kind}
OwnRows == \A n \in Nodes, e \in Entities : <<n, "entities", e>> \notin mixed => OwnRow(n, e)

OwnLink(n, e) ==
    /\ \A r \in Mine(n) : r.tab = "links" /\ r.id = e => link[n][e] > 0
    /\ link[n][e] > 0 /\ <<n, "links", e>> \notin mixed =>
          hubLink[e] > 0 \/ LinkRecord(e, link[n][e]) \in pending[n]
OwnLinks == \A n \in Nodes, e \in Targets : OwnLink(n, e)

HubRows == \A e \in Entities : hub[e].ts = 0 => hub[e].aliases = {} /\ hub[e].kind = NoKind

\* A record of the page is the hub's row, or a later one follows it.
PageRow(n, r) ==
    LET h == hub[r.id] IN
    /\ r.ts = h.ts => r.aliases = h.aliases /\ r.kind = h.kind /\ h.origin # n
    /\ r.ts # h.ts => \/ h.origin = n \/ After(<<h.ts, r.id>>, top[n])
                      \/ Exempt(n, "entities", r.id)
PageRows ==
    \A n \in Nodes : \A r \in page[n] :
        IF tab[n] = "entities" THEN PageRow(n, r) ELSE r.ts = hubLink[r.id]

OnPage(n, t, e, ts) == \E r \in page[n] : tab[n] = t /\ r.id = e /\ r.ts = ts

\* The hub's row of e is still to be offered to n, or to be stored by it.
Due(n, e) ==
    \/ hub[e].origin # n /\ After(<<hub[e].ts, e>>, Seen(n, "entities"))
    \/ OnPage(n, "entities", e, hub[e].ts)

Digest(n, e) ==
    ~Exempt(n, "entities", e) /\ ~Due(n, e) =>
        /\ hub[e].aliases \subseteq ent[n][e].aliases
        /\ hub[e].kind \in {NoKind, ent[n][e].kind} \/ ent[n][e].ts > hub[e].ts
Digested == \A n \in Nodes, e \in Entities : Digest(n, e)

LinkStored(n, e) ==
    ~Exempt(n, "links", e) =>
        \/ hubLink[e] = 0 \/ link[n][e] > 0
        \/ After(<<hubLink[e], e>>, Seen(n, "links"))
        \/ OnPage(n, "links", e, hubLink[e])
LinksStored == \A n \in Nodes, e \in Targets : LinkStored(n, e)

GraphInv == /\ TypeOK /\ Shaped /\ Stamped /\ Sending /\ Paging /\ Reading
            /\ OwnRows /\ OwnLinks /\ HubRows /\ PageRows /\ Digested /\ LinksStored

\* While a request has a row of the hub changed and not committed, nobody else changes the
\* row, and no row carries its stamp.
Locking ==
    /\ \A q \in reqs : q.stamp > 0 =>
          /\ q.stamp <= clock
          /\ \A r \in Todo(q, "entities") : r.ts <= hub[r.id].ts /\ hub[r.id].ts < q.stamp
          /\ \A n \in Nodes : \A s \in Mine(n) : s.ts # q.stamp
    /\ \A q, p \in reqs : q.stamp > 0 /\ p.stamp > 0 /\ q # p =>
          \A r \in Todo(q, "entities"), s \in Todo(p, "entities") : r.id # s.id

-----------------------------------------------------------------------------
(* Positions, and what leaves parts of the invariant alone.                *)

LEMMA AfterIs ==
  /\ \A p, q, r \in Nat \X Nat : After(p, q) /\ After(q, r) => After(p, r)
  /\ \A p, q \in Nat \X Nat : After(p, q) => ~After(q, p)
  <1>1. ASSUME NEW p \in Nat \X Nat, NEW q \in Nat \X Nat, NEW r \in Nat \X Nat, After(p, q), After(q, r)
        PROVE  After(p, r)
    <2>1. p[1] \in Nat /\ p[2] \in Nat /\ q[1] \in Nat /\ q[2] \in Nat /\ r[1] \in Nat /\ r[2] \in Nat
      OBVIOUS
    <2> QED
      BY <1>1, <2>1 DEF After
  <1>2. ASSUME NEW p \in Nat \X Nat, NEW q \in Nat \X Nat, After(p, q), After(q, p) PROVE FALSE
    <2>1. p[1] \in Nat /\ p[2] \in Nat /\ q[1] \in Nat /\ q[2] \in Nat
      OBVIOUS
    <2> QED
      BY <1>2, <2>1 DEF After
  <1> QED
    BY <1>1, <1>2

LEMMA ProperIs ==
  /\ \A r \in Proper : /\ r \in Records /\ r.ts \in Nat /\ r.ts > 0 /\ r.id \in Targets /\ r.id \in Nat
                       /\ r.tab = "entities" => r.id \in Entities
                       /\ r.tab \in Tables /\ r.aliases \subseteq Aliases /\ r.kind \in Kinds \cup {NoKind}
                       /\ Pos(r) \in Nat \X Nat /\ Pos(r) = <<r.ts, r.id>>
  /\ Entities \subseteq Targets /\ Targets \subseteq Nat
  BY GraphEntities DEF Proper, Records, Pos

\* Of two records of a page at most one is the first.
LEMMA OneFirst ==
  ASSUME Shaped, NEW n \in Nodes, NEW r, NEW s, IsFirst(n, r), IsFirst(n, s)
  PROVE  r = s
  <1>1. r \in Proper /\ s \in Proper
    BY DEF IsFirst, Shaped
  <1> QED
    BY <1>1, ProperIs, AfterIs DEF IsFirst

\* Where nothing moves that the pull is about.
LEMMA PullStays ==
  ASSUME UNCHANGED <<tab, page, top, cursor, hub, hubLink, ent, link, missed, mixed>>,
         \A m \in Nodes : Storing(m)' = Storing(m)
  PROVE  /\ Paging => Paging'
         /\ PageRows => PageRows'
         /\ Digested => Digested'
         /\ LinksStored => LinksStored'
  <1>1. \A m \in Nodes : \A t : Seen(m, t)' = Seen(m, t)
    BY DEF Seen, Storing
  <1>2. \A m \in Nodes : \A t, e : Exempt(m, t, e)' = Exempt(m, t, e)
    BY DEF Exempt
  <1>3. Paging => Paging'
    BY DEF Paging, AtHub, Pos, After
  <1>4. PageRows => PageRows'
    BY <1>2 DEF PageRows, PageRow, After
  <1>5. Digested => Digested'
    BY <1>1, <1>2 DEF Digested, Digest, Due, OnPage, After
  <1>6. LinksStored => LinksStored'
    BY <1>1, <1>2 DEF LinksStored, LinkStored, OnPage, After
  <1> QED
    BY <1>3, <1>4, <1>5, <1>6

\* Where no row of a node or of the hub moves.
LEMMA RowsStay ==
  ASSUME UNCHANGED <<ent, link, pending, said, hub, hubLink, mixed>>,
         \A m \in Nodes : Mine(m)' \subseteq Mine(m)
  PROVE  /\ OwnRows => OwnRows'
         /\ OwnLinks => OwnLinks'
         /\ HubRows => HubRows'
  <1>1. OwnRows => OwnRows'
    BY DEF OwnRows, OwnRow
  <1>2. OwnLinks => OwnLinks'
    BY DEF OwnLinks, OwnLink
  <1>3. HubRows => HubRows'
    BY DEF HubRows
  <1> QED
    BY <1>1, <1>2, <1>3

LEMMA StampsStay ==
  ASSUME UNCHANGED <<clock, hub, hubLink, top, cursor>>, \A m \in Nodes : Mine(m)' \subseteq Mine(m)
  PROVE  Stamped => Stamped'
  BY DEF Stamped

-----------------------------------------------------------------------------
(* The beginning.                                                          *)

LEMMA GraphInvInit == Init => GraphInv
  <1> SUFFICES ASSUME Init PROVE GraphInv
    OBVIOUS
  <1> DEFINE Row(old, e) == IF e \in old THEN [NoRow EXCEPT !.ts = 1] ELSE NoRow
             Links(linked) == [e \in Targets |-> IF e \in linked THEN 1 ELSE 0]
  <1>c. PICK old \in SUBSET Entities, maker \in Nodes :
           \E linked \in {{}, old}, last \in old \cup {0} : Begun(old, maker, last, linked)
    BY DEF Init
  <1>1. PICK linked \in {{}, old}, last \in old \cup {0} : Begun(old, maker, last, linked)
    BY <1>c
  <1> USE DEF Begun
  <1>a. /\ ent = [n \in Nodes |-> [e \in Entities |-> Row(old, e)]]
        /\ hub = [e \in Entities |-> [ts |-> Row(old, e).ts, aliases |-> {}, kind |-> NoKind,
                                      origin |-> IF e \in old THEN maker ELSE NoNode]]
    BY <1>1
  <1>b. \A e : /\ Row(old, e).ts \in {0, 1} /\ Row(old, e).aliases = {} /\ Row(old, e).kind = NoKind
               /\ Row(old, e) \in Rows
    BY DEF NoRow, Rows
  <1> HIDE DEF Row
  <1>2. \A e \in Entities : e \in Nat /\ e > 0 /\ e \in Targets
    BY GraphEntities
  <1>3. last \in Nat
    BY <1>2
  <1>4. \A n \in Nodes, e \in Entities : /\ ent[n][e].ts = hub[e].ts /\ hub[e].ts \in {0, 1}
                                         /\ ent[n][e].aliases = {} /\ ent[n][e].kind = NoKind
                                         /\ ent[n][e] \in Rows
    BY <1>a, <1>b
  <1>5. \A e \in Entities : /\ hub[e].aliases = {} /\ hub[e].kind = NoKind /\ hub[e].ts \in {0, 1}
                            /\ hub[e] \in [ts : Nat, aliases : SUBSET Aliases, kind : Kinds \cup {NoKind},
                                           origin : Nodes \cup {NoNode}]
    <2> SUFFICES ASSUME NEW e \in Entities
                 PROVE  /\ hub[e].aliases = {} /\ hub[e].kind = NoKind /\ hub[e].ts \in {0, 1}
                        /\ hub[e] \in [ts : Nat, aliases : SUBSET Aliases, kind : Kinds \cup {NoKind},
                                       origin : Nodes \cup {NoNode}]
      OBVIOUS
    <2>1. PICK t \in {0, 1}, o \in Nodes \cup {NoNode} :
            hub[e] = [ts |-> t, aliases |-> {}, kind |-> NoKind, origin |-> o]
      BY <1>a, <1>b
    <2> QED
      BY <2>1
  <1>6. \A n \in Nodes, t \in Tables : cursor[n][t] \in Nat \X Nat /\ cursor[n][t][1] <= 1
    BY <1>1, <1>3 DEF Start
  <1>7. TypeOK
    <2>1. ent \in [Nodes -> [Entities -> Rows]]
      BY <1>1, <1>4
    <2>2. cursor \in [Nodes -> [Tables -> Nat \X Nat]]
      BY <1>1, <1>6
    <2>3. hub \in [Entities -> [ts : Nat, aliases : SUBSET Aliases, kind : Kinds \cup {NoKind},
                                origin : Nodes \cup {NoNode}]]
      BY <1>1, <1>5
    <2>4. snap \in [Nodes -> Rows] /\ top \in [Nodes -> Nat \X Nat]
      BY <1>1 DEF NoRow, Rows, Start
    <2>5. clock \in Nat /\ writes \in 0..MaxWrites /\ faults \in 0..MaxFaults
      BY <1>1, GraphBounds
    <2> QED
      BY <1>1, <2>1, <2>2, <2>3, <2>4, <2>5 DEF TypeOK, Tables
  <1>8. \A n \in Nodes : Mine(n) = {}
    BY <1>1 DEF Mine
  <1>9. Shaped /\ Sending /\ Paging /\ Reading /\ HubRows /\ PageRows
    BY <1>1, <1>5 DEF Shaped, Sending, Paging, Reading, HubRows, PageRows, Storing
  <1>10. Stamped
    <2>a. clock = 1
      BY <1>1
    <2>b. \A e \in Entities : hub[e].ts = 0 \/ hub[e].ts = 1
      BY <1>5
    <2>1. \A e \in Entities : hub[e].ts <= clock
      BY <2>a, <2>b
    <2> QED
      BY <1>1, <1>6, <1>8, <2>1 DEF Stamped, Start
  <1>11. OwnRows
    <2> SUFFICES ASSUME NEW n \in Nodes, NEW e \in Entities PROVE OwnRow(n, e)
      BY DEF OwnRows
    <2>1. said[n][e] = {} /\ Mine(n) = {} /\ ent[n][e].aliases = {} /\ ent[n][e].kind = NoKind
      BY <1>1, <1>4, <1>8
    <2>2. ent[n][e].ts = hub[e].ts /\ hub[e].ts \in Nat /\ hub[e].kind = NoKind
      BY <1>4, <1>5
    <2> QED
      BY <2>1, <2>2 DEF OwnRow
  <1>12. OwnLinks /\ LinksStored
    <2>1. \A n \in Nodes, e \in Targets : link[n][e] = hubLink[e] /\ hubLink[e] \in {0, 1}
      BY <1>1
    <2> QED
      BY <1>8, <2>1 DEF OwnLinks, OwnLink, LinksStored, LinkStored
  <1>13. Digested
    BY <1>4, <1>5 DEF Digested, Digest
  <1> QED
    BY <1>7, <1>9, <1>10, <1>11, <1>12, <1>13 DEF GraphInv

-----------------------------------------------------------------------------
(* The push half of a cycle.                                               *)

LEMMA GraphPush == ASSUME GraphInv, NEW n \in Nodes, Push(n) PROVE GraphInv'
  <1>0. /\ TypeOK /\ Shaped /\ Stamped /\ Sending /\ Paging /\ Reading
        /\ OwnRows /\ OwnLinks /\ HubRows /\ PageRows /\ Digested /\ LinksStored
    BY DEF GraphInv
  <1> DEFINE q == [node |-> n, todo |-> pending[n], heard |-> TRUE, stamp |-> 0]
  <1>1. /\ pc[n] = "idle" /\ batch' = [batch EXCEPT ![n] = pending[n]]
        /\ \/ pc' = [pc EXCEPT ![n] = "fetch"] /\ reqs' = reqs
           \/ pc' = [pc EXCEPT ![n] = "sent"] /\ reqs' = reqs \cup {q}
        /\ UNCHANGED <<clock, writes, ent, link, pending, cursor, tab, page, top, full, snap, mark,
                       hub, hubLink, faults, said, missed, mixed>>
    BY DEF Push
  <1>2. q.node = n /\ q.todo = pending[n] /\ q.heard
    OBVIOUS
  <1>3. q \in Requests
    BY <1>0 DEF TypeOK, Requests
  <1> HIDE DEF q
  <1>4. TypeOK'
    BY <1>0, <1>1, <1>3 DEF TypeOK
  <1>5. \A m \in Nodes : /\ m # n => pc'[m] = pc[m] /\ batch'[m] = batch[m]
                         /\ batch'[n] = pending[n] /\ pc'[n] \in {"fetch", "sent"}
    BY <1>0, <1>1 DEF TypeOK
  <1>6. \A m \in Nodes : Storing(m)' = Storing(m) /\ (pc'[m] = "store" => pc[m] = "store")
    BY <1>1, <1>5 DEF Storing
  <1>7. \A m \in Nodes : Mine(m)' \subseteq Mine(m)
    BY <1>1, <1>2 DEF Mine
  <1>8. Shaped'
    BY <1>0, <1>1, <1>2, <1>5, <1>6 DEF Shaped
  <1>9. Stamped'
    BY <1>0, <1>1, <1>7, StampsStay
  <1>10. Sending'
    <2>1. \A p \in reqs : p.heard => p.node # n
      BY <1>0, <1>1 DEF Sending
    <2>2. \A p \in reqs' : p \in reqs \/ (p = q /\ pc'[n] = "sent")
      BY <1>0, <1>1 DEF TypeOK
    <2>3. \A r : AtHub(r)' = AtHub(r)
      BY <1>1 DEF AtHub
    <2>4. \A p \in reqs : p.node \in Nodes
      BY <1>0 DEF TypeOK, Requests
    <2>5. ASSUME NEW p \in reqs', p.heard
          PROVE  pc'[p.node] = "sent" /\ \A r \in batch'[p.node] \ p.todo : AtHub(r)'
      BY <1>0, <1>2, <1>5, <2>1, <2>2, <2>3, <2>4, <2>5 DEF Sending
    <2>6. \A p, s \in reqs' : p.heard /\ s.heard /\ p.node = s.node => p = s
      BY <1>0, <1>2, <2>1, <2>2 DEF Sending
    <2> QED
      BY <2>5, <2>6 DEF Sending
  <1>11. Reading'
    BY <1>0, <1>1, <1>6 DEF Reading, IsFirst, Pos, After
  <1>12. OwnRows' /\ OwnLinks' /\ HubRows'
    BY <1>0, <1>1, <1>7, RowsStay
  <1>13. Paging' /\ PageRows' /\ Digested' /\ LinksStored'
    BY <1>0, <1>1, <1>6, PullStays
  <1> QED
    BY <1>4, <1>8, <1>9, <1>10, <1>11, <1>12, <1>13 DEF GraphInv

LEMMA GraphPushAck == ASSUME GraphInv, NEW n \in Nodes, PushAck(n) PROVE GraphInv'
  <1>0. /\ TypeOK /\ Shaped /\ Stamped /\ Sending /\ Paging /\ Reading
        /\ OwnRows /\ OwnLinks /\ HubRows /\ PageRows /\ Digested /\ LinksStored
    BY DEF GraphInv
  <1>1. PICK q \in reqs : q.node = n /\ q.heard /\ q.todo = {} /\ reqs' = reqs \ {q}
    BY DEF PushAck
  <1>2. /\ pc[n] = "sent" /\ pc' = [pc EXCEPT ![n] = "fetch"]
        /\ pending' = [pending EXCEPT ![n] = @ \ batch[n]] /\ batch' = [batch EXCEPT ![n] = {}]
        /\ UNCHANGED <<clock, writes, ent, link, cursor, tab, page, top, full, snap, mark,
                       hub, hubLink, faults, said, missed, mixed>>
    BY DEF PushAck
  <1>3. \A r \in batch[n] : AtHub(r)
    BY <1>0, <1>1 DEF Sending
  <1>4. TypeOK'
    BY <1>0, <1>1, <1>2 DEF TypeOK
  <1>5. \A m \in Nodes : /\ m # n => pc'[m] = pc[m] /\ batch'[m] = batch[m] /\ pending'[m] = pending[m]
                         /\ pc'[n] = "fetch" /\ batch'[n] = {} /\ pending'[n] = pending[n] \ batch[n]
    BY <1>0, <1>2 DEF TypeOK
  <1>6. \A m \in Nodes : /\ Storing(m)' = Storing(m) /\ (pc'[m] = "store" => pc[m] = "store")
                         /\ pending'[m] \subseteq pending[m]
    BY <1>2, <1>5 DEF Storing
  <1>7. \A m \in Nodes : Mine(m)' \subseteq Mine(m)
    BY <1>1, <1>6 DEF Mine
  <1>8. Shaped'
    BY <1>0, <1>1, <1>2, <1>5, <1>6 DEF Shaped
  <1>9. Stamped'
    BY <1>0, <1>2, <1>7, StampsStay
  <1>10. Sending'
    <2>1. \A p \in reqs' : p \in reqs /\ (p.heard => p.node # n)
      BY <1>0, <1>1 DEF Sending
    <2>2. \A r : AtHub(r)' = AtHub(r)
      BY <1>2 DEF AtHub
    <2>3. \A p \in reqs : p.node \in Nodes
      BY <1>0 DEF TypeOK, Requests
    <2> QED
      BY <1>0, <1>5, <2>1, <2>2, <2>3 DEF Sending
  <1>11. Reading'
    BY <1>0, <1>2, <1>6 DEF Reading, IsFirst, Pos, After
  <1>12. OwnRows'
    <2> SUFFICES ASSUME NEW m \in Nodes, NEW e \in Entities, <<m, "entities", e>> \notin mixed PROVE OwnRow(m, e)'
      BY <1>2 DEF OwnRows
    <2>1. OwnRow(m, e)
      BY <1>0 DEF OwnRows
    <2>2. \A r \in pending[m] : r \in pending'[m] \/ AtHub(r)
      BY <1>3, <1>5
    <2>3. ent[m][e].ts \in Nat /\ hub[e].ts \in Nat
      BY <1>0 DEF TypeOK, Rows
    <2>4. \A r \in pending[m] : r.ts \in Nat
      BY <1>0, ProperIs DEF Shaped
    <2>5. UNCHANGED <<ent, hub, said>>
      BY <1>2
    <2> QED
      BY <2>1, <2>2, <2>3, <2>4, <2>5, <1>7 DEF OwnRow, AtHub
  <1>13. OwnLinks'
    <2> SUFFICES ASSUME NEW m \in Nodes, NEW e \in Targets PROVE OwnLink(m, e)'
      BY DEF OwnLinks
    <2>1. OwnLink(m, e)
      BY <1>0 DEF OwnLinks
    <2>2. \A r \in pending[m] : r \in pending'[m] \/ AtHub(r)
      BY <1>3, <1>5
    <2>3. \A t : LinkRecord(e, t).tab = "links" /\ LinkRecord(e, t).id = e
      BY DEF LinkRecord
    <2> QED
      BY <2>1, <2>2, <2>3, <1>2, <1>7 DEF OwnLink, AtHub
  <1>14. HubRows'
    BY <1>0, <1>2 DEF HubRows
  <1>15. Paging' /\ PageRows' /\ Digested' /\ LinksStored'
    BY <1>0, <1>2, <1>6, PullStays
  <1> QED
    BY <1>4, <1>8, <1>9, <1>10, <1>11, <1>12, <1>13, <1>14, <1>15 DEF GraphInv

-----------------------------------------------------------------------------
(* A mention.                                                              *)

LEMMA OrIs ==
  /\ \A k, l \in Kinds \cup {NoKind} : /\ Or(k, l) \in Kinds \cup {NoKind}
                                       /\ k # NoKind => Or(k, l) = k
                                       /\ k = NoKind => Or(k, l) = l
  BY DEF Or

LEMMA EnrichedIs ==
  ASSUME NEW r \in Rows, NEW s
  PROVE  Enriched(r, s) = [ts |-> r.ts, aliases |-> r.aliases \cup s.aliases, kind |-> Or(r.kind, s.kind)]
  <1>1. PICK t \in Nat, B \in SUBSET Aliases, l \in Kinds \cup {NoKind} : r = [ts |-> t, aliases |-> B, kind |-> l]
    BY DEF Rows
  <1> DEFINE k == Or(l, s.kind)
             A == B \cup s.aliases
  <1>2. Enriched(r, s) = [[ts |-> t, aliases |-> B, kind |-> l] EXCEPT !.aliases = A, !.kind = k]
    BY <1>1 DEF Enriched
  <1>3. r.ts = t /\ A = r.aliases \cup s.aliases /\ k = Or(r.kind, s.kind)
    BY <1>1
  <1> HIDE DEF A, k
  <1> QED
    BY <1>2, <1>3

LEMMA AnnotatedIs ==
  ASSUME clock \in Nat, NEW r \in Rows, NEW A \in SUBSET Aliases, NEW k \in Kinds \cup {NoKind}
  PROVE  LET a == Annotated(r, A, k) IN
         /\ a \in Rows /\ a.aliases = r.aliases \cup A /\ a.kind = Or(r.kind, k)
         /\ a = r \/ a.ts = clock + 1
  <1> DEFINE new == [ts |-> r.ts, aliases |-> r.aliases \cup A, kind |-> Or(r.kind, k)]
  <1>1. Enriched(r, [aliases |-> A, kind |-> k]) = new
    <2> DEFINE s == [aliases |-> A, kind |-> k]
    <2>1. s.aliases = A /\ s.kind = k
      OBVIOUS
    <2> HIDE DEF s
    <2>2. Enriched(r, s) = [ts |-> r.ts, aliases |-> r.aliases \cup s.aliases, kind |-> Or(r.kind, s.kind)]
      BY EnrichedIs
    <2>3. Enriched(r, s) = new
      BY <2>1, <2>2
    <2> QED
      BY <2>3 DEF s
  <1>2. Or(r.kind, k) \in Kinds \cup {NoKind}
    BY OrIs DEF Rows
  <1>3. Annotated(r, A, k) = IF r.ts > 0 /\ new = r THEN r ELSE [new EXCEPT !.ts = clock + 1]
    BY <1>1 DEF Annotated
  <1>4. CASE r.ts > 0 /\ new = r
    <2>1. Annotated(r, A, k) = r /\ r.aliases = r.aliases \cup A /\ r.kind = Or(r.kind, k)
      BY <1>3, <1>4
    <2> QED
      BY <2>1
  <1>5. CASE ~(r.ts > 0 /\ new = r)
    <2>1. Annotated(r, A, k) = [ts |-> clock + 1, aliases |-> r.aliases \cup A, kind |-> Or(r.kind, k)]
      BY <1>3, <1>5
    <2> QED
      BY <2>1, <1>2 DEF Rows
  <1> QED
    BY <1>4, <1>5

LEMMA GraphMention ==
  ASSUME GraphInv, NEW n \in Nodes, NEW E \in SUBSET Targets, NEW A \in SUBSET Aliases,
         NEW k \in Kinds \cup {NoKind}, Mention(n, E, A, k)
  PROVE  GraphInv'
  <1>0. /\ TypeOK /\ Shaped /\ Stamped /\ Sending /\ Paging /\ Reading
        /\ OwnRows /\ OwnLinks /\ HubRows /\ PageRows /\ Digested /\ LinksStored
    BY DEF GraphInv
  <1> DEFINE rows == [e \in Entities |-> IF e \in E THEN Annotated(ent[n][e], A, k) ELSE ent[n][e]]
             fresh == {e \in E : link[n][e] = 0}
             added == {EntityRecord(e, rows[e]) : e \in {x \in Entities : rows[x] # ent[n][x]}}
                      \cup {LinkRecord(e, clock + 1) : e \in fresh}
  <1>1. /\ writes < MaxWrites /\ writes' = writes + 1 /\ clock' = clock + 1
        /\ ent' = [ent EXCEPT ![n] = rows]
        /\ link' = [link EXCEPT ![n] = [e \in Targets |-> IF e \in fresh THEN clock + 1 ELSE @[e]]]
        /\ pending' = [pending EXCEPT ![n] = @ \cup added]
        /\ said' = [said EXCEPT ![n] = [e \in Entities |-> IF e \in E THEN @[e] \cup A ELSE @[e]]]
        /\ mixed' = mixed \cup (IF pc[n] = "store" THEN {<<n, tab[n], e>> : e \in E} ELSE {})
        /\ UNCHANGED <<cursor, pc, batch, tab, page, top, full, snap, mark, hub, hubLink, reqs, faults, missed>>
    <2>1. pending' = [pending EXCEPT ![n] = @
             \cup {EntityRecord(e, rows[e]) : e \in {x \in Entities : rows[x] # ent[n][x]}}
             \cup {LinkRecord(e, clock + 1) : e \in fresh}]
      BY DEF Mention
    <2> QED
      BY <2>1 DEF Mention
  <1>2. /\ clock \in Nat /\ \A e \in Entities : ent[n][e] \in Rows /\ hub[e].ts \in Nat
        /\ \A e \in Targets : link[n][e] \in Nat
    BY <1>0 DEF TypeOK
  <1>3. \A e \in Entities : /\ rows[e] \in Rows /\ ent[n][e].aliases \subseteq rows[e].aliases
                            /\ e \in E => A \subseteq rows[e].aliases
                            /\ ent[n][e].kind # NoKind => rows[e].kind = ent[n][e].kind
                            /\ rows[e] = ent[n][e] \/ (rows[e].ts = clock + 1 /\ e \in E)
    <2> SUFFICES ASSUME NEW e \in Entities
                 PROVE  /\ rows[e] \in Rows /\ ent[n][e].aliases \subseteq rows[e].aliases
                        /\ e \in E => A \subseteq rows[e].aliases
                        /\ ent[n][e].kind # NoKind => rows[e].kind = ent[n][e].kind
                        /\ rows[e] = ent[n][e] \/ (rows[e].ts = clock + 1 /\ e \in E)
      OBVIOUS
    <2>1. CASE e \in E
      <3>1. rows[e] = Annotated(ent[n][e], A, k)
        BY <2>1
      <3>2. ent[n][e].kind # NoKind => Or(ent[n][e].kind, k) = ent[n][e].kind
        BY <1>2, OrIs DEF Rows
      <3> DEFINE a == Annotated(ent[n][e], A, k)
      <3>3. /\ a \in Rows /\ a.aliases = ent[n][e].aliases \cup A /\ a.kind = Or(ent[n][e].kind, k)
            /\ a = ent[n][e] \/ a.ts = clock + 1
        BY ZenonT(60), <1>2, AnnotatedIs
      <3> HIDE DEF rows, a
      <3> QED
        BY <2>1, <3>1, <3>2, <3>3 DEF a
    <2>2. CASE e \notin E
      BY <1>2, <2>2
    <2> QED
      BY <2>1, <2>2
  <1>4. \A r \in added : /\ r \in Proper /\ r.ts = clock + 1 /\ r.id \in E
                         /\ r.tab = "entities" => r = EntityRecord(r.id, rows[r.id])
                         /\ r.tab = "links" => r.id \in fresh
    <2>1. ASSUME NEW e \in Entities, rows[e] # ent[n][e]
          PROVE  LET r == EntityRecord(e, rows[e])
                 IN r \in Proper /\ r.ts = clock + 1 /\ e \in E /\ r.id = e /\ r.tab = "entities"
      <3>1. rows[e] \in Rows /\ rows[e].ts = clock + 1 /\ e \in E
        BY <1>3, <2>1
      <3> HIDE DEF rows
      <3> QED
        BY <1>2, <3>1 DEF EntityRecord, Proper, Records, Rows, Tables
    <2>2. ASSUME NEW e \in fresh
          PROVE  LET r == LinkRecord(e, clock + 1)
                 IN r \in Proper /\ r.ts = clock + 1 /\ e \in E /\ r.id = e /\ r.tab = "links"
      BY <1>2 DEF LinkRecord, Proper, Records, Rows, Tables
    <2> HIDE DEF rows, fresh
    <2> QED
      BY <2>1, <2>2
  <1>5. \A e \in Entities : rows[e] # ent[n][e] => EntityRecord(e, rows[e]) \in added
    OBVIOUS
  <1>6. \A e \in Targets : e \in fresh => LinkRecord(e, clock + 1) \in added
    OBVIOUS
  <1>7. \A e \in Targets : e \in fresh => link[n][e] = 0
    OBVIOUS
  <1>7a. added \subseteq Proper
    BY <1>4
  <1> HIDE DEF rows, fresh, added
  <1>8. \A m \in Nodes : /\ m # n => ent'[m] = ent[m] /\ link'[m] = link[m] /\ pending'[m] = pending[m]
                                     /\ said'[m] = said[m]
                         /\ pending'[n] = pending[n] \cup added
    BY <1>0, <1>1 DEF TypeOK
  <1>9. \A e \in Entities : ent'[n][e] = rows[e] /\ said'[n][e] = IF e \in E THEN said[n][e] \cup A ELSE said[n][e]
    BY <1>0, <1>1 DEF TypeOK, rows
  <1>10. \A e \in Targets : link'[n][e] = IF e \in fresh THEN clock + 1 ELSE link[n][e]
    BY <1>0, <1>1 DEF TypeOK
  <1>11. \A m \in Nodes : m # n => Mine(m)' = Mine(m)
    BY <1>1, <1>8 DEF Mine
  <1>12. Mine(n)' = Mine(n) \cup added
    BY <1>1, <1>8 DEF Mine
  <1>13. TypeOK'
    <2>1. ent' \in [Nodes -> [Entities -> Rows]]
      <3>1. rows \in [Entities -> Rows]
        BY <1>3 DEF rows
      <3> QED
        BY <1>0, <1>1, <3>1 DEF TypeOK
    <2>2. link' \in [Nodes -> [Targets -> Nat]]
      BY <1>0, <1>1, <1>2 DEF TypeOK
    <2>3. pending' \in [Nodes -> SUBSET Records]
      BY <1>0, <1>1, <1>7a DEF TypeOK, Proper
    <2>4. said' \in [Nodes -> [Entities -> SUBSET Aliases]]
      BY <1>0, <1>1 DEF TypeOK
    <2>5. mixed' \subseteq Marks
      BY <1>0, <1>1 DEF TypeOK, Marks
    <2>6. clock' \in Nat /\ writes' \in 0..MaxWrites
      BY <1>0, <1>1, GraphBounds DEF TypeOK
    <2> QED
      BY <1>0, <1>1, <2>1, <2>2, <2>3, <2>4, <2>5, <2>6 DEF TypeOK
  <1>14. Shaped'
    BY <1>0, <1>1, <1>7a, <1>8 DEF Shaped, Storing
  <1>15. Stamped'
    <2>1. \A m \in Nodes : \A r \in Mine(m) : r.ts \in Nat
      BY <1>0, ProperIs DEF Mine, Shaped
    <2>2. \A m \in Nodes : \A r \in Mine(m)' : r.ts <= clock'
      <3> SUFFICES ASSUME NEW m \in Nodes, NEW r \in Mine(m)' PROVE r.ts <= clock'
        OBVIOUS
      <3>1. r.ts = clock + 1 \/ (r \in Mine(m) /\ r.ts <= clock)
        BY <1>0, <1>4, <1>11, <1>12 DEF Stamped
      <3> QED
        BY <1>1, <1>2, <2>1, <3>1
    <2>3. \A m, o \in Nodes : m # o => \A r \in Mine(m)', s \in Mine(o)' : r.ts # s.ts
      <3> SUFFICES ASSUME NEW m \in Nodes, NEW o \in Nodes, m # o, NEW r \in Mine(m)', NEW s \in Mine(o)',
                          r.ts = s.ts
                   PROVE  FALSE
        OBVIOUS
      <3>1. (m = n /\ r \in added) \/ (r \in Mine(m) /\ r.ts <= clock /\ r.ts \in Nat)
        BY <1>0, <2>1, <1>11, <1>12 DEF Stamped
      <3>2. (o = n /\ s \in added) \/ (s \in Mine(o) /\ s.ts <= clock /\ s.ts \in Nat)
        BY <1>0, <2>1, <1>11, <1>12 DEF Stamped
      <3> QED
        BY <1>0, <1>2, <1>4, <3>1, <3>2 DEF Stamped
    <2>4. /\ \A e \in Entities : hub[e].ts <= clock + 1
          /\ \A e \in Targets : hubLink[e] <= clock + 1
          /\ \A m \in Nodes : top[m][1] <= clock + 1
          /\ \A m \in Nodes, t \in Tables : cursor[m][t][1] <= clock + 1
      <3>1. /\ \A e \in Targets : hubLink[e] \in Nat
            /\ \A m \in Nodes : top[m][1] \in Nat
            /\ \A m \in Nodes, t \in Tables : cursor[m][t][1] \in Nat
        BY <1>0 DEF TypeOK
      <3> QED
        BY <1>0, <1>2, <3>1 DEF Stamped
    <2> QED
      BY <1>1, <2>2, <2>3, <2>4 DEF Stamped
  <1>16. Sending' /\ Paging'
    BY <1>0, <1>1 DEF Sending, Paging, AtHub, Storing, Pos, After
  <1>17. Reading'
    <2> SUFFICES ASSUME NEW m \in Nodes, pc[m] = "store"
                 PROVE  /\ \A p \in pending'[m] :
                              p.tab = tab[m] /\ p.ts > mark[m] => <<m, tab[m], p.id>> \in mixed'
                        /\ \A r \in page[m] :
                              tab[m] = "entities" /\ IsFirst(m, r) /\ <<m, "entities", r.id>> \notin mixed'
                                => snap[m] = ent'[m][r.id]
      BY <1>1 DEF Reading, IsFirst, Pos, After
    <2>1. CASE m # n
      BY <1>0, <1>1, <1>8, <2>1 DEF Reading
    <2>2. CASE m = n
      <3>1. mixed' = mixed \cup {<<n, tab[n], e>> : e \in E}
        BY <1>1, <2>2
      <3>2. \A p \in pending'[n] : p.tab = tab[n] /\ p.ts > mark[n] => <<n, tab[n], p.id>> \in mixed'
        BY <1>0, <1>4, <1>8, <2>2, <3>1 DEF Reading
      <3>3. ASSUME NEW r \in page[n], tab[n] = "entities", IsFirst(n, r), <<n, "entities", r.id>> \notin mixed'
            PROVE  snap[n] = ent'[n][r.id]
        <4>1. r.id \notin E /\ <<n, "entities", r.id>> \notin mixed
          BY <3>1, <3>3
        <4>2. r.id \in Entities
          BY <1>0, <3>3 DEF Shaped, Proper
        <4> QED
          BY <1>0, <1>3, <1>9, <2>2, <3>3, <4>1, <4>2 DEF Reading
      <3> QED
        BY <2>2, <3>2, <3>3
    <2> QED
      BY <2>1, <2>2
  <1>18. OwnRows'
    <2> SUFFICES ASSUME NEW m \in Nodes, NEW e \in Entities, <<m, "entities", e>> \notin mixed' PROVE OwnRow(m, e)'
      BY DEF OwnRows
    <2>1. OwnRow(m, e)
      BY <1>0, <1>1 DEF OwnRows
    <2>2. CASE m # n
      BY <1>1, <1>8, <1>11, <2>1, <2>2 DEF OwnRow
    <2>3. CASE m = n /\ rows[e] = ent[n][e]
      <3>1. \A r \in added : ~(r.tab = "entities" /\ r.id = e) \/ r.ts # rows[e].ts \/ r = EntityRecord(e, rows[e])
        BY <1>4
      <3>2. \A r \in Mine(n)' : r \in Mine(n) \/ r \in added
        BY <1>12
      <3>3. said'[n][e] \subseteq ent'[n][e].aliases
        BY ZenonT(60), <1>3, <1>9, <2>1, <2>3 DEF OwnRow
      <3>4. ASSUME NEW r \in added, r.tab = "entities", r.id = e
            PROVE  r.aliases = ent[n][e].aliases /\ r.ts = ent[n][e].ts /\ r.kind = ent[n][e].kind
        BY <1>4, <2>3, <3>4 DEF EntityRecord
      <3>5. ent'[n][e] = ent[n][e] /\ ent[n][e].ts \in Nat
        BY <1>2, <1>9, <2>3 DEF Rows
      <3> QED
        BY <1>1, <1>8, <2>1, <2>3, <3>2, <3>3, <3>4, <3>5 DEF OwnRow
    <2>4. CASE m = n /\ rows[e] # ent[n][e]
      <3> DEFINE mine == EntityRecord(e, rows[e])
      <3>1. /\ mine.tab = "entities" /\ mine.id = e /\ mine.aliases = rows[e].aliases
            /\ mine.kind = rows[e].kind /\ mine.ts = rows[e].ts
        BY DEF EntityRecord
      <3>2. mine \in pending'[n]
        BY <1>5, <1>8, <2>4
      <3>3. ent'[n][e] = rows[e] /\ rows[e].ts = clock + 1 /\ rows[e] \in Rows
        BY <1>3, <1>9, <2>4
      <3>4. \A r \in Mine(n)' : r \in Mine(n) \/ (r.tab = "entities" /\ r.id = e => r = mine)
        BY <1>4, <1>12
      <3> HIDE DEF mine
      <3>5. said'[n][e] \subseteq rows[e].aliases
        <4>1. said[n][e] \subseteq ent[n][e].aliases
          BY <2>1, <2>4 DEF OwnRow
        <4> QED
          BY <1>3, <1>9, <4>1
      <3>6. ASSUME NEW r \in Mine(n)', r.tab = "entities", r.id = e
            PROVE  /\ r.aliases \subseteq rows[e].aliases /\ r.ts <= rows[e].ts
                   /\ r.kind # NoKind => rows[e].kind # NoKind
                   /\ r.ts = rows[e].ts => r.kind \in {NoKind, rows[e].kind}
        <4>1. CASE r \in Mine(n)
          <5>1. r.ts <= clock /\ r.ts \in Nat
            BY <1>0, <4>1, ProperIs DEF Stamped, Mine, Shaped
          <5>2. r.aliases \subseteq rows[e].aliases /\ (r.kind # NoKind => rows[e].kind # NoKind)
            BY <1>3, <2>1, <2>4, <3>6, <4>1 DEF OwnRow
          <5> QED
            BY <1>2, <3>3, <5>1, <5>2
        <4>2. CASE r = mine
          BY <1>2, <3>1, <3>3, <4>2
        <4> QED
          BY <3>4, <3>6, <4>1, <4>2
      <3>7. hub[e].ts <= rows[e].ts /\ hub[e].ts # rows[e].ts
        BY <1>0, <1>2, <3>3 DEF Stamped
      <3>8. hub' = hub
        BY <1>1
      <3> QED
        BY <2>4, <3>1, <3>2, <3>3, <3>5, <3>6, <3>7, <3>8 DEF OwnRow
    <2> QED
      BY <2>2, <2>3, <2>4
  <1>19. OwnLinks'
    <2> SUFFICES ASSUME NEW m \in Nodes, NEW e \in Targets PROVE OwnLink(m, e)'
      BY DEF OwnLinks
    <2>1. OwnLink(m, e)
      BY <1>0 DEF OwnLinks
    <2>2. CASE m # n
      BY <1>1, <1>8, <1>11, <2>1, <2>2 DEF OwnLink
    <2>3. CASE m = n
      <3>1. \A r \in Mine(n)' : r \in Mine(n) \/ (r.tab = "links" /\ r.id = e => e \in fresh)
        BY <1>4, <1>12
      <3>2. e \in fresh => LinkRecord(e, link'[n][e]) \in pending'[n] /\ link'[n][e] > 0
        BY <1>2, <1>6, <1>8, <1>10
      <3>3. e \notin fresh => link'[n][e] = link[n][e]
        BY <1>10
      <3>4. pending[n] \subseteq pending'[n] /\ mixed \subseteq mixed' /\ hubLink' = hubLink
        BY <1>1, <1>8
      <3> QED
        BY <2>1, <2>3, <3>1, <3>2, <3>3, <3>4 DEF OwnLink
    <2> QED
      BY <2>2, <2>3
  <1>20. HubRows'
    BY <1>0, <1>1 DEF HubRows
  <1>21. \A m \in Nodes : \A t, e : Seen(m, t)' = Seen(m, t) /\ (Exempt(m, t, e) => Exempt(m, t, e)')
    BY <1>1 DEF Seen, Exempt
  <1>22. PageRows'
    BY <1>0, <1>1, <1>21 DEF PageRows, PageRow, After
  <1>23. Digested'
    <2> SUFFICES ASSUME NEW m \in Nodes, NEW e \in Entities PROVE Digest(m, e)'
      BY DEF Digested
    <2>1. Digest(m, e) /\ (Due(m, e)' <=> Due(m, e))
      BY <1>0, <1>1, <1>21 DEF Digested, Due, OnPage, After
    <2>2. m # n => ent'[m][e] = ent[m][e]
      BY <1>8
    <2>3. m = n => /\ ent[m][e].aliases \subseteq ent'[m][e].aliases
                   /\ ent'[m][e] = ent[m][e] \/ ent'[m][e].ts > hub[e].ts
      <3>1. hub[e].ts <= clock /\ hub[e].ts \in Nat
        BY <1>0, <1>2 DEF Stamped
      <3>2. rows[e].ts = clock + 1 => rows[e].ts > hub[e].ts
        BY <1>2, <3>1
      <3>3. ent'[n][e] = rows[e]
        BY <1>9
      <3>4. rows[e] = ent[n][e] \/ rows[e].ts = clock + 1
        BY <1>3
      <3>5. ent[n][e].aliases \subseteq rows[e].aliases
        BY <1>3
      <3> QED
        BY <3>2, <3>3, <3>4, <3>5
    <2> QED
      BY <1>1, <1>21, <2>1, <2>2, <2>3 DEF Digest
  <1>24. LinksStored'
    <2> SUFFICES ASSUME NEW m \in Nodes, NEW e \in Targets PROVE LinkStored(m, e)'
      BY DEF LinksStored
    <2>1. LinkStored(m, e)
      BY <1>0 DEF LinksStored
    <2>2. link[m][e] > 0 => link'[m][e] > 0
      BY <1>2, <1>8, <1>10
    <2> QED
      BY <1>1, <1>21, <2>1, <2>2 DEF LinkStored, OnPage, After
  <1> QED
    BY <1>13, <1>14, <1>15, <1>16, <1>17, <1>18, <1>19, <1>20, <1>22, <1>23, <1>24 DEF GraphInv

-----------------------------------------------------------------------------
(* The hub works off requests.                                             *)

LEMMA MissIs ==
  ASSUME NEW t, NEW e, NEW N, Miss(t, e, N)
  PROVE  \A n, u, x : <<n, u, x>> \in missed' <=> IF u = t /\ x = e THEN n \in N ELSE <<n, u, x>> \in missed
  BY DEF Miss

\* What every record brings about, whatever the hub makes of it.
LEMMA HubTakes ==
  ASSUME TypeOK, Shaped, Sending, Paging, Reading, NEW q \in reqs, NEW r \in q.todo, Done(q, r),
         AtHub(r)', \A s \in Proper : AtHub(s) => AtHub(s)',
         UNCHANGED <<pc, batch, tab, page, top, snap, mark, cursor, ent, pending, mixed>>
  PROVE  /\ reqs' \subseteq Requests
         /\ \A m \in Nodes : Mine(m)' \subseteq Mine(m)
         /\ r \in Mine(q.node) /\ q.node \in Nodes /\ r \in Proper
         /\ Shaped' /\ Sending' /\ Paging' /\ Reading'
  <1> DEFINE rest == [q EXCEPT !.todo = @ \ {r}, !.stamp = 0]
  <1>1. /\ q.node \in Nodes /\ q.todo \subseteq Records /\ q.heard \in BOOLEAN
        /\ q = [node |-> q.node, todo |-> q.todo, heard |-> q.heard, stamp |-> q.stamp]
    BY DEF TypeOK, Requests
  <1>2. /\ rest.node = q.node /\ rest.todo = q.todo \ {r} /\ rest.heard = q.heard
        /\ rest \in Requests
    BY <1>1 DEF Requests
  <1>3. \A p \in reqs' : (p \in reqs /\ p # q) \/ p = rest
    BY DEF Done
  <1> HIDE DEF rest
  <1>4. reqs' \subseteq Requests
    BY <1>2, <1>3 DEF TypeOK
  <1>5. \A m \in Nodes : Mine(m)' \subseteq Mine(m)
    BY <1>2, <1>3 DEF Mine
  <1>6. r \in Mine(q.node) /\ r \in Proper
    BY DEF Mine, Shaped
  <1>7. Shaped'
    <2>1. \A p \in reqs' : p.todo \subseteq Proper
      BY <1>2, <1>3 DEF Shaped
    <2> QED
      BY <2>1 DEF Shaped, Storing
  <1>8. Sending'
    <2>1. \A p \in reqs : p.node \in Nodes
      BY DEF TypeOK, Requests
    <2>2. \A p \in reqs : \A s \in batch[p.node] : AtHub(s) => AtHub(s)'
      BY <2>1 DEF Shaped
    <2>3. ASSUME NEW p \in reqs', p.heard
          PROVE  pc[p.node] = "sent" /\ \A s \in batch[p.node] \ p.todo : AtHub(s)'
      <3>1. CASE p \in reqs
        BY <2>2, <2>3, <3>1 DEF Sending
      <3>2. CASE p = rest
        BY <1>2, <2>2, <2>3, <3>2 DEF Sending
      <3> QED
        BY <1>3, <3>1, <3>2
    <2>4. \A p, s \in reqs' : p.heard /\ s.heard /\ p.node = s.node => p = s
      BY <1>2, <1>3 DEF Sending
    <2> QED
      BY <2>3, <2>4 DEF Sending
  <1>9. Paging'
    <2>1. \A m \in Nodes : \A s \in page[m] : AtHub(s) => AtHub(s)'
      BY DEF Shaped
    <2> QED
      BY <2>1 DEF Paging, Storing, Pos, After
  <1>10. Reading'
    BY DEF Reading, IsFirst, Pos, After
  <1> QED
    BY <1>1, <1>4, <1>5, <1>6, <1>7, <1>8, <1>9, <1>10

LEMMA GraphHubIgnore == ASSUME GraphInv, NEW q \in reqs, HubIgnore(q) PROVE GraphInv'
  <1>0. /\ TypeOK /\ Shaped /\ Stamped /\ Sending /\ Paging /\ Reading
        /\ OwnRows /\ OwnLinks /\ HubRows /\ PageRows /\ Digested /\ LinksStored
    BY DEF GraphInv
  <1>1. PICK r \in q.todo :
          /\ r.tab = "entities" /\ r.ts <= hub[r.id].ts /\ Enriched(hub[r.id], r) = hub[r.id] /\ Done(q, r)
          /\ UNCHANGED <<clock, writes, ent, link, pending, cursor, pc, batch, tab, page, top, full, snap,
                         mark, hub, hubLink, faults, said, missed, mixed>>
    BY DEF HubIgnore, Todo
  <1>2. r \in Proper
    BY <1>0 DEF Shaped
  <1>3. AtHub(r)
    <2> DEFINE h == hub[r.id]
    <2>1. PICK t \in Nat, B \in SUBSET Aliases, l \in Kinds \cup {NoKind}, o \in Nodes \cup {NoNode} :
            h = [ts |-> t, aliases |-> B, kind |-> l, origin |-> o]
      BY <1>0, <1>1, <1>2, ProperIs DEF TypeOK
    <2> DEFINE k == Or(l, r.kind)
               A == B \cup r.aliases
    <2>2. Enriched(h, r) = [[ts |-> t, aliases |-> B, kind |-> l, origin |-> o] EXCEPT !.aliases = A, !.kind = k]
      BY <2>1 DEF Enriched
    <2> HIDE DEF A, k
    <2>a. Enriched(h, r).aliases = A /\ Enriched(h, r).kind = k
      BY <2>2
    <2>b. h.aliases = B /\ h.kind = l
      BY <2>1
    <2>3. A = B /\ k = l
      BY <1>1, <2>a, <2>b
    <2>4. l = NoKind => r.kind = NoKind
      BY <1>2, <2>3, ProperIs, OrIs DEF k
    <2>5. r.aliases \subseteq B
      BY <2>3 DEF A
    <2> QED
      BY <1>1, <2>1, <2>4, <2>5 DEF AtHub
  <1>4. \A s : AtHub(s)' = AtHub(s)
    BY <1>1 DEF AtHub
  <1>5. /\ reqs' \subseteq Requests
        /\ \A m \in Nodes : Mine(m)' \subseteq Mine(m)
        /\ Shaped' /\ Sending' /\ Paging' /\ Reading'
    BY <1>0, <1>1, <1>3, <1>4, HubTakes
  <1>6. TypeOK'
    BY <1>0, <1>1, <1>5 DEF TypeOK
  <1>7. Stamped'
    BY <1>0, <1>1, <1>5, StampsStay
  <1>8. OwnRows' /\ OwnLinks' /\ HubRows'
    BY <1>0, <1>1, <1>5, RowsStay
  <1>9. \A m \in Nodes : Storing(m)' = Storing(m)
    BY <1>1 DEF Storing
  <1>10. PageRows' /\ Digested' /\ LinksStored'
    BY <1>0, <1>1, <1>9, PullStays
  <1> QED
    BY <1>5, <1>6, <1>7, <1>8, <1>10 DEF GraphInv

LEMMA GraphHubInsertLink == ASSUME GraphInv, NEW q \in reqs, HubInsertLink(q) PROVE GraphInv'
  <1>0. /\ TypeOK /\ Shaped /\ Stamped /\ Sending /\ Paging /\ Reading
        /\ OwnRows /\ OwnLinks /\ HubRows /\ PageRows /\ Digested /\ LinksStored
    BY DEF GraphInv
  <1>1. PICK r \in q.todo :
          /\ r.tab = "links" /\ Done(q, r)
          /\ IF hubLink[r.id] = 0
             THEN /\ hubLink' = [hubLink EXCEPT ![r.id] = r.ts]
                  /\ Miss("links", r.id, NotOffered("links", Pos(r), q.node))
             ELSE UNCHANGED <<hubLink, missed>>
          /\ UNCHANGED <<clock, writes, ent, link, pending, cursor, pc, batch, tab, page, top, full, snap,
                         mark, hub, faults, said, mixed>>
    BY DEF HubInsertLink, Todo
  <1>2. r \in Proper /\ r.ts \in Nat /\ r.ts > 0 /\ r.id \in Targets /\ Pos(r) = <<r.ts, r.id>>
    BY <1>0, ProperIs DEF Shaped
  <1>3. \A e \in Targets : hubLink'[e] = IF e = r.id /\ hubLink[e] = 0 THEN r.ts ELSE hubLink[e]
    BY <1>0, <1>1 DEF TypeOK
  <1>4. \A e \in Targets : hubLink[e] \in Nat /\ (hubLink[e] > 0 => hubLink'[e] = hubLink[e])
    BY <1>0, <1>3 DEF TypeOK
  <1>5. hubLink'[r.id] > 0
    BY <1>2, <1>3, <1>4
  <1>6. AtHub(r)' /\ \A s \in Proper : AtHub(s) => AtHub(s)'
    BY <1>1, <1>4, <1>5, ProperIs DEF AtHub
  <1>7. /\ reqs' \subseteq Requests
        /\ \A m \in Nodes : Mine(m)' \subseteq Mine(m)
        /\ r \in Mine(q.node) /\ q.node \in Nodes
        /\ Shaped' /\ Sending' /\ Paging' /\ Reading'
    BY <1>0, <1>1, <1>6, HubTakes
  <1>8. /\ \A m, e : <<m, "entities", e>> \in missed' <=> <<m, "entities", e>> \in missed
        /\ \A m, e : e # r.id \/ hubLink[e] # 0 => (<<m, "links", e>> \in missed' <=> <<m, "links", e>> \in missed)
        /\ hubLink[r.id] = 0 =>
             \A m : <<m, "links", r.id>> \in missed' <=> m \in NotOffered("links", Pos(r), q.node)
    <2>1. CASE hubLink[r.id] = 0
      BY <1>1, <2>1, MissIs
    <2>2. CASE hubLink[r.id] # 0
      BY <1>1, <2>2
    <2> QED
      BY <2>1, <2>2
  <1>9. TypeOK'
    <2>1. hubLink' \in [Targets -> Nat]
      BY <1>0, <1>1, <1>2 DEF TypeOK
    <2>2. missed' \subseteq Marks
      BY <1>0, <1>1, <1>2 DEF TypeOK, Miss, NotOffered, Marks, Tables
    <2> QED
      BY <1>0, <1>1, <1>7, <2>1, <2>2 DEF TypeOK
  <1>10. Stamped'
    <2>1. \A e \in Targets : hubLink'[e] <= clock
      BY <1>0, <1>3, <1>7 DEF Stamped
    <2> QED
      BY <1>0, <1>1, <1>7, <2>1 DEF Stamped
  <1>11. OwnRows'
    BY <1>0, <1>1, <1>7 DEF OwnRows, OwnRow
  <1>12. OwnLinks'
    BY <1>0, <1>1, <1>4, <1>7 DEF OwnLinks, OwnLink
  <1>13. HubRows'
    BY <1>0, <1>1 DEF HubRows
  <1>14. \A m, t : Seen(m, t)' = Seen(m, t)
    BY <1>1 DEF Seen
  <1>15. PageRows'
    <2>1. \A m \in Nodes : \A s \in page[m] : tab[m] # "entities" => s.ts = hubLink'[s.id]
      BY <1>0, <1>4, ProperIs DEF PageRows, Shaped
    <2> QED
      BY <1>0, <1>1, <1>8, <2>1 DEF PageRows, PageRow, Exempt, After
  <1>16. Digested'
    BY <1>0, <1>1, <1>8, <1>14 DEF Digested, Digest, Due, OnPage, Exempt, After
  <1>17. LinksStored'
    <2> SUFFICES ASSUME NEW m \in Nodes, NEW e \in Targets, ~Exempt(m, "links", e)' PROVE LinkStored(m, e)'
      BY DEF LinksStored, LinkStored
    <2>1. LinkStored(m, e)
      BY <1>0 DEF LinksStored
    <2>2. CASE e # r.id \/ hubLink[e] # 0
      <3>1. hubLink'[e] = hubLink[e] /\ ~Exempt(m, "links", e)
        BY <1>1, <1>3, <1>8, <2>2 DEF Exempt
      <3> QED
        BY <1>1, <1>14, <2>1, <3>1 DEF LinkStored, OnPage, After
    <2>3. CASE e = r.id /\ hubLink[e] = 0
      <3>1. m = q.node \/ After(Pos(r), Seen(m, "links"))
        BY <1>8, <2>3 DEF Exempt, NotOffered
      <3>2. m = q.node => link[m][e] > 0
        BY <1>0, <1>1, <1>7, <2>3 DEF OwnLinks, OwnLink
      <3>3. <<hubLink'[e], e>> = Pos(r)
        BY <1>2, <1>3, <2>3
      <3>4. After(Pos(r), Seen(m, "links")) => After(<<hubLink'[e], e>>, Seen(m, "links")')
        BY <1>14, <3>3
      <3> QED
        BY <1>1, <3>1, <3>2, <3>4 DEF LinkStored, After
    <2> QED
      BY <2>2, <2>3
  <1> QED
    BY <1>7, <1>9, <1>10, <1>11, <1>12, <1>13, <1>15, <1>16, <1>17 DEF GraphInv

\* A record of the hub changes: its stamp grows, and it loses nothing.
LEMMA HubRowChanges ==
  ASSUME GraphInv, NEW q \in reqs, NEW r \in q.todo, Done(q, r), r.tab = "entities",
         NEW h \in [ts : Nat, aliases : SUBSET Aliases, kind : Kinds \cup {NoKind},
                    origin : Nodes \cup {NoNode}],
         hub' = [hub EXCEPT ![r.id] = h], clock' \in Nat, clock <= clock', missed' \subseteq Marks,
         hub[r.id].ts < h.ts, r.ts <= h.ts, h.ts <= clock',
         h.aliases = hub[r.id].aliases \cup r.aliases,
         h.kind = NoKind => hub[r.id].kind = NoKind /\ r.kind = NoKind,
         \A n \in Nodes : <<n, "entities", r.id>> \notin mixed =>
             IF h.origin = n THEN h.ts <= ent[n][r.id].ts ELSE h.ts # ent[n][r.id].ts,
         \A n \in Nodes : <<n, "entities", r.id>> \notin mixed \cup missed' =>
             \/ h.origin # n /\ After(<<h.ts, r.id>>, Seen(n, "entities"))
             \/ /\ h.aliases \subseteq ent[n][r.id].aliases
                /\ h.kind \in {NoKind, ent[n][r.id].kind} \/ ent[n][r.id].ts > h.ts,
         \A n \in Nodes : \/ h.origin = n \/ After(<<h.ts, r.id>>, Seen(n, "entities"))
                          \/ <<n, "entities", r.id>> \in missed',
         \A n, t, e : t # "entities" \/ e # r.id => (<<n, t, e>> \in missed' <=> <<n, t, e>> \in missed),
         UNCHANGED <<writes, ent, link, pending, cursor, pc, batch, tab, page, top, full, snap, mark,
                     hubLink, faults, said, mixed>>
  PROVE  GraphInv'
  <1>0. /\ TypeOK /\ Shaped /\ Stamped /\ Sending /\ Paging /\ Reading
        /\ OwnRows /\ OwnLinks /\ HubRows /\ PageRows /\ Digested /\ LinksStored
    BY DEF GraphInv
  <1> DEFINE e == r.id
  <1>1. r \in Proper /\ e \in Entities /\ r.ts \in Nat /\ hub[e].ts \in Nat /\ h.ts \in Nat /\ clock \in Nat
    <2>1. r \in Proper
      BY <1>0 DEF Shaped
    <2> QED
      BY <1>0, <2>1, ProperIs DEF TypeOK
  <1>2. hub'[e] = h /\ \A x \in Entities : x # e => hub'[x] = hub[x]
    BY <1>0, <1>1 DEF TypeOK
  <1>3. \A s \in Proper : AtHub(s) => AtHub(s)'
    <2> SUFFICES ASSUME NEW s \in Proper, AtHub(s) PROVE AtHub(s)'
      OBVIOUS
    <2>1. CASE s.tab = "entities" /\ s.id = e
      BY <1>1, <1>2, <2>1, ProperIs DEF AtHub
    <2>2. CASE s.tab = "entities" /\ s.id # e
      BY <1>2, <2>2, ProperIs DEF AtHub
    <2>3. CASE s.tab # "entities"
      BY <2>3 DEF AtHub
    <2> QED
      BY <2>1, <2>2, <2>3
  <1>4. AtHub(r)'
    BY <1>2 DEF AtHub
  <1>5. /\ reqs' \subseteq Requests
        /\ \A m \in Nodes : Mine(m)' \subseteq Mine(m)
        /\ Shaped' /\ Sending' /\ Paging' /\ Reading'
    BY <1>0, <1>3, <1>4, HubTakes
  <1>6. TypeOK'
    <2>1. hub' \in [Entities -> [ts : Nat, aliases : SUBSET Aliases, kind : Kinds \cup {NoKind},
                                 origin : Nodes \cup {NoNode}]]
      BY <1>0, <1>1 DEF TypeOK
    <2> QED
      BY <1>0, <1>5, <2>1 DEF TypeOK
  <1>7. Stamped'
    <2>1. \A m \in Nodes : \A s \in Mine(m) : s.ts <= clock'
      <3>1. \A m \in Nodes : \A s \in Mine(m) : s.ts \in Nat
        BY <1>0, ProperIs DEF Mine, Shaped
      <3> QED
        BY <1>0, <1>1, <3>1 DEF Stamped
    <2>2. \A x \in Entities : hub'[x].ts <= clock'
      <3>1. \A x \in Entities : hub[x].ts \in Nat /\ hub[x].ts <= clock
        BY <1>0 DEF TypeOK, Stamped
      <3> QED
        BY <1>1, <1>2, <3>1
    <2>3. \A x \in Targets : hubLink[x] <= clock'
      <3>1. \A x \in Targets : hubLink[x] \in Nat /\ hubLink[x] <= clock
        BY <1>0 DEF TypeOK, Stamped
      <3> QED
        BY <1>1, <3>1
    <2>4. \A m \in Nodes : top[m][1] <= clock' /\ \A t \in Tables : cursor[m][t][1] <= clock'
      <3>1. \A m \in Nodes : top[m][1] \in Nat /\ top[m][1] <= clock
        BY <1>0 DEF TypeOK, Stamped
      <3>2. \A m \in Nodes, t \in Tables : cursor[m][t][1] \in Nat /\ cursor[m][t][1] <= clock
        BY <1>0 DEF TypeOK, Stamped
      <3> QED
        BY <1>1, <3>1, <3>2
    <2> QED
      BY <1>0, <1>5, <2>1, <2>2, <2>3, <2>4 DEF Stamped
  <1>8. OwnRows'
    <2> SUFFICES ASSUME NEW m \in Nodes, NEW x \in Entities, <<m, "entities", x>> \notin mixed
                 PROVE  OwnRow(m, x)'
      BY DEF OwnRows
    <2>1. OwnRow(m, x)
      BY <1>0 DEF OwnRows
    <2>2. CASE x # e
      BY <1>2, <1>5, <2>1, <2>2 DEF OwnRow
    <2>3. CASE x = e
      <3>1. ent[m][e].ts \in Nat
        BY <1>0, <1>1 DEF TypeOK, Rows
      <3>2. ent[m][e].ts > h.ts => ent[m][e].ts > hub[e].ts
        BY <1>1, <3>1
      <3>3. h.origin = m => h.ts <= ent[m][e].ts
        BY <2>3
      <3>4. h.origin # m => h.ts # ent[m][e].ts
        BY <2>3
      <3> HIDE DEF e
      <3>5. hub[e].aliases \subseteq h.aliases /\ (h.kind = NoKind => hub[e].kind = NoKind)
        BY DEF e
      <3> QED
        BY <1>2, <1>5, <2>1, <2>3, <3>2, <3>3, <3>4, <3>5 DEF OwnRow
    <2> QED
      BY <2>2, <2>3
  <1>9. OwnLinks'
    BY <1>0, <1>5 DEF OwnLinks, OwnLink
  <1>10. HubRows'
    <2>1. hub'[e].ts # 0
      BY <1>1, <1>2
    <2> QED
      BY <1>0, <1>2, <2>1 DEF HubRows
  <1>11. \A m, t : Seen(m, t)' = Seen(m, t)
    BY DEF Seen
  <1>12. \A m, t, x : t # "entities" \/ x # e => (Exempt(m, t, x)' <=> Exempt(m, t, x))
    BY DEF Exempt
  <1>13. PageRows'
    <2> SUFFICES ASSUME NEW m \in Nodes, NEW s \in page[m]
                 PROVE  IF tab[m] = "entities" THEN PageRow(m, s)' ELSE s.ts = hubLink[s.id]
      BY DEF PageRows
    <2>1. IF tab[m] = "entities" THEN PageRow(m, s) ELSE s.ts = hubLink[s.id]
      BY <1>0 DEF PageRows
    <2>2. s \in Proper /\ s.tab = tab[m] /\ Storing(m) /\ AtHub(s)
      BY <1>0 DEF Shaped, Paging
    <2>3. CASE tab[m] = "entities" /\ s.id # e
      <3>1. s.id \in Entities
        BY <2>2, <2>3, ProperIs
      <3> QED
        BY <1>2, <1>12, <2>1, <2>3, <3>1 DEF PageRow, After
    <2>4. CASE tab[m] = "entities" /\ s.id = e
      <3>1. s.ts # h.ts
        BY <1>1, <2>2, <2>4, ProperIs DEF AtHub
      <3>2. Seen(m, "entities") = top[m]
        BY <2>2, <2>4 DEF Seen, Storing
      <3>3. h.origin = m \/ After(<<h.ts, s.id>>, top[m]) \/ <<m, "entities", s.id>> \in missed'
        BY <2>4, <3>2
      <3> QED
        BY <1>2, <2>4, <3>1, <3>3 DEF PageRow, Exempt, After
    <2> QED
      BY <2>1, <2>3, <2>4
  <1>14. Digested'
    <2> SUFFICES ASSUME NEW m \in Nodes, NEW x \in Entities, ~Exempt(m, "entities", x)', ~Due(m, x)'
                 PROVE  /\ hub'[x].aliases \subseteq ent[m][x].aliases
                        /\ hub'[x].kind \in {NoKind, ent[m][x].kind} \/ ent[m][x].ts > hub'[x].ts
      BY DEF Digested, Digest
    <2>1. CASE x # e
      <3>1. ~Exempt(m, "entities", x) /\ ~Due(m, x)
        BY <1>2, <1>11, <1>12, <2>1 DEF Due, OnPage, After
      <3> QED
        BY <1>0, <1>2, <2>1, <3>1 DEF Digested, Digest
    <2>2. CASE x = e
      <3>1. <<m, "entities", r.id>> \notin mixed \cup missed'
        BY <2>2 DEF Exempt
      <3>2. ~(h.origin # m /\ After(<<h.ts, e>>, Seen(m, "entities")))
        BY <1>2, <1>11, <2>2 DEF Due, After
      <3> QED
        BY <1>2, <2>2, <3>1, <3>2
    <2> QED
      BY <2>1, <2>2
  <1>15. LinksStored'
    BY <1>0, <1>11, <1>12 DEF LinksStored, LinkStored, OnPage, After
  <1> QED
    BY <1>5, <1>6, <1>7, <1>8, <1>9, <1>10, <1>13, <1>14, <1>15 DEF GraphInv

LEMMA GraphHubWin == ASSUME GraphInv, NEW q \in reqs, HubWin(q) PROVE GraphInv'
  <1>0. /\ TypeOK /\ Shaped /\ Stamped /\ Sending /\ Paging /\ Reading
        /\ OwnRows /\ OwnLinks /\ HubRows /\ PageRows /\ Digested /\ LinksStored
    BY DEF GraphInv
  <1> DEFINE new(r) == Merged(hub[r.id], r)
             h(r) == [ts |-> new(r).ts, aliases |-> new(r).aliases, kind |-> new(r).kind, origin |-> q.node]
             behind(r) == NotOffered("entities", Pos(r), q.node) \cup
                          (IF r.aliases = new(r).aliases /\ r.kind = new(r).kind THEN {} ELSE {q.node})
  <1>1. PICK r \in q.todo :
          /\ r.tab = "entities" /\ Done(q, r) /\ r.ts > hub[r.id].ts
          /\ hub' = [hub EXCEPT ![r.id] = h(r)] /\ Miss("entities", r.id, behind(r))
          /\ UNCHANGED <<clock, writes, ent, link, pending, cursor, pc, batch, tab, page, top, full, snap,
                         mark, hubLink, faults, said, mixed>>
    BY DEF HubWin, Todo
  <1> DEFINE e == r.id
  <1>2. /\ r \in Proper /\ e \in Entities /\ e \in Targets /\ r.ts \in Nat /\ hub[e].ts \in Nat /\ q.node \in Nodes
        /\ hub[e].kind \in Kinds \cup {NoKind} /\ r.kind \in Kinds \cup {NoKind} /\ hub[e].aliases \subseteq Aliases
        /\ r.aliases \subseteq Aliases /\ Pos(r) = <<r.ts, e>>
    <2>1. r \in Proper
      BY <1>0, <1>1 DEF Shaped
    <2>2. q.node \in Nodes
      BY <1>0 DEF TypeOK, Requests
    <2> QED
      BY <1>0, <1>1, <2>1, <2>2, ProperIs DEF TypeOK
  <1>3. new(r).ts = r.ts /\ new(r).aliases = hub[e].aliases \cup r.aliases /\ new(r).kind = Or(r.kind, hub[e].kind)
    BY DEF Merged
  <1>4. /\ Or(r.kind, hub[e].kind) \in Kinds \cup {NoKind}
        /\ Or(r.kind, hub[e].kind) = NoKind => hub[e].kind = NoKind /\ r.kind = NoKind
    BY <1>2, OrIs
  <1>5. /\ h(r).ts = r.ts /\ h(r).aliases = hub[e].aliases \cup r.aliases /\ h(r).kind = Or(r.kind, hub[e].kind)
        /\ h(r).origin = q.node
        /\ h(r) \in [ts : Nat, aliases : SUBSET Aliases, kind : Kinds \cup {NoKind}, origin : Nodes \cup {NoNode}]
    BY <1>2, <1>3, <1>4
  <1>6. /\ \A n, t, x : t # "entities" \/ x # e => (<<n, t, x>> \in missed' <=> <<n, t, x>> \in missed)
        /\ \A n : <<n, "entities", e>> \in missed' <=> n \in behind(r)
    BY <1>1, MissIs
  <1>7. missed' \subseteq Marks
    BY <1>0, <1>1, <1>2 DEF TypeOK, Miss, NotOffered, Marks, Tables
  <1>8. /\ \A n \in Nodes : n # q.node /\ n \notin behind(r) => After(<<r.ts, e>>, Seen(n, "entities"))
        /\ q.node \notin behind(r) => /\ r.aliases = hub[e].aliases \cup r.aliases
                                      /\ r.kind = Or(r.kind, hub[e].kind)
    BY <1>2, <1>3 DEF NotOffered
  <1>9. r \in Mine(q.node)
    BY <1>1 DEF Mine
  <1>10. ASSUME <<q.node, "entities", e>> \notin mixed
         PROVE  /\ r.aliases \subseteq ent[q.node][e].aliases /\ r.ts <= ent[q.node][e].ts
                /\ r.ts = ent[q.node][e].ts => r.kind \in {NoKind, ent[q.node][e].kind}
    BY <1>0, <1>1, <1>2, <1>9, <1>10 DEF OwnRows, OwnRow
  <1>11. ASSUME NEW n \in Nodes, n # q.node, <<n, "entities", e>> \notin mixed, r.ts = ent[n][e].ts
         PROVE  FALSE
    <2>1. OwnRow(n, e)
      BY <1>0, <1>2, <1>11 DEF OwnRows
    <2>2. PICK s \in pending[n] : s.ts = r.ts
      BY <1>1, <1>11, <2>1 DEF OwnRow
    <2>3. s \in Mine(n)
      BY DEF Mine
    <2> QED
      BY <1>0, <1>2, <1>9, <1>11, <2>2, <2>3 DEF Stamped
  <1>12. clock \in Nat /\ r.ts <= clock
    BY <1>0, <1>2, <1>9 DEF TypeOK, Stamped
  <1>13. \A n \in Nodes : ent[n][e].ts \in Nat
    BY <1>0, <1>2 DEF TypeOK, Rows
  <1> HIDE DEF new, h, behind
  <1>14. \A n \in Nodes : <<n, "entities", e>> \notin mixed =>
            IF h(r).origin = n THEN h(r).ts <= ent[n][e].ts ELSE h(r).ts # ent[n][e].ts
    BY <1>5, <1>10, <1>11
  <1>15. \A n \in Nodes : <<n, "entities", e>> \notin mixed \cup missed' =>
             \/ h(r).origin # n /\ After(<<h(r).ts, e>>, Seen(n, "entities"))
             \/ /\ h(r).aliases \subseteq ent[n][e].aliases
                /\ h(r).kind \in {NoKind, ent[n][e].kind} \/ ent[n][e].ts > h(r).ts
    <2> SUFFICES ASSUME NEW n \in Nodes, <<n, "entities", e>> \notin mixed, n \notin behind(r)
                 PROVE  \/ h(r).origin # n /\ After(<<h(r).ts, e>>, Seen(n, "entities"))
                        \/ /\ h(r).aliases \subseteq ent[n][e].aliases
                           /\ h(r).kind \in {NoKind, ent[n][e].kind} \/ ent[n][e].ts > h(r).ts
      BY <1>6
    <2>1. CASE n # q.node
      BY <1>5, <1>8, <2>1
    <2>2. CASE n = q.node
      <3>1. h(r).aliases = r.aliases /\ h(r).kind = r.kind
        BY <1>5, <1>8, <2>2
      <3>2. r.aliases \subseteq ent[n][e].aliases
        BY <1>10, <2>2
      <3>3. r.ts = ent[n][e].ts => r.kind \in {NoKind, ent[n][e].kind}
        BY <1>10, <2>2
      <3>4. r.ts <= ent[n][e].ts
        BY <1>10, <2>2
      <3>5. r.ts # ent[n][e].ts => ent[n][e].ts > h(r).ts
        BY <1>2, <1>5, <1>13, <3>4
      <3> QED
        BY <3>1, <3>2, <3>3, <3>5
    <2> QED
      BY <2>1, <2>2
  <1>16. \A n \in Nodes : \/ h(r).origin = n \/ After(<<h(r).ts, e>>, Seen(n, "entities"))
                          \/ <<n, "entities", e>> \in missed'
    BY <1>5, <1>6, <1>8
  <1>17. /\ clock' \in Nat /\ clock <= clock' /\ hub[e].ts < h(r).ts /\ r.ts <= h(r).ts /\ h(r).ts <= clock'
         /\ h(r).kind = NoKind => hub[e].kind = NoKind /\ r.kind = NoKind
    BY <1>1, <1>2, <1>4, <1>5, <1>12
  <1> QED
    BY <1>1, <1>5, <1>6, <1>7, <1>14, <1>15, <1>16, <1>17, HubRowChanges

LEMMA GraphHubCommit == ASSUME GraphInv, Locking, NEW q \in reqs, HubCommit(q) PROVE GraphInv'
  <1>0. /\ TypeOK /\ Shaped /\ Stamped /\ Sending /\ Paging /\ Reading
        /\ OwnRows /\ OwnLinks /\ HubRows /\ PageRows /\ Digested /\ LinksStored
    BY DEF GraphInv
  <1> DEFINE new(r) == Enriched(hub[r.id], r)
             h(r) == [new(r) EXCEPT !.ts = q.stamp, !.origin = NoNode]
             behind(r) == NotOffered("entities", <<q.stamp, r.id>>, NoNode)
  <1>1. PICK r \in q.todo :
          /\ r \in Todo(q, "entities") /\ r.tab = "entities" /\ q.stamp > 0 /\ Done(q, r)
          /\ hub' = [hub EXCEPT ![r.id] = h(r)] /\ Miss("entities", r.id, behind(r))
          /\ UNCHANGED <<clock, writes, ent, link, pending, cursor, pc, batch, tab, page, top, full, snap,
                         mark, hubLink, faults, said, mixed>>
    BY DEF HubCommit, Todo
  <1> DEFINE e == r.id
  <1>2. /\ r \in Proper /\ e \in Entities /\ e \in Nat /\ r.ts \in Nat /\ hub[e].ts \in Nat /\ clock \in Nat
        /\ hub[e].kind \in Kinds \cup {NoKind} /\ r.kind \in Kinds \cup {NoKind} /\ hub[e].aliases \subseteq Aliases
        /\ r.aliases \subseteq Aliases /\ q.stamp \in Nat /\ e \in Targets
    <2>1. r \in Proper
      BY <1>0, <1>1 DEF Shaped
    <2> QED
      BY <1>0, <1>1, <2>1, ProperIs DEF TypeOK, Requests
  <1>11. /\ r.ts <= hub[e].ts /\ hub[e].ts < q.stamp /\ q.stamp <= clock
         /\ \A n \in Nodes : \A s \in Mine(n) : s.ts # q.stamp
    BY <1>1 DEF Locking
  <1>3. h(r) = [ts |-> q.stamp, aliases |-> hub[e].aliases \cup r.aliases, kind |-> Or(hub[e].kind, r.kind),
                origin |-> NoNode]
    <2>1. PICK t \in Nat, B \in SUBSET Aliases, l \in Kinds \cup {NoKind}, o \in Nodes \cup {NoNode} :
            hub[e] = [ts |-> t, aliases |-> B, kind |-> l, origin |-> o]
      BY <1>0, <1>2 DEF TypeOK
    <2> DEFINE k == Or(l, r.kind)
               A == B \cup r.aliases
    <2>a. new(r) = [[ts |-> t, aliases |-> B, kind |-> l, origin |-> o] EXCEPT !.aliases = A, !.kind = k]
      BY <2>1 DEF Enriched
    <2> HIDE DEF A, k, new
    <2>2. new(r) = [ts |-> t, aliases |-> A, kind |-> k, origin |-> o]
      BY <2>a
    <2>b. h(r) = [[ts |-> t, aliases |-> A, kind |-> k, origin |-> o] EXCEPT !.ts = q.stamp, !.origin = NoNode]
      BY <2>2
    <2> HIDE DEF h
    <2>3. h(r) = [ts |-> q.stamp, aliases |-> A, kind |-> k, origin |-> NoNode]
      BY <2>b
    <2>4. hub[e].aliases = B /\ hub[e].kind = l
      BY <2>1
    <2>5. A = hub[e].aliases \cup r.aliases /\ k = Or(hub[e].kind, r.kind)
      BY <2>4 DEF A, k
    <2> QED
      BY <2>3, <2>5
  <1>4. /\ Or(hub[e].kind, r.kind) \in Kinds \cup {NoKind}
        /\ Or(hub[e].kind, r.kind) = NoKind => hub[e].kind = NoKind /\ r.kind = NoKind
    BY <1>2, OrIs
  <1> HIDE DEF new, h, behind
  <1>5. /\ h(r).ts = q.stamp /\ h(r).aliases = hub[e].aliases \cup r.aliases
        /\ h(r).kind = Or(hub[e].kind, r.kind) /\ h(r).origin = NoNode
        /\ h(r) \in [ts : Nat, aliases : SUBSET Aliases, kind : Kinds \cup {NoKind}, origin : Nodes \cup {NoNode}]
    BY <1>2, <1>3, <1>4
  <1>6. /\ \A n, t, x : t # "entities" \/ x # e => (<<n, t, x>> \in missed' <=> <<n, t, x>> \in missed)
        /\ \A n : <<n, "entities", e>> \in missed' <=> n \in behind(r)
    BY <1>1, MissIs
  <1>12. missed' \subseteq Marks
    BY <1>0, <1>1, <1>2 DEF TypeOK, Miss, behind, NotOffered, Marks, Tables
  <1>7. \A n \in Nodes : h(r).origin # n
    BY <1>5, GraphNodes
  <1>8. \A n \in Nodes : After(<<h(r).ts, e>>, Seen(n, "entities")) \/ <<n, "entities", e>> \in missed'
    BY <1>5, <1>6, GraphNodes DEF behind, NotOffered
  <1>9. ASSUME NEW n \in Nodes, <<n, "entities", e>> \notin mixed PROVE h(r).ts # ent[n][e].ts
    <2>1. OwnRow(n, e) /\ ent[n][e].ts \in Nat
      BY <1>0, <1>2, <1>9 DEF OwnRows, TypeOK, Rows
    <2>2. ent[n][e].ts > hub[e].ts => \E s \in Mine(n) : s.ts = ent[n][e].ts
      BY <2>1 DEF OwnRow, Mine
    <2> QED
      BY <1>2, <1>5, <1>11, <2>1, <2>2
  <1>10. /\ clock' = clock /\ hub[e].ts < h(r).ts /\ r.ts <= h(r).ts /\ h(r).ts <= clock'
         /\ h(r).kind = NoKind => hub[e].kind = NoKind /\ r.kind = NoKind
    BY <1>1, <1>2, <1>4, <1>5, <1>11
  <1>13. /\ clock' \in Nat /\ clock <= clock' /\ h(r).ts <= clock'
    BY <1>1, <1>2, <1>5, <1>11
  <1>14. \A n \in Nodes : <<n, "entities", e>> \notin mixed \cup missed' =>
             h(r).origin # n /\ After(<<h(r).ts, e>>, Seen(n, "entities"))
    BY <1>7, <1>8
  <1>15. \A n \in Nodes : <<n, "entities", e>> \notin mixed =>
            IF h(r).origin = n THEN h(r).ts <= ent[n][e].ts ELSE h(r).ts # ent[n][e].ts
    BY <1>7, <1>9
  <1> QED
    BY <1>1, <1>5, <1>6, <1>8, <1>10, <1>12, <1>13, <1>14, <1>15, HubRowChanges

\* The stamp is taken, and the row locked; nothing else changes yet.
LEMMA GraphHubEnrich == ASSUME GraphInv, NEW q \in reqs, HubEnrich(q) PROVE GraphInv'
  <1>0. /\ TypeOK /\ Shaped /\ Stamped /\ Sending /\ Paging /\ Reading
        /\ OwnRows /\ OwnLinks /\ HubRows /\ PageRows /\ Digested /\ LinksStored
    BY DEF GraphInv
  <1> DEFINE open == [q EXCEPT !.stamp = clock + 1]
  <1>1. /\ clock' = clock + 1 /\ reqs' = (reqs \ {q}) \cup {open}
        /\ UNCHANGED <<writes, ent, link, pending, cursor, pc, batch, tab, page, top, full, snap,
                       mark, hub, hubLink, faults, said, missed, mixed>>
    BY DEF HubEnrich
  <1>2. clock \in Nat /\ q \in Requests
    BY <1>0 DEF TypeOK
  <1>3. open.node = q.node /\ open.todo = q.todo /\ open.heard = q.heard /\ open \in Requests
    BY <1>2 DEF Requests
  <1> HIDE DEF open
  <1>4. TypeOK'
    BY <1>0, <1>1, <1>2, <1>3 DEF TypeOK
  <1>5. \A m \in Nodes : Mine(m)' = Mine(m) /\ Storing(m)' = Storing(m)
    BY <1>1, <1>3 DEF Mine, Storing
  <1>6. Shaped'
    BY <1>0, <1>1, <1>3, <1>5 DEF Shaped
  <1>7. Stamped'
    <2>1. \A m \in Nodes : \A s \in Mine(m) : s.ts \in Nat
      BY <1>0, ProperIs DEF Mine, Shaped
    <2>2. \A x \in Nat : x <= clock => x <= clock'
      BY <1>1, <1>2
    <2>3. /\ \A e \in Entities : hub[e].ts \in Nat
          /\ \A e \in Targets : hubLink[e] \in Nat
          /\ \A n \in Nodes : top[n][1] \in Nat
          /\ \A n \in Nodes, t \in Tables : cursor[n][t][1] \in Nat
      BY <1>0 DEF TypeOK
    <2> QED
      BY <1>0, <1>1, <1>5, <2>1, <2>2, <2>3 DEF Stamped
  <1>8. Sending'
    <2>1. \A r : AtHub(r)' = AtHub(r)
      BY <1>1 DEF AtHub
    <2>2. \A p \in reqs' : (p \in reqs /\ p # q) \/ p = open
      BY <1>1
    <2>3. ASSUME NEW p \in reqs', p.heard
          PROVE  pc'[p.node] = "sent" /\ \A r \in batch'[p.node] \ p.todo : AtHub(r)'
      BY <1>0, <1>1, <1>3, <2>1, <2>2, <2>3 DEF Sending
    <2>4. \A p, s \in reqs' : p.heard /\ s.heard /\ p.node = s.node => p = s
      BY <1>0, <1>3, <2>2 DEF Sending
    <2> QED
      BY <2>3, <2>4 DEF Sending
  <1>9. Reading'
    BY <1>0, <1>1 DEF Reading, IsFirst, Pos, After
  <1>10. OwnRows' /\ OwnLinks' /\ HubRows'
    BY <1>0, <1>1, <1>5, RowsStay
  <1>11. Paging' /\ PageRows' /\ Digested' /\ LinksStored'
    BY <1>0, <1>1, <1>5, PullStays
  <1> QED
    BY <1>4, <1>6, <1>7, <1>8, <1>9, <1>10, <1>11 DEF GraphInv

-----------------------------------------------------------------------------
(* The pull half of a cycle.                                               *)

LEMMA SeenIs ==
  \A n, t : Seen(n, t) = IF tab[n] = t /\ Storing(n) THEN top[n] ELSE cursor[n][t]
  BY DEF Seen, Storing

LEMMA SeenPosition ==
  ASSUME TypeOK, NEW n \in Nodes, NEW t \in Tables
  PROVE  /\ Seen(n, t) \in Nat \X Nat
         /\ \A e \in Entities : <<hub[e].ts, e>> \in Nat \X Nat
         /\ \A e \in Targets : <<hubLink[e], e>> \in Nat \X Nat
  <1>1. Seen(n, t) \in Nat \X Nat
    BY DEF Seen, TypeOK
  <1>2. \A e \in Entities : hub[e].ts \in Nat /\ e \in Nat
    BY GraphEntities DEF TypeOK
  <1>3. \A e \in Targets : hubLink[e] \in Nat /\ e \in Nat
    BY GraphEntities DEF TypeOK
  <1> QED
    BY <1>1, <1>2, <1>3

\* A node puts its page down, having read no further than it has stored.
LEMMA PullRests ==
  ASSUME GraphInv, NEW n \in Nodes,
         UNCHANGED <<clock, ent, link, pending, hub, hubLink, said, missed, mixed>>,
         \A m \in Nodes : Mine(m)' \subseteq Mine(m),
         \A m \in Nodes : m # n => /\ pc'[m] = pc[m] /\ tab'[m] = tab[m] /\ page'[m] = page[m]
                                   /\ top'[m] = top[m] /\ cursor'[m] = cursor[m] /\ snap'[m] = snap[m]
                                   /\ mark'[m] = mark[m],
         pc'[n] \notin {"apply", "store"}, page'[n] = {}, top'[n] = Start,
         \A t \in Tables : cursor'[n][t][1] <= clock,
         \A t \in Tables, p \in Nat \X Nat : After(p, Seen(n, t)) => After(p, cursor'[n][t]),
         \A r \in page[n] : After(Pos(r), cursor'[n][tab[n]])
  PROVE  /\ Stamped' /\ Paging' /\ Reading' /\ OwnRows' /\ OwnLinks' /\ HubRows'
         /\ PageRows' /\ Digested' /\ LinksStored'
  <1>0. /\ TypeOK /\ Shaped /\ Stamped /\ Sending /\ Paging /\ Reading
        /\ OwnRows /\ OwnLinks /\ HubRows /\ PageRows /\ Digested /\ LinksStored
    BY DEF GraphInv
  <1>1. \A m \in Nodes : m # n => (Storing(m)' <=> Storing(m)) /\ \A t \in Tables : Seen(m, t)' = Seen(m, t)
    BY DEF Seen, Storing
  <1>2. ~Storing(n)' /\ \A t \in Tables : Seen(n, t)' = cursor'[n][t]
    BY DEF Seen, Storing
  <1>3. Stamped'
    <2>a. Start[1] <= clock
      BY <1>0 DEF Start, TypeOK
    <2>1. \A m \in Nodes : top'[m][1] <= clock
      BY <1>0, <2>a DEF Stamped
    <2>2. \A m \in Nodes, t \in Tables : cursor'[m][t][1] <= clock
      BY <1>0 DEF Stamped
    <2> QED
      BY <1>0, <2>1, <2>2 DEF Stamped
  <1>4. Paging'
    <2> SUFFICES ASSUME NEW m \in Nodes, Storing(m)'
                 PROVE  /\ After(top'[m], cursor'[m][tab'[m]])
                        /\ \A r \in page'[m] : After(Pos(r), cursor'[m][tab'[m]]) /\ AtHub(r)'
      BY DEF Paging, After, Pos
    <2>1. m # n /\ Storing(m)
      BY <1>1, <1>2
    <2> QED
      BY <1>0, <2>1 DEF Paging, AtHub
  <1>5. Reading'
    <2> SUFFICES ASSUME NEW m \in Nodes, pc'[m] = "store"
                 PROVE  /\ \A p \in pending[m] :
                              p.tab = tab'[m] /\ p.ts > mark'[m] => <<m, tab'[m], p.id>> \in mixed
                        /\ \A r \in page'[m] :
                              tab'[m] = "entities" /\ IsFirst(m, r)' /\ <<m, "entities", r.id>> \notin mixed
                                => snap'[m] = ent[m][r.id]
      BY DEF Reading
    <2>1. m # n
      OBVIOUS
    <2> QED
      BY <1>0, <2>1 DEF Reading, IsFirst, After, Pos
  <1>6. OwnRows' /\ OwnLinks' /\ HubRows'
    BY <1>0, RowsStay
  <1>7. PageRows'
    <2> SUFFICES ASSUME NEW m \in Nodes, NEW r \in page'[m]
                 PROVE  IF tab'[m] = "entities" THEN PageRow(m, r)' ELSE r.ts = hubLink'[r.id]
      BY DEF PageRows
    <2>1. m # n
      OBVIOUS
    <2> QED
      BY <1>0, <2>1 DEF PageRows, PageRow, Exempt, After
  <1>8. Digested'
    <2> SUFFICES ASSUME NEW m \in Nodes, NEW e \in Entities, ~Exempt(m, "entities", e), ~Due(m, e)'
                 PROVE  ~Due(m, e)
      BY <1>0 DEF Digested, Digest, Exempt
    <2>1. CASE m # n
      BY <1>1, <2>1 DEF Due, OnPage, After, Tables
    <2>2. CASE m = n
      <3> DEFINE p == <<hub[e].ts, e>>
      <3>1. p \in Nat \X Nat
        BY <1>0, SeenPosition DEF Tables
      <3>2. ~(hub[e].origin # n /\ After(p, cursor'[n]["entities"]))
        BY <1>2, <2>2 DEF Due, After, Tables
      <3>3. ~(hub[e].origin # n /\ After(p, Seen(n, "entities")))
        BY <3>1, <3>2 DEF Tables
      <3>4. ASSUME NEW r \in page[n], tab[n] = "entities", r.id = e, r.ts = hub[e].ts PROVE FALSE
        <4>1. Pos(r) = p /\ PageRow(n, r)
          BY <1>0, <3>4 DEF Pos, PageRows
        <4>2. hub[e].origin # n
          BY <3>4, <4>1 DEF PageRow
        <4>3. After(Pos(r), cursor'[n]["entities"])
          BY <3>4
        <4> HIDE DEF p
        <4> QED
          BY <3>2, <4>1, <4>2, <4>3
      <3> QED
        BY <2>2, <3>3, <3>4 DEF Due, OnPage
    <2> QED
      BY <2>1, <2>2
  <1>9. LinksStored'
    <2> SUFFICES ASSUME NEW m \in Nodes, NEW e \in Targets, LinkStored(m, e) PROVE LinkStored(m, e)'
      BY <1>0 DEF LinksStored
    <2>1. CASE m # n
      BY <1>1, <2>1 DEF LinkStored, OnPage, Exempt, After, Tables
    <2>2. CASE m = n
      <3> DEFINE p == <<hubLink[e], e>>
      <3>1. p \in Nat \X Nat
        BY <1>0, SeenPosition DEF Tables
      <3>2. After(p, Seen(n, "links")) => After(p, Seen(n, "links")')
        BY <1>2, <3>1 DEF Tables
      <3>3. ASSUME OnPage(n, "links", e, hubLink[e]) PROVE After(p, Seen(n, "links")')
        <4>1. PICK r \in page[n] : tab[n] = "links" /\ r.id = e /\ r.ts = hubLink[e]
          BY <3>3 DEF OnPage
        <4>2. Pos(r) = p
          BY <4>1 DEF Pos
        <4>3. After(Pos(r), cursor'[n]["links"])
          BY <4>1
        <4> HIDE DEF p
        <4> QED
          BY <1>2, <4>2, <4>3 DEF Tables
      <3>4. After(p, Seen(n, "links")') => After(<<hubLink'[e], e>>, Seen(n, "links")')
        OBVIOUS
      <3> HIDE DEF p
      <3>5. UNCHANGED <<link, hubLink, missed, mixed>>
        OBVIOUS
      <3>6. After(<<hubLink[e], e>>, Seen(n, "links")) => After(p, Seen(n, "links"))
        BY DEF p
      <3> QED
        BY <2>2, <3>2, <3>3, <3>4, <3>5, <3>6 DEF LinkStored, Exempt, After
    <2> QED
      BY <2>1, <2>2
  <1> QED
    BY <1>3, <1>4, <1>5, <1>6, <1>7, <1>8, <1>9

\* What the end of a table does to the pull of a node.
LEMMA EndTableIs ==
  ASSUME TypeOK, NEW n \in Nodes, EndTable(n)
  PROVE  /\ tab' \in [Nodes -> Tables] /\ page' \in [Nodes -> SUBSET Records] /\ top' \in [Nodes -> Nat \X Nat]
         /\ full' \in [Nodes -> BOOLEAN] /\ snap' \in [Nodes -> Rows] /\ mark' \in [Nodes -> Nat]
         /\ pc' \in [Nodes -> {"idle", "sent", "fetch", "apply", "store"}]
         /\ pc'[n] \in {"fetch", "idle"} /\ page'[n] = {} /\ top'[n] = Start
         /\ \A m \in Nodes : m # n => /\ pc'[m] = pc[m] /\ tab'[m] = tab[m] /\ page'[m] = page[m]
                                      /\ top'[m] = top[m] /\ snap'[m] = snap[m] /\ mark'[m] = mark[m]
  <1>1. NoRow \in Rows /\ Start \in Nat \X Nat
    BY DEF NoRow, Rows, Start
  <1>2. tab' \in [Nodes -> Tables] /\ pc' \in [Nodes -> {"idle", "sent", "fetch", "apply", "store"}]
    BY DEF EndTable, TypeOK, Tables
  <1> QED
    BY <1>1, <1>2 DEF EndTable, TypeOK

LEMMA GraphSaveCursor == ASSUME GraphInv, NEW n \in Nodes, SaveCursor(n) PROVE GraphInv'
  <1>0. /\ TypeOK /\ Shaped /\ Stamped /\ Sending /\ Paging /\ Reading
        /\ OwnRows /\ OwnLinks /\ HubRows /\ PageRows /\ Digested /\ LinksStored
    BY DEF GraphInv
  <1>1. /\ pc[n] = "apply" /\ page[n] = {} /\ cursor' = [cursor EXCEPT ![n][tab[n]] = top[n]]
        /\ UNCHANGED <<clock, writes, ent, link, pending, batch, hub, hubLink, reqs, faults, said, missed, mixed>>
    BY DEF SaveCursor
  <1>2. /\ tab' \in [Nodes -> Tables] /\ page' \in [Nodes -> SUBSET Records] /\ top' \in [Nodes -> Nat \X Nat]
        /\ full' \in [Nodes -> BOOLEAN] /\ snap' \in [Nodes -> Rows] /\ mark' \in [Nodes -> Nat]
        /\ pc' \in [Nodes -> {"idle", "sent", "fetch", "apply", "store"}]
        /\ pc'[n] \in {"fetch", "idle"} /\ page'[n] = {} /\ top'[n] = Start
        /\ \A m \in Nodes : m # n => /\ pc'[m] = pc[m] /\ tab'[m] = tab[m] /\ page'[m] = page[m]
                                     /\ top'[m] = top[m] /\ snap'[m] = snap[m] /\ mark'[m] = mark[m]
    <2>1. CASE EndTable(n)
      BY <1>0, <2>1, EndTableIs
    <2>2. CASE /\ pc' = [pc EXCEPT ![n] = "fetch"] /\ full' = [full EXCEPT ![n] = FALSE]
               /\ top' = [top EXCEPT ![n] = Start] /\ UNCHANGED <<tab, page, snap, mark>>
      BY <1>0, <1>1, <2>2 DEF TypeOK, Start
    <2> QED
      BY <2>1, <2>2 DEF SaveCursor
  <1>3. /\ cursor' \in [Nodes -> [Tables -> Nat \X Nat]]
        /\ \A m \in Nodes : m # n => cursor'[m] = cursor[m]
        /\ \A t \in Tables : cursor'[n][t] = IF t = tab[n] THEN top[n] ELSE cursor[n][t]
    BY <1>0, <1>1 DEF TypeOK
  <1>4. TypeOK'
    BY <1>0, <1>1, <1>2, <1>3 DEF TypeOK
  <1>5. \A m \in Nodes : Mine(m)' = Mine(m)
    BY <1>1 DEF Mine
  <1>6. Shaped'
    BY <1>0, <1>1, <1>2 DEF Shaped, Storing
  <1>7. Sending'
    <2>1. \A q \in reqs : q.heard => q.node # n
      BY <1>0, <1>1 DEF Sending
    <2>2. \A q \in reqs : q.node \in Nodes
      BY <1>0 DEF TypeOK, Requests
    <2> QED
      BY <1>0, <1>1, <1>2, <2>1, <2>2 DEF Sending, AtHub
  <1>8. \A t \in Tables : cursor'[n][t][1] <= clock
    BY <1>0, <1>3 DEF Stamped
  <1>9. \A t \in Tables : Seen(n, t) = cursor'[n][t]
    BY <1>1, <1>3, SeenIs DEF Storing
  <1> QED
    BY <1>1, <1>2, <1>3, <1>4, <1>5, <1>6, <1>7, <1>8, <1>9, PullRests DEF GraphInv

LEMMA GraphInterrupt == ASSUME GraphInv, NEW n \in Nodes, Interrupt(n) PROVE GraphInv'
  <1>0. /\ TypeOK /\ Shaped /\ Stamped /\ Sending /\ Paging /\ Reading
        /\ OwnRows /\ OwnLinks /\ HubRows /\ PageRows /\ Digested /\ LinksStored
    BY DEF GraphInv
  <1> DEFINE mine == {q \in reqs : q.node = n /\ q.heard}
  <1>1. /\ faults' = faults + 1 /\ faults < MaxFaults /\ pc' = [pc EXCEPT ![n] = "idle"]
        /\ batch' = [batch EXCEPT ![n] = {}] /\ tab' = [tab EXCEPT ![n] = "entities"]
        /\ page' = [page EXCEPT ![n] = {}] /\ top' = [top EXCEPT ![n] = Start]
        /\ full' = [full EXCEPT ![n] = FALSE] /\ snap' = [snap EXCEPT ![n] = NoRow]
        /\ mark' = [mark EXCEPT ![n] = 0]
        /\ UNCHANGED <<clock, writes, ent, link, pending, cursor, hub, hubLink, said, missed, mixed>>
    BY DEF Interrupt, Fault
  <1>2. ASSUME NEW q \in reqs'
        PROVE  \/ q \in reqs /\ (q.heard => q.node # n)
               \/ \E p \in reqs : q.node = p.node /\ q.todo = p.todo /\ ~q.heard /\ q = [p EXCEPT !.heard = FALSE]
    <2>1. \/ reqs' = reqs \ mine
          \/ reqs' = (reqs \ mine) \cup {[p EXCEPT !.heard = FALSE] : p \in {x \in mine : x.todo # {}}}
      BY DEF Interrupt
    <2>2. q \in reqs \ mine \/ \E p \in mine : q = [p EXCEPT !.heard = FALSE]
      BY <2>1
    <2>3. ASSUME NEW p \in reqs, q = [p EXCEPT !.heard = FALSE] PROVE q.node = p.node /\ q.todo = p.todo /\ ~q.heard
      BY <1>0, <2>3 DEF TypeOK, Requests
    <2> QED
      BY <2>2, <2>3
  <1>3. reqs' \subseteq Requests
    <2> SUFFICES ASSUME NEW q \in reqs' PROVE q \in Requests
      OBVIOUS
    <2>1. \A p \in reqs : p \in Requests
      BY <1>0 DEF TypeOK
    <2>2. \A p \in Requests :
             [p EXCEPT !.heard = FALSE] \in Requests
      BY DEF Requests
    <2> QED
      BY <1>2, <2>1, <2>2
  <1>4. TypeOK'
    <2>1. Start \in Nat \X Nat /\ NoRow \in Rows /\ faults' \in 0..MaxFaults
      BY <1>0, <1>1, GraphBounds DEF Start, NoRow, Rows, TypeOK
    <2>2. tab' \in [Nodes -> Tables] /\ snap' \in [Nodes -> Rows] /\ top' \in [Nodes -> Nat \X Nat]
      BY <1>0, <1>1, <2>1 DEF TypeOK, Tables
    <2> QED
      BY <1>0, <1>1, <1>3, <2>1, <2>2 DEF TypeOK
  <1>5. /\ pc'[n] = "idle" /\ batch'[n] = {} /\ page'[n] = {} /\ top'[n] = Start
        /\ \A m \in Nodes : m # n => /\ pc'[m] = pc[m] /\ tab'[m] = tab[m] /\ page'[m] = page[m]
                                     /\ top'[m] = top[m] /\ snap'[m] = snap[m] /\ mark'[m] = mark[m]
                                     /\ batch'[m] = batch[m]
    BY <1>0, <1>1 DEF TypeOK
  <1>6. \A m \in Nodes : Mine(m)' \subseteq Mine(m)
    BY <1>1, <1>2 DEF Mine
  <1>7. Shaped'
    <2>1. \A q \in reqs' : q.todo \subseteq Proper
      BY <1>0, <1>2 DEF Shaped
    <2> QED
      BY <1>0, <1>1, <1>5, <2>1 DEF Shaped, Storing
  <1>8. Sending'
    <2>1. \A q \in reqs' : q.heard => q \in reqs /\ q.node # n /\ q.node \in Nodes
      BY <1>0, <1>2 DEF TypeOK, Requests
    <2> QED
      BY <1>0, <1>1, <1>5, <2>1 DEF Sending, AtHub
  <1>9. \A t \in Tables : cursor'[n][t][1] <= clock
    BY <1>0, <1>1 DEF Stamped
  <1>10. ASSUME NEW t \in Tables, NEW p \in Nat \X Nat, After(p, Seen(n, t)) PROVE After(p, cursor[n][t])
    <2>1. CASE tab[n] = t /\ Storing(n)
      <3>1. After(p, top[n]) /\ After(top[n], cursor[n][t])
        BY <1>0, <1>10, <2>1, SeenIs DEF Paging
      <3>2. top[n] \in Nat \X Nat /\ cursor[n][t] \in Nat \X Nat
        BY <1>0 DEF TypeOK
      <3> QED
        BY <3>1, <3>2, AfterIs
    <2>2. CASE ~(tab[n] = t /\ Storing(n))
      BY <1>10, <2>2, SeenIs
    <2> QED
      BY <2>1, <2>2
  <1>11. \A r \in page[n] : After(Pos(r), cursor[n][tab[n]])
    BY <1>0 DEF Paging, Shaped
  <1>12. cursor' = cursor
    BY <1>1
  <1>13. \A m \in Nodes : m # n => cursor'[m] = cursor[m]
    BY <1>12
  <1>14. \A t \in Tables, p \in Nat \X Nat : After(p, Seen(n, t)) => After(p, cursor'[n][t])
    BY <1>10, <1>12
  <1>15. \A r \in page[n] : After(Pos(r), cursor'[n][tab[n]])
    BY <1>11, <1>12
  <1> QED
    BY <1>1, <1>4, <1>5, <1>6, <1>7, <1>8, <1>9, <1>13, <1>14, <1>15, PullRests DEF GraphInv

\* The rows a node is offered are the hub's own, and all that lie past its cursor.
LEMMA OfferedIs ==
  ASSUME TypeOK, NEW n \in Nodes
  PROVE  /\ \A r \in Offered(n) :
               /\ r \in Proper /\ r.tab = tab[n] /\ After(Pos(r), cursor[n][tab[n]])
               /\ tab[n] = "entities" => /\ r.ts = hub[r.id].ts /\ r.aliases = hub[r.id].aliases
                                         /\ r.kind = hub[r.id].kind /\ hub[r.id].origin # n
               /\ tab[n] = "links" => r.ts = hubLink[r.id] /\ hubLink[r.id] > 0
         /\ \A e \in Entities :
               tab[n] = "entities" /\ hub[e].ts > 0 /\ hub[e].origin # n
                 /\ After(<<hub[e].ts, e>>, cursor[n][tab[n]])
               => \E r \in Offered(n) : r.id = e /\ r.ts = hub[e].ts
         /\ \A e \in Targets :
               tab[n] = "links" /\ hubLink[e] > 0 /\ After(<<hubLink[e], e>>, cursor[n][tab[n]])
               => \E r \in Offered(n) : r.id = e /\ r.ts = hubLink[e]
  <1> DEFINE c == cursor[n][tab[n]]
  <1>1. tab[n] \in {"entities", "links"}
    BY DEF TypeOK, Tables
  <1>2. \A e \in Entities : /\ hub[e].ts \in Nat /\ hub[e].aliases \in SUBSET Aliases
                            /\ hub[e].kind \in Kinds \cup {NoKind} /\ e \in Targets
    BY GraphEntities DEF TypeOK
  <1>3. \A e \in Targets : hubLink[e] \in Nat
    BY DEF TypeOK
  <1>4. \A e : LET r == EntityRecord(e, hub[e]) IN
               /\ r.tab = "entities" /\ r.id = e /\ r.ts = hub[e].ts /\ r.aliases = hub[e].aliases
               /\ r.kind = hub[e].kind /\ Pos(r) = <<hub[e].ts, e>>
    BY DEF EntityRecord, Pos
  <1>5. \A e : LET r == LinkRecord(e, hubLink[e]) IN
               /\ r.tab = "links" /\ r.id = e /\ r.ts = hubLink[e] /\ Pos(r) = <<hubLink[e], e>>
    BY DEF LinkRecord, Pos
  <1>6. \A e \in Entities : hub[e].ts > 0 => EntityRecord(e, hub[e]) \in Proper
    BY <1>2 DEF EntityRecord, Proper, Records, Tables
  <1>7. \A e \in Targets : hubLink[e] > 0 => LinkRecord(e, hubLink[e]) \in Proper
    BY <1>3 DEF LinkRecord, Proper, Records, Tables
  <1>8. CASE tab[n] = "entities"
    <2>1. Offered(n) = {r \in {EntityRecord(e, hub[e]) : e \in {x \in Entities : hub[x].ts > 0 /\ hub[x].origin # n}} :
                          After(Pos(r), c)}
      BY <1>8 DEF Offered
    <2>2. ASSUME NEW r \in Offered(n)
          PROVE  /\ r \in Proper /\ r.tab = "entities" /\ After(Pos(r), c)
                 /\ r.ts = hub[r.id].ts /\ r.aliases = hub[r.id].aliases
                 /\ r.kind = hub[r.id].kind /\ hub[r.id].origin # n
      <3>1. PICK e \in Entities : r = EntityRecord(e, hub[e]) /\ hub[e].ts > 0 /\ hub[e].origin # n /\ After(Pos(r), c)
        BY <2>1
      <3> HIDE DEF c
      <3> QED
        BY <3>1, <1>4, <1>6
    <2>3. ASSUME NEW e \in Entities, hub[e].ts > 0, hub[e].origin # n, After(<<hub[e].ts, e>>, c)
          PROVE  \E r \in Offered(n) : r.id = e /\ r.ts = hub[e].ts
      <3>1. After(Pos(EntityRecord(e, hub[e])), c)
        BY <2>3, <1>4
      <3>2. EntityRecord(e, hub[e]) \in Offered(n)
        BY <2>1, <2>3, <3>1
      <3> QED
        BY <3>2, <1>4
    <2> QED
      BY <1>8, <2>2, <2>3
  <1>9. CASE tab[n] = "links"
    <2>1. Offered(n) = {r \in {LinkRecord(e, hubLink[e]) : e \in {x \in Targets : hubLink[x] > 0}} : After(Pos(r), c)}
      BY <1>9 DEF Offered
    <2>2. ASSUME NEW r \in Offered(n)
          PROVE  r \in Proper /\ r.tab = "links" /\ After(Pos(r), c) /\ r.ts = hubLink[r.id] /\ hubLink[r.id] > 0
      <3>1. PICK e \in Targets : r = LinkRecord(e, hubLink[e]) /\ hubLink[e] > 0 /\ After(Pos(r), c)
        BY <2>1
      <3> HIDE DEF c
      <3> QED
        BY <3>1, <1>5, <1>7
    <2>3. ASSUME NEW e \in Targets, hubLink[e] > 0, After(<<hubLink[e], e>>, c)
          PROVE  \E r \in Offered(n) : r.id = e /\ r.ts = hubLink[e]
      <3>1. After(Pos(LinkRecord(e, hubLink[e])), c)
        BY <2>3, <1>5
      <3>2. LinkRecord(e, hubLink[e]) \in Offered(n)
        BY <2>1, <2>3, <3>1
      <3> QED
        BY <3>2, <1>5
    <2> QED
      BY <1>9, <2>2, <2>3
  <1> QED
    BY <1>1, <1>8, <1>9

LEMMA GraphFetch == ASSUME GraphInv, NEW n \in Nodes, Fetch(n) PROVE GraphInv'
  <1>0. /\ TypeOK /\ Shaped /\ Stamped /\ Sending /\ Paging /\ Reading
        /\ OwnRows /\ OwnLinks /\ HubRows /\ PageRows /\ Digested /\ LinksStored
    BY DEF GraphInv
  <1>1. /\ pc[n] = "fetch"
        /\ UNCHANGED <<clock, writes, ent, link, pending, cursor, batch, hub, hubLink, reqs, faults, said, missed, mixed>>
    BY DEF Fetch
  <1>2. \A m \in Nodes : Mine(m)' = Mine(m)
    BY <1>1 DEF Mine
  <1>3. page[n] = {} /\ ~Storing(n)
    BY <1>0, <1>1 DEF Shaped, Storing
  <1>4. \A t \in Tables : Seen(n, t) = cursor[n][t]
    BY <1>3, SeenIs
  <1>5. \A q \in reqs : q.node \in Nodes /\ (q.heard => q.node # n)
    BY <1>0, <1>1 DEF Sending, TypeOK, Requests
  <1>6. CASE EndTable(n)
    <2>1. /\ tab' \in [Nodes -> Tables] /\ page' \in [Nodes -> SUBSET Records] /\ top' \in [Nodes -> Nat \X Nat]
          /\ full' \in [Nodes -> BOOLEAN] /\ snap' \in [Nodes -> Rows] /\ mark' \in [Nodes -> Nat]
          /\ pc' \in [Nodes -> {"idle", "sent", "fetch", "apply", "store"}]
          /\ pc'[n] \in {"fetch", "idle"} /\ page'[n] = {} /\ top'[n] = Start
          /\ \A m \in Nodes : m # n => /\ pc'[m] = pc[m] /\ tab'[m] = tab[m] /\ page'[m] = page[m]
                                       /\ top'[m] = top[m] /\ snap'[m] = snap[m] /\ mark'[m] = mark[m]
      BY <1>0, <1>6, EndTableIs
    <2>2. TypeOK'
      BY <1>0, <1>1, <2>1 DEF TypeOK
    <2>3. Shaped'
      BY <1>0, <1>1, <2>1 DEF Shaped, Storing
    <2>4. Sending'
      BY <1>0, <1>1, <1>5, <2>1 DEF Sending, AtHub
    <2>5. \A t \in Tables : cursor'[n][t][1] <= clock /\ Seen(n, t) = cursor'[n][t]
      BY <1>0, <1>1, <1>4 DEF Stamped
    <2>6. \A m \in Nodes : m # n => cursor'[m] = cursor[m]
      BY <1>1
    <2> QED
      BY <1>1, <1>2, <1>3, <2>1, <2>2, <2>3, <2>4, <2>5, <2>6, PullRests DEF GraphInv
  <1>7. ASSUME NEW P \in SUBSET Offered(n), IsPage(P, Offered(n)), NEW last \in P,
               \A r \in P \ {last} : After(Pos(last), Pos(r)),
               pc' = [pc EXCEPT ![n] = "apply"], page' = [page EXCEPT ![n] = P],
               top' = [top EXCEPT ![n] = Pos(last)], full' = [full EXCEPT ![n] = Cardinality(P) = PageSize],
               UNCHANGED <<tab, snap, mark>>
        PROVE  GraphInv'
    <2>1. \A r \in P : /\ r \in Proper /\ r.tab = tab[n] /\ After(Pos(r), cursor[n][tab[n]])
                       /\ tab[n] = "entities" => /\ r.ts = hub[r.id].ts /\ r.aliases = hub[r.id].aliases
                                                 /\ r.kind = hub[r.id].kind /\ hub[r.id].origin # n
                       /\ tab[n] = "links" => r.ts = hubLink[r.id] /\ hubLink[r.id] > 0
      BY <1>0, OfferedIs
    <2>2. \A r \in Offered(n) \ P : After(Pos(r), Pos(last))
      BY <1>7 DEF IsPage
    <2>3. tab[n] \in {"entities", "links"}
      BY <1>0 DEF TypeOK, Tables
    <2>4. /\ pc'[n] = "apply" /\ page'[n] = P /\ top'[n] = Pos(last)
          /\ \A m \in Nodes : m # n => pc'[m] = pc[m] /\ page'[m] = page[m] /\ top'[m] = top[m]
      BY <1>0, <1>7 DEF TypeOK
    <2>5. Pos(last) \in Nat \X Nat /\ last.ts \in Nat /\ Pos(last)[1] = last.ts
      BY <2>1, ProperIs
    <2>6. last.ts <= clock
      BY <1>0, <2>1, <2>3, ProperIs DEF Stamped
    <2>7. \A t \in Tables : Seen(n, t)' = IF t = tab[n] THEN Pos(last) ELSE cursor[n][t]
      BY <1>1, <1>7, <2>4 DEF Seen
    <2>8. \A m \in Nodes : m # n => (Storing(m)' <=> Storing(m)) /\ \A t \in Tables : Seen(m, t)' = Seen(m, t)
      BY <1>1, <1>7, <2>4 DEF Seen, Storing
    <2>9. TypeOK'
      <3>1. P \subseteq Records
        BY <2>1, ProperIs
      <3>2. /\ pc' \in [Nodes -> {"idle", "sent", "fetch", "apply", "store"}]
            /\ page' \in [Nodes -> SUBSET Records] /\ top' \in [Nodes -> Nat \X Nat]
            /\ full' \in [Nodes -> BOOLEAN]
        BY <1>0, <1>7, <2>5, <3>1 DEF TypeOK
      <3> QED
        BY <1>0, <1>1, <1>7, <3>2 DEF TypeOK
    <2>10. Shaped'
      BY <1>0, <1>1, <1>7, <2>1, <2>4 DEF Shaped, Storing
    <2>11. Stamped'
      <3>1. \A m \in Nodes : top'[m][1] <= clock
        BY <1>0, <2>4, <2>5, <2>6 DEF Stamped
      <3> QED
        BY <1>0, <1>1, <1>2, <3>1 DEF Stamped
    <2>12. Sending'
      BY <1>0, <1>1, <1>5, <2>4 DEF Sending, AtHub
    <2>13. Paging'
      <3> SUFFICES ASSUME NEW m \in Nodes, Storing(m)'
                   PROVE  /\ After(top'[m], cursor'[m][tab'[m]])
                          /\ \A r \in page'[m] : After(Pos(r), cursor'[m][tab'[m]]) /\ AtHub(r)'
        BY DEF Paging, After, Pos
      <3>1. CASE m # n
        BY <1>0, <1>1, <1>7, <2>4, <2>8, <3>1 DEF Paging, AtHub
      <3>2. CASE m = n
        <4>1. After(top'[n], cursor'[n][tab'[n]])
          BY <1>1, <1>7, <2>1, <2>4
        <4>2. ASSUME NEW r \in P PROVE After(Pos(r), cursor'[n][tab'[n]]) /\ AtHub(r)'
          <5>1. After(Pos(r), cursor'[n][tab'[n]])
            BY <1>1, <1>7, <2>1
          <5>2. /\ r.tab = tab[n] /\ r.ts \in Nat
                /\ tab[n] = "entities" => r.ts = hub[r.id].ts /\ r.aliases = hub[r.id].aliases /\ r.kind = hub[r.id].kind
                /\ tab[n] = "links" => hubLink[r.id] > 0
            BY <2>1, ProperIs
          <5>3. AtHub(r)'
            BY <1>1, <2>3, <5>2 DEF AtHub
          <5> QED
            BY <5>1, <5>3
        <4> QED
          BY <2>4, <3>2, <4>1, <4>2
      <3> QED
        BY <3>1, <3>2
    <2>14. Reading'
      <3> SUFFICES ASSUME NEW m \in Nodes, pc'[m] = "store"
                   PROVE  /\ \A p \in pending'[m] :
                                p.tab = tab'[m] /\ p.ts > mark'[m] => <<m, tab'[m], p.id>> \in mixed'
                          /\ \A r \in page'[m] :
                                tab'[m] = "entities" /\ IsFirst(m, r)' /\ <<m, "entities", r.id>> \notin mixed'
                                  => snap'[m] = ent'[m][r.id]
        BY DEF Reading
      <3>1. m # n
        BY <2>4
      <3> QED
        BY <1>0, <1>1, <1>7, <2>4, <3>1 DEF Reading, IsFirst, After, Pos
    <2>15. OwnRows' /\ OwnLinks' /\ HubRows'
      BY <1>0, <1>1, <1>2, RowsStay
    <2>16. PageRows'
      <3> SUFFICES ASSUME NEW m \in Nodes, NEW r \in page'[m]
                   PROVE  IF tab'[m] = "entities" THEN PageRow(m, r)' ELSE r.ts = hubLink'[r.id]
        BY DEF PageRows
      <3>1. CASE m # n
        BY <1>0, <1>1, <1>7, <2>4, <3>1 DEF PageRows, PageRow, Exempt, After
      <3>2. CASE m = n
        BY <1>1, <1>7, <2>1, <2>3, <2>4, <3>2 DEF PageRow
      <3> QED
        BY <3>1, <3>2
    <2>17. Digested'
      <3> SUFFICES ASSUME NEW m \in Nodes, NEW e \in Entities, Digest(m, e) PROVE Digest(m, e)'
        BY <1>0 DEF Digested
      <3>1. CASE m # n
        BY <1>1, <1>7, <2>4, <2>8, <3>1 DEF Digest, Exempt, Due, OnPage, After, Tables
      <3>2. CASE m = n
        <4> DEFINE p == <<hub[e].ts, e>>
        <4>1. CASE hub[e].ts = 0
          <5>1. hub[e].aliases = {} /\ hub[e].kind = NoKind
            BY <1>0, <4>1 DEF HubRows
          <5> QED
            BY <1>1, <5>1 DEF Digest
        <4>2. CASE hub[e].ts # 0
          <5>1. hub[e].ts > 0 /\ e \in Targets
            BY <1>0, <4>2, GraphEntities DEF TypeOK
          <5>2. ASSUME hub[e].origin # n, After(p, cursor[n]["entities"])
                PROVE  \/ After(p, Seen(n, "entities")')
                       \/ \E r \in P : tab[n] = "entities" /\ r.id = e /\ r.ts = hub[e].ts
            <6>1. CASE tab[n] = "links"
              BY <2>7, <5>2, <6>1 DEF Tables
            <6>2. CASE tab[n] = "entities"
              <7>1. PICK r \in Offered(n) : r.id = e /\ r.ts = hub[e].ts
                BY <1>0, <5>1, <5>2, <6>2, OfferedIs
              <7>2. Pos(r) = p
                BY <7>1 DEF Pos
              <7>3. CASE r \in P
                BY <6>2, <7>1, <7>3
              <7>4. CASE r \notin P
                <8>1. After(Pos(r), Pos(last))
                  BY <2>2, <7>4
                <8> HIDE DEF p
                <8> QED
                  BY <2>7, <6>2, <7>2, <8>1 DEF Tables
              <7> QED
                BY <7>3, <7>4
            <6> QED
              BY <2>3, <6>1, <6>2
          <5>3. Due(n, e) => Due(n, e)'
            <6>1. Due(n, e) => hub[e].origin # n /\ After(p, cursor[n]["entities"])
              BY <1>3, <1>4 DEF Due, OnPage, Tables
            <6>2. hub[e].origin # n /\ After(p, Seen(n, "entities")') => Due(n, e)'
              BY <1>1 DEF Due, After
            <6>3. (\E r \in P : tab[n] = "entities" /\ r.id = e /\ r.ts = hub[e].ts) => Due(n, e)'
              BY <1>1, <1>7, <2>4 DEF Due, OnPage
            <6> HIDE DEF p
            <6> QED
              BY <5>2, <6>1, <6>2, <6>3
          <5> QED
            BY <1>1, <3>2, <5>3 DEF Digest, Exempt
        <4> QED
          BY <3>2, <4>1, <4>2
      <3> QED
        BY <3>1, <3>2
    <2>18. LinksStored'
      <3> SUFFICES ASSUME NEW m \in Nodes, NEW e \in Targets, LinkStored(m, e) PROVE LinkStored(m, e)'
        BY <1>0 DEF LinksStored
      <3>1. CASE m # n
        BY <1>1, <1>7, <2>4, <2>8, <3>1 DEF LinkStored, OnPage, Exempt, After, Tables
      <3>2. CASE m = n
        <4> DEFINE p == <<hubLink[e], e>>
        <4>1. CASE hubLink[e] = 0
          BY <1>1, <3>2, <4>1 DEF LinkStored
        <4>2. CASE hubLink[e] # 0
          <5>1. hubLink[e] > 0
            BY <1>0, <4>2 DEF TypeOK
          <5>2. ASSUME After(p, cursor[n]["links"])
                PROVE  \/ After(p, Seen(n, "links")')
                       \/ \E r \in P : tab[n] = "links" /\ r.id = e /\ r.ts = hubLink[e]
            <6>1. CASE tab[n] = "entities"
              BY <2>7, <5>2, <6>1 DEF Tables
            <6>2. CASE tab[n] = "links"
              <7>1. PICK r \in Offered(n) : r.id = e /\ r.ts = hubLink[e]
                BY <1>0, <5>1, <5>2, <6>2, OfferedIs
              <7>2. Pos(r) = p
                BY <7>1 DEF Pos
              <7>3. CASE r \in P
                BY <6>2, <7>1, <7>3
              <7>4. CASE r \notin P
                <8>1. After(Pos(r), Pos(last))
                  BY <2>2, <7>4
                <8> HIDE DEF p
                <8> QED
                  BY <2>7, <6>2, <7>2, <8>1 DEF Tables
              <7> QED
                BY <7>3, <7>4
            <6> QED
              BY <2>3, <6>1, <6>2
          <5>3. /\ After(<<hubLink[e], e>>, Seen(n, "links")) => After(p, cursor[n]["links"])
                /\ ~OnPage(n, "links", e, hubLink[e])
            BY <1>3, <1>4 DEF OnPage, Tables
          <5>4. After(p, Seen(n, "links")') => After(<<hubLink'[e], e>>, Seen(n, "links")')
            BY <1>1
          <5>5. (\E r \in P : tab[n] = "links" /\ r.id = e /\ r.ts = hubLink[e]) => OnPage(n, "links", e, hubLink[e])'
            BY <1>1, <1>7, <2>4 DEF OnPage
          <5> HIDE DEF p
          <5> QED
            BY <1>1, <3>2, <5>2, <5>3, <5>4, <5>5 DEF LinkStored, Exempt, After
        <4> QED
          BY <3>2, <4>1, <4>2
      <3> QED
        BY <3>1, <3>2
    <2> QED
      BY <2>9, <2>10, <2>11, <2>12, <2>13, <2>14, <2>15, <2>16, <2>17, <2>18 DEF GraphInv
  <1> QED
    BY <1>6, <1>7 DEF Fetch

LEMMA GraphRead == ASSUME GraphInv, NEW n \in Nodes, Read(n) PROVE GraphInv'
  <1>0. /\ TypeOK /\ Shaped /\ Stamped /\ Sending /\ Paging /\ Reading
        /\ OwnRows /\ OwnLinks /\ HubRows /\ PageRows /\ Digested /\ LinksStored
    BY DEF GraphInv
  <1>1. /\ pc[n] = "apply" /\ mark' = [mark EXCEPT ![n] = clock] /\ pc' = [pc EXCEPT ![n] = "store"]
        /\ UNCHANGED <<clock, writes, ent, link, pending, cursor, batch, tab, page, top, full, hub, hubLink, reqs,
                       faults, said, missed, mixed>>
    BY DEF Read
  <1>2. PICK r \in page[n] :
          IsFirst(n, r) /\ snap' = [snap EXCEPT ![n] = IF tab[n] = "entities" THEN ent[n][r.id] ELSE NoRow]
    BY DEF Read
  <1>3. r \in Proper /\ r.tab = tab[n]
    BY <1>0 DEF Shaped
  <1>4. /\ pc'[n] = "store" /\ mark'[n] = clock
        /\ tab[n] = "entities" => snap'[n] = ent[n][r.id]
        /\ \A m \in Nodes : m # n => pc'[m] = pc[m] /\ mark'[m] = mark[m] /\ snap'[m] = snap[m]
    BY <1>0, <1>1, <1>2 DEF TypeOK
  <1>5. TypeOK'
    <2>1. (IF tab[n] = "entities" THEN ent[n][r.id] ELSE NoRow) \in Rows
      BY <1>0, <1>3, ProperIs DEF TypeOK, NoRow, Rows
    <2>2. snap' \in [Nodes -> Rows] /\ mark' \in [Nodes -> Nat]
      BY <1>0, <1>1, <1>2, <2>1 DEF TypeOK
    <2> QED
      BY <1>0, <1>1, <2>2 DEF TypeOK
  <1>6. \A m \in Nodes : Storing(m)' = Storing(m)
    BY <1>1, <1>4 DEF Storing
  <1>7. \A m \in Nodes : Mine(m)' = Mine(m)
    BY <1>1 DEF Mine
  <1>8. Shaped'
    BY <1>0, <1>1, <1>6 DEF Shaped
  <1>9. Stamped'
    BY <1>0, <1>1, <1>7, StampsStay
  <1>10. Sending'
    <2>1. \A q \in reqs : q.node \in Nodes /\ (q.heard => q.node # n)
      BY <1>0, <1>1 DEF Sending, TypeOK, Requests
    <2> QED
      BY <1>0, <1>1, <1>4, <2>1 DEF Sending, AtHub
  <1>11. Reading'
    <2> SUFFICES ASSUME NEW m \in Nodes, pc'[m] = "store"
                 PROVE  /\ \A p \in pending[m] :
                              p.tab = tab[m] /\ p.ts > mark'[m] => <<m, tab[m], p.id>> \in mixed
                        /\ \A s \in page[m] :
                              tab[m] = "entities" /\ IsFirst(m, s)' /\ <<m, "entities", s.id>> \notin mixed
                                => snap'[m] = ent[m][s.id]
      BY <1>1 DEF Reading
    <2>1. \A s : IsFirst(m, s)' <=> IsFirst(m, s)
      BY <1>1 DEF IsFirst, After, Pos
    <2>2. CASE m # n
      BY <1>0, <1>4, <2>1, <2>2 DEF Reading
    <2>3. CASE m = n
      <3>1. \A p \in pending[n] : p.ts \in Nat /\ p.ts <= clock
        BY <1>0, ProperIs DEF Stamped, Mine, Shaped
      <3>2. \A p \in pending[n] : ~(p.ts > mark'[n])
        BY <1>0, <1>4, <3>1 DEF TypeOK
      <3>3. \A s : IsFirst(n, s) => s = r
        BY <1>0, <1>2, OneFirst
      <3> QED
        BY <1>4, <2>1, <2>3, <3>2, <3>3
    <2> QED
      BY <2>2, <2>3
  <1>12. OwnRows' /\ OwnLinks' /\ HubRows'
    BY <1>0, <1>1, <1>7, RowsStay
  <1>13. Paging' /\ PageRows' /\ Digested' /\ LinksStored'
    BY <1>0, <1>1, <1>6, PullStays
  <1> QED
    BY <1>5, <1>8, <1>9, <1>10, <1>11, <1>12, <1>13 DEF GraphInv

\* An upsert is over: its record leaves the page, and only the rows of its node may have moved.
LEMMA GraphReturn ==
  ASSUME GraphInv, NEW n \in Nodes, NEW r \in page[n], pc[n] = "store", Return(n, r),
         \A m \in Nodes : m # n => ent'[m] = ent[m] /\ link'[m] = link[m] /\ pending'[m] = pending[m],
         pending'[n] \subseteq pending[n], missed \subseteq missed'
  PROVE  /\ page' \in [Nodes -> SUBSET Records] /\ snap' \in [Nodes -> Rows] /\ mark' \in [Nodes -> Nat]
         /\ pc' \in [Nodes -> {"idle", "sent", "fetch", "apply", "store"}]
         /\ UNCHANGED <<clock, writes, cursor, batch, tab, top, full, hub, hubLink, reqs, said, mixed>>
         /\ Shaped' /\ Stamped' /\ Sending' /\ Paging' /\ Reading' /\ HubRows' /\ PageRows'
         /\ (\A e \in Entities : <<n, "entities", e>> \notin mixed => OwnRow(n, e)') => OwnRows'
         /\ (\A e \in Targets : OwnLink(n, e)') => OwnLinks'
         /\ (\A e \in Entities : Digest(n, e)') => Digested'
         /\ (\A e \in Targets : LinkStored(n, e)') => LinksStored'
         /\ \A t \in Tables : Seen(n, t)' = Seen(n, t)
         /\ \A t, e, ts : OnPage(n, t, e, ts) =>
               OnPage(n, t, e, ts)' \/ (tab[n] = t /\ r.id = e /\ r.ts = ts)
         /\ Mine(n)' \subseteq Mine(n)
  <1>0. /\ TypeOK /\ Shaped /\ Stamped /\ Sending /\ Paging /\ Reading
        /\ OwnRows /\ OwnLinks /\ HubRows /\ PageRows /\ Digested /\ LinksStored
    BY DEF GraphInv
  <1>1. /\ page' = [page EXCEPT ![n] = @ \ {r}] /\ snap' = [snap EXCEPT ![n] = NoRow]
        /\ mark' = [mark EXCEPT ![n] = 0] /\ pc' = [pc EXCEPT ![n] = "apply"]
        /\ UNCHANGED <<clock, writes, cursor, batch, tab, top, full, hub, hubLink, reqs, said, mixed>>
    BY DEF Return
  <1>2. /\ page' \in [Nodes -> SUBSET Records] /\ snap' \in [Nodes -> Rows] /\ mark' \in [Nodes -> Nat]
        /\ pc' \in [Nodes -> {"idle", "sent", "fetch", "apply", "store"}]
    <2>1. NoRow \in Rows
      BY DEF NoRow, Rows
    <2> QED
      BY <1>0, <1>1, <2>1 DEF TypeOK
  <1>3. /\ page'[n] = page[n] \ {r} /\ pc'[n] = "apply"
        /\ \A m \in Nodes : m # n => /\ page'[m] = page[m] /\ pc'[m] = pc[m]
                                     /\ snap'[m] = snap[m] /\ mark'[m] = mark[m]
    BY <1>0, <1>1 DEF TypeOK
  <1>4. \A m \in Nodes : Storing(m)' = Storing(m)
    BY <1>3 DEF Storing
  <1>5. \A m \in Nodes, t \in Tables : Seen(m, t)' = Seen(m, t)
    BY <1>1, <1>3 DEF Seen
  <1>6. \A m \in Nodes : Mine(m)' \subseteq Mine(m) /\ (m # n => Mine(m)' = Mine(m))
    BY <1>1 DEF Mine
  <1>7. Shaped'
    <2>1. \A m \in Nodes : pending'[m] \subseteq pending[m] /\ page'[m] \subseteq page[m]
      BY <1>3
    <2> QED
      BY <1>0, <1>1, <1>4, <2>1 DEF Shaped
  <1>8. Stamped'
    BY <1>0, <1>1, <1>6, StampsStay
  <1>9. Sending'
    <2>1. \A q \in reqs : q.node \in Nodes /\ (q.heard => q.node # n)
      BY <1>0 DEF Sending, TypeOK, Requests
    <2> QED
      BY <1>0, <1>1, <1>3, <2>1 DEF Sending, AtHub
  <1>10. \A m \in Nodes : page'[m] \subseteq page[m]
    BY <1>3
  <1>11. Paging'
    <2> SUFFICES ASSUME NEW m \in Nodes, Storing(m)'
                 PROVE  /\ After(top'[m], cursor'[m][tab'[m]])
                        /\ \A s \in page'[m] : After(Pos(s), cursor'[m][tab'[m]]) /\ AtHub(s)'
      BY DEF Paging, After, Pos
    <2> QED
      BY <1>0, <1>1, <1>4, <1>10 DEF Paging, AtHub
  <1>12. Reading'
    <2> SUFFICES ASSUME NEW m \in Nodes, pc'[m] = "store"
                 PROVE  /\ \A p \in pending'[m] :
                              p.tab = tab'[m] /\ p.ts > mark'[m] => <<m, tab'[m], p.id>> \in mixed'
                        /\ \A s \in page'[m] :
                              tab'[m] = "entities" /\ IsFirst(m, s)' /\ <<m, "entities", s.id>> \notin mixed'
                                => snap'[m] = ent'[m][s.id]
      BY DEF Reading
    <2>1. m # n
      BY <1>3
    <2> QED
      BY <1>0, <1>1, <1>3, <2>1 DEF Reading, IsFirst, After, Pos
  <1>13. HubRows'
    BY <1>0, <1>1 DEF HubRows
  <1>14. \A m, t, e : Exempt(m, t, e) => Exempt(m, t, e)'
    BY <1>1 DEF Exempt
  <1>15. PageRows'
    <2> SUFFICES ASSUME NEW m \in Nodes, NEW s \in page'[m]
                 PROVE  IF tab'[m] = "entities" THEN PageRow(m, s)' ELSE s.ts = hubLink'[s.id]
      BY DEF PageRows
    <2>1. s \in page[m]
      BY <1>10
    <2>2. CASE tab[m] = "entities"
      <3>1. PageRow(m, s)
        BY <1>0, <2>1, <2>2 DEF PageRows
      <3>2. PageRow(m, s)'
        BY <1>1, <1>14, <3>1 DEF PageRow, After
      <3> QED
        BY <1>1, <2>2, <3>2
    <2>3. CASE tab[m] # "entities"
      BY <1>0, <1>1, <2>1, <2>3 DEF PageRows
    <2> QED
      BY <2>2, <2>3
  <1>16. ASSUME NEW m \in Nodes, m # n
         PROVE  /\ \A e \in Entities : <<m, "entities", e>> \notin mixed => OwnRow(m, e)'
                /\ \A e \in Targets : OwnLink(m, e)'
                /\ \A e \in Entities : Digest(m, e)'
                /\ \A e \in Targets : LinkStored(m, e)'
    <2>1. \A e \in Entities : <<m, "entities", e>> \notin mixed => OwnRow(m, e)'
      BY <1>0, <1>1, <1>6, <1>16 DEF OwnRows, OwnRow
    <2>2. \A e \in Targets : OwnLink(m, e)'
      BY <1>0, <1>1, <1>6, <1>16 DEF OwnLinks, OwnLink
    <2>3. \A t, e, ts : OnPage(m, t, e, ts)' <=> OnPage(m, t, e, ts)
      BY <1>1, <1>3, <1>16 DEF OnPage
    <2>4. \A e \in Entities : Digest(m, e)'
      <3>1. \A e \in Entities : Due(m, e) => Due(m, e)'
        BY <1>1, <1>5, <2>3 DEF Due, OnPage, After, Tables
      <3> QED
        BY <1>0, <1>1, <1>14, <1>16, <3>1 DEF Digested, Digest
    <2>5. \A e \in Targets : LinkStored(m, e)'
      <3>1. "links" \in Tables
        BY DEF Tables
      <3> QED
        BY <1>0, <1>1, <1>5, <1>14, <1>16, <2>3, <3>1 DEF LinksStored, LinkStored, OnPage, After
    <2> QED
      BY <2>1, <2>2, <2>4, <2>5
  <1>17. /\ (\A e \in Entities : <<n, "entities", e>> \notin mixed => OwnRow(n, e)') => OwnRows'
         /\ (\A e \in Targets : OwnLink(n, e)') => OwnLinks'
         /\ (\A e \in Entities : Digest(n, e)') => Digested'
         /\ (\A e \in Targets : LinkStored(n, e)') => LinksStored'
    BY <1>1, <1>16 DEF OwnRows, OwnLinks, Digested, LinksStored
  <1>18. \A t, e, ts : OnPage(n, t, e, ts) => OnPage(n, t, e, ts)' \/ (tab[n] = t /\ r.id = e /\ r.ts = ts)
    BY <1>1, <1>3 DEF OnPage
  <1> QED
    BY <1>1, <1>2, <1>5, <1>6, <1>7, <1>8, <1>9, <1>11, <1>12, <1>13, <1>15, <1>17, <1>18

LEMMA GraphSkipRecord == ASSUME GraphInv, NEW n \in Nodes, SkipRecord(n) PROVE GraphInv'
  <1>0. /\ TypeOK /\ Shaped /\ Stamped /\ Sending /\ Paging /\ Reading
        /\ OwnRows /\ OwnLinks /\ HubRows /\ PageRows /\ Digested /\ LinksStored
    BY DEF GraphInv
  <1>1. PICK r \in page[n] : /\ missed' = missed \cup {<<n, tab[n], r.id>>} /\ Return(n, r)
                             /\ faults' = faults \/ Fault
    BY DEF SkipRecord
  <1>2. pc[n] = "store" /\ UNCHANGED <<ent, link, pending>>
    BY DEF SkipRecord
  <1>3. /\ page' \in [Nodes -> SUBSET Records] /\ snap' \in [Nodes -> Rows] /\ mark' \in [Nodes -> Nat]
        /\ pc' \in [Nodes -> {"idle", "sent", "fetch", "apply", "store"}]
        /\ UNCHANGED <<clock, writes, cursor, batch, tab, top, full, hub, hubLink, reqs, said, mixed>>
        /\ Shaped' /\ Stamped' /\ Sending' /\ Paging' /\ Reading' /\ HubRows' /\ PageRows'
        /\ (\A e \in Entities : <<n, "entities", e>> \notin mixed => OwnRow(n, e)') => OwnRows'
        /\ (\A e \in Targets : OwnLink(n, e)') => OwnLinks'
        /\ (\A e \in Entities : Digest(n, e)') => Digested'
        /\ (\A e \in Targets : LinkStored(n, e)') => LinksStored'
        /\ \A t \in Tables : Seen(n, t)' = Seen(n, t)
        /\ \A t, e, ts : OnPage(n, t, e, ts) =>
              OnPage(n, t, e, ts)' \/ (tab[n] = t /\ r.id = e /\ r.ts = ts)
        /\ Mine(n)' \subseteq Mine(n)
    BY <1>1, <1>2, GraphReturn
  <1>4. tab[n] \in Tables /\ r.id \in Targets
    BY <1>0, ProperIs DEF TypeOK, Shaped
  <1>5. TypeOK'
    <2>1. missed' \subseteq Marks
      BY <1>0, <1>1, <1>4 DEF TypeOK, Marks
    <2>2. faults' \in 0..MaxFaults
      BY <1>0, <1>1, GraphBounds DEF Fault, TypeOK
    <2> QED
      BY <1>0, <1>2, <1>3, <2>1, <2>2 DEF TypeOK
  <1>6. OwnRows'
    BY <1>0, <1>2, <1>3 DEF OwnRows, OwnRow
  <1>7. OwnLinks'
    BY <1>0, <1>2, <1>3 DEF OwnLinks, OwnLink
  <1>8. \A t, e : Exempt(n, t, e) => Exempt(n, t, e)'
    BY <1>1, <1>3 DEF Exempt
  <1>9. \A t, e : tab[n] = t /\ r.id = e => Exempt(n, t, e)'
    BY <1>1 DEF Exempt
  <1>10. ASSUME NEW e \in Entities PROVE Digest(n, e)'
    <2>1. Digest(n, e)
      BY <1>0 DEF Digested
    <2>2. Due(n, e) => Due(n, e)' \/ (tab[n] = "entities" /\ r.id = e)
      BY <1>3 DEF Due, After, Tables
    <2> QED
      BY <1>2, <1>3, <1>8, <1>9, <2>1, <2>2 DEF Digest
  <1>11. ASSUME NEW e \in Targets PROVE LinkStored(n, e)'
    <2>1. LinkStored(n, e)
      BY <1>0 DEF LinksStored
    <2>2. OnPage(n, "links", e, hubLink[e]) => OnPage(n, "links", e, hubLink[e])' \/ Exempt(n, "links", e)'
      BY <1>3, <1>9 DEF OnPage
    <2>3. After(<<hubLink[e], e>>, Seen(n, "links")) => After(<<hubLink[e], e>>, Seen(n, "links"))'
      BY <1>3 DEF After, Tables
    <2>4. Exempt(n, "links", e) => Exempt(n, "links", e)'
      BY <1>8
    <2>5. hubLink'[e] = hubLink[e] /\ link'[n][e] = link[n][e]
      BY <1>2, <1>3
    <2> QED
      BY <2>1, <2>2, <2>3, <2>4, <2>5 DEF LinkStored
  <1> QED
    BY <1>3, <1>5, <1>6, <1>7, <1>10, <1>11 DEF GraphInv

LEMMA GraphStoreLink == ASSUME GraphInv, NEW n \in Nodes, StoreLink(n) PROVE GraphInv'
  <1>0. /\ TypeOK /\ Shaped /\ Stamped /\ Sending /\ Paging /\ Reading
        /\ OwnRows /\ OwnLinks /\ HubRows /\ PageRows /\ Digested /\ LinksStored
    BY DEF GraphInv
  <1>1. PICK r \in page[n] :
          /\ \/ link[n][r.id] = 0 /\ link' = [link EXCEPT ![n][r.id] = r.ts] /\ Suppress(n, r)
             \/ link[n][r.id] # 0 /\ UNCHANGED <<link, pending>>
          /\ Return(n, r)
    BY DEF StoreLink
  <1>2. pc[n] = "store" /\ tab[n] = "links" /\ UNCHANGED <<ent, faults, missed>>
    BY DEF StoreLink
  <1>3. r \in Proper /\ r.tab = "links" /\ hubLink[r.id] > 0 /\ r.ts = hubLink[r.id]
    BY <1>0, <1>2 DEF Shaped, Paging, Storing, AtHub, PageRows
  <1>4. /\ r.id \in Targets /\ r.ts \in Nat /\ r.ts > 0
    BY <1>3, ProperIs
  <1>5. /\ pending'[n] \subseteq pending[n] /\ pending' \in [Nodes -> SUBSET Records]
        /\ \A m \in Nodes : m # n => pending'[m] = pending[m]
        /\ \A p \in pending[n] : p \in pending'[n] \/ (p.ts > mark[n] /\ p.tab = "links")
    <2>1. CASE Suppress(n, r)
      <3> DEFINE kept == {p \in pending[n] : ~(/\ p.ts > mark[n] /\ p.tab = r.tab
                                               /\ p.tab = "entities" => p.id = r.id)}
      <3>1. pending' = [pending EXCEPT ![n] = kept]
        BY <2>1 DEF Suppress
      <3>2. kept \subseteq pending[n] /\ \A p \in pending[n] : p \in kept \/ (p.ts > mark[n] /\ p.tab = "links")
        BY <1>3
      <3> HIDE DEF kept
      <3> QED
        BY <1>0, <3>1, <3>2 DEF TypeOK
    <2>2. CASE UNCHANGED <<link, pending>>
      BY <1>0, <2>2 DEF TypeOK
    <2> QED
      BY <1>1, <2>1, <2>2
  <1>6. /\ link' \in [Nodes -> [Targets -> Nat]] /\ link'[n][r.id] > 0
        /\ \A m \in Nodes : m # n => link'[m] = link[m]
        /\ \A e \in Targets : /\ link[n][e] > 0 => link'[n][e] = link[n][e]
                              /\ e # r.id => link'[n][e] = link[n][e]
    <2>1. link \in [Nodes -> [Targets -> Nat]]
      BY <1>0 DEF TypeOK
    <2>2. CASE link[n][r.id] = 0 /\ link' = [link EXCEPT ![n][r.id] = r.ts]
      <3>1. link' \in [Nodes -> [Targets -> Nat]]
        BY <1>4, <2>1, <2>2
      <3>2. /\ link'[n][r.id] = r.ts /\ \A m \in Nodes : m # n => link'[m] = link[m]
            /\ \A e \in Targets : e # r.id => link'[n][e] = link[n][e]
        BY <1>4, <2>1, <2>2
      <3> QED
        BY <1>4, <2>2, <3>1, <3>2
    <2>3. CASE link[n][r.id] # 0 /\ link' = link
      <3>1. link[n][r.id] \in Nat
        BY <1>4, <2>1
      <3> QED
        BY <2>1, <2>3, <3>1
    <2> QED
      BY <1>1, <2>2, <2>3
  <1>7. /\ page' \in [Nodes -> SUBSET Records] /\ snap' \in [Nodes -> Rows] /\ mark' \in [Nodes -> Nat]
        /\ pc' \in [Nodes -> {"idle", "sent", "fetch", "apply", "store"}]
        /\ UNCHANGED <<clock, writes, cursor, batch, tab, top, full, hub, hubLink, reqs, said, mixed>>
        /\ Shaped' /\ Stamped' /\ Sending' /\ Paging' /\ Reading' /\ HubRows' /\ PageRows'
        /\ (\A e \in Entities : <<n, "entities", e>> \notin mixed => OwnRow(n, e)') => OwnRows'
        /\ (\A e \in Targets : OwnLink(n, e)') => OwnLinks'
        /\ (\A e \in Entities : Digest(n, e)') => Digested'
        /\ (\A e \in Targets : LinkStored(n, e)') => LinksStored'
        /\ \A t \in Tables : Seen(n, t)' = Seen(n, t)
        /\ \A t, e, ts : OnPage(n, t, e, ts) =>
              OnPage(n, t, e, ts)' \/ (tab[n] = t /\ r.id = e /\ r.ts = ts)
        /\ Mine(n)' \subseteq Mine(n)
    <2>1. \A m \in Nodes : m # n => ent'[m] = ent[m] /\ link'[m] = link[m] /\ pending'[m] = pending[m]
      BY <1>2, <1>5, <1>6
    <2> QED
      BY <1>1, <1>2, <1>5, <2>1, GraphReturn
  <1>8. TypeOK'
    BY <1>0, <1>2, <1>5, <1>6, <1>7 DEF TypeOK
  <1>9. \A e \in Entities : <<n, "entities", e>> \notin mixed => OwnRow(n, e)'
    <2> SUFFICES ASSUME NEW e \in Entities, <<n, "entities", e>> \notin mixed PROVE OwnRow(n, e)'
      OBVIOUS
    <2>1. OwnRow(n, e)
      BY <1>0 DEF OwnRows
    <2>2. \A p \in pending[n] : p.tab = "entities" => p \in pending'[n]
      BY <1>5
    <2> QED
      BY <1>2, <1>5, <1>7, <2>1, <2>2 DEF OwnRow
  <1>10. ASSUME NEW e \in Targets PROVE OwnLink(n, e)'
    <2>1. OwnLink(n, e)
      BY <1>0 DEF OwnLinks
    <2>2. link[n][e] > 0 => link'[n][e] > 0
      BY <1>6
    <2>3. ASSUME link'[n][e] > 0, <<n, "links", e>> \notin mixed
          PROVE  hubLink[e] > 0 \/ LinkRecord(e, link'[n][e]) \in pending'[n]
      <3>1. CASE link[n][e] > 0
        <4>1. hubLink[e] > 0 \/ LinkRecord(e, link[n][e]) \in pending[n]
          BY <2>1, <2>3, <3>1 DEF OwnLink
        <4>2. LinkRecord(e, link[n][e]).tab = "links" /\ LinkRecord(e, link[n][e]).id = e
          BY DEF LinkRecord
        <4>3. \A p \in pending[n] : p.tab = "links" /\ p.ts > mark[n] => <<n, "links", p.id>> \in mixed
          BY <1>0, <1>2 DEF Reading
        <4> QED
          BY <1>5, <1>6, <2>3, <3>1, <4>1, <4>2, <4>3
      <3>2. CASE ~(link[n][e] > 0)
        <4>1. e = r.id
          BY <1>6, <2>3, <3>2
        <4> QED
          BY <1>3, <4>1
      <3> QED
        BY <3>1, <3>2
    <2> QED
      BY <1>7, <2>1, <2>2, <2>3 DEF OwnLink
  <1>11. \A t, e : Exempt(n, t, e)' <=> Exempt(n, t, e)
    BY <1>2, <1>7 DEF Exempt
  <1>12. ASSUME NEW e \in Entities PROVE Digest(n, e)'
    <2>1. Digest(n, e)
      BY <1>0 DEF Digested
    <2>2. Due(n, e) => Due(n, e)'
      BY <1>2, <1>7 DEF Due, After, Tables
    <2> QED
      BY <1>2, <1>7, <1>11, <2>1, <2>2 DEF Digest
  <1>13. ASSUME NEW e \in Targets PROVE LinkStored(n, e)'
    <2>1. LinkStored(n, e)
      BY <1>0 DEF LinksStored
    <2>2. OnPage(n, "links", e, hubLink[e]) => OnPage(n, "links", e, hubLink[e])' \/ r.id = e
      BY <1>7 DEF OnPage
    <2>3. After(<<hubLink[e], e>>, Seen(n, "links")) => After(<<hubLink[e], e>>, Seen(n, "links"))'
      BY <1>7 DEF After, Tables
    <2>4. link[n][e] > 0 \/ r.id = e => link'[n][e] > 0
      BY <1>6
    <2>5. hubLink'[e] = hubLink[e]
      BY <1>7
    <2> QED
      BY <1>11, <2>1, <2>2, <2>3, <2>4, <2>5 DEF LinkStored
  <1> QED
    BY <1>7, <1>8, <1>9, <1>10, <1>12, <1>13 DEF GraphInv

\* The row an upsert makes of the one it has read and the record.
Taken(o, r) == IF r.ts > o.ts THEN Merged(o, r) ELSE Enriched(o, r)

LEMMA TakenIs ==
  ASSUME NEW o \in Rows, NEW r \in Records
  PROVE  /\ Taken(o, r) \in Rows
         /\ Taken(o, r).aliases = o.aliases \cup r.aliases
         /\ Taken(o, r).ts = IF r.ts > o.ts THEN r.ts ELSE o.ts
         /\ Taken(o, r).kind = IF r.ts > o.ts THEN Or(r.kind, o.kind) ELSE Or(o.kind, r.kind)
         /\ \A t \in Nat : [Taken(o, r) EXCEPT !.ts = t] \in Rows
         /\ [Taken(o, r) EXCEPT !.ts = Taken(o, r).ts] = Taken(o, r)
  <1> DEFINE A == o.aliases \cup r.aliases
             k == IF r.ts > o.ts THEN Or(r.kind, o.kind) ELSE Or(o.kind, r.kind)
             t == IF r.ts > o.ts THEN r.ts ELSE o.ts
  <1>1. A \in SUBSET Aliases /\ t \in Nat
    BY DEF Rows, Records
  <1>2. k \in Kinds \cup {NoKind}
    BY OrIs DEF Rows, Records
  <1>3. Taken(o, r) = [ts |-> t, aliases |-> A, kind |-> k]
    <2>1. CASE r.ts > o.ts
      BY <2>1 DEF Taken, Merged
    <2>2. CASE ~(r.ts > o.ts)
      BY <2>2, EnrichedIs DEF Taken
    <2> QED
      BY <2>1, <2>2
  <1>4. A = o.aliases \cup r.aliases
    OBVIOUS
  <1>5. k = IF r.ts > o.ts THEN Or(r.kind, o.kind) ELSE Or(o.kind, r.kind)
    OBVIOUS
  <1>6. t = IF r.ts > o.ts THEN r.ts ELSE o.ts
    OBVIOUS
  <1> HIDE DEF A, k, t
  <1>7. /\ Taken(o, r).aliases = A /\ Taken(o, r).ts = t /\ Taken(o, r).kind = k
    BY <1>3
  <1>8. Taken(o, r) \in Rows /\ \A s \in Nat : [Taken(o, r) EXCEPT !.ts = s] \in Rows
    BY <1>1, <1>2, <1>3 DEF Rows
  <1>9. [Taken(o, r) EXCEPT !.ts = t] = Taken(o, r)
    BY <1>3
  <1> QED
    BY <1>4, <1>5, <1>6, <1>7, <1>8, <1>9

LEMMA GraphStoreEntity == ASSUME GraphInv, NEW n \in Nodes, StoreEntity(n) PROVE GraphInv'
  <1>0. /\ TypeOK /\ Shaped /\ Stamped /\ Sending /\ Paging /\ Reading
        /\ OwnRows /\ OwnLinks /\ HubRows /\ PageRows /\ Digested /\ LinksStored
    BY DEF GraphInv
  <1>1. PICK r \in page[n] :
          /\ IsFirst(n, r) /\ Return(n, r)
          /\ \/ Taken(snap[n], r) = snap[n] /\ UNCHANGED <<ent, pending>>
             \/ /\ Taken(snap[n], r) # snap[n] /\ Suppress(n, r)
                /\ ent' = [ent EXCEPT ![n][r.id] =
                             IF r.ts > snap[n].ts THEN Taken(snap[n], r)
                             ELSE [Taken(snap[n], r) EXCEPT !.ts = ent[n][r.id].ts]]
    BY DEF StoreEntity, Taken
  <1>2. pc[n] = "store" /\ tab[n] = "entities" /\ UNCHANGED <<link, faults, missed>>
    BY DEF StoreEntity
  <1>3. r \in Proper /\ r.tab = "entities" /\ AtHub(r) /\ PageRow(n, r)
    BY <1>0, <1>2 DEF Shaped, Paging, Storing, PageRows
  <1> DEFINE f == r.id
             o == ent[n][f]
  <1>4. /\ r \in Records /\ r.ts \in Nat /\ f \in Entities /\ f \in Targets /\ o \in Rows /\ snap[n] \in Rows
        /\ r.kind \in Kinds \cup {NoKind} /\ o.kind \in Kinds \cup {NoKind} /\ o.ts \in Nat /\ hub[f].ts \in Nat
        /\ hub[f].kind \in Kinds \cup {NoKind}
    BY <1>0, <1>3, ProperIs DEF TypeOK, Rows
  <1>5. /\ pending'[n] \subseteq pending[n] /\ pending' \in [Nodes -> SUBSET Records]
        /\ \A m \in Nodes : m # n => pending'[m] = pending[m]
        /\ \A p \in pending[n] : p \in pending'[n] \/ (p.ts > mark[n] /\ p.tab = "entities" /\ p.id = f)
    <2>1. CASE Suppress(n, r)
      <3> DEFINE kept == {p \in pending[n] : ~(/\ p.ts > mark[n] /\ p.tab = r.tab
                                               /\ p.tab = "entities" => p.id = r.id)}
      <3>1. pending' = [pending EXCEPT ![n] = kept]
        BY <2>1 DEF Suppress
      <3>2. /\ kept \subseteq pending[n]
            /\ \A p \in pending[n] : p \in kept \/ (p.ts > mark[n] /\ p.tab = "entities" /\ p.id = f)
        BY <1>3
      <3> HIDE DEF kept
      <3> QED
        BY <1>0, <3>1, <3>2 DEF TypeOK
    <2>2. CASE UNCHANGED <<ent, pending>>
      BY <1>0, <2>2 DEF TypeOK
    <2> QED
      BY <1>1, <2>1, <2>2
  <1>6. /\ ent' \in [Nodes -> [Entities -> Rows]]
        /\ \A m \in Nodes : m # n => ent'[m] = ent[m]
        /\ \A e \in Entities : e # f => ent'[n][e] = ent[n][e]
    <2>1. ent \in [Nodes -> [Entities -> Rows]]
      BY <1>0 DEF TypeOK
    <2>2. ASSUME NEW x \in Rows, ent' = [ent EXCEPT ![n][f] = x]
          PROVE  /\ ent' \in [Nodes -> [Entities -> Rows]]
                 /\ \A m \in Nodes : m # n => ent'[m] = ent[m]
                 /\ \A e \in Entities : e # f => ent'[n][e] = ent[n][e]
      <3> HIDE DEF f
      <3> QED
        BY <1>4, <2>1, <2>2
    <2>3. (IF r.ts > snap[n].ts THEN Taken(snap[n], r) ELSE [Taken(snap[n], r) EXCEPT !.ts = ent[n][f].ts]) \in Rows
      <3>1. Taken(snap[n], r) \in Rows /\ [Taken(snap[n], r) EXCEPT !.ts = ent[n][f].ts] \in Rows
        BY <1>4, TakenIs
      <3> QED
        BY <3>1
    <2> QED
      BY <1>1, <2>1, <2>2, <2>3
  <1>7. <<n, "entities", f>> \notin mixed => ent'[n][f] = Taken(o, r)
    <2> SUFFICES ASSUME <<n, "entities", f>> \notin mixed PROVE ent'[n][f] = Taken(o, r)
      OBVIOUS
    <2>1. snap[n] = o
      BY <1>0, <1>1, <1>2 DEF Reading
    <2>2. CASE Taken(snap[n], r) = snap[n] /\ UNCHANGED <<ent, pending>>
      BY <2>1, <2>2
    <2>3. CASE ent' = [ent EXCEPT ![n][f] = IF r.ts > snap[n].ts THEN Taken(snap[n], r)
                                            ELSE [Taken(snap[n], r) EXCEPT !.ts = ent[n][f].ts]]
      <3>1. (IF r.ts > o.ts THEN Taken(o, r) ELSE [Taken(o, r) EXCEPT !.ts = o.ts]) = Taken(o, r)
        <4>1. [Taken(o, r) EXCEPT !.ts = Taken(o, r).ts] = Taken(o, r)
          BY <1>4, TakenIs
        <4>2. ~(r.ts > o.ts) => Taken(o, r).ts = o.ts
          BY <1>4, TakenIs
        <4> HIDE DEF o
        <4> QED
          BY <4>1, <4>2
      <3>2. ent \in [Nodes -> [Entities -> Rows]]
        BY <1>0 DEF TypeOK
      <3> DEFINE x == IF r.ts > snap[n].ts THEN Taken(snap[n], r) ELSE [Taken(snap[n], r) EXCEPT !.ts = ent[n][f].ts]
      <3>3. x = Taken(o, r)
        BY <2>1, <3>1
      <3>4. ent' = [ent EXCEPT ![n][f] = x]
        BY <2>3
      <3> HIDE DEF x, f
      <3>5. ent'[n][f] = x
        BY <1>4, <3>2, <3>4
      <3> QED
        BY <3>3, <3>5
    <2> QED
      BY <1>1, <2>2, <2>3
  <1>8. /\ page' \in [Nodes -> SUBSET Records] /\ snap' \in [Nodes -> Rows] /\ mark' \in [Nodes -> Nat]
        /\ pc' \in [Nodes -> {"idle", "sent", "fetch", "apply", "store"}]
        /\ UNCHANGED <<clock, writes, cursor, batch, tab, top, full, hub, hubLink, reqs, said, mixed>>
        /\ Shaped' /\ Stamped' /\ Sending' /\ Paging' /\ Reading' /\ HubRows' /\ PageRows'
        /\ (\A e \in Entities : <<n, "entities", e>> \notin mixed => OwnRow(n, e)') => OwnRows'
        /\ (\A e \in Targets : OwnLink(n, e)') => OwnLinks'
        /\ (\A e \in Entities : Digest(n, e)') => Digested'
        /\ (\A e \in Targets : LinkStored(n, e)') => LinksStored'
        /\ \A t \in Tables : Seen(n, t)' = Seen(n, t)
        /\ \A t, e, ts : OnPage(n, t, e, ts) =>
              OnPage(n, t, e, ts)' \/ (tab[n] = t /\ r.id = e /\ r.ts = ts)
        /\ Mine(n)' \subseteq Mine(n)
    <2>1. \A m \in Nodes : m # n => ent'[m] = ent[m] /\ link'[m] = link[m] /\ pending'[m] = pending[m]
      BY <1>2, <1>5, <1>6
    <2> QED
      BY <1>1, <1>2, <1>5, <2>1, GraphReturn
  <1>9. TypeOK'
    BY <1>0, <1>2, <1>5, <1>6, <1>8 DEF TypeOK
  <1>10. \A p \in pending[n] : /\ p.tab = "links" => p \in pending'[n]
                               /\ <<n, "entities", p.id>> \notin mixed => p \in pending'[n]
    BY <1>0, <1>2, <1>5 DEF Reading
  <1> DEFINE N == Taken(o, r)
             h == hub[f]
  <1>11. /\ N.aliases = o.aliases \cup r.aliases /\ N.ts \in Nat
         /\ r.ts > o.ts => N.ts = r.ts /\ (r.kind # NoKind => N.kind = r.kind) /\ (r.kind = NoKind => N.kind = o.kind)
         /\ r.ts <= o.ts => N.ts = o.ts /\ (o.kind # NoKind => N.kind = o.kind) /\ (o.kind = NoKind => N.kind = r.kind)
    <2>1. /\ N.aliases = o.aliases \cup r.aliases /\ N \in Rows /\ N.ts = IF r.ts > o.ts THEN r.ts ELSE o.ts
          /\ N.kind = IF r.ts > o.ts THEN Or(r.kind, o.kind) ELSE Or(o.kind, r.kind)
      BY <1>4, TakenIs
    <2>2. /\ r.kind # NoKind => Or(r.kind, o.kind) = r.kind
          /\ r.kind = NoKind => Or(r.kind, o.kind) = o.kind
          /\ o.kind # NoKind => Or(o.kind, r.kind) = o.kind
          /\ o.kind = NoKind => Or(o.kind, r.kind) = r.kind
      BY <1>4, OrIs
    <2>3. o.ts \in Nat /\ r.ts \in Nat
      BY <1>4
    <2> HIDE DEF N, o
    <2> QED
      BY <2>1, <2>2, <2>3 DEF Rows
  <1>12. /\ r.ts <= h.ts /\ r.aliases \subseteq h.aliases /\ (r.kind = NoKind \/ h.kind # NoKind)
         /\ r.ts = h.ts => r.aliases = h.aliases /\ r.kind = h.kind /\ h.origin # n
         /\ r.ts # h.ts => h.origin = n \/ After(<<h.ts, f>>, top[n]) \/ Exempt(n, "entities", f)
    BY <1>3 DEF AtHub, PageRow
  <1>13. ASSUME NEW e \in Entities, <<n, "entities", e>> \notin mixed PROVE OwnRow(n, e)'
    <2>1. OwnRow(n, e)
      BY <1>0, <1>13 DEF OwnRows
    <2>2. \A p \in pending[n] : p.tab = "entities" /\ p.id = e => p \in pending'[n]
      BY <1>10, <1>13
    <2>3. CASE e # f
      <3>1. ent'[n][e] = ent[n][e]
        BY <1>6, <2>3
      <3> QED
        BY <1>5, <1>8, <2>1, <2>2, <3>1 DEF OwnRow
    <2>4. CASE e = f
      <3> DEFINE about(p) == p.tab = "entities" /\ p.id = f
      <3>1. ent'[n][f] = N
        BY <1>7, <1>13, <2>4
      <3>2. /\ said[n][f] \subseteq o.aliases
            /\ \A x \in o.aliases : x \in h.aliases \/ \E p \in pending[n] : about(p) /\ x \in p.aliases
            /\ o.kind # NoKind /\ h.kind = NoKind => \E p \in pending[n] : about(p) /\ p.kind # NoKind
            /\ o.ts > h.ts => \E p \in pending[n] : about(p) /\ p.ts = o.ts
            /\ \A p \in Mine(n) : about(p) =>
                  /\ p.aliases \subseteq o.aliases /\ p.ts <= o.ts
                  /\ p.kind # NoKind => o.kind # NoKind
                  /\ p.ts = o.ts => p.kind \in {NoKind, o.kind}
            /\ h.origin = n => h.ts <= o.ts
            /\ h.ts = o.ts /\ h.origin # n => h.kind \in {NoKind, o.kind}
        BY <2>1, <2>4 DEF OwnRow
      <3>3. \A p \in Mine(n) : p.ts \in Nat
        BY <1>0, ProperIs DEF Mine, Shaped
      <3>4. o.ts \in Nat /\ h.ts \in Nat /\ r.ts \in Nat
        BY <1>4
      <3>5. \A p \in pending[n] : about(p) => p \in pending'[n]
        BY <2>2, <2>4
      <3> HIDE DEF o, h, N, about, f
      <3>6. said[n][f] \subseteq N.aliases
        BY <1>11, <3>2
      <3>7. \A x \in N.aliases : x \in h.aliases \/ \E p \in pending'[n] : about(p) /\ x \in p.aliases
        BY <1>11, <1>12, <3>2, <3>5
      <3>8. N.kind # NoKind /\ h.kind = NoKind => \E p \in pending'[n] : about(p) /\ p.kind # NoKind
        <4>1. h.kind = NoKind => r.kind = NoKind
          BY <1>12
        <4>2. r.kind = NoKind => N.kind = o.kind \/ N.kind = NoKind
          BY <1>11, <3>4
        <4> QED
          BY <3>2, <3>5, <4>1, <4>2
      <3>9. N.ts > h.ts => \E p \in pending'[n] : about(p) /\ p.ts = N.ts
        <4>1. N.ts > h.ts => N.ts = o.ts
          BY <1>11, <1>12, <3>4
        <4> QED
          BY <3>2, <3>5, <4>1
      <3>10. ASSUME NEW p \in Mine(n), about(p)
             PROVE  /\ p.aliases \subseteq N.aliases /\ p.ts <= N.ts
                    /\ p.kind # NoKind => N.kind # NoKind
                    /\ p.ts = N.ts => p.kind \in {NoKind, N.kind}
        <4>1. p.aliases \subseteq N.aliases
          BY <1>11, <3>2, <3>10
        <4>2. p.ts <= o.ts /\ p.ts \in Nat /\ o.ts <= N.ts
          BY <1>11, <3>2, <3>3, <3>4, <3>10
        <4>3. p.ts <= N.ts
          BY <1>11, <3>4, <4>2
        <4>4. o.kind # NoKind => N.kind # NoKind
          BY <1>11, <3>4
        <4>5. p.kind # NoKind => o.kind # NoKind
          BY <3>2, <3>10
        <4>6. ASSUME p.ts = N.ts PROVE p.kind \in {NoKind, N.kind}
          <5>1. p.ts = o.ts /\ r.ts <= o.ts
            BY <1>11, <3>4, <4>2, <4>6
          <5>2. p.kind \in {NoKind, o.kind}
            BY <3>2, <3>10, <5>1
          <5>3. o.kind # NoKind => N.kind = o.kind
            BY <1>11, <5>1
          <5> QED
            BY <5>2, <5>3
        <4> QED
          BY <4>1, <4>3, <4>4, <4>5, <4>6
      <3>11. h.origin = n => h.ts <= N.ts
        BY <1>11, <3>2, <3>4
      <3>12. ASSUME h.ts = N.ts, h.origin # n PROVE h.kind \in {NoKind, N.kind}
        <4>1. CASE r.ts > o.ts
          <5>1. r.ts = h.ts
            BY <1>11, <3>12, <4>1
          <5>2. r.kind = h.kind
            BY <1>12, <5>1
          <5> QED
            BY <1>11, <4>1, <5>2
        <4>2. CASE r.ts <= o.ts
          <5>1. h.ts = o.ts
            BY <1>11, <3>12, <4>2
          <5>2. h.kind \in {NoKind, o.kind}
            BY <3>2, <3>12, <5>1
          <5> QED
            BY <1>11, <4>2, <5>2
        <4> QED
          BY <3>4, <4>1, <4>2
      <3>13. UNCHANGED <<hub, said>>
        BY <1>8
      <3>14. ent'[n][f] = N /\ hub'[f] = h
        BY <3>1, <3>13 DEF h
      <3>15. \A p \in Mine(n)' : p \in Mine(n)
        BY <1>8
      <3>16. OwnRow(n, f)'
        BY <3>6, <3>7, <3>8, <3>9, <3>10, <3>11, <3>12, <3>13, <3>14, <3>15 DEF OwnRow, about
      <3> QED
        BY <2>4, <3>16 DEF f
    <2> QED
      BY <2>3, <2>4
  <1>14. ASSUME NEW e \in Targets PROVE OwnLink(n, e)'
    <2>1. OwnLink(n, e)
      BY <1>0 DEF OwnLinks
    <2>2. LinkRecord(e, link[n][e]) \in pending[n] => LinkRecord(e, link[n][e]) \in pending'[n]
      BY <1>10 DEF LinkRecord
    <2> QED
      BY <1>2, <1>8, <2>1, <2>2 DEF OwnLink
  <1>15. \A t, e : Exempt(n, t, e)' <=> Exempt(n, t, e)
    BY <1>2, <1>8 DEF Exempt
  <1>16. ASSUME NEW e \in Entities, ~Exempt(n, "entities", e)', ~Due(n, e)'
         PROVE  /\ hub'[e].aliases \subseteq ent'[n][e].aliases
                /\ hub'[e].kind \in {NoKind, ent'[n][e].kind} \/ ent'[n][e].ts > hub'[e].ts
    <2>1. ~Exempt(n, "entities", e) /\ <<n, "entities", e>> \notin mixed
      BY <1>15, <1>16 DEF Exempt
    <2>2. OwnRow(n, e)
      BY <1>0, <2>1 DEF OwnRows
    <2>3. Digest(n, e)
      BY <1>0 DEF Digested
    <2>4. Due(n, e) => e = f /\ r.ts = hub[e].ts
      <3>1. OnPage(n, "entities", e, hub[e].ts) => OnPage(n, "entities", e, hub[e].ts)' \/ (e = f /\ r.ts = hub[e].ts)
        BY <1>8
      <3>2. hub'[e] = hub[e]
        BY <1>8
      <3>3. After(<<hub[e].ts, e>>, Seen(n, "entities")) => After(<<hub[e].ts, e>>, Seen(n, "entities"))'
        BY <1>8 DEF After, Tables
      <3> QED
        BY <1>16, <3>1, <3>2, <3>3 DEF Due
    <2>5. CASE e # f
      <3>1. ent'[n][e] = ent[n][e] /\ hub'[e] = hub[e]
        BY <1>6, <1>8, <2>5
      <3> QED
        BY <2>1, <2>3, <2>4, <2>5, <3>1 DEF Digest
    <2>6. CASE e = f
      <3>1. ent'[n][f] = N /\ hub'[f] = h
        BY <1>7, <1>8, <2>1, <2>6
      <3>2. o.ts \in Nat /\ h.ts \in Nat /\ r.ts \in Nat
        BY <1>4
      <3>3. /\ h.origin = n => h.ts <= o.ts
            /\ h.ts = o.ts /\ h.origin # n => h.kind \in {NoKind, o.kind}
        BY <2>2, <2>6 DEF OwnRow
      <3>4. CASE r.ts = h.ts
        <4> HIDE DEF o, h, N, f
        <4>1. r.aliases = h.aliases /\ r.kind = h.kind /\ h.origin # n
          BY <1>12, <3>4
        <4>2. h.aliases \subseteq N.aliases
          BY <1>11, <4>1
        <4>3. CASE r.ts > o.ts
          <5>1. h.kind \in {NoKind, N.kind}
            BY <1>11, <4>1, <4>3
          <5> QED
            BY <2>6, <3>1, <4>2, <5>1 DEF f
        <4>4. CASE r.ts <= o.ts
          <5>1. N.ts = o.ts /\ (o.kind # NoKind => N.kind = o.kind)
            BY <1>11, <4>4
          <5>2. N.ts > h.ts \/ h.ts = o.ts
            BY <3>2, <3>4, <4>4, <5>1
          <5>3. h.kind \in {NoKind, N.kind} \/ N.ts > h.ts
            BY <3>3, <4>1, <5>1, <5>2
          <5> QED
            BY <2>6, <3>1, <4>2, <5>3 DEF f
        <4> QED
          BY <3>2, <4>3, <4>4
      <3>5. CASE r.ts # h.ts
        <4>1. ~Due(n, f)
          BY <2>4, <2>6, <3>5
        <4>2. /\ h.aliases \subseteq o.aliases
              /\ h.kind \in {NoKind, o.kind} \/ o.ts > h.ts
          BY <2>1, <2>3, <2>6, <4>1 DEF Digest
        <4>3. Seen(n, "entities") = top[n]
          BY <1>2 DEF Seen
        <4>4. h.origin = n
          BY <1>12, <2>1, <2>6, <3>5, <4>1, <4>3 DEF Due
        <4> HIDE DEF o, h, N, f
        <4>5. r.ts <= o.ts /\ h.ts <= o.ts
          BY <1>12, <3>2, <3>3, <4>4
        <4>6. N.ts = o.ts /\ (o.kind # NoKind => N.kind = o.kind) /\ o.aliases \subseteq N.aliases
          BY <1>11, <4>5
        <4>7. h.aliases \subseteq N.aliases /\ (h.kind \in {NoKind, N.kind} \/ N.ts > h.ts)
          BY <4>2, <4>6
        <4> QED
          BY <2>6, <3>1, <4>7 DEF f
      <3> QED
        BY <3>4, <3>5
    <2> QED
      BY <2>5, <2>6
  <1>17. \A e \in Entities : Digest(n, e)'
    BY <1>16 DEF Digest
  <1>18. ASSUME NEW e \in Targets PROVE LinkStored(n, e)'
    <2>1. LinkStored(n, e)
      BY <1>0 DEF LinksStored
    <2>2. ~OnPage(n, "links", e, hubLink[e])
      BY <1>2 DEF OnPage
    <2>3. After(<<hubLink[e], e>>, Seen(n, "links")) => After(<<hubLink[e], e>>, Seen(n, "links"))'
      BY <1>8 DEF After, Tables
    <2>4. hubLink'[e] = hubLink[e]
      BY <1>8
    <2> QED
      BY <1>2, <1>15, <2>1, <2>2, <2>3, <2>4 DEF LinkStored
  <1> QED
    BY <1>8, <1>9, <1>13, <1>14, <1>17, <1>18 DEF GraphInv

-----------------------------------------------------------------------------
(* The rows the hub has changed and not committed.                         *)

LEMMA TodoOne ==
  ASSUME Shaped, NEW q \in reqs, NEW r, NEW s, r \in Todo(q, "entities"), s \in Todo(q, "entities")
  PROVE  r = s
  <1>1. r \in Proper /\ s \in Proper /\ r.tab = "entities" /\ s.tab = "entities"
    BY DEF Todo, Shaped
  <1>2. Pos(r) \in Nat \X Nat /\ Pos(s) \in Nat \X Nat
    BY <1>1, ProperIs
  <1>3. r # s => After(Pos(s), Pos(r)) /\ After(Pos(r), Pos(s))
    BY <1>1 DEF Todo
  <1> QED
    BY <1>2, <1>3, AfterIs

\* Requests come from requests, other than without a stamp, and what they have locked stays.
LEMMA LockStays ==
  ASSUME Locking, clock \in Nat, clock' \in Nat, clock <= clock',
         \A q \in reqs : q.stamp \in Nat,
         \A q \in reqs' : q.stamp > 0 =>
            /\ \E x \in reqs : x.todo = q.todo /\ x.stamp = q.stamp
            /\ \A r \in Todo(q, "entities") : hub'[r.id] = hub[r.id],
         \A q, p \in reqs' : q # p /\ q.stamp > 0 /\ p.stamp > 0 =>
            \E x, y \in reqs : /\ x # y /\ x.todo = q.todo /\ x.stamp = q.stamp
                               /\ y.todo = p.todo /\ y.stamp = p.stamp,
         \A m \in Nodes : \A s \in Mine(m)' : s \in Mine(m) \/ s.ts = clock + 1
  PROVE  Locking'
  <1>1. \A x, q : x.todo = q.todo => Todo(x, "entities") = Todo(q, "entities")
    BY DEF Todo
  <1>2. ASSUME NEW q \in reqs', q.stamp > 0
        PROVE  /\ q.stamp <= clock'
               /\ \A r \in Todo(q, "entities") : r.ts <= hub'[r.id].ts /\ hub'[r.id].ts < q.stamp
               /\ \A m \in Nodes : \A s \in Mine(m)' : s.ts # q.stamp
    <2>1. PICK x \in reqs : x.todo = q.todo /\ x.stamp = q.stamp
      BY <1>2
    <2>2. x.stamp <= clock /\ x.stamp \in Nat
      BY <1>2, <2>1 DEF Locking
    <2>3. \A r \in Todo(x, "entities") : r.ts <= hub[r.id].ts /\ hub[r.id].ts < x.stamp
      BY <1>2, <2>1 DEF Locking
    <2>4. \A m \in Nodes : \A s \in Mine(m) : s.ts # x.stamp
      BY <1>2, <2>1 DEF Locking
    <2>5. \A r \in Todo(q, "entities") : r.ts <= hub'[r.id].ts /\ hub'[r.id].ts < q.stamp
      BY <1>1, <1>2, <2>1, <2>3
    <2>6. ASSUME NEW m \in Nodes, NEW s \in Mine(m)' PROVE s.ts # q.stamp
      <3>1. CASE s \in Mine(m)
        BY <2>1, <2>4, <3>1
      <3>2. CASE s.ts = clock + 1
        BY <2>1, <2>2, <3>2
      <3> QED
        BY <3>1, <3>2
    <2> QED
      BY <2>1, <2>2, <2>5, <2>6
  <1>3. ASSUME NEW q \in reqs', NEW p \in reqs', q.stamp > 0, p.stamp > 0, q # p,
               NEW r \in Todo(q, "entities"), NEW s \in Todo(p, "entities")
        PROVE  r.id # s.id
    <2>1. PICK x \in reqs, y \in reqs : /\ x # y /\ x.todo = q.todo /\ x.stamp = q.stamp
                                        /\ y.todo = p.todo /\ y.stamp = p.stamp
      BY <1>3
    <2>2. r \in Todo(x, "entities") /\ s \in Todo(y, "entities")
      BY <1>1, <2>1
    <2> QED
      BY <1>3, <2>1, <2>2 DEF Locking
  <1> QED
    BY <1>2, <1>3 DEF Locking

\* A record is worked off: its request has no stamp any more.
LEMMA LockDone ==
  ASSUME GraphInv, Locking, NEW q \in reqs, NEW r \in q.todo, Done(q, r), UNCHANGED <<clock, pending>>,
         \A p \in reqs : p # q /\ p.stamp > 0 => \A s \in Todo(p, "entities") : hub'[s.id] = hub[s.id]
  PROVE  Locking'
  <1> DEFINE rest == [q EXCEPT !.todo = @ \ {r}, !.stamp = 0]
  <1>1. clock \in Nat /\ \A p \in reqs : p \in Requests /\ p.stamp \in Nat
    BY DEF GraphInv, TypeOK, Requests
  <1>2. rest.stamp = 0 /\ rest.node = q.node /\ rest.todo = q.todo \ {r}
    BY <1>1 DEF Requests
  <1>3. \A p \in reqs' : (p \in reqs /\ p # q) \/ p = rest
    BY DEF Done
  <1> HIDE DEF rest
  <1>4. \A p \in reqs' : p.stamp > 0 => p \in reqs /\ p # q
    BY <1>2, <1>3
  <1>5. \A m \in Nodes : Mine(m)' \subseteq Mine(m)
    BY <1>2, <1>3 DEF Mine
  <1>6. \A p \in reqs' : p.stamp > 0 =>
           /\ \E x \in reqs : x.todo = p.todo /\ x.stamp = p.stamp
           /\ \A s \in Todo(p, "entities") : hub'[s.id] = hub[s.id]
    BY <1>4
  <1>7. \A t, p \in reqs' : t # p /\ t.stamp > 0 /\ p.stamp > 0 =>
            \E x, y \in reqs : /\ x # y /\ x.todo = t.todo /\ x.stamp = t.stamp
                               /\ y.todo = p.todo /\ y.stamp = p.stamp
    BY <1>4
  <1> QED
    BY <1>1, <1>5, <1>6, <1>7, LockStays

LEMMA LockHub ==
  ASSUME GraphInv, Locking, NEW q \in reqs,
         HubWin(q) \/ HubCommit(q) \/ HubIgnore(q) \/ HubInsertLink(q)
  PROVE  Locking'
  <1>1. CASE HubWin(q)
    <2>1. PICK r \in Todo(q, "entities") :
             /\ Free(q, r.id) /\ Done(q, r) /\ UNCHANGED <<clock, pending>>
             /\ \E v : hub' = [hub EXCEPT ![r.id] = v]
      BY <1>1 DEF HubWin
    <2>2. \A p \in reqs : p # q /\ p.stamp > 0 => \A s \in Todo(p, "entities") : hub'[s.id] = hub[s.id]
      <3> SUFFICES ASSUME NEW p \in reqs, p # q, p.stamp > 0, NEW s \in Todo(p, "entities")
                   PROVE  hub'[s.id] = hub[s.id]
        OBVIOUS
      <3>1. s.id # r.id
        BY <2>1 DEF Free
      <3>2. s.id \in Entities
        BY ProperIs DEF GraphInv, Shaped, Todo
      <3> QED
        BY <2>1, <3>1, <3>2 DEF GraphInv, TypeOK
    <2>3. r \in q.todo
      BY DEF Todo
    <2> QED
      BY <2>1, <2>2, <2>3, LockDone
  <1>2. CASE HubCommit(q)
    <2>1. PICK r \in Todo(q, "entities") :
             /\ q.stamp > 0 /\ Done(q, r) /\ UNCHANGED <<clock, pending>>
             /\ \E v : hub' = [hub EXCEPT ![r.id] = v]
      BY <1>2 DEF HubCommit
    <2>2. \A p \in reqs : p # q /\ p.stamp > 0 => \A s \in Todo(p, "entities") : hub'[s.id] = hub[s.id]
      <3> SUFFICES ASSUME NEW p \in reqs, p # q, p.stamp > 0, NEW s \in Todo(p, "entities")
                   PROVE  hub'[s.id] = hub[s.id]
        OBVIOUS
      <3>1. s.id # r.id
        BY <2>1 DEF Locking
      <3>2. s.id \in Entities
        BY ProperIs DEF GraphInv, Shaped, Todo
      <3> QED
        BY <2>1, <3>1, <3>2 DEF GraphInv, TypeOK
    <2>3. r \in q.todo
      BY DEF Todo
    <2> QED
      BY <2>1, <2>2, <2>3, LockDone
  <1>3. CASE HubIgnore(q)
    <2>1. PICK r \in q.todo : Done(q, r) /\ UNCHANGED <<clock, pending, hub>>
      BY <1>3 DEF HubIgnore, Todo
    <2> QED
      BY <2>1, LockDone
  <1>4. CASE HubInsertLink(q)
    <2>1. PICK r \in q.todo : Done(q, r) /\ UNCHANGED <<clock, pending, hub>>
      BY <1>4 DEF HubInsertLink, Todo
    <2> QED
      BY <2>1, LockDone
  <1> QED
    BY <1>1, <1>2, <1>3, <1>4

LEMMA LockEnrich == ASSUME GraphInv, Locking, NEW q \in reqs, HubEnrich(q) PROVE Locking'
  <1> DEFINE open == [q EXCEPT !.stamp = clock + 1]
  <1>0. Shaped /\ Stamped /\ clock \in Nat /\ \A p \in reqs : p \in Requests
    BY DEF GraphInv, TypeOK
  <1>1. PICK r \in Todo(q, "entities") :
          /\ Free(q, r.id) /\ r.ts <= hub[r.id].ts /\ clock' = clock + 1 /\ reqs' = (reqs \ {q}) \cup {open}
          /\ UNCHANGED <<pending, hub>>
    BY DEF HubEnrich
  <1>2. open.node = q.node /\ open.todo = q.todo /\ open.stamp = clock + 1
    BY <1>0 DEF Requests
  <1> HIDE DEF open
  <1>3. Todo(open, "entities") = Todo(q, "entities")
    BY <1>2 DEF Todo
  <1>4. \A m \in Nodes : Mine(m)' = Mine(m)
    BY <1>1, <1>2 DEF Mine
  <1>5. \A m \in Nodes : \A s \in Mine(m) : s.ts \in Nat /\ s.ts <= clock
    BY <1>0, ProperIs DEF Mine, Shaped, Stamped
  <1>6. r \in Proper
    BY <1>0 DEF Shaped, Todo
  <1>7. hub[r.id].ts \in Nat /\ hub[r.id].ts <= clock
    <2>1. r.id \in Entities
      BY <1>6, ProperIs DEF Todo
    <2> QED
      BY <1>0, <2>1 DEF GraphInv, TypeOK, Stamped
  <1>8. ASSUME NEW p \in reqs', p.stamp > 0
        PROVE  /\ p.stamp <= clock'
               /\ \A s \in Todo(p, "entities") : s.ts <= hub'[s.id].ts /\ hub'[s.id].ts < p.stamp
               /\ \A m \in Nodes : \A s \in Mine(m)' : s.ts # p.stamp
    <2>1. CASE p \in reqs
      <3>1. p.stamp \in Nat /\ p.stamp <= clock
        BY <1>0, <1>8, <2>1 DEF Locking, Requests
      <3> QED
        BY <1>0, <1>1, <1>4, <1>8, <2>1, <3>1 DEF Locking
    <2>2. CASE p = open
      <3>1. \A s \in Todo(p, "entities") : s = r
        BY <1>0, <1>3, <2>2, TodoOne
      <3>2. \A s \in Todo(p, "entities") : s.ts <= hub'[s.id].ts /\ hub'[s.id].ts < p.stamp
        BY <1>0, <1>1, <1>2, <1>7, <2>2, <3>1
      <3>3. \A m \in Nodes : \A s \in Mine(m)' : s.ts # p.stamp
        BY <1>0, <1>2, <1>4, <1>5, <2>2
      <3>4. p.stamp <= clock'
        BY <1>0, <1>1, <1>2, <2>2
      <3> QED
        BY <3>2, <3>3, <3>4
    <2> QED
      BY <1>1, <2>1, <2>2
  <1>9. ASSUME NEW t \in reqs', NEW p \in reqs', t.stamp > 0, p.stamp > 0, t # p,
               NEW x \in Todo(t, "entities"), NEW y \in Todo(p, "entities")
        PROVE  x.id # y.id
    <2>a. \A z \in reqs : z.stamp > 0 => \A u \in Todo(z, "entities") : u.id # r.id
      BY <1>1 DEF Free
    <2>b. \A u \in Todo(open, "entities") : u = r
      BY <1>0, <1>3, TodoOne
    <2>1. CASE t \in reqs /\ p \in reqs
      BY <1>9, <2>1 DEF Locking
    <2>2. CASE t = open /\ p \in reqs
      BY <1>9, <2>2, <2>a, <2>b
    <2>3. CASE p = open /\ t \in reqs
      BY <1>9, <2>3, <2>a, <2>b
    <2> QED
      BY <1>1, <1>9, <2>1, <2>2, <2>3
  <1> QED
    BY <1>8, <1>9 DEF Locking

\* What the nodes do leaves the hub's rows alone.
LEMMA LockNode ==
  ASSUME GraphInv, Locking, NEW n \in Nodes,
         \/ Push(n) \/ PushAck(n)
         \/ Fetch(n) \/ Read(n) \/ StoreEntity(n) \/ StoreLink(n)
         \/ SkipRecord(n) \/ SaveCursor(n) \/ Interrupt(n)
  PROVE  Locking'
  <1>0. /\ clock \in Nat /\ \A p \in reqs : p \in Requests /\ p.stamp \in Nat
        /\ pending \in [Nodes -> SUBSET Records]
    BY DEF GraphInv, TypeOK, Requests
  <1>1. ASSUME UNCHANGED <<clock, hub>>, \A p \in reqs' : p \in reqs \/ p.stamp = 0,
               \A m \in Nodes : Mine(m)' \subseteq Mine(m)
        PROVE  Locking'
    <2>1. \A p \in reqs' : p.stamp > 0 => p \in reqs
      BY <1>1
    <2>2. \A p \in reqs' : p.stamp > 0 =>
             /\ \E x \in reqs : x.todo = p.todo /\ x.stamp = p.stamp
             /\ \A s \in Todo(p, "entities") : hub'[s.id] = hub[s.id]
      BY <1>1, <2>1
    <2>3. \A t, p \in reqs' : t # p /\ t.stamp > 0 /\ p.stamp > 0 =>
              \E x, y \in reqs : /\ x # y /\ x.todo = t.todo /\ x.stamp = t.stamp
                                 /\ y.todo = p.todo /\ y.stamp = p.stamp
      BY <2>1
    <2> QED
      BY <1>0, <1>1, <2>2, <2>3, LockStays
  <1>2. CASE Push(n)
    <2> DEFINE q == [node |-> n, todo |-> pending[n], heard |-> TRUE, stamp |-> 0]
    <2>1. UNCHANGED <<clock, hub, pending>> /\ (reqs' = reqs \/ reqs' = reqs \cup {q})
      BY <1>2 DEF Push
    <2>2. q.stamp = 0 /\ q.node = n /\ q.todo = pending[n]
      OBVIOUS
    <2> HIDE DEF q
    <2>3. \A m \in Nodes : Mine(m)' \subseteq Mine(m)
      BY <2>1, <2>2 DEF Mine
    <2> QED
      BY <1>1, <2>1, <2>2, <2>3
  <1>3. CASE PushAck(n)
    <2>1. UNCHANGED <<clock, hub>> /\ reqs' \subseteq reqs /\ \A m \in Nodes : pending'[m] \subseteq pending[m]
      BY <1>0, <1>3 DEF PushAck
    <2>2. \A m \in Nodes : Mine(m)' \subseteq Mine(m)
      BY <2>1 DEF Mine
    <2> QED
      BY <1>1, <2>1, <2>2
  <1>4. CASE Fetch(n) \/ Read(n) \/ SaveCursor(n)
    <2>1. UNCHANGED <<clock, hub, reqs, pending>>
      BY <1>4 DEF Fetch, Read, SaveCursor
    <2> QED
      BY <1>1, <2>1 DEF Mine
  <1>5. CASE StoreEntity(n) \/ StoreLink(n) \/ SkipRecord(n)
    <2>1. UNCHANGED <<clock, hub, reqs>> /\ (pending' = pending \/ \E r : Suppress(n, r))
      BY <1>5 DEF StoreEntity, StoreLink, SkipRecord, Return
    <2>2. \A m \in Nodes : pending'[m] \subseteq pending[m]
      BY <1>0, <2>1 DEF Suppress
    <2>3. \A m \in Nodes : Mine(m)' \subseteq Mine(m)
      BY <2>1, <2>2 DEF Mine
    <2> QED
      BY <1>1, <2>1, <2>3
  <1>6. CASE Interrupt(n)
    <2> DEFINE mine == {q \in reqs : q.node = n /\ q.heard}
               From(q, x) == \/ x = q /\ q \notin mine
                             \/ x \in mine /\ q = [x EXCEPT !.heard = FALSE]
    <2>1. UNCHANGED <<clock, hub, pending>>
      BY <1>6 DEF Interrupt
    <2>2. \A q \in reqs' : \E x \in reqs : From(q, x)
      <3>1. \/ reqs' = reqs \ mine
            \/ reqs' = (reqs \ mine) \cup {[p EXCEPT !.heard = FALSE] : p \in {x \in mine : x.todo # {}}}
        BY <1>6 DEF Interrupt
      <3> QED
        BY <3>1
    <2>3. \A q, x : x \in reqs /\ From(q, x) => q.node = x.node /\ q.todo = x.todo /\ q.stamp = x.stamp
      BY <1>0 DEF Requests
    <2>4. \A q, p, x : From(q, x) /\ From(p, x) => q = p
      OBVIOUS
    <2> HIDE DEF From
    <2>5. \A m \in Nodes : Mine(m)' \subseteq Mine(m)
      BY <2>1, <2>2, <2>3 DEF Mine
    <2>6. \A q \in reqs' : q.stamp > 0 =>
             /\ \E x \in reqs : x.todo = q.todo /\ x.stamp = q.stamp
             /\ \A s \in Todo(q, "entities") : hub'[s.id] = hub[s.id]
      BY <2>1, <2>2, <2>3
    <2>7. \A q, p \in reqs' : q # p /\ q.stamp > 0 /\ p.stamp > 0 =>
              \E x, y \in reqs : /\ x # y /\ x.todo = q.todo /\ x.stamp = q.stamp
                                 /\ y.todo = p.todo /\ y.stamp = p.stamp
      BY <2>2, <2>3, <2>4
    <2> QED
      BY <1>0, <2>1, <2>5, <2>6, <2>7, LockStays
  <1> QED
    BY <1>2, <1>3, <1>4, <1>5, <1>6

LEMMA LockMention ==
  ASSUME GraphInv, Locking, NEW n \in Nodes, NEW E, NEW A, NEW k, E \subseteq Targets, Mention(n, E, A, k)
  PROVE  Locking'
  <1> DEFINE rows == [e \in Entities |-> IF e \in E THEN Annotated(ent[n][e], A, k) ELSE ent[n][e]]
             added == {EntityRecord(e, rows[e]) : e \in {x \in Entities : rows[x] # ent[n][x]}}
                      \cup {LinkRecord(e, clock + 1) : e \in {x \in E : link[n][x] = 0}}
  <1>0. /\ clock \in Nat /\ pending \in [Nodes -> SUBSET Records] /\ \A p \in reqs : p.stamp \in Nat
    BY DEF GraphInv, TypeOK, Requests
  <1>1. /\ clock' = clock + 1 /\ UNCHANGED <<hub, reqs>>
        /\ pending' = [pending EXCEPT ![n] = @
             \cup {EntityRecord(e, rows[e]) : e \in {x \in Entities : rows[x] # ent[n][x]}}
             \cup {LinkRecord(e, clock + 1) : e \in {x \in E : link[n][x] = 0}}]
    BY DEF Mention
  <1>2. \A r \in added : r.ts = clock + 1
    <2>1. ASSUME NEW e \in Entities, rows[e] # ent[n][e] PROVE rows[e].ts = clock + 1
      <3>1. e \in E /\ rows[e] = Annotated(ent[n][e], A, k)
        BY <2>1
      <3> DEFINE new == Enriched(ent[n][e], [aliases |-> A, kind |-> k])
      <3>2. rows[e] = [new EXCEPT !.ts = clock + 1]
        BY <2>1, <3>1 DEF Annotated
      <3>3. ent[n][e] \in Rows
        BY DEF GraphInv, TypeOK
      <3>4. "ts" \in DOMAIN new
        BY <3>3 DEF Enriched, Rows
      <3> HIDE DEF new, rows
      <3> QED
        BY <3>2, <3>4
    <2> HIDE DEF rows
    <2> QED
      BY <2>1 DEF EntityRecord, LinkRecord
  <1>3. pending'[n] = pending[n] \cup added /\ \A m \in Nodes : m # n => pending'[m] = pending[m]
    BY <1>0, <1>1
  <1> HIDE DEF added, rows
  <1>4. \A m \in Nodes : \A s \in Mine(m)' : s \in Mine(m) \/ s.ts = clock + 1
    BY <1>1, <1>2, <1>3 DEF Mine
  <1>5. \A q \in reqs' : q.stamp > 0 =>
           /\ \E x \in reqs : x.todo = q.todo /\ x.stamp = q.stamp
           /\ \A s \in Todo(q, "entities") : hub'[s.id] = hub[s.id]
    BY <1>1
  <1>6. \A q, p \in reqs' : q # p /\ q.stamp > 0 /\ p.stamp > 0 =>
            \E x, y \in reqs : /\ x # y /\ x.todo = q.todo /\ x.stamp = q.stamp
                               /\ y.todo = p.todo /\ y.stamp = p.stamp
    BY <1>1
  <1> QED
    BY <1>0, <1>1, <1>4, <1>5, <1>6, LockStays

-----------------------------------------------------------------------------
(* Every step, and what holds at every one.                                *)

LEMMA GraphStep == GraphInv /\ Locking /\ [Next]_vars => GraphInv' /\ Locking'
  <1> SUFFICES ASSUME GraphInv, Locking, [Next]_vars PROVE GraphInv' /\ Locking'
    OBVIOUS
  <1>1. CASE UNCHANGED vars
    <2>1. UNCHANGED <<clock, writes, ent, link, pending, cursor, pc, batch, tab, page, top, full, snap, mark,
                      hub, hubLink, reqs, faults, said, missed, mixed>>
      BY <1>1 DEF vars
    <2>2. \A m \in Nodes : Mine(m)' = Mine(m) /\ Storing(m)' = Storing(m)
      BY <2>1 DEF Mine, Storing
    <2>3. TypeOK'
      BY <2>1 DEF GraphInv, TypeOK
    <2>4. Shaped'
      BY <2>1, <2>2 DEF GraphInv, Shaped
    <2>5. Stamped'
      BY <2>1, <2>2, StampsStay DEF GraphInv
    <2>6. Sending'
      BY <2>1 DEF GraphInv, Sending, AtHub
    <2>7. Reading'
      BY <2>1 DEF GraphInv, Reading, IsFirst, After, Pos
    <2>8. OwnRows' /\ OwnLinks' /\ HubRows'
      BY <2>1, <2>2, RowsStay DEF GraphInv
    <2>9. Paging' /\ PageRows' /\ Digested' /\ LinksStored'
      BY <2>1, <2>2, PullStays DEF GraphInv
    <2>10. Locking'
      BY <2>1, <2>2 DEF Locking, Todo
    <2> QED
      BY <2>3, <2>4, <2>5, <2>6, <2>7, <2>8, <2>9, <2>10 DEF GraphInv
  <1>2. ASSUME NEW n \in Nodes, NEW g \in Facts, Mention(n, g[1], g[2], g[3]) PROVE GraphInv' /\ Locking'
    <2>1. g[1] \in SUBSET Targets /\ g[2] \in SUBSET Aliases /\ g[3] \in Kinds \cup {NoKind}
      BY GraphFacts
    <2> QED
      BY <1>2, <2>1, GraphMention, LockMention
  <1>3. ASSUME NEW n \in Nodes,
               \/ Push(n) \/ PushAck(n)
               \/ Fetch(n) \/ Read(n) \/ StoreEntity(n) \/ StoreLink(n)
               \/ SkipRecord(n) \/ SaveCursor(n) \/ Interrupt(n)
        PROVE  GraphInv' /\ Locking'
    BY <1>3, LockNode, GraphPush, GraphPushAck, GraphFetch, GraphRead, GraphStoreEntity, GraphStoreLink,
       GraphSkipRecord, GraphSaveCursor, GraphInterrupt
  <1>4. ASSUME NEW q \in reqs,
               HubWin(q) \/ HubEnrich(q) \/ HubCommit(q) \/ HubIgnore(q) \/ HubInsertLink(q)
        PROVE  GraphInv' /\ Locking'
    BY <1>4, LockHub, LockEnrich, GraphHubWin, GraphHubEnrich, GraphHubCommit, GraphHubIgnore,
       GraphHubInsertLink
  <1> QED
    BY <1>1, <1>2, <1>3, <1>4 DEF Next

LEMMA GraphInvHolds == Spec => [](GraphInv /\ Locking)
  <1>1. Init => Locking
    BY DEF Init, Begun, Locking
  <1> QED
    BY <1>1, GraphInvInit, GraphStep, PTL DEF Spec

\* Rows, records, cursors and requests stay of their types, on the nodes and on the hub.
THEOREM GraphTypeCorrect == Spec => []TypeOK
  <1>1. GraphInv => TypeOK
    BY DEF GraphInv
  <1> QED
    BY <1>1, GraphInvHolds, PTL

\* The union-merge of the entities loses nothing: an alias a user has given an
\* entity stays in the row of his node, and it and every link he has made stay in
\* the outbox until the hub has them, whichever side wins a merge, whatever is
\* retried or cut off, unless a mention came between the reads and the writes
\* of an upsert of the same entity (_upsert_entity_one in sync.py and
\* _upsert_entity of the hub).
THEOREM MentionsKeptHolds == Spec => []MentionsKept
  <1>1. GraphInv => MentionsKept
    <2> SUFFICES ASSUME GraphInv, NEW n \in Nodes
                 PROVE  /\ \A e \in Entities, a \in Aliases :
                              (a \in said[n][e] /\ <<n, "entities", e>> \notin mixed) =>
                                 /\ a \in ent[n][e].aliases
                                 /\ \/ a \in hub[e].aliases
                                    \/ \E r \in pending[n] :
                                          r.tab = "entities" /\ r.id = e /\ a \in r.aliases
                        /\ \A e \in Targets :
                              (link[n][e] > 0 /\ <<n, "links", e>> \notin mixed) =>
                                 hubLink[e] > 0 \/ LinkRecord(e, link[n][e]) \in pending[n]
      BY DEF MentionsKept
    <2>1. \A e \in Entities : <<n, "entities", e>> \notin mixed => OwnRow(n, e)
      BY DEF GraphInv, OwnRows
    <2>2. \A e \in Targets : OwnLink(n, e)
      BY DEF GraphInv, OwnLinks
    <2>3. ASSUME NEW e \in Entities, NEW a \in said[n][e], <<n, "entities", e>> \notin mixed
          PROVE  /\ a \in ent[n][e].aliases
                 /\ \/ a \in hub[e].aliases
                    \/ \E r \in pending[n] : r.tab = "entities" /\ r.id = e /\ a \in r.aliases
      <3>1. OwnRow(n, e)
        BY <2>1, <2>3
      <3> QED
        BY <2>3, <3>1 DEF OwnRow
    <2>4. \A e \in Targets :
             (link[n][e] > 0 /\ <<n, "links", e>> \notin mixed) =>
                hubLink[e] > 0 \/ LinkRecord(e, link[n][e]) \in pending[n]
      BY <2>2 DEF OwnLink
    <2> QED
      BY <2>3, <2>4
  <1> QED
    BY <1>1, GraphInvHolds, PTL

\* A node that has nothing to push and is offered nothing has every entity as the
\* hub has it, and a node whose cursor has passed a link holds it, wherever the
\* pages end and whatever is interrupted: the hub's own stamp on an enriched
\* row and its missing origin make every node read it again (_upsert_entity of
\* the hub, _pull_graph_table of sync.py), unless the row came under the node's
\* cursor (missed), as one does that was pushed late or whose enrichment was
\* committed after the node had read past its stamp, or a mention came into an
\* upsert of it (mixed).
THEOREM OfferedIsHeldHolds == Spec => []OfferedIsHeld
  <1>1. ASSUME GraphInv, NEW n \in Nodes, NEW e \in Entities,
               ~Exempt(n, "entities", e), pc[n] = "idle", \A r \in pending[n] : r.id # e,
               hub[e].origin = n \/ ~After(<<hub[e].ts, e>>, cursor[n]["entities"])
        PROVE  ent[n][e].aliases = hub[e].aliases /\ ent[n][e].kind = hub[e].kind
    <2>1. OwnRow(n, e) /\ Digest(n, e)
      BY <1>1 DEF GraphInv, OwnRows, Digested, Exempt
    <2>2. page[n] = {} /\ ~Storing(n)
      BY <1>1 DEF GraphInv, Shaped, Storing
    <2>3. ~Due(n, e)
      BY <1>1, <2>2, SeenIs DEF Due, OnPage
    <2>4. hub[e].aliases \subseteq ent[n][e].aliases /\ (hub[e].kind \in {NoKind, ent[n][e].kind} \/ ent[n][e].ts > hub[e].ts)
      BY <1>1, <2>1, <2>3 DEF Digest
    <2>5. ent[n][e].aliases \subseteq hub[e].aliases /\ ~(ent[n][e].kind # NoKind /\ hub[e].kind = NoKind)
          /\ ~(ent[n][e].ts > hub[e].ts)
      BY <1>1, <2>1 DEF OwnRow
    <2>6. hub[e].kind \in {NoKind, ent[n][e].kind}
      BY <2>4, <2>5
    <2> QED
      BY <2>4, <2>5, <2>6
  <1>2. ASSUME GraphInv, NEW n \in Nodes, NEW e \in Targets, ~Exempt(n, "links", e)
        PROVE  hubLink[e] = 0 \/ link[n][e] > 0 \/ After(<<hubLink[e], e>>, cursor[n]["links"])
    <2> DEFINE p == <<hubLink[e], e>>
               c == cursor[n]["links"]
    <2>1. LinkStored(n, e)
      BY <1>2 DEF GraphInv, LinksStored
    <2>2. p \in Nat \X Nat /\ c \in Nat \X Nat /\ top[n] \in Nat \X Nat
      BY <1>2, SeenPosition DEF GraphInv, TypeOK, Tables
    <2>3. After(p, Seen(n, "links")) => After(p, c)
      <3>1. CASE tab[n] = "links" /\ Storing(n)
        <4>1. After(top[n], c) /\ Seen(n, "links") = top[n]
          BY <1>2, <3>1, SeenIs DEF GraphInv, Paging
        <4> HIDE DEF p, c
        <4> QED
          BY <2>2, <4>1, AfterIs
      <3>2. CASE ~(tab[n] = "links" /\ Storing(n))
        BY <3>2, SeenIs
      <3> QED
        BY <3>1, <3>2
    <2>4. ASSUME NEW r \in page[n], tab[n] = "links", r.id = e, r.ts = hubLink[e] PROVE After(p, c)
      <3>1. After(Pos(r), c)
        BY <1>2, <2>4 DEF GraphInv, Shaped, Paging
      <3>2. Pos(r) = p
        BY <2>4 DEF Pos
      <3> HIDE DEF p, c
      <3> QED
        BY <3>1, <3>2
    <2> QED
      BY <1>2, <2>1, <2>3, <2>4 DEF LinkStored, OnPage
  <1>3. GraphInv => OfferedIsHeld
    <2>1. GraphInv => Agreement
      BY <1>1 DEF Agreement
    <2>2. GraphInv => LinksPulled
      BY <1>2 DEF LinksPulled
    <2> QED
      BY <2>1, <2>2 DEF OfferedIsHeld
  <1> QED
    BY <1>3, GraphInvHolds, PTL
=============================================================================
