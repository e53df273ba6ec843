------------------------------ MODULE GraphSync ------------------------------
(***************************************************************************)
(* Synchronisation of the entity graph between client nodes and the hub    *)
(* (remind_me_mcp/sync.py, hub/main.py).  An entity has an id derived from *)
(* its name, so that every node makes the same one; its kind follows the   *)
(* last write, its aliases are united, and a link from a memory to it is   *)
(* never changed.  The pull still pages on time stamps, without the hub's  *)
(* sequence that memories have (HubSync).                                  *)
(*                                                                         *)
(* One memory mentions every entity, so its link to an entity goes by the  *)
(* entity's id.  The other entities have the same row everywhere already.  *)
(* Relations between entities are stored and pulled the way links are.     *)
(* Clocks are synchronised.                                                *)
(***************************************************************************)
EXTENDS Integers, FiniteSets

CONSTANTS Nodes,        \* client nodes (NODE_ID)
          NoNode,       \* the origin_node of a row the hub has enriched
          Targets,      \* ids of the entities mentioned, which are ordered
          Entities,     \* those among them whose rows are followed
          Aliases,      \* aliases an entity may have
          Kinds,        \* kinds an entity may have
          NoKind,       \* the kind of an entity nobody has given one
          PageSize,     \* PULL_PAGE_SIZE, records of one pull page
          Facts,        \* bound: what a mention may say: <<entities, aliases, kind>>
          MaxWrites,    \* bound: mentions by users in all
          MaxFaults     \* bound: interruptions and failed upserts in all

ASSUME GraphNodes    == NoNode \notin Nodes
ASSUME GraphEntities == Entities \subseteq Targets /\ Targets \subseteq Nat \ {0}
ASSUME GraphKinds    == NoKind \notin Kinds
ASSUME GraphFacts    ==
    Facts \subseteq ((SUBSET Targets) \ {{}}) \X (SUBSET Aliases) \X (Kinds \cup {NoKind})
ASSUME GraphBounds   == PageSize \in Nat \ {0} /\ MaxWrites \in Nat /\ MaxFaults \in Nat

VARIABLES
    clock,    \* the last stamp given out, by a node or by the hub
    writes,   \* mentions so far
    ent,      \* ent[n][e]: row of the entities table; ts is 0 without one
    link,     \* link[n][e]: created_at of the memory's link to e, or 0
    pending,  \* pending[n]: outbox rows of n without a sync_sends mark
    cursor,   \* cursor[n][t]: <<last_pull, last_pull_id>> of table t
    pc,       \* where the sync thread of n stands in its cycle
    tab,      \* tab[n]: the table it is pulling
    batch,    \* batch[n]: outbox rows of the push request in flight
    page,     \* page[n]: records of the page still to be stored
    top,      \* top[n]: greatest position of the page
    full,     \* full[n]: was it a full page?
    snap,     \* snap[n]: the local row the upsert under way has read
    mark,     \* mark[n]: outbox_max, as the stamp of the newest outbox row
    hub,      \* hub[e]: row of the hub's entities table, with origin_node
    hubLink,  \* hubLink[e]: created_at in the hub's memory_entities, or 0
    reqs,     \* push requests the hub is working on; stamp: the hub's stamp in a
              \* row that it has changed and not committed yet, or 0
    faults,   \* interruptions and failed upserts so far
    said,     \* history: said[n][e]: aliases users of n gave e
    missed,   \* history: <<n, t, e>>: the hub's row will not be offered to n
    mixed     \* history: <<n, t, e>>: e was mentioned during an upsert of n

nodeVars == <<ent, link, pending>>
pullVars == <<tab, page, top, full, snap, mark>>
hubVars  == <<hub, hubLink>>
history  == <<said, missed, mixed>>
vars == <<clock, writes, nodeVars, cursor, pc, batch, pullVars, hubVars, reqs,
          faults, history>>

Tables == {"entities", "links"}

Start == <<0, 0>>                       \* _EPOCH and the empty id

After(p, q) == p[1] > q[1] \/ (p[1] = q[1] /\ p[2] > q[2])

Marks == Nodes \X Tables \X Targets

Rows == [ts : Nat, aliases : SUBSET Aliases, kind : Kinds \cup {NoKind}]

NoRow == [ts |-> 0, aliases |-> {}, kind |-> NoKind]

\* A record on its way; a link has no aliases and no kind.
Records == [tab : Tables, id : Targets, ts : Nat, aliases : SUBSET Aliases,
            kind : Kinds \cup {NoKind}]

EntityRecord(e, r) == [tab |-> "entities", id |-> e, ts |-> r.ts,
                       aliases |-> r.aliases, kind |-> r.kind]

LinkRecord(e, ts) == [tab |-> "links", id |-> e, ts |-> ts,
                      aliases |-> {}, kind |-> NoKind]

Requests == [node : Nodes, todo : SUBSET Records, heard : BOOLEAN, stamp : Nat]

Pos(r) == <<r.ts, r.id>>

TypeOK ==
    /\ clock \in Nat /\ writes \in 0..MaxWrites /\ faults \in 0..MaxFaults
    /\ ent \in [Nodes -> [Entities -> Rows]]
    /\ link \in [Nodes -> [Targets -> Nat]]
    /\ pending \in [Nodes -> SUBSET Records]
    /\ cursor \in [Nodes -> [Tables -> Nat \X Nat]]
    /\ pc \in [Nodes -> {"idle", "sent", "fetch", "apply", "store"}]
    /\ tab \in [Nodes -> Tables]
    /\ batch \in [Nodes -> SUBSET Records]
    /\ page \in [Nodes -> SUBSET Records]
    /\ top \in [Nodes -> Nat \X Nat]
    /\ full \in [Nodes -> BOOLEAN]
    /\ snap \in [Nodes -> Rows]
    /\ mark \in [Nodes -> Nat]
    /\ hub \in [Entities -> [ts : Nat, aliases : SUBSET Aliases,
                             kind : Kinds \cup {NoKind},
                             origin : Nodes \cup {NoNode}]]
    /\ hubLink \in [Targets -> Nat]
    /\ reqs \subseteq Requests
    /\ said \in [Nodes -> [Entities -> SUBSET Aliases]]
    /\ missed \subseteq Marks
    /\ mixed \subseteq Marks

\* The node maker has made the rows of the entities of old, the others have
\* pulled them, and the memory's links to those of linked.  The first stamp is
\* the one of those rows.
Begun(old, maker, last, linked) ==
    LET Row(e) == IF e \in old THEN [NoRow EXCEPT !.ts = 1] ELSE NoRow
        Links  == [e \in Targets |-> IF e \in linked THEN 1 ELSE 0]
    IN
    /\ \A e \in old : e <= last
    /\ clock = 1 /\ writes = 0 /\ faults = 0
    /\ ent = [n \in Nodes |-> [e \in Entities |-> Row(e)]]
    /\ link = [n \in Nodes |-> Links]
    /\ pending = [n \in Nodes |-> {}]
    /\ cursor = [n \in Nodes |->
                   [t \in Tables |-> IF \/ t = "entities" /\ n # maker /\ old # {}
                                        \/ t = "links" /\ linked # {}
                                     THEN <<1, last>> ELSE Start]]
    /\ pc = [n \in Nodes |-> "idle"]
    /\ tab = [n \in Nodes |-> "entities"]
    /\ batch = [n \in Nodes |-> {}]
    /\ page = [n \in Nodes |-> {}]
    /\ top = [n \in Nodes |-> Start]
    /\ full = [n \in Nodes |-> FALSE]
    /\ snap = [n \in Nodes |-> NoRow]
    /\ mark = [n \in Nodes |-> 0]
    /\ hub = [e \in Entities |-> [ts |-> Row(e).ts, aliases |-> {}, kind |-> NoKind,
                                  origin |-> IF e \in old THEN maker ELSE NoNode]]
    /\ hubLink = Links
    /\ reqs = {}
    /\ said = [n \in Nodes |-> [e \in Entities |-> {}]]
    /\ missed = {}
    /\ mixed = {}

Init ==
    \E old \in SUBSET Entities, maker \in Nodes : \E linked \in {{}, old}, last \in old \cup {0} :
        Begun(old, maker, last, linked)

-----------------------------------------------------------------------------
GoTo(n, state) == pc' = [pc EXCEPT ![n] = state]

Fault == faults < MaxFaults /\ faults' = faults + 1

Or(kind, other) == IF kind = NoKind THEN other ELSE kind

\* Mutant of Merged: the newer row's aliases replace the older one's.
MergedByWinner(old, new) ==
    [ts |-> new.ts, aliases |-> new.aliases, kind |-> Or(new.kind, old.kind)]

\* Union of the aliases; the newer row gives the kind unless it has none.
Merged(old, new) ==
    [ts |-> new.ts, aliases |-> old.aliases \cup new.aliases,
     kind |-> Or(new.kind, old.kind)]

\* What an older record adds to a row: aliases, and a kind if it has none.
Enriched(old, new) ==
    [old EXCEPT !.aliases = @ \cup new.aliases, !.kind = Or(@, new.kind)]

-----------------------------------------------------------------------------
(* Local writes.                                                           *)

\* What _upsert_entity makes of a row; only a change takes the new stamp.
Annotated(r, A, k) ==
    LET new == Enriched(r, [aliases |-> A, kind |-> k])
    IN IF r.ts > 0 /\ new = r THEN r ELSE [new EXCEPT !.ts = clock + 1]

\* A memory is stored or annotated and mentions the entities of E, in one
\* transaction with one stamp.  The triggers put every row that was written
\* into the outbox.
Mention(n, E, A, k) ==
    LET rows  == [e \in Entities |-> IF e \in E THEN Annotated(ent[n][e], A, k)
                                     ELSE ent[n][e]]
        fresh == {e \in E : link[n][e] = 0}
    IN /\ writes < MaxWrites
       /\ writes' = writes + 1
       /\ clock' = clock + 1
       /\ ent' = [ent EXCEPT ![n] = rows]
       /\ link' = [link EXCEPT
                     ![n] = [e \in Targets |-> IF e \in fresh THEN clock + 1 ELSE @[e]]]
       /\ pending' = [pending EXCEPT ![n] = @
             \cup {EntityRecord(e, rows[e]) : e \in {x \in Entities : rows[x] # ent[n][x]}}
             \cup {LinkRecord(e, clock + 1) : e \in fresh}]
       /\ said' = [said EXCEPT
                     ![n] = [e \in Entities |-> IF e \in E THEN @[e] \cup A ELSE @[e]]]
       /\ mixed' = mixed \cup
             (IF pc[n] = "store" THEN {<<n, tab[n], e>> : e \in E} ELSE {})
       /\ UNCHANGED <<cursor, pc, batch, pullVars, hubVars, reqs, faults, missed>>

-----------------------------------------------------------------------------
(* The push half of a sync cycle.                                          *)

\* A cycle begins: post the pending rows, or go on to the pull when there are
\* none.
Push(n) ==
    /\ pc[n] = "idle"
    /\ batch' = [batch EXCEPT ![n] = pending[n]]
    /\ IF pending[n] = {}
          THEN GoTo(n, "fetch") /\ UNCHANGED reqs
          ELSE /\ GoTo(n, "sent")
               /\ reqs' = reqs \cup {[node |-> n, todo |-> pending[n], heard |-> TRUE, stamp |-> 0]}
    /\ UNCHANGED <<clock, writes, nodeVars, cursor, pullVars, hubVars, faults,
                   history>>

\* The answer reports every record of the batch as processed.
PushAck(n) ==
    /\ pc[n] = "sent"
    /\ \E q \in reqs : /\ q.node = n /\ q.heard /\ q.todo = {}
                       /\ reqs' = reqs \ {q}
    /\ pending' = [pending EXCEPT ![n] = @ \ batch[n]]
    /\ batch' = [batch EXCEPT ![n] = {}]
    /\ GoTo(n, "fetch")
    /\ UNCHANGED <<clock, writes, ent, link, cursor, pullVars, hubVars, faults,
                   history>>

-----------------------------------------------------------------------------
(* The hub works a request off record by record, each in a transaction of  *)
(* its own that locks the row.  Requests of several nodes run side by side.*)

Done(q, r) ==
    LET rest == [q EXCEPT !.todo = @ \ {r}, !.stamp = 0]
    IN reqs' = (reqs \ {q}) \cup (IF ~q.heard /\ rest.todo = {} THEN {} ELSE {rest})

\* The record of table t that comes next in the order of the outbox: an
\* entity, the link to it, the next entity of the mention.
Todo(q, t) ==
    {r \in q.todo : r.tab = t /\ \A s \in q.todo \ {r} :
        After(Pos(s), Pos(r)) \/ (Pos(s) = Pos(r) /\ s.tab = "links")}

\* How far node n has read table t, the page it is storing included.
Seen(n, t) ==
    IF tab[n] = t /\ pc[n] \in {"apply", "store"} THEN top[n] ELSE cursor[n][t]

\* Which nodes a row at position p, pushed by origin, will not be offered.
NotOffered(t, p, origin) == {n \in Nodes : n # origin /\ ~After(p, Seen(n, t))}

\* Record in the history who misses the row of e: nobody else does any more.
Miss(t, e, nodes) ==
    missed' = {x \in missed : ~(x[2] = t /\ x[3] = e)} \cup {<<n, t, e>> : n \in nodes}

\* The request gets to the row of e: no other one has it locked.
Free(q, e) == \A p \in reqs : \A r \in Todo(p, "entities") : p.stamp > 0 => p # q /\ r.id # e

\* The record is new to the hub, or newer than its row.  The pusher is not
\* offered its own row, even if it lacks what was united with it.
HubWin(q) ==
    \E r \in Todo(q, "entities") :
       LET new == Merged(hub[r.id], r)
       IN /\ Free(q, r.id)
          /\ r.ts > hub[r.id].ts
          /\ hub' = [hub EXCEPT ![r.id] =
                       [ts |-> new.ts, aliases |-> new.aliases, kind |-> new.kind,
                        origin |-> q.node]]
          /\ Miss("entities", r.id,
                  NotOffered("entities", Pos(r), q.node) \cup
                  (IF r.aliases = new.aliases /\ r.kind = new.kind THEN {}
                                                                  ELSE {q.node}))
          /\ Done(q, r)
          /\ UNCHANGED <<clock, writes, nodeVars, cursor, pc, batch, pullVars,
                         hubLink, faults, said, mixed>>

\* Mutant of HubCommit: the row keeps its stamp, as on a node.
HubCommitQuietly(q) ==
    \E r \in Todo(q, "entities") :
       /\ q.stamp > 0
       /\ hub' = [hub EXCEPT ![r.id] = [Enriched(@, r) EXCEPT !.origin = NoNode]]
       /\ Miss("entities", r.id, {})
       /\ Done(q, r)
       /\ UNCHANGED <<clock, writes, nodeVars, cursor, pc, batch, pullVars,
                      hubLink, faults, said, mixed>>

\* The record is older but adds something: the hub takes it up, under a stamp
\* of its own and with no origin, so that every node is offered the row.
HubEnrich(q) ==
    \E r \in Todo(q, "entities") :
       /\ Free(q, r.id)
       /\ r.ts <= hub[r.id].ts
       /\ Enriched(hub[r.id], r) # hub[r.id]
       /\ clock' = clock + 1
       /\ reqs' = (reqs \ {q}) \cup {[q EXCEPT !.stamp = clock + 1]}
       /\ UNCHANGED <<writes, nodeVars, cursor, pc, batch, pullVars, hubVars,
                      faults, history>>

\* The change is committed: others see it now, and a node whose pull has gone
\* on in between may have passed the stamp.
HubCommit(q) ==
    \E r \in Todo(q, "entities") :
       /\ q.stamp > 0
       /\ hub' = [hub EXCEPT ![r.id] =
                    [Enriched(@, r) EXCEPT !.ts = q.stamp, !.origin = NoNode]]
       /\ Miss("entities", r.id, NotOffered("entities", <<q.stamp, r.id>>, NoNode))
       /\ Done(q, r)
       /\ UNCHANGED <<clock, writes, nodeVars, cursor, pc, batch, pullVars,
                      hubLink, faults, said, mixed>>

\* The record is older and adds nothing.
HubIgnore(q) ==
    \E r \in Todo(q, "entities") :
       /\ Free(q, r.id)
       /\ r.ts <= hub[r.id].ts
       /\ Enriched(hub[r.id], r) = hub[r.id]
       /\ Done(q, r)
       /\ UNCHANGED <<clock, writes, nodeVars, cursor, pc, batch, pullVars,
                      hubVars, faults, history>>

\* INSERT ... ON CONFLICT DO NOTHING.  A new link comes with the stamp of its
\* node, which others may have read past.
HubInsertLink(q) ==
    \E r \in Todo(q, "links") :
       /\ IF hubLink[r.id] = 0
             THEN /\ hubLink' = [hubLink EXCEPT ![r.id] = r.ts]
                  /\ Miss("links", r.id, NotOffered("links", Pos(r), q.node))
             ELSE UNCHANGED <<hubLink, missed>>
       /\ Done(q, r)
       /\ UNCHANGED <<clock, writes, nodeVars, cursor, pc, batch, pullVars, hub,
                      faults, said, mixed>>

-----------------------------------------------------------------------------
(* The pull half of a sync cycle: the entities, then the links.            *)

\* The rows node n is sent from its cursor on; its own pushes only of links.
Offered(n) ==
    LET all == CASE tab[n] = "entities" ->
                    {EntityRecord(e, hub[e]) :
                        e \in {x \in Entities : hub[x].ts > 0 /\ hub[x].origin # n}}
                 [] OTHER ->
                    {LinkRecord(e, hubLink[e]) :
                        e \in {x \in Targets : hubLink[x] > 0}}
    IN {r \in all : After(Pos(r), cursor[n][tab[n]])}

IsPage(P, S) ==
    /\ P \subseteq S
    /\ \A r \in P, s \in S \ P : After(Pos(s), Pos(r))
    /\ \/ Cardinality(P) = PageSize
       \/ P = S /\ Cardinality(P) < PageSize

EndTable(n) ==
    /\ tab' = [tab EXCEPT ![n] = IF @ = "entities" THEN "links" ELSE "entities"]
    /\ GoTo(n, IF tab[n] = "entities" THEN "fetch" ELSE "idle")
    /\ page' = [page EXCEPT ![n] = {}]
    /\ top' = [top EXCEPT ![n] = Start]
    /\ full' = [full EXCEPT ![n] = FALSE]
    /\ snap' = [snap EXCEPT ![n] = NoRow]
    /\ mark' = [mark EXCEPT ![n] = 0]

Fetch(n) ==
    /\ pc[n] = "fetch"
    /\ \E P \in SUBSET Offered(n) :
          /\ IsPage(P, Offered(n))
          /\ IF P = {}
                THEN EndTable(n)
                ELSE /\ GoTo(n, "apply")
                     /\ page' = [page EXCEPT ![n] = P]
                     /\ \E last \in P :
                           /\ \A r \in P \ {last} : After(Pos(last), Pos(r))
                           /\ top' = [top EXCEPT ![n] = Pos(last)]
                     /\ full' = [full EXCEPT ![n] = Cardinality(P) = PageSize]
                     /\ UNCHANGED <<tab, snap, mark>>
    /\ UNCHANGED <<clock, writes, nodeVars, cursor, batch, hubVars, reqs,
                   faults, history>>

\* The record the upsert is about: the first one left of the page.
IsFirst(n, r) == r \in page[n] /\ \A s \in page[n] \ {r} : After(Pos(s), Pos(r))

\* The statements that read run outside a transaction.
Read(n) ==
    /\ pc[n] = "apply"
    /\ \E r \in page[n] :
          /\ IsFirst(n, r)
          /\ snap' = [snap EXCEPT ![n] = IF tab[n] = "entities" THEN ent[n][r.id]
                                                                ELSE NoRow]
    /\ mark' = [mark EXCEPT ![n] = clock]
    /\ GoTo(n, "store")
    /\ UNCHANGED <<clock, writes, nodeVars, cursor, batch, tab, page, top, full,
                   hubVars, reqs, faults, history>>

\* The upsert is over, whether it was committed or rolled back.
Return(n, r) ==
    /\ page' = [page EXCEPT ![n] = @ \ {r}]
    /\ snap' = [snap EXCEPT ![n] = NoRow]
    /\ mark' = [mark EXCEPT ![n] = 0]
    /\ GoTo(n, "apply")
    /\ UNCHANGED <<clock, writes, cursor, batch, tab, top, full, hubVars, reqs,
                   said, mixed>>

\* Its own triggers' rows are marked as sent, and with them those above the
\* mark that others have added; a link's outbox row goes by the memory's id.
Suppress(n, r) ==
    pending' = [pending EXCEPT ![n] =
        {p \in @ : ~(/\ p.ts > mark[n]
                     /\ p.tab = r.tab
                     /\ p.tab = "entities" => p.id = r.id)}]

\* The entity is not in the database, or the record is newer, or it adds
\* something; what the upsert read decides, and is what it writes back.
StoreEntity(n) ==
    /\ pc[n] = "store" /\ tab[n] = "entities"
    /\ \E r \in page[n] :
          /\ IsFirst(n, r)
          /\ snap[n].ts = 0 => ent[n][r.id].ts = 0
          /\ LET new == IF r.ts > snap[n].ts THEN Merged(snap[n], r)
                                             ELSE Enriched(snap[n], r)
             IN IF new = snap[n]
                   THEN UNCHANGED <<ent, pending>>
                   ELSE /\ Suppress(n, r)
                        /\ ent' = [ent EXCEPT ![n][r.id] =
                                     IF r.ts > snap[n].ts THEN new
                                     ELSE [new EXCEPT !.ts = ent[n][r.id].ts]]
          /\ Return(n, r)
    /\ UNCHANGED <<link, faults, missed>>

\* INSERT OR IGNORE.
StoreLink(n) ==
    /\ pc[n] = "store" /\ tab[n] = "links"
    /\ \E r \in page[n] :
          /\ IsFirst(n, r)
          /\ IF link[n][r.id] = 0
                THEN /\ link' = [link EXCEPT ![n][r.id] = r.ts]
                     /\ Suppress(n, r)
                ELSE UNCHANGED <<link, pending>>
          /\ Return(n, r)
    /\ UNCHANGED <<ent, faults, missed>>

\* The upsert raises and the record is skipped: the row was inserted by a
\* mention in the meantime, or the database is locked.
SkipRecord(n) ==
    /\ pc[n] = "store"
    /\ \E r \in page[n] :
          /\ IsFirst(n, r)
          /\ \/ /\ tab[n] = "entities"
                /\ snap[n].ts = 0 /\ ent[n][r.id].ts > 0
                /\ UNCHANGED faults
             \/ Fault
          /\ missed' = missed \cup {<<n, tab[n], r.id>>}
          /\ Return(n, r)
    /\ UNCHANGED nodeVars

\* The page is done: save the cursor.  A full page is followed by another one
\* unless the cycle has used up its MAX_PULL_PAGES.
SaveCursor(n) ==
    /\ pc[n] = "apply"
    /\ page[n] = {}
    /\ cursor' = [cursor EXCEPT ![n][tab[n]] = top[n]]
    /\ \/ /\ full[n]
          /\ GoTo(n, "fetch")
          /\ full' = [full EXCEPT ![n] = FALSE]
          /\ top' = [top EXCEPT ![n] = Start]
          /\ UNCHANGED <<tab, page, snap, mark>>
       \/ EndTable(n)
    /\ UNCHANGED <<clock, writes, nodeVars, batch, hubVars, reqs, faults, history>>

-----------------------------------------------------------------------------
\* A timeout, a connection error or a crash ends the cycle (one in the middle
\* of an upsert undoes it, and is like one before it).  A push in flight
\* is worked off with nobody waiting for the answer, or was never received.
Interrupt(n) ==
    /\ pc[n] \in {"sent", "fetch", "apply"}
    /\ Fault
    /\ GoTo(n, "idle")
    /\ batch' = [batch EXCEPT ![n] = {}]
    /\ tab' = [tab EXCEPT ![n] = "entities"]
    /\ page' = [page EXCEPT ![n] = {}]
    /\ top' = [top EXCEPT ![n] = Start]
    /\ full' = [full EXCEPT ![n] = FALSE]
    /\ snap' = [snap EXCEPT ![n] = NoRow]
    /\ mark' = [mark EXCEPT ![n] = 0]
    /\ LET mine == {q \in reqs : q.node = n /\ q.heard}
       IN \/ reqs' = reqs \ mine
          \/ reqs' = (reqs \ mine) \cup
                     {[q EXCEPT !.heard = FALSE] : q \in {x \in mine : x.todo # {}}}
    /\ UNCHANGED <<clock, writes, nodeVars, cursor, hubVars, history>>

-----------------------------------------------------------------------------
Next ==
    \/ \E n \in Nodes, f \in Facts : Mention(n, f[1], f[2], f[3])
    \/ \E n \in Nodes :
          \/ Push(n) \/ PushAck(n)
          \/ Fetch(n) \/ Read(n) \/ StoreEntity(n) \/ StoreLink(n)
          \/ SkipRecord(n) \/ SaveCursor(n) \/ Interrupt(n)
    \/ \E q \in reqs :
          HubWin(q) \/ HubEnrich(q) \/ HubCommit(q) \/ HubIgnore(q) \/ HubInsertLink(q)

Spec == Init /\ [][Next]_vars

-----------------------------------------------------------------------------
(* What must hold.                                                         *)

Exempt(n, t, e) == <<n, t, e>> \in missed \cup mixed

\* An alias a user gives an entity stays there, and what he adds to the graph
\* stays in the outbox until the hub has it: the union-merge loses nothing,
\* whichever side wins, whatever is retried or cut off, and only echoes are
\* suppressed (_upsert_entity_one, "suppress exactly the echo rows"), unless a
\* mention came between the reads and the writes of an upsert.
MentionsKept ==
    \A n \in Nodes :
        /\ \A e \in Entities, a \in Aliases :
              (a \in said[n][e] /\ <<n, "entities", e>> \notin mixed) =>
                 /\ a \in ent[n][e].aliases
                 /\ \/ a \in hub[e].aliases
                    \/ \E r \in pending[n] :
                          r.tab = "entities" /\ r.id = e /\ a \in r.aliases
        /\ \A e \in Targets :
              (link[n][e] > 0 /\ <<n, "links", e>> \notin mixed) =>
                 hubLink[e] > 0 \/ LinkRecord(e, link[n][e]) \in pending[n]

\* A node that has nothing to push and is offered nothing agrees with the hub
\* on an entity: the hub's own stamp and the missing origin make sure of it
\* when an old record enriches a row (hub _upsert_entity: "without a bump,
\* nodes whose cursor has passed this entity would never see the merge").  A
\* node that reads on between that stamp and its commit is not made sure of:
\* it is among the missed.
Agreement ==
    \A n \in Nodes, e \in Entities :
        (/\ ~Exempt(n, "entities", e)
         /\ pc[n] = "idle"
         /\ \A r \in pending[n] : r.id # e
         /\ \A q \in reqs : q.node # n
         /\ hub[e].origin = n \/ ~After(<<hub[e].ts, e>>, cursor[n]["entities"]))
        => /\ ent[n][e].aliases = hub[e].aliases
           /\ ent[n][e].kind = hub[e].kind

\* A node whose cursor has passed a link holds it, also when links share their
\* stamp and a page ends between them (_pull_graph_table, keyset cursor).
LinksPulled ==
    \A n \in Nodes, e \in Targets : ~Exempt(n, "links", e) =>
        hubLink[e] = 0 \/ link[n][e] > 0
        \/ After(<<hubLink[e], e>>, cursor[n]["links"])

\* What a node has been offered, it has: entities as the hub has them, and links.
OfferedIsHeld == Agreement /\ LinksPulled
=============================================================================
