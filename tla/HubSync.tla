------------------------------- MODULE HubSync -------------------------------
(***************************************************************************)
(* Memory synchronisation between client nodes and the hub: every node     *)
(* writes into its own SQLite database and an outbox, a background sync    *)
(* cycle pushes the outbox to the hub and pulls what the others pushed     *)
(* (remind_me_mcp/sync.py), and the hub keeps one row per memory under     *)
(* last-write-wins (hub/main.py).                                          *)
(*                                                                         *)
(* A version of a memory is its updated_at; 0 means "no such row".  A      *)
(* deletion is a version like another one: it writes a tombstone.  Clocks  *)
(* are synchronised: a new stamp is above every stamp given out before.    *)
(***************************************************************************)
EXTENDS Integers, FiniteSets

CONSTANTS Nodes,          \* client nodes (NODE_ID)
          NoNode,         \* the origin_node of a row nobody pushed
          Mems,           \* memory ids
          BatchSize,      \* BATCH_SIZE, outbox rows of one push request
          PageSize,       \* PULL_PAGE_SIZE, records of one pull page
          HubWriters,     \* transactions the hub keeps open at one time
          MaxStamp,       \* bound: local writes in all
          MaxFaults,      \* bound: interruptions, refusals and resets in all
          HubMayReject,   \* may the hub fail to store one record of a batch?
          NodeMayReject   \* may a node fail to store one pulled record?

ASSUME NodesAssumption  == NoNode \notin Nodes
ASSUME SizesAssumption  == BatchSize \in Nat \ {0} /\ PageSize \in Nat \ {0}
ASSUME HubAssumption    == HubWriters \in Nat \ {0}
ASSUME BoundsAssumption == MaxStamp \in Nat /\ MaxFaults \in Nat
ASSUME FlagsAssumption  == /\ HubMayReject \in BOOLEAN
                           /\ NodeMayReject \in BOOLEAN

VARIABLES
    clock,    \* the last stamp given out by _now_iso on any node
    written,  \* history: the local writes, as records [node, mem, ts]
    late,     \* history: the versions the hub committed after one with a
              \* later sequence number, as records [mem, ts]
    skipped,  \* history: the versions whose upsert failed on a node that
              \* pulls by sequence number, as records [node, mem, ts]
    row,      \* row[n][m]: updated_at of memory m in the database of n
    pending,  \* pending[n]: outbox rows of n without a sync_sends mark
    cursor,   \* cursor[n]: sync_log.last_pull_seq for the hub
    since,    \* since[n]: sync_log.last_pull for the hub, the legacy cursor
    pc,       \* where the sync thread of n stands in its cycle
    batch,    \* batch[n]: outbox rows of the push request in flight
    after,    \* after[n]: outbox id from which the push loop goes on
    legacy,   \* legacy[n]: does this pull page on updated_at?
    lpos,     \* lpos[n]: the position this pull has reached
    page,     \* page[n]: records of the page still to be upserted
    ptop,     \* ptop[n]: greatest position of the page
    pfull,    \* pfull[n]: was it a full page?
    hub,      \* hub[m]: committed row of m, [ts, origin, seq]
    hubSeq,   \* last value of the sequence memories_hub_seq
    reqs,     \* push requests the hub is working on
    faults    \* interruptions, refusals and resets so far

pushVars == <<batch, after>>
pullVars == <<legacy, lpos, page, ptop, pfull>>
hubVars  == <<hub, hubSeq>>
histVars == <<late, skipped>>
vars == <<clock, written, late, skipped, row, pending, cursor, since, pc, batch, after,
          legacy, lpos, page, ptop, pfull, hub, hubSeq, reqs, faults>>

Unknown == -1   \* SEQ_UNKNOWN: not probed yet, or reset

Stamps == 1..MaxStamp

\* A record on its way: key is its outbox id, its hub_seq or its updated_at,
\* whichever the list it belongs to is ordered by.
Recs == [mem : Mems, ts : Stamps, key : Nat]

\* A request in the hands of the hub.  open is the transaction of the record
\* it is storing, ok the processed_ids, lost the number of the fault that
\* took its client away (0 while the client still waits for the answer).
Requests == [node : Nodes, todo : SUBSET Recs, open : SUBSET Recs,
             ok : SUBSET Mems, lost : 0..MaxFaults]

States == {"idle", "push", "sent", "start", "probe", "fetch", "apply"}

TypeOK ==
    /\ clock \in 0..MaxStamp
    /\ written \subseteq [node : Nodes, mem : Mems, ts : Stamps]
    /\ late \subseteq [mem : Mems, ts : Stamps]
    /\ skipped \subseteq [node : Nodes, mem : Mems, ts : Stamps]
    /\ row \in [Nodes -> [Mems -> 0..MaxStamp]]
    /\ pending \in [Nodes -> SUBSET Recs]
    /\ cursor \in [Nodes -> Nat \cup {Unknown}]
    /\ since \in [Nodes -> Nat]
    /\ pc \in [Nodes -> States]
    /\ batch \in [Nodes -> SUBSET Recs]
    /\ after \in [Nodes -> Nat]
    /\ legacy \in [Nodes -> BOOLEAN]
    /\ lpos \in [Nodes -> Nat]
    /\ page \in [Nodes -> SUBSET Recs]
    /\ ptop \in [Nodes -> Nat]
    /\ pfull \in [Nodes -> BOOLEAN]
    /\ hub \in [Mems -> [ts : 0..MaxStamp, origin : Nodes \cup {NoNode}, seq : Nat]]
    /\ hubSeq \in Nat
    /\ reqs \subseteq Requests
    /\ faults \in 0..MaxFaults

Init ==
    /\ clock = 0
    /\ written = {}
    /\ late = {}
    /\ skipped = {}
    /\ row = [n \in Nodes |-> [m \in Mems |-> 0]]
    /\ pending = [n \in Nodes |-> {}]
    /\ cursor = [n \in Nodes |-> Unknown]
    /\ since = [n \in Nodes |-> 0]
    /\ pc = [n \in Nodes |-> "idle"]
    /\ batch = [n \in Nodes |-> {}]
    /\ after = [n \in Nodes |-> 0]
    /\ legacy = [n \in Nodes |-> FALSE]
    /\ lpos = [n \in Nodes |-> 0]
    /\ page = [n \in Nodes |-> {}]
    /\ ptop = [n \in Nodes |-> 0]
    /\ pfull = [n \in Nodes |-> FALSE]
    /\ hub = [m \in Mems |-> [ts |-> 0, origin |-> NoNode, seq |-> 0]]
    /\ hubSeq = 0
    /\ reqs = {}
    /\ faults = 0

-----------------------------------------------------------------------------
\* The first k records of S in the order of their keys, as a relation.
IsPage(P, S, k) ==
    /\ P \subseteq S
    /\ \A r \in P, s \in S \ P : r.key < s.key
    /\ \/ Cardinality(P) = k
       \/ P = S /\ Cardinality(P) < k

IsLeast(r, S) == r \in S /\ \A s \in S : r.key <= s.key

Fault == faults < MaxFaults /\ faults' = faults + 1

GoTo(n, state) == pc' = [pc EXCEPT ![n] = state]

\* The pull returns and its local variables are gone.
EndPull(n) ==
    /\ GoTo(n, "idle")
    /\ legacy' = [legacy EXCEPT ![n] = FALSE]
    /\ lpos' = [lpos EXCEPT ![n] = 0]
    /\ page' = [page EXCEPT ![n] = {}]
    /\ ptop' = [ptop EXCEPT ![n] = 0]
    /\ pfull' = [pfull EXCEPT ![n] = FALSE]

-----------------------------------------------------------------------------
(* Local writes.                                                           *)

\* The row the outbox triggers of the memories table insert in the same
\* transaction as the write; outbox ids grow with the stamps.
OutboxRow(m, ts) == [mem |-> m, ts |-> ts, key |-> ts]

\* A tool stores, edits or deletes a memory; the write is one transaction.
Edit(n, m) ==
    /\ clock < MaxStamp
    /\ clock' = clock + 1
    /\ written' = written \cup {[node |-> n, mem |-> m, ts |-> clock + 1]}
    /\ row' = [row EXCEPT ![n][m] = clock + 1]
    /\ pending' = [pending EXCEPT ![n] = @ \cup {OutboxRow(m, clock + 1)}]
    /\ UNCHANGED <<histVars, cursor, since, pc, pushVars, pullVars, hubVars,
                   reqs, faults>>

-----------------------------------------------------------------------------
(* The push half of a sync cycle.                                          *)

BeginCycle(n) ==
    /\ pc[n] = "idle"
    /\ GoTo(n, "push")
    /\ UNCHANGED <<clock, written, histVars, row, pending, cursor, since, pushVars,
                   pullVars, hubVars, reqs, faults>>

\* Mutant of PushBatch: the rows count as sent once they are posted.
PushBatchMarksEarly(n) ==
    /\ pc[n] = "push"
    /\ \E B \in SUBSET pending[n] :
          /\ IsPage(B, {r \in pending[n] : r.key > after[n]}, BatchSize)
          /\ pending' = [pending EXCEPT ![n] = @ \ B]
          /\ batch' = [batch EXCEPT ![n] = B]
          /\ IF B = {}
                THEN GoTo(n, "start") /\ UNCHANGED reqs
                ELSE /\ GoTo(n, "sent")
                     /\ reqs' = reqs \cup {[node |-> n, todo |-> B, open |-> {},
                                            ok |-> {}, lost |-> 0]}
    /\ UNCHANGED <<clock, written, histVars, row, cursor, since, after,
                   pullVars, hubVars, faults>>

\* Mutant of PushBatch: the next call goes on where this one has stopped.
PushBatchGoesOn(n) ==
    /\ pc[n] = "push"
    /\ \E B \in SUBSET pending[n] :
          /\ IsPage(B, {r \in pending[n] : r.key > after[n]}, BatchSize)
          /\ batch' = [batch EXCEPT ![n] = B]
          /\ IF B = {}
                THEN GoTo(n, "start") /\ UNCHANGED <<after, reqs>>
                ELSE /\ GoTo(n, "sent")
                     /\ \E last \in B :
                           /\ \A r \in B : r.key <= last.key
                           /\ after' = [after EXCEPT ![n] = last.key]
                     /\ reqs' = reqs \cup {[node |-> n, todo |-> B, open |-> {},
                                            ok |-> {}, lost |-> 0]}
    /\ UNCHANGED <<clock, written, histVars, row, pending, cursor, since,
                   pullVars, hubVars, faults>>

\* Read the next rows of the outbox; post them, or leave the loop when there
\* are none.
PushBatch(n) ==
    /\ pc[n] = "push"
    /\ \E B \in SUBSET pending[n] :
          /\ IsPage(B, {r \in pending[n] : r.key > after[n]}, BatchSize)
          /\ batch' = [batch EXCEPT ![n] = B]
          /\ IF B = {}
                THEN /\ GoTo(n, "start")
                     /\ after' = [after EXCEPT ![n] = 0]
                     /\ UNCHANGED reqs
                ELSE /\ GoTo(n, "sent")
                     /\ \E last \in B :
                           /\ \A r \in B : r.key <= last.key
                           /\ after' = [after EXCEPT ![n] = last.key]
                     /\ reqs' = reqs \cup {[node |-> n, todo |-> B, open |-> {},
                                            ok |-> {}, lost |-> 0]}
    /\ UNCHANGED <<clock, written, histVars, row, pending, cursor, since,
                   pullVars, hubVars, faults>>

\* The answer arrives: mark as sent the rows whose memory id it reports.  A
\* full batch is followed by another one unless the cycle has used up its
\* PUSH_BATCHES_PER_CYCLE, a short one by the pull.
PushAck(n) ==
    /\ pc[n] = "sent"
    /\ \E q \in reqs :
          /\ q.node = n /\ q.lost = 0
          /\ q.todo = {} /\ q.open = {}
          /\ reqs' = reqs \ {q}
          /\ pending' = [pending EXCEPT
                           ![n] = @ \ {r \in batch[n] : r.mem \in q.ok}]
    /\ \/ /\ Cardinality(batch[n]) = BatchSize
          /\ GoTo(n, "push")
          /\ UNCHANGED after
       \/ /\ GoTo(n, "start")
          /\ after' = [after EXCEPT ![n] = 0]
    /\ batch' = [batch EXCEPT ![n] = {}]
    /\ UNCHANGED <<clock, written, histVars, row, cursor, since,
                   pullVars, hubVars, faults>>

-----------------------------------------------------------------------------
(* The hub: a request is worked off record by record, each record in a     *)
(* transaction of its own; requests of several clients run side by side.   *)

\* Put the request r in the place of q.  A request nobody waits for is gone
\* when its last record is done.
Replace(q, r) ==
    reqs' = (reqs \ {q}) \cup
            (IF r.lost > 0 /\ r.todo = {} /\ r.open = {} THEN {} ELSE {r})

Writing == {q \in reqs : q.open # {}}

RowIsFree(m) == \A q \in reqs : \A t \in q.open : t.mem # m

\* The record does not beat the stored row: nothing changes, and its id is
\* reported as processed.
HubSkip(q) ==
    /\ q.open = {}
    /\ \E r \in q.todo :
          /\ IsLeast(r, q.todo)
          /\ RowIsFree(r.mem)
          /\ r.ts <= hub[r.mem].ts
          /\ Replace(q, [q EXCEPT !.todo = @ \ {r}, !.ok = @ \cup {r.mem}])
    /\ UNCHANGED <<clock, written, histVars, row, pending, cursor, since, pc,
                   pushVars, pullVars, hubVars, faults>>

\* The record wins: the statement takes the lock of the row and the next
\* value of the sequence.  Nobody sees the new row before the commit.
HubStore(q) ==
    /\ q.open = {}
    /\ Cardinality(Writing) < HubWriters
    /\ \E r \in q.todo :
          /\ IsLeast(r, q.todo)
          /\ RowIsFree(r.mem)
          /\ r.ts > hub[r.mem].ts
          /\ Replace(q, [q EXCEPT
                !.todo = @ \ {r},
                !.open = {[mem |-> r.mem, ts |-> r.ts, key |-> hubSeq + 1]}])
    /\ hubSeq' = hubSeq + 1
    /\ UNCHANGED <<clock, written, histVars, row, pending, cursor, since, pc,
                   pushVars, pullVars, hub, faults>>

\* The sequence number k, or one after it, is already to be seen.
Overtaken(k) == \E m \in Mems : hub[m].seq >= k

\* The record's transaction commits, maybe after one that took its number later.
HubCommit(q) ==
    /\ \E t \in q.open :
          /\ hub' = [hub EXCEPT ![t.mem] =
                        [ts |-> t.ts, origin |-> q.node, seq |-> t.key]]
          /\ late' = IF Overtaken(t.key)
                        THEN late \cup {[mem |-> t.mem, ts |-> t.ts]} ELSE late
          /\ Replace(q, [q EXCEPT !.open = {}, !.ok = @ \cup {t.mem}])
    /\ UNCHANGED <<clock, written, skipped, row, pending, cursor, since, pc,
                   pushVars, pullVars, hubSeq, faults>>

\* One record fails (a statement timeout, a value PostgreSQL refuses): it is
\* skipped and its id is not reported.
HubReject(q) ==
    /\ HubMayReject
    /\ Fault
    /\ q.open = {}
    /\ \E r \in q.todo :
          /\ IsLeast(r, q.todo)
          /\ Replace(q, [q EXCEPT !.todo = @ \ {r}])
    /\ UNCHANGED <<clock, written, histVars, row, pending, cursor, since, pc,
                   pushVars, pullVars, hubVars>>

\* The hub goes down while it works on a request nobody waits for any more:
\* the open transaction is rolled back, the rest is never stored.
HubDrop(q) ==
    /\ q.lost > 0
    /\ reqs' = reqs \ {q}
    /\ UNCHANGED <<clock, written, histVars, row, pending, cursor, since, pc,
                   pushVars, pullVars, hubVars, faults>>

-----------------------------------------------------------------------------
(* The pull half of a sync cycle.                                          *)

\* Read the cursors.  From here on the pull works with its own copies.
StartPull(n) ==
    /\ pc[n] = "start"
    /\ IF cursor[n] = Unknown
          THEN /\ GoTo(n, "probe")
               /\ lpos' = [lpos EXCEPT ![n] = since[n]]
          ELSE /\ GoTo(n, "fetch")
               /\ lpos' = [lpos EXCEPT ![n] = cursor[n]]
    /\ legacy' = [legacy EXCEPT ![n] = cursor[n] = Unknown]
    /\ UNCHANGED <<clock, written, histVars, row, pending, cursor, since, pushVars,
                   page, ptop, pfull, hubVars, reqs, faults>>

HubIsEmpty == \A m \in Mems : hub[m].ts = 0

\* Mutant of ProbeFound: the cursor starts from the hub's last number.
ProbeFoundSeedsTop(n) ==
    /\ pc[n] = "probe"
    /\ ~HubIsEmpty
    /\ cursor' = [cursor EXCEPT ![n] = hubSeq]
    /\ lpos' = [lpos EXCEPT ![n] = hubSeq]
    /\ legacy' = [legacy EXCEPT ![n] = FALSE]
    /\ GoTo(n, "fetch")
    /\ UNCHANGED <<clock, written, histVars, row, pending, since, pushVars,
                   page, ptop, pfull, hubVars, reqs, faults>>

\* The hub answered the probe with a record: the sequence cursor starts at 0.
ProbeFound(n) ==
    /\ pc[n] = "probe"
    /\ ~HubIsEmpty
    /\ cursor' = [cursor EXCEPT ![n] = 0]
    /\ lpos' = [lpos EXCEPT ![n] = 0]
    /\ legacy' = [legacy EXCEPT ![n] = FALSE]
    /\ GoTo(n, "fetch")
    /\ UNCHANGED <<clock, written, histVars, row, pending, since, pushVars,
                   page, ptop, pfull, hubVars, reqs, faults>>

\* The probe failed or found an empty hub: this pull uses the legacy cursor
\* and the next cycle probes again.
ProbeInconclusive(n) ==
    /\ pc[n] = "probe"
    /\ \/ HubIsEmpty /\ UNCHANGED faults
       \/ Fault
    /\ GoTo(n, "fetch")
    /\ UNCHANGED <<clock, written, histVars, row, pending, cursor, since, pushVars,
                   pullVars, hubVars, reqs>>

\* The committed rows a node is sent from a position on: not its own pushes.
Visible(n) ==
    LET Key(m) == IF legacy[n] THEN hub[m].ts ELSE hub[m].seq
    IN {[mem |-> m, ts |-> hub[m].ts, key |-> Key(m)] :
           m \in {x \in Mems : /\ hub[x].ts > 0
                               /\ Key(x) > lpos[n]
                               /\ hub[x].origin # n}}

FetchPage(n) ==
    /\ pc[n] = "fetch"
    /\ \E P \in SUBSET Visible(n) :
          /\ IsPage(P, Visible(n), PageSize)
          /\ IF P = {}
                THEN EndPull(n)
                ELSE /\ GoTo(n, "apply")
                     /\ page' = [page EXCEPT ![n] = P]
                     /\ \E last \in P :
                           /\ \A r \in P : r.key <= last.key
                           /\ ptop' = [ptop EXCEPT ![n] = last.key]
                     /\ pfull' = [pfull EXCEPT ![n] = Cardinality(P) = PageSize]
                     /\ UNCHANGED <<legacy, lpos>>
    /\ UNCHANGED <<clock, written, histVars, row, pending, cursor, since, pushVars,
                   hubVars, reqs, faults>>

\* Mutant of ApplyRecord: the pulled record overwrites the row.
ApplyOverwrites(n) ==
    /\ pc[n] = "apply"
    /\ \E r \in page[n] :
          /\ IsLeast(r, page[n])
          /\ page' = [page EXCEPT ![n] = @ \ {r}]
          /\ row' = [row EXCEPT ![n][r.mem] = r.ts]
    /\ UNCHANGED <<clock, written, histVars, pending, cursor, since, pc, pushVars,
                   legacy, lpos, ptop, pfull, hubVars, reqs, faults>>

\* Upsert the next record of the page: last write wins, and the outbox rows
\* its own triggers create are marked sent in the same transaction.
ApplyRecord(n) ==
    /\ pc[n] = "apply"
    /\ \E r \in page[n] :
          /\ IsLeast(r, page[n])
          /\ page' = [page EXCEPT ![n] = @ \ {r}]
          /\ row' = [row EXCEPT ![n][r.mem] = IF r.ts > @ THEN r.ts ELSE @]
    /\ UNCHANGED <<clock, written, histVars, pending, cursor, since, pc, pushVars,
                   legacy, lpos, ptop, pfull, hubVars, reqs, faults>>

\* The upsert of one record raises (a locked database): it is rolled back,
\* counted and skipped.
SkipRecord(n) ==
    /\ NodeMayReject
    /\ Fault
    /\ pc[n] = "apply"
    /\ \E r \in page[n] :
          /\ IsLeast(r, page[n])
          /\ page' = [page EXCEPT ![n] = @ \ {r}]
          /\ skipped' = IF legacy[n] THEN skipped
                        ELSE skipped \cup {[node |-> n, mem |-> r.mem, ts |-> r.ts]}
    /\ UNCHANGED <<clock, written, late, row, pending, cursor, since, pc, pushVars,
                   legacy, lpos, ptop, pfull, hubVars, reqs>>

\* Mutant of SaveCursor: the cursor is persisted before the upserts.
SaveCursorEarly(n) ==
    /\ pc[n] = "apply"
    /\ cursor' = [cursor EXCEPT ![n] = IF legacy[n] THEN @ ELSE ptop[n]]
    /\ IF page[n] = {} THEN EndPull(n) ELSE UNCHANGED <<pc, pullVars>>
    /\ UNCHANGED <<clock, written, histVars, row, pending, since, pushVars, hubVars,
                   reqs, faults>>

\* The page is done: persist the cursor.  A full page is followed by another
\* one unless the cycle has used up its MAX_PULL_PAGES.
SaveCursor(n) ==
    /\ pc[n] = "apply"
    /\ page[n] = {}
    /\ IF legacy[n]
          THEN since' = [since EXCEPT ![n] = ptop[n]] /\ UNCHANGED cursor
          ELSE cursor' = [cursor EXCEPT ![n] = ptop[n]] /\ UNCHANGED since
    /\ \/ /\ pfull[n]
          /\ GoTo(n, "fetch")
          /\ lpos' = [lpos EXCEPT ![n] = ptop[n]]
          /\ UNCHANGED <<legacy, page, ptop, pfull>>
       \/ EndPull(n)
    /\ UNCHANGED <<clock, written, histVars, row, pending, pushVars, hubVars, reqs, faults>>

-----------------------------------------------------------------------------
(* Interruptions and resets.                                               *)

Waits(q, n) == q.node = n /\ q.lost = 0

\* A timeout, a connection error or a crash ends the cycle of n: what it held
\* in memory is gone.  A push in flight never reached the hub, or dies with
\* it, or is worked off with nobody waiting for the answer.
Interrupt(n) ==
    /\ pc[n] # "idle"
    /\ Fault
    /\ EndPull(n)
    /\ batch' = [batch EXCEPT ![n] = {}]
    /\ after' = [after EXCEPT ![n] = 0]
    /\ \/ reqs' = {q \in reqs : ~Waits(q, n)}
       \/ \E q \in reqs : /\ Waits(q, n)
                          /\ Replace(q, [q EXCEPT !.lost = faults + 1])
    /\ UNCHANGED <<clock, written, histVars, row, pending, cursor, since, hubVars>>

\* The operator rewinds the cursors of the hub, whatever the sync thread is
\* doing: a pull that is running goes on with its own copies.
ResetCursor(n) ==
    /\ Fault
    /\ cursor' = [cursor EXCEPT ![n] = Unknown]
    /\ since' = [since EXCEPT ![n] = 0]
    /\ UNCHANGED <<clock, written, histVars, row, pending, pc, pushVars, pullVars,
                   hubVars, reqs>>

-----------------------------------------------------------------------------
SyncStep(n) ==
    \/ BeginCycle(n) \/ PushBatch(n) \/ PushAck(n)
    \/ StartPull(n) \/ ProbeFound(n) \/ (ProbeInconclusive(n) /\ faults' = faults)
    \/ FetchPage(n) \/ ApplyRecord(n) \/ SaveCursor(n)

HubStep == \E q \in reqs : HubSkip(q) \/ HubStore(q) \/ HubCommit(q)

Next ==
    \/ \E n \in Nodes, m \in Mems : Edit(n, m)
    \/ \E n \in Nodes :
          \/ BeginCycle(n) \/ PushBatch(n) \/ PushAck(n)
          \/ StartPull(n) \/ ProbeFound(n) \/ ProbeInconclusive(n)
          \/ FetchPage(n) \/ ApplyRecord(n) \/ SkipRecord(n) \/ SaveCursor(n)
          \/ Interrupt(n) \/ ResetCursor(n)
    \/ \E q \in reqs : \/ HubSkip(q) \/ HubStore(q) \/ HubCommit(q)
                       \/ HubReject(q) \/ HubDrop(q)

Spec == Init /\ [][Next]_vars

\* The sync thread of every node comes back to its loop every SYNC_INTERVAL,
\* and the hub answers the requests it has.  Nobody is bound to write, to
\* fail or to reset anything.
Fairness == (\A n \in Nodes : WF_vars(SyncStep(n))) /\ WF_vars(HubStep)

FairSpec == Spec /\ Fairness

-----------------------------------------------------------------------------
(* What must hold.                                                         *)

\* A write leaves the outbox of its node only when the hub holds it or a
\* newer version of the memory: _push_outbox marks "only those rows" sent
\* which the hub has processed, whatever was cut off, retried or refused.
NothingLost ==
    \A w \in written : \/ OutboxRow(w.mem, w.ts) \in pending[w.node]
                       \/ hub[w.mem].ts >= w.ts

\* A node whose cursor has passed a row of the hub holds that version or a
\* newer one: nothing is left behind a cursor that only moves forward
\* (_establish_seq_cursor: "being certain nothing stays stranded").
NothingStranded ==
    \A n \in Nodes, m \in Mems :
        hub[m].seq <= cursor[n] => row[n][m] >= hub[m].ts

\* A row the cursor of a node has passed is held by the node in that version or
\* a newer one, unless the hub committed it after a row with a later number, or
\* its upsert had failed (_pull_remote, _upsert_records, _MEMORY_UPSERT): a
\* cursor passes nothing else, however pulls, pushes and resets come together.
PassedIsHeld ==
    \A n \in Nodes, m \in Mems :
        hub[m].seq <= cursor[n] =>
            \/ row[n][m] >= hub[m].ts
            \/ [mem |-> m, ts |-> hub[m].ts] \in late
            \/ [node |-> n, mem |-> m, ts |-> hub[m].ts] \in skipped

\* After a reset the next pull walks the hub from the start: a cursor that is
\* unknown becomes known only at 0 (reset_pull_cursor: "safe against concurrent
\* sync activity: the next cycle's pull just re-walks").
RewindFromStart ==
    [][\A n \in Nodes : cursor[n] = Unknown => cursor'[n] \in {Unknown, 0}]_vars

\* The nodes and the hub are the replicas of an abstract last-write-wins
\* store; the hub goes by the name of the node that is none.
R == INSTANCE Replication
        WITH Replicas <- Nodes \cup {NoNode},
             Writers  <- Nodes,
             store    <- [r \in Nodes \cup {NoNode} |->
                             IF r = NoNode THEN [m \in Mems |-> hub[m].ts]
                                           ELSE row[r]],
             versions <- {[mem |-> w.mem, ts |-> w.ts] : w \in written}

\* Pushing, pulling, retrying and resetting only ever carry versions that
\* were written, and never take a node or the hub back to an older one
\* (_upsert_one, _MEMORY_UPSERT).
LastWriteWins == R!Spec

\* The hub and the nodes come to hold the same version of every memory, once
\* writes and faults have ended.
Converged == \A n \in Nodes, m \in Mems : row[n][m] = hub[m].ts

Convergence == <>[]Converged
=============================================================================
