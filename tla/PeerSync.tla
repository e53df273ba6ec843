------------------------------ MODULE PeerSync ------------------------------
(***************************************************************************)
(* Nodes that sync with each other directly (sync.py, peer_server.py): per *)
(* cycle each node pushes its outbox to every peer that answers, pulls the *)
(* peer's rows by timestamp, and then prunes its outbox and removes old    *)
(* tombstones.                                                             *)
(*                                                                         *)
(* A version is the position of its write in `log`, which stands for its   *)
(* updated_at: clocks are in step and no two stamps are equal.  A row is   *)
(* the version it holds, an outbox row the version whose payload it keeps; *)
(* what a peer sends is stored with its echo suppressed, so an outbox only *)
(* holds local writes and its ids are in the order of their versions.      *)
(* Statements of one record are one step here (LocalUpsert has them), and  *)
(* so are a request, what the peer does with it and what is made of the    *)
(* answer: the peer commits record by record, and the caller's own writes  *)
(* meanwhile only add to its outbox.                                       *)
(***************************************************************************)
EXTENDS Naturals, FiniteSets, Sequences, FiniteSetsExt, SequencesExt

CONSTANTS Peers,          \* nodes
          PeerRecords,    \* memory ids
          Refused,        \* those that no peer can store
          BatchSize,      \* BATCH_SIZE
          MaxBatches,     \* PUSH_BATCHES_PER_CYCLE
          PageSize,       \* PULL_PAGE_SIZE
          OutboxDays,     \* OUTBOX_RETENTION_DAYS
          TombstoneDays,  \* TOMBSTONE_RETENTION_DAYS
          MaxPeerWrites, MaxDay, MaxFaults, \* bounds: writes, midnights, naps and lost answers
          AtOnce          \* bound: sync threads in a cycle at the same time

ASSUME SyncSizes == {BatchSize, MaxBatches, PageSize} \subseteq Nat \ {0}
ASSUME Retention == OutboxDays \in Nat \ {0} /\ TombstoneDays \in Nat /\ OutboxDays <= TombstoneDays

VARIABLES
    log,         \* history: the writes, [rec, dead, by, day]
    copy,        \* copy[n][m]: the version in n's row of m, 0 if there is none
    peerOutbox,  \* sync_outbox of each node
    sends,       \* sends[n][r]: the versions that n's sync_sends holds for r
    since,       \* since[n][r]: n's pull cursor for r
    cycle,       \* what each node's sync thread is doing
    asleep,      \* nodes that are off or out of reach
    peerDay,
    ran,       \* history: nodes with a whole cycle since midnight, their last write
               \* and the last wake-up
    apart,  \* history: midnights in a row that one or the other of two nodes slept through
    late,   \* history: some two were apart for longer than the outboxes are kept
    gone,   \* history: the tombstones that a node has removed
    faults  \* naps and lost answers so far

peerVars == <<log, copy, peerOutbox, sends, since, cycle, asleep, peerDay, ran, apart, late, gone, faults>>

PeerPairs == kSubset(2, Peers)
Off == [at |-> "idle"]
PeerVersions(m) == {v \in DOMAIN log : log[v].rec = m}
Newest(m) == Max(PeerVersions(m) \cup {0})
Creator(m) == log[Min(PeerVersions(m))].by
Dead(v) == v # 0 /\ log[v].dead
LiveAt(n, m) == copy[n][m] # 0 /\ ~Dead(copy[n][m])
Older(v, days) == peerDay > log[v].day + days
First(S, k) == {v \in S : Cardinality({w \in S : w < v}) < k}

\* The cycles of these nodes no longer count as whole ones.
Unfinished(N) ==
    [n \in Peers |-> IF n \in N /\ cycle[n] # Off THEN [cycle[n] EXCEPT !.whole = FALSE] ELSE cycle[n]]

PeerInit ==
    /\ log = <<>>
    /\ copy = [n \in Peers |-> [m \in PeerRecords |-> 0]]
    /\ peerOutbox = [n \in Peers |-> {}]
    /\ sends = [n \in Peers |-> [r \in Peers |-> {}]]
    /\ since = [n \in Peers |-> [r \in Peers |-> 0]]
    /\ cycle = [n \in Peers |-> Off]
    /\ asleep = {} /\ peerDay = 0 /\ ran = {} /\ late = FALSE
    /\ apart = [p \in PeerPairs |-> 0]
    /\ gone = [n \in Peers |-> {}]
    /\ faults = 0

-----------------------------------------------------------------------------
(* An insert, an edit or a soft delete, logged by the trigger.             *)
PutRow(n, m, dead) ==
    /\ n \notin asleep /\ Len(log) < MaxPeerWrites
    /\ LiveAt(n, m) \/ (~dead /\ PeerVersions(m) = {})
    /\ log' = Append(log, [rec |-> m, dead |-> dead, by |-> n, day |-> peerDay])
    /\ copy' = [copy EXCEPT ![n][m] = Len(log) + 1]
    /\ peerOutbox' = [peerOutbox EXCEPT ![n] = @ \cup {Len(log) + 1}]
    /\ ran' = ran \ {n}
    /\ cycle' = Unfinished({n})
    /\ UNCHANGED <<sends, since, asleep, peerDay, apart, late, gone, faults>>

-----------------------------------------------------------------------------
(* A cycle: _sync_once.                                                    *)
Visit(r, todo, whole) ==
    [at |-> "push", with |-> r, todo |-> todo, from |-> 0, batches |-> 0, whole |-> whole]

\* The next peer that answers /health, and after the last one the clean-up.
NextPeer(n, left, whole) ==
    IF left \subseteq asleep
    THEN cycle' = [cycle EXCEPT ![n] = [at |-> "clean", whole |-> whole]]
    ELSE \E r \in left \ asleep : cycle' = [cycle EXCEPT ![n] = Visit(r, left \ {r}, whole)]

BeginCycle(n) ==
    /\ n \notin asleep /\ cycle[n] = Off
    /\ Cardinality({k \in Peers : cycle[k] # Off}) < AtOnce
    /\ NextPeer(n, Peers \ {n}, TRUE)
    /\ UNCHANGED <<log, copy, peerOutbox, sends, since, asleep, peerDay, ran, apart, late, gone, faults>>

\* _upsert_records: the later version of each record, those refused left out.
MergedAll(rows, vs) ==
    [m \in PeerRecords |-> IF m \in Refused THEN rows[m]
                       ELSE Max({rows[m]} \cup {v \in vs : log[v].rec = m})]
Accepted(r, batch) == [copy EXCEPT ![r] = MergedAll(@, batch)]
Processed(batch) == {v \in batch : log[v].rec \notin Refused}

PendingToAny(n, r) == peerOutbox[n] \ UNION {sends[n][k] : k \in Peers}
PendingTo(n, r) == peerOutbox[n] \ sends[n][r]

PushNext(n, c) == First({v \in PendingTo(n, c.with) : v > c.from}, BatchSize)

\* The loop of _push_outbox: a short batch is the last one.
Pushed(c, batch) ==
    [c EXCEPT !.from = Max(batch), !.batches = @ + 1,
              !.at = IF Cardinality(batch) < BatchSize THEN "pull" ELSE "push"]

PushBatch(n) ==
    /\ cycle[n].at = "push" /\ cycle[n].with \notin asleep /\ cycle[n].batches < MaxBatches
    /\ LET c == cycle[n]  r == c.with  batch == PushNext(n, c)
       IN /\ batch # {}
          /\ copy' = Accepted(r, batch)
          /\ sends' = [sends EXCEPT ![n][r] = @ \cup Processed(batch)]
          /\ cycle' = [cycle EXCEPT ![n] = Pushed(c, batch)]
    /\ UNCHANGED <<log, peerOutbox, since, asleep, peerDay, ran, apart, late, gone, faults>>

\* Nothing is left, or max_batches is reached and the rest waits for the next cycle.
PushDone(n) ==
    /\ cycle[n].at = "push"
    /\ LET c == cycle[n]  all == PushNext(n, c) = {}
       IN /\ all \/ c.batches = MaxBatches
          /\ cycle' = [cycle EXCEPT ![n] = [c EXCEPT !.at = "pull", !.whole = @ /\ all]]
    /\ UNCHANGED <<log, copy, peerOutbox, sends, since, asleep, peerDay, ran, apart, late, gone, faults>>

\* do_GET of /sync/pull: rows after the cursor, other than the caller's own.
PullNextPage(n, r) ==
    First({copy[r][m] : m \in {k \in PeerRecords : copy[r][k] > since[n][r] /\ Creator(k) # n}}, PageSize)

\* _pull_remote: each page is stored, then the cursor; a short page is the last.
PullPage(n) ==
    /\ cycle[n].at = "pull" /\ cycle[n].with \notin asleep
    /\ LET c == cycle[n]  r == c.with  page == PullNextPage(n, r)
       IN /\ copy' = [copy EXCEPT ![n] = MergedAll(@, page)]
          /\ since' = [since EXCEPT ![n][r] = Max(page \cup {@})]
          /\ IF Cardinality(page) = PageSize
             THEN UNCHANGED cycle
             ELSE NextPeer(n, c.todo, c.whole)
    /\ UNCHANGED <<log, peerOutbox, sends, asleep, peerDay, ran, apart, late, gone, faults>>

\* The peer is gone, or its answer never comes: what it has stored stays
\* stored, nothing is marked, and the cycle goes on with the next peer.
Broken(n) ==
    /\ cycle[n].at \in {"push", "pull"}
    /\ LET c == cycle[n]  r == c.with
       IN /\ \/ r \in asleep /\ UNCHANGED <<copy, faults>>
             \/ /\ r \notin asleep /\ faults < MaxFaults
                /\ faults' = faults + 1
                /\ \/ UNCHANGED copy
                   \/ /\ c.at = "push"
                      /\ copy' = Accepted(r, PushNext(n, c))
          /\ NextPeer(n, c.todo, c.whole /\ r \in asleep)
    /\ UNCHANGED <<log, peerOutbox, sends, since, asleep, peerDay, ran, apart, late, gone>>

\* _prune_outbox, and the send markers of what it removes.
Kept(vs) == {v \in vs : ~Older(v, OutboxDays)}
\* _compact_tombstones.
CompactedWithOutbox(n) == {m \in PeerRecords : Dead(copy[n][m]) /\ copy[n][m] \notin peerOutbox[n]}
Compacted(n) == {m \in PeerRecords : Dead(copy[n][m]) /\ Older(copy[n][m], TombstoneDays)}

Clean(n) ==
    /\ cycle[n].at = "clean"
    /\ peerOutbox' = [peerOutbox EXCEPT ![n] = Kept(@)]
    /\ sends' = [sends EXCEPT ![n] = [r \in Peers |-> Kept(@[r])]]
    /\ copy' = [copy EXCEPT ![n] = [m \in PeerRecords |-> IF m \in Compacted(n) THEN 0 ELSE @[m]]]
    /\ gone' = [gone EXCEPT ![n] = @ \cup {copy[n][m] : m \in Compacted(n)}]
    /\ cycle' = [cycle EXCEPT ![n] = Off]
    /\ ran' = IF cycle[n].whole THEN ran \cup {n} ELSE ran
    /\ UNCHANGED <<log, since, asleep, peerDay, apart, late, faults>>

-----------------------------------------------------------------------------
(* Time.  A cycle starts every SYNC_INTERVAL, a minute: before a day is    *)
(* over each node that is up has had one that got to its end, with all the *)
(* peers that are up.                                                      *)
Midnight ==
    /\ peerDay < MaxDay
    /\ Peers \ asleep \subseteq ran /\ \A n \in Peers : cycle[n] = Off
    /\ peerDay' = peerDay + 1 /\ ran' = {}
    /\ apart' = [p \in PeerPairs |-> IF p \cap asleep = {} THEN 0 ELSE apart[p] + 1]
    /\ late' = (late \/ \E p \in PeerPairs : apart'[p] > OutboxDays)
    /\ UNCHANGED <<log, copy, peerOutbox, sends, since, cycle, asleep, gone, faults>>

FallAsleep(n) ==
    /\ n \notin asleep /\ faults < MaxFaults
    /\ faults' = faults + 1
    /\ asleep' = asleep \cup {n}
    /\ cycle' = [cycle EXCEPT ![n] = Off]
    /\ UNCHANGED <<log, copy, peerOutbox, sends, since, peerDay, ran, apart, late, gone>>

WakeUp(n) ==
    /\ n \in asleep
    /\ asleep' = asleep \ {n}
    /\ ran' = {}
    /\ cycle' = Unfinished(Peers)
    /\ UNCHANGED <<log, copy, peerOutbox, sends, since, peerDay, apart, late, gone, faults>>

PeerStep(n) ==
    \/ \E m \in PeerRecords, dead \in BOOLEAN : PutRow(n, m, dead)
    \/ BeginCycle(n) \/ PushBatch(n) \/ PushDone(n) \/ PullPage(n) \/ Broken(n) \/ Clean(n)
    \/ FallAsleep(n) \/ WakeUp(n)

PeerNext == Midnight \/ \E n \in Peers : PeerStep(n)

PeerSpec == PeerInit /\ [][PeerNext]_peerVars

\* The thread of a node that is up goes on with its cycles, an exchange with
\* a peer that is gone fails, and nodes come back.
CycleStep(n) ==
    BeginCycle(n) \/ PushBatch(n) \/ PushDone(n) \/ PullPage(n) \/ Clean(n)
      \/ (Broken(n) /\ cycle[n].with \in asleep)
PeerFair == \A n \in Peers : WF_peerVars(CycleStep(n)) /\ WF_peerVars(WakeUp(n))
PeerFairSpec == PeerSpec /\ PeerFair

-----------------------------------------------------------------------------
(* As long as no node is away for longer than the outboxes are kept, the   *)
(* newest version of a record is at every other node or still due there:   *)
(* in its writer's outbox and not marked as sent.  Relies on markers per   *)
(* remote, set from what the peer has processed, on both retention times,  *)
(* and on each cycle pushing before it prunes.                             *)
StillDue ==
    ~late =>
      \A m \in PeerRecords \ Refused, r \in Peers :
         LET v == Newest(m)
         IN v # 0 /\ log[v].by # r /\ copy[r][m] < v /\ v \notin gone[r]
              => v \in PendingTo(log[v].by, r)

(* What a node has seen deleted, and whose tombstone it has removed, comes *)
(* back to it as a live memory only by a write made after the deletion, on *)
(* a node that did not know of it: never from an outbox, whose payloads    *)
(* are as old as the retention allows, nor by a pull from a node that has  *)
(* an older version.  With tombstones kept for twice as long as an outbox, *)
(* as they are (30 and 180 days), it does not come back at all.            *)
StaysDeleted ==
    ~late =>
      \A n \in Peers : \A v \in gone[n] :
         LiveAt(n, log[v].rec)
           => copy[n][log[v].rec] > v /\ TombstoneDays < 2 * OutboxDays

(* The docstring of _push_outbox: the selection "naturally resumes from    *)
(* wherever sync_sends left off" (sync.py:202-204), so that what a peer can *)
(* store reaches it, behind whatever it refuses.                           *)
Reaches(v) ==
    v \in DOMAIN log /\ log[v].rec \notin Refused
      ~> \A r \in Peers : v \in DOMAIN log /\ copy[r][log[v].rec] >= v
BacklogDrains == \A v \in 1..MaxPeerWrites : Reaches(v)
=============================================================================
