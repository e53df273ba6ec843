----------------------------- MODULE LocalUpsert -----------------------------
(***************************************************************************)
(* Records received from the hub and from peers are stored in the database *)
(* of a node by several threads, each with a connection of its own: the    *)
(* sync thread and one thread per request to the peer server.  Meanwhile   *)
(* the tools edit the same database.  This module follows one memory of    *)
(* one node, statement by statement (remind_me_mcp/sync.py, _upsert_one).  *)
(*                                                                         *)
(* The statements that read run outside a transaction; the first statement *)
(* that writes opens one and takes the write lock of SQLite until the      *)
(* commit, so the writes of an upsert and its commit are a single step.    *)
(***************************************************************************)
EXTENDS Integers, FiniteSets

CONSTANTS Threads,      \* the threads that store received records
          Tags,         \* tags a memory may carry
          MaxStamp,     \* bound: writes by users, here and elsewhere
          MaxOutbox     \* bound: rows of the outbox

ASSUME LocalBounds == MaxStamp \in Nat /\ MaxOutbox \in Nat

VARIABLES
    clock,    \* the last stamp given out by _now_iso on any node
    remote,   \* the versions written on other nodes
    row,      \* the row of the memory, [ts, tags]; ts is 0 without a row
    outbox,   \* sync_outbox, [id, ts, sent, echo]; echo: an upsert made it
    lastId,   \* the last id of sync_outbox (AUTOINCREMENT)
    at,       \* how far thread u is in _upsert_one
    rec,      \* rec[u]: the record it is storing
    mark,     \* mark[u]: its outbox_max
    local,    \* local[u]: the row as it has read it
    draft,    \* the stamp of an edit that has taken it before the write lock; 0 without one
    held,     \* history: stamps of the versions edited or accepted here
    kept,     \* history: tags accepted here since the last local edit
    overlapped, \* history: threads with an upsert that something came between
    backdated   \* history: an edit has written a stamp older than the row's

reading == <<at, rec, mark, local>>
history == <<held, kept, backdated>>
vars == <<clock, remote, row, outbox, lastId, at, rec, mark, local, draft, held, kept,
          overlapped, backdated>>

Versions == [ts : 0..MaxStamp, tags : SUBSET Tags]
NoVersion == [ts |-> 0, tags |-> {}]

TypeOK ==
    /\ clock \in 0..MaxStamp
    /\ remote \subseteq Versions
    /\ row \in Versions
    /\ outbox \subseteq [id : Nat, ts : 0..MaxStamp, sent : BOOLEAN, echo : BOOLEAN]
    /\ lastId \in Nat
    /\ at \in [Threads -> {"idle", "read_max", "read_row"}]
    /\ rec \in [Threads -> Versions]
    /\ mark \in [Threads -> Nat]
    /\ local \in [Threads -> Versions]
    /\ draft \in 0..MaxStamp
    /\ held \subseteq 0..MaxStamp
    /\ kept \subseteq Tags
    /\ overlapped \subseteq Threads
    /\ backdated \in BOOLEAN

Init ==
    /\ clock = 0
    /\ remote = {}
    /\ row = NoVersion
    /\ outbox = {}
    /\ lastId = 0
    /\ at = [u \in Threads |-> "idle"]
    /\ rec = [u \in Threads |-> NoVersion]
    /\ mark = [u \in Threads |-> 0]
    /\ local = [u \in Threads |-> NoVersion]
    /\ draft = 0
    /\ held = {}
    /\ kept = {}
    /\ overlapped = {}
    /\ backdated = FALSE

-----------------------------------------------------------------------------
\* The threads that are between the reads and the writes of an upsert.
UnderWay == {u \in Threads : at[u] # "idle"}

NoteOverlap == overlapped' = overlapped \cup UnderWay

\* What the insert trigger of the memories table adds to the outbox, and the
\* update trigger when updated_at changes.
Trigger(ts, echo) == [id |-> lastId + 1, ts |-> ts, sent |-> FALSE, echo |-> echo]

\* Mutant of Suppress: every pending row of the memory is suppressed.
SuppressAll(rows, max) == {[o EXCEPT !.sent = TRUE] : o \in rows}

\* _suppress_echo: the rows above the high-water mark count as sent.
Suppress(rows, max) ==
    {IF o.id > max THEN [o EXCEPT !.sent = TRUE] ELSE o : o \in rows}

\* An edit commits with the given stamp; the trigger runs in the same transaction.
Write(ts, tags) ==
    /\ NoteOverlap
    /\ lastId < MaxOutbox
    /\ row' = [ts |-> ts, tags |-> tags]
    /\ outbox' = outbox \cup {Trigger(ts, FALSE)}
    /\ lastId' = lastId + 1
    /\ held' = held \cup {ts}
    /\ kept' = tags
    /\ backdated' = IF ts < row.ts THEN TRUE ELSE backdated
    /\ UNCHANGED <<remote, reading>>

\* A user stores the memory, or edits its content or its tags with remind_me_update, which
\* takes the stamp under the write lock.  An id is made once: a memory known elsewhere is
\* edited here only when it has arrived.
Edit(tags) ==
    /\ row.ts > 0 \/ remote = {}
    /\ clock < MaxStamp
    /\ clock' = clock + 1
    /\ Write(clock + 1, tags)
    /\ UNCHANGED draft

\* remind_me_delete and the dashboard's update, delete and bulk tag take the stamp first, and
\* the write lock only with the UPDATE.
TakeStamp ==
    /\ draft = 0 /\ clock < MaxStamp
    /\ clock' = clock + 1 /\ draft' = clock + 1
    /\ UNCHANGED <<remote, row, outbox, lastId, reading, history, overlapped>>

EditWithStamp(tags) ==
    /\ draft > 0 /\ row.ts > 0
    /\ Write(draft, tags)
    /\ draft' = 0
    /\ UNCHANGED clock

\* A user writes the same memory on another node.
EditElsewhere(tags) ==
    /\ clock < MaxStamp
    /\ clock' = clock + 1
    /\ remote' = remote \cup {[ts |-> clock + 1, tags |-> tags]}
    /\ UNCHANGED <<row, outbox, lastId, reading, draft, history, overlapped>>

-----------------------------------------------------------------------------
(* _upsert_one.  A version may arrive often, and in any order.             *)

ReadMax(u) ==
    /\ NoteOverlap
    /\ at[u] = "idle"
    /\ \E v \in remote : rec' = [rec EXCEPT ![u] = v]
    /\ mark' = [mark EXCEPT ![u] = lastId]
    /\ at' = [at EXCEPT ![u] = "read_max"]
    /\ UNCHANGED <<clock, remote, row, outbox, lastId, local, draft, history>>

ReadRow(u) ==
    /\ at[u] = "read_max"
    /\ local' = [local EXCEPT ![u] = row]
    /\ at' = [at EXCEPT ![u] = "read_row"]
    /\ UNCHANGED <<clock, remote, row, outbox, lastId, rec, mark, draft, history,
                   overlapped>>

\* Mutant of Wins: any other version wins, whatever its age.
WinsIfDifferent(u) == rec[u].ts # local[u].ts

Wins(u) == rec[u].ts > local[u].ts

\* Mutant of Merged: the winner's tags replace the loser's.
MergedByWinner(u) == IF Wins(u) THEN rec[u].tags ELSE local[u].tags

Merged(u) == local[u].tags \cup rec[u].tags

Return(u) ==
    /\ at' = [at EXCEPT ![u] = "idle"]
    /\ rec' = [rec EXCEPT ![u] = NoVersion]
    /\ mark' = [mark EXCEPT ![u] = 0]
    /\ local' = [local EXCEPT ![u] = NoVersion]
    /\ UNCHANGED <<draft, overlapped>>

\* The record is processed: its sender will not send it again.
Accept(u) ==
    /\ held' = held \cup {rec[u].ts}
    /\ kept' = kept \cup rec[u].tags
    /\ UNCHANGED backdated
    /\ Return(u)

\* The record loses and adds no tag: nothing is written.
Ignore(u) ==
    /\ at[u] = "read_row"
    /\ ~Wins(u)
    /\ Merged(u) = local[u].tags
    /\ Accept(u)
    /\ UNCHANGED <<clock, remote, row, outbox, lastId>>

\* The record loses but adds a tag: only the tags change, so no trigger runs.
MergeTags(u) ==
    /\ at[u] = "read_row"
    /\ ~Wins(u)
    /\ Merged(u) # local[u].tags
    /\ row' = [row EXCEPT !.tags = Merged(u)]
    /\ outbox' = Suppress(outbox, mark[u])
    /\ Accept(u)
    /\ UNCHANGED <<clock, remote, lastId>>

\* Store the winning record and suppress the rows above the mark; the
\* trigger runs unless the row has that updated_at already.
Store(u) ==
    /\ row' = [ts |-> rec[u].ts, tags |-> Merged(u)]
    /\ IF rec[u].ts = row.ts
          THEN /\ outbox' = Suppress(outbox, mark[u])
               /\ UNCHANGED lastId
          ELSE /\ lastId < MaxOutbox
               /\ outbox' = Suppress(outbox \cup {Trigger(rec[u].ts, TRUE)}, mark[u])
               /\ lastId' = lastId + 1
    /\ Accept(u)
    /\ UNCHANGED <<clock, remote>>

InsertRow(u) ==
    /\ at[u] = "read_row"
    /\ local[u].ts = 0 /\ row.ts = 0
    /\ Store(u)

\* Another thread has inserted the row in the meantime: the INSERT violates
\* the primary key, is rolled back, and the record counts as failed.
InsertFails(u) ==
    /\ at[u] = "read_row"
    /\ local[u].ts = 0 /\ row.ts > 0
    /\ Return(u)
    /\ UNCHANGED <<clock, remote, row, outbox, lastId, history>>

UpdateRow(u) ==
    /\ at[u] = "read_row"
    /\ local[u].ts > 0 /\ Wins(u)
    /\ Store(u)

-----------------------------------------------------------------------------
Next ==
    \/ TakeStamp
    \/ \E tags \in SUBSET Tags : Edit(tags) \/ EditWithStamp(tags) \/ EditElsewhere(tags)
    \/ \E u \in Threads :
          \/ ReadMax(u) \/ ReadRow(u)
          \/ Ignore(u) \/ MergeTags(u)
          \/ InsertRow(u) \/ InsertFails(u) \/ UpdateRow(u)

Spec == Init /\ [][Next]_vars

-----------------------------------------------------------------------------
(* What must hold.                                                         *)

\* Storing received records never takes the row of a local edit out of the
\* outbox: _upsert_one suppresses only its echo, "pending rows from concurrent
\* local edits keep their place".
EditsAlwaysKept == \A o \in outbox : ~o.echo => ~o.sent

\* The code keeps that promise until an edit, or another upsert, comes between
\* the reads and the writes of an upsert.
EditsKept == overlapped = {} => EditsAlwaysKept

\* A node does not send back what it was sent: whatever the threads do, the
\* row that storing a received record leaves in the outbox is never pending.
NoEcho == \A o \in outbox : o.echo => o.sent

\* The outbox holds what is to be sent and nothing else: what was edited here, not what was
\* received.
OutboxRight == EditsKept /\ NoEcho

\* The row is at least as new as every version edited or accepted here, in
\* whatever order and however often the versions arrive, without an overlap
\* and until an edit puts a stamp on it that it took before the row's came.
NewestKept == overlapped = {} /\ ~backdated => \A ts \in held : row.ts >= ts

\* A tag accepted from another node stays until a local edit takes it away,
\* whichever side won (merge_tags: "never silently dropped by a conflicting
\* edit to a different field on another device"), without an overlap.
TagsKept == overlapped = {} => kept \subseteq row.tags
=============================================================================
