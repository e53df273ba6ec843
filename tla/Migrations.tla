----------------------------- MODULE Migrations -----------------------------
(***************************************************************************)
(* How a server opens its database (remind_me_mcp/db.py): _get_db runs     *)
(* _ensure_schema, which migrates the store, statement by statement, from  *)
(* the version it finds to the latest one, then aligns the sync_enabled    *)
(* flag with the configuration.  Several servers share one database file,  *)
(* so they may open it at the same time; a server may stop anywhere.       *)
(*                                                                         *)
(* Python's sqlite3 runs DDL and PRAGMA statements in autocommit mode      *)
(* unless a DML statement has opened a transaction; executescript commits  *)
(* an open transaction first, and autocommits every statement of its own.  *)
(* A statement that finds the database locked waits: the busy timeout is   *)
(* taken to be long enough.  Indexes, FTS tables and timestamps are left   *)
(* out, and CREATE statements of one script form one step: all of them are *)
(* IF NOT EXISTS.                                                          *)
(***************************************************************************)
EXTENDS Naturals, Sequences, FiniteSets, SequencesExt

CONSTANTS Openers,      \* server processes
          Rows,         \* rows of the store
          KindOf,       \* KindOf[r]: "memory", "palace" (an imported memory),
                        \* "entity", "link" or "relation"
          Releases,     \* schema versions of the stores that one server upgrades,
                        \* and may be killed in doing so
          Shared,       \* schema versions of the stores that servers upgrade together
          NoOpener,     \* nobody holds the write lock
          MaxOpens,     \* bound: times a server opens the database
          MaxRev,       \* bound: revisions of a row
          Keep          \* BACKUP_RETENTION_COUNT

Kinds == {"memory", "palace", "entity", "link", "relation"}
ASSUME KindAssumption == \A r \in Rows : KindOf[r] \in Kinds
ASSUME NoOpenerOut == NoOpener \notin Openers
ASSUME OpenBounds == MaxOpens \in Nat /\ MaxRev \in Nat \ {0} /\ Keep \in Nat \ {0}

VARIABLES
    disk,       \* the committed store
    holder,     \* who has a transaction open
    work,       \* the store as that transaction sees it
    stage,      \* stage[p]: "down", "snapshot", "migrate", "commit", "flag",
                \* "reconcile", "open"
    at,         \* at[p]: <<version it migrates to, statement>>
    found,      \* found[p]: what it read before acting on it
    sync,       \* SYNC_ENABLED, shared by the servers
    snapshots,  \* backups, oldest first: the rows and the version they hold
    spared,     \* has a snapshot failed?
    together,   \* do servers upgrade the store at the same time?
    opens

migVars == <<disk, holder, work, stage, at, found, sync, snapshots, spared, together, opens>>

-----------------------------------------------------------------------------
(* Statements.  alter is ALTER TABLE ADD COLUMN, its error suppressed;     *)
(* make the CREATE TABLE IF NOT EXISTS of a script; drop and create are    *)
(* about outbox triggers; fill is DML, which opens a transaction; version  *)
(* is PRAGMA user_version.                                                 *)
Alter(c) == [op |-> "alter", objects |-> {c}]
Make(S) == [op |-> "make", objects |-> S]
Fill(what) == [op |-> "fill", what |-> what]
Drop(S) == [op |-> "drop", triggers |-> S]
Create(t, columns, gated, scoped) ==
    [op |-> "create", trigger |-> t,
     as |-> [columns |-> columns, gated |-> gated, scoped |-> scoped]]
Commit == [op |-> "commit"]
Version(v) == [op |-> "version", v |-> v]
Script(s) == <<Commit>> \o s
Alters(cs) == [i \in 1..Len(cs) |-> Alter(cs[i])]

\* The column list of the running code, named by the migration that last
\* extended it; triggers are generated from it from v9 on.
Latest == 26

Both == <<Drop({"memories_ai", "memories_au"})>>
\* Memory triggers with an explicit column list (v4 to v7): not gated.
Listed(v) == <<Create("memories_ai", v, FALSE, FALSE), Create("memories_au", v, FALSE, FALSE)>>
\* Memory triggers gated on sync_flags, with the generated column list; scoped
\* ones log an update only if updated_at changes.
Gated(scoped) == <<Create("memories_ai", Latest, TRUE, FALSE),
                   Create("memories_au", Latest, TRUE, scoped)>>

BaseSchema == {"memories", "chat_imports"}
V1 == <<Alter("capture_id"), Fill("capture_id")>>
V2 == Script(<<Make({"memory_tags"})>>) \o <<Fill("memory_tags")>>
V3 == <<Alter("node_id")>> \o Script(<<Make({"sync_log", "sync_outbox"})>> \o Listed(3))
      \o <<Fill("outbox")>>
V4 == <<Alter("client"), Fill("client")>> \o Script(Both \o Listed(4))
V5 == Alters(<<"accessed_at", "access_count", "decay_rate", "vitality", "base_weight",
               "status", "memory_type">>)
      \o <<Fill("accessed_at")>> \o Script(Both \o Listed(5))
V6 == <<Alter("source_capture_id")>> \o Script(Both \o Listed(6))
V7 == Alters(<<"subject", "predicate", "object", "superseded_by">>) \o Script(Both \o Listed(7))
V8 == <<Make({"vec_chunks"}), Fill("vec_chunks")>>
V9 == Script(<<Make({"sync_sends", "sync_flags"})>>)
      \o <<Alter("last_pull_id"), Fill("created_at")>> \o Script(Both \o Gated(FALSE))
V10 == Script(<<Make({"entities", "memory_entities"})>>)
       \o Script(<<Drop({"entities_ai", "entities_au", "links_ai"}),
                   Create("entities_ai", 10, TRUE, FALSE), Create("entities_au", 10, TRUE, FALSE),
                   Create("links_ai", 10, TRUE, FALSE)>>)
V11 == Script(<<Make({"wiki_pages", "wiki_links", "wiki_meta"})>>)
V12 == Script(<<Make({"mempalace_imports"})>>)
V13 == Alters(<<"doc_id", "chunk_index">>) \o Script(Both \o Gated(FALSE))
V14 == Script(<<Make({"entity_relations"})>>)
       \o Script(<<Drop({"relations_ai"}), Create("relations_ai", 14, TRUE, FALSE)>>)
V15 == Script(<<Make({"dbs_imports"})>>)
V16 == <<Alter("deleted_at")>> \o Script(Both \o Gated(FALSE))
V17 == Script(<<Make({"memory_feedback"})>>)
V18 == Script(<<Make({"embedding_meta"})>>)
V19 == Script(<<Make({"memory_associations"})>>)
V20 == Alters(<<"last_attempt_at", "last_push_at", "last_pull_at">>)
V21 == <<>>   \* an index only
V22 == Script(<<Drop({"memories_au"}), Create("memories_au", Latest, TRUE, TRUE)>>)
V23 == <<Alter("remind_at")>> \o Script(<<Make({"reminder_deliveries"})>>)
       \o Script(Both \o Gated(TRUE))
V24 == Script(<<Make({"memory_revisions"})>>)
V25 == Script(<<Make({"analytics_snapshots"})>>)
V26 == Alters(<<"sensitive", "revisions.sensitive">>) \o Script(Both \o Gated(TRUE))
V27 == Script(<<Make({"saved_searches", "saved_search_seen_memories"})>>)
V28 == <<[op |-> "probe", objects |-> {"last_pull_seq"}],
         [op |-> "add", objects |-> {"last_pull_seq"}]>>
V29 == <<Fill("refile")>>

Migration == <<V1, V2, V3, V4, V5, V6, V7, V8, V9, V10, V11, V12, V13, V14, V15, V16, V17, V18,
               V19, V20, V21, V22, V23, V24, V25, V26, V27, V28, V29>>
SchemaVersion == Len(Migration)
\* What was released before is of no later version.
ASSUME ReleaseAssumption == Releases \cup Shared \subseteq 0..SchemaVersion
StatementsVersionFirst(v) == <<Version(v)>> \o Migration[v]
Statements(v) == Append(Migration[v], Version(v))

-----------------------------------------------------------------------------
(* The store: rev[r] counts the versions of row r (0: no such row), outbox *)
(* holds what was logged of it.                                            *)
Absent == [columns |-> 0, gated |-> FALSE, scoped |-> FALSE]
Triggers == {"memories_ai", "memories_au", "entities_ai", "entities_au", "links_ai", "relations_ai"}
IsMemory(r) == KindOf[r] \in {"memory", "palace"}
TriggerOf(r, event) ==
    CASE IsMemory(r) -> IF event = "insert" THEN "memories_ai" ELSE "memories_au"
      [] KindOf[r] = "entity" -> IF event = "insert" THEN "entities_ai" ELSE "entities_au"
      [] KindOf[r] = "link" -> "links_ai"
      [] KindOf[r] = "relation" -> "relations_ai"

\* What the triggers log when row r of store s becomes version v of it; touch
\* says whether updated_at changes.
Logged(s, r, v, event, touch) ==
    LET t == s.triggers[TriggerOf(r, event)]
    IN IF t.columns = 0 \/ (t.gated /\ s.flag # "1") \/ (t.scoped /\ ~touch)
       THEN {} ELSE {[row |-> r, rev |-> v, columns |-> t.columns]}
Present(s) == {r \in Rows : s.rev[r] > 0}
Everything(s, R, columns) == {[row |-> r, rev |-> s.rev[r], columns |-> columns] : r \in R}

\* DML of the migrations.  Only these change what the model keeps of a store.
Filled(s, what) ==
    CASE what = "outbox" ->
            [s EXCEPT !.outbox = @ \cup Everything(s, Present(s), 3)]
      [] what = "accessed_at" ->
            [s EXCEPT !.outbox = @ \cup UNION {Logged(s, r, s.rev[r], "update", FALSE) : r \in Present(s)}]
      [] what = "refile" ->
            LET P == {r \in Present(s) : KindOf[r] = "palace" /\ r \notin s.refiled}
            IN [s EXCEPT !.rev = [r \in Rows |-> IF r \in P THEN @[r] + 1 ELSE @[r]],
                         !.refiled = @ \cup P,
                         !.outbox = @ \cup UNION {Logged(s, r, s.rev[r] + 1, "update", TRUE) : r \in P}]
      [] OTHER -> s

Effect(s, stmt) ==
    CASE stmt.op \in {"alter", "make", "add"} -> [s EXCEPT !.objects = @ \cup stmt.objects]
      [] stmt.op = "drop" ->
            [s EXCEPT !.triggers = [t \in Triggers |-> IF t \in stmt.triggers THEN Absent ELSE @[t]]]
      [] stmt.op = "create" ->
            [s EXCEPT !.triggers[stmt.trigger] = IF @ = Absent THEN stmt.as ELSE @]
      [] stmt.op = "fill" -> Filled(s, stmt.what)
      [] stmt.op = "version" -> [s EXCEPT !.version = stmt.v]

-----------------------------------------------------------------------------
(* Stores that earlier releases left behind.                               *)
ObjectsAt(v) ==
    BaseSchema \cup UNION {UNION {stmt.objects : stmt \in {x \in Range(Migration[i]) : "objects" \in DOMAIN x}}
                           : i \in 1..v}
MemoryColumns(v) == Max({n \in {0, 3, 4, 5, 6, 7, 9, 13, 16, 23, 26} : n <= v})
TriggersAt(v) ==
    LET memory(scoped) == IF v < 3 THEN Absent
                          ELSE [columns |-> MemoryColumns(v), gated |-> v >= 9, scoped |-> scoped]
        since(n) == IF v < n THEN Absent ELSE [columns |-> n, gated |-> TRUE, scoped |-> FALSE]
    IN [t \in Triggers |-> CASE t = "memories_ai" -> memory(FALSE)
                             [] t = "memories_au" -> memory(v >= 22)
                             [] t \in {"entities_ai", "entities_au", "links_ai"} -> since(10)
                             [] t = "relations_ai" -> since(14)]
Since(kind) == CASE kind = "memory" -> 0 [] kind = "palace" -> 12
                 [] kind \in {"entity", "link"} -> 10 [] kind = "relation" -> 14

\* A store of version v holding the rows R; the sync flag exists from v9 on.
Released(v, R, flag) ==
    LET columns == MemoryColumns(v)
        bare == [version |-> v, objects |-> ObjectsAt(v), triggers |-> TriggersAt(v),
                 flag |-> flag, rev |-> [r \in Rows |-> IF r \in R THEN 1 ELSE 0],
                 refiled |-> {}, outbox |-> {}]
    IN [bare EXCEPT !.outbox =
            IF v < 3 \/ flag = "0" THEN {} ELSE Everything(bare, R, columns)]

MigInit ==
    /\ together \in BOOLEAN
    /\ \E v \in IF together THEN Shared ELSE Releases :
       \E f \in IF v < 9 THEN {"unset"} ELSE {"0", "1"} :
          disk = Released(v, {r \in Rows : Since(KindOf[r]) <= v}, f)
    /\ work = disk
    /\ holder = NoOpener
    /\ stage = [p \in Openers |-> "down"]
    /\ at = [p \in Openers |-> <<1, 1>>]
    /\ found = [p \in Openers |-> "nothing"]
    /\ sync \in BOOLEAN
    /\ snapshots = <<>> /\ spared = FALSE
    /\ opens = 0

-----------------------------------------------------------------------------
\* The store as p sees it, and p writing to it.
View(p) == IF holder = p THEN work ELSE disk
MayWrite(p) == holder \in {p, NoOpener}
Put(p, s) ==
    IF holder = p THEN work' = s /\ UNCHANGED <<disk, holder>>
                  ELSE disk' = s /\ work' = s /\ UNCHANGED holder
Begin(p, s) == holder' = p /\ work' = s /\ UNCHANGED disk
Finish(p) ==
    /\ disk' = View(p)
    /\ work' = View(p)
    /\ holder' = IF holder = p THEN NoOpener ELSE holder
Goto(p, where) == stage' = [stage EXCEPT ![p] = where]
Forget(p) == at' = [at EXCEPT ![p] = <<1, 1>>] /\ found' = [found EXCEPT ![p] = "nothing"]
Opening == {p \in Openers : stage[p] \notin {"down", "open"}}

OpenStraight(p) ==
    /\ stage[p] = "down" /\ opens < MaxOpens
    /\ together \/ Opening = {}
    /\ opens' = opens + 1
    /\ disk.version < SchemaVersion
    /\ Goto(p, "migrate") /\ at' = [at EXCEPT ![p] = <<disk.version + 1, 1>>]
    /\ UNCHANGED <<disk, holder, work, found, sync, snapshots, spared, together>>

\* A server opens the database: the base schema, then the version is read.
Open(p) ==
    /\ stage[p] = "down" /\ opens < MaxOpens
    /\ together \/ Opening = {}
    /\ opens' = opens + 1
    /\ IF disk.version < SchemaVersion
       THEN Goto(p, "snapshot") /\ at' = [at EXCEPT ![p] = <<disk.version + 1, 1>>]
       ELSE Goto(p, "flag") /\ UNCHANGED at
    /\ UNCHANGED <<disk, holder, work, found, sync, snapshots, spared, together>>

\* The backup of a store with data, and the retention of backups; a backup
\* that fails is skipped.
Snapshot(p) ==
    /\ stage[p] = "snapshot"
    /\ IF \E r \in Rows : IsMemory(r) /\ disk.rev[r] > 0
       THEN \/ /\ snapshots' = LET all == Append(snapshots, [version |-> disk.version, rev |-> disk.rev])
                               IN SubSeq(all, Max({1, Len(all) - Keep + 1}), Len(all))
               /\ UNCHANGED spared
            \/ spared' = TRUE /\ UNCHANGED snapshots
       ELSE UNCHANGED <<snapshots, spared>>
    /\ Goto(p, "migrate")
    /\ UNCHANGED <<disk, holder, work, at, found, sync, together, opens>>

Current(p) == Statements(at[p][1])[at[p][2]]
Advance(p) ==
    IF at[p][2] < Len(Statements(at[p][1]))
    THEN at' = [at EXCEPT ![p][2] = @ + 1] /\ UNCHANGED stage
    ELSE IF at[p][1] < SchemaVersion
    THEN at' = [at EXCEPT ![p] = <<@[1] + 1, 1>>] /\ UNCHANGED stage
    ELSE at' = at /\ Goto(p, "commit")

Execute(p) ==
    /\ stage[p] = "migrate" /\ Current(p).op \notin {"probe", "add"}
    /\ MayWrite(p)
    /\ CASE Current(p).op = "commit" -> Finish(p)
         [] Current(p).op = "fill" -> Begin(p, Effect(View(p), Current(p)))
         [] OTHER -> Put(p, Effect(View(p), Current(p)))
    /\ Advance(p)
    /\ UNCHANGED <<found, sync, snapshots, spared, together, opens>>

\* v28 asks PRAGMA table_info before it adds its column ...
Probe(p) ==
    /\ stage[p] = "migrate" /\ Current(p).op = "probe"
    /\ found' = [found EXCEPT ![p] =
            IF Current(p).objects \subseteq View(p).objects THEN "column" ELSE "no column"]
    /\ Advance(p)
    /\ UNCHANGED <<disk, holder, work, sync, snapshots, spared, together, opens>>

\* ... and another server may have added it meanwhile: the error is not
\* suppressed, and this server fails to start.
Add(p) ==
    /\ stage[p] = "migrate" /\ Current(p).op = "add"
    /\ IF found[p] = "column"
       THEN Advance(p) /\ UNCHANGED <<disk, holder, work, found>>
       ELSE /\ MayWrite(p)
            /\ IF Current(p).objects \subseteq View(p).objects
               THEN Goto(p, "down") /\ Forget(p) /\ UNCHANGED <<disk, holder, work>>
               ELSE Put(p, Effect(View(p), Current(p))) /\ Advance(p) /\ UNCHANGED found
    /\ UNCHANGED <<sync, snapshots, spared, together, opens>>

\* The commit at the end of _migrate_schema.
Migrated(p) ==
    /\ stage[p] = "commit"
    /\ MayWrite(p)
    /\ Finish(p)
    /\ Goto(p, "flag")
    /\ Forget(p)
    /\ UNCHANGED <<sync, snapshots, spared, together, opens>>

\* _reconcile_sync_enabled_flag reads the stored flag ...
Desired == IF sync THEN "1" ELSE "0"
ReadFlag(p) ==
    /\ stage[p] = "flag"
    /\ IF disk.flag = Desired
       THEN Goto(p, "open") /\ UNCHANGED found
       ELSE Goto(p, "reconcile") /\ found' = [found EXCEPT ![p] = disk.flag]
    /\ UNCHANGED <<disk, holder, work, at, sync, snapshots, spared, together, opens>>

\* ... and sets it in one transaction with what it entails: sync that is
\* switched on again logs the rows written meanwhile, sync that is switched off
\* empties the outbox.
Reconciled(s, stored) ==
    LET log == IF ~sync THEN {}
               ELSE IF stored = "0"
               THEN s.outbox \cup Everything(s, {r \in Present(s) : KindOf[r] # "relation"}, Latest)
               ELSE s.outbox
    IN [s EXCEPT !.outbox = log, !.flag = Desired]
Reconcile(p) ==
    /\ stage[p] = "reconcile"
    /\ holder = NoOpener
    /\ Put(p, Reconciled(disk, found[p]))
    /\ Goto(p, "open")
    /\ Forget(p)
    /\ UNCHANGED <<sync, snapshots, spared, together, opens>>

\* An open server writes row r.  Writes during an upgrade are left out: a server
\* that is open then runs an earlier release.
Write(p, r) ==
    /\ stage[p] = "open" /\ Opening = {} /\ holder = NoOpener
    /\ disk.rev[r] < IF KindOf[r] \in {"link", "relation"} THEN 1 ELSE MaxRev
    /\ LET v == disk.rev[r] + 1
           event == IF disk.rev[r] = 0 THEN "insert" ELSE "update"
       IN Put(p, [disk EXCEPT !.rev[r] = v,
                              !.refiled = IF v = 1 THEN @ \cup {r} ELSE @,
                              !.outbox = @ \cup Logged(disk, r, v, event, TRUE)])
    /\ UNCHANGED <<stage, at, found, sync, snapshots, spared, together, opens>>

\* A server stops, and its open transaction is rolled back.  One that is killed
\* half-way through an upgrade is alone in it: if another server were ahead of
\* it, it could leave the latest version with the triggers of an earlier one.
Stop(p) ==
    /\ stage[p] # "down"
    /\ p \in Opening => ~together
    /\ Goto(p, "down")
    /\ holder' = IF holder = p THEN NoOpener ELSE holder
    /\ work' = IF holder = p THEN disk ELSE work
    /\ Forget(p)
    /\ UNCHANGED <<disk, sync, snapshots, spared, together, opens>>

\* The user switches sync on or off while no server runs.
Configure ==
    /\ \A p \in Openers : stage[p] = "down"
    /\ opens > 0
    /\ sync' = ~sync
    /\ UNCHANGED <<disk, holder, work, stage, at, found, snapshots, spared, together, opens>>

OpenerStep(p) ==
    \/ Open(p)
    \/ Snapshot(p)
    \/ Execute(p)
    \/ Probe(p)
    \/ Add(p)
    \/ Migrated(p)
    \/ ReadFlag(p)
    \/ Reconcile(p)
    \/ \E r \in Rows : Write(p, r)
    \/ Stop(p)
MigNext == Configure \/ \E p \in Openers : OpenerStep(p)
MigSpec == MigInit /\ [][MigNext]_migVars

-----------------------------------------------------------------------------
Quiet == Opening = {}

(* No upgrade leaves a hole: whenever no server is in the middle of opening *)
(* the store and its version is the latest, every table and column of every *)
(* migration is there, and every outbox trigger is the one of the latest    *)
(* release, however often the upgrade was cut short or done by two servers  *)
(* at a time.  ALTER errors are swallowed, triggers are dropped before they *)
(* are created, and two upgrades set user_version over each other.          *)
UpgradeComplete ==
    Quiet /\ disk.version = SchemaVersion =>
        /\ disk.objects = ObjectsAt(SchemaVersion)
        /\ disk.triggers["memories_ai"] = [columns |-> Latest, gated |-> TRUE, scoped |-> FALSE]
        /\ disk.triggers["memories_au"] = [columns |-> Latest, gated |-> TRUE, scoped |-> TRUE]
        /\ \A t \in Triggers : disk.triggers[t].columns > 0

(* While the stored flag says that sync is on, the outbox has the current   *)
(* version of every memory, entity and link, with all its columns if it was *)
(* written since the upgrade: nothing that was written while sync was off,  *)
(* in an earlier release, or by the upgrade itself is missing, even if      *)
(* upgrades were cut short.  (Two servers that upgrade together may lose    *)
(* the rows of v29: one refiles while the other has dropped the trigger.)   *)
NothingUnlogged ==
    ~together /\ Quiet /\ disk.version = SchemaVersion /\ disk.flag = "1" =>
        \A r \in Present(disk) : KindOf[r] # "relation" =>
            \E e \in disk.outbox : /\ e.row = r /\ e.rev = disk.rev[r]
                                   /\ IsMemory(r) /\ e.rev > 1 => e.columns = Latest

(* A store whose upgrade is over is a store of the latest release, with     *)
(* nothing left to be logged, however it came to be that.                  *)
Upgraded == UpgradeComplete /\ NothingUnlogged

(* A migration changes the version of a store that holds memories only if a *)
(* backup holds all of them as they are, or the backup has failed: a crash  *)
(* and a second server do not defeat the snapshot, nor does its retention.  *)
SnapshotFirst ==
    [][/\ disk.version # disk'.version
       /\ \E r \in Rows : IsMemory(r) /\ disk.rev[r] > 0
       => \/ spared
          \/ \E i \in 1..Len(snapshots) :
                \A r \in Rows : IsMemory(r) /\ r \notin disk'.refiled => snapshots[i].rev[r] = disk.rev[r]
      ]_migVars
=============================================================================
