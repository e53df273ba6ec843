# Verification of remind_me

TLA+ models of the remind_me memory server and its sync hub, the TLC
configurations that check them on small instances, and TLAPS proofs of their
main properties for instances of any size. Paths are relative to the
repository's root; `sync.py` stands for `remind_me_mcp/sync.py` and so on.

1. The system - its parts, what is hard about them, what makes them correct
2. Modules - how state and actions correspond to the code
3. Runs - what is checked, on which instances, under which fairness
4. Proofs
5. What is left, and what is not modelled

## 1. The system

remind_me is an MCP server that keeps "memories" in a SQLite database per node.
Nodes exchange memories through a hub (PostgreSQL behind FastAPI) and with peers
on the local network.

| component | state it keeps | operations | talks to |
|---|---|---|---|
| memory tools (`tools/crud.py`, `tools/capture.py`, `tools/lifecycle.py`, `tools/history.py`, `tools/normalize.py`) | table `memories`, revisions | add, capture, decompose, annotate, normalize, edit, revert, delete, merge, supersede | triggers, embeddings |
| memory store (`db.py`) | schema, migrations, `sync_flags`, connections per thread | open, migrate, purge, snapshot | everything |
| outbox triggers (`db.py`) | `sync_outbox`, `sync_sends` | one row per insert and per change of `updated_at`, in the writer's transaction | sync client |
| sync client (`sync.py`) | `sync_log` (cursors), local variables of the running cycle | push the outbox, probe, pull pages, upsert, save the cursor, reset | hub, peers |
| hub (`hub/main.py`) | one row per memory with `origin_node` and `hub_seq` | `sync_push`, `sync_pull`, counts, tombstone compaction | PostgreSQL |
| merge of a received record (`sync.py` `_upsert_one`) | the row, the outbox | read the high-water mark, read the row, insert, update, merge tags, suppress the echo | every thread that writes the row |
| entity graph (`sync.py`, `db.py`, `hub/main.py`) | entities, links, relations, their cursors | mention, push, pull with keyset cursors, upsert | sync client, hub |
| peer server, discovery (`peer_server.py`) | table of peers | serve push and pull, find peers | sync client |
| retention (`sync.py`, `hub/main.py`) | outbox, tombstones | prune by age | sync client, hub |
| reconcile, status (`sync.py`) | baseline in `sync_flags` | compare counts with the hub, judge the difference | hub |
| embeddings, ANN index (`embeddings.py`, `ann_index.py`, `db.py`) | vectors, `embedding_meta`, index in memory and on disk | embed, reindex, load, autosave, search | memories |
| importers (`importer.py`, `*_import.py`) | `chat_imports`, `dbs_imports`, `mempalace_imports`, memories | hash check, parse, insert in one transaction, embed, undo | watcher, tools, webhook |
| folder watcher (`watcher.py`) | signatures and import ids in memory | scan, debounce, import, supersede | importer |
| reminder scheduler (`scheduler.py`) | `reminder_deliveries` | poll, deliver, record | notifications |
| saved searches (`saved_searches.py`) | saved searches, seen sets, watermark | save, poll, announce | search |
| digest, statistics (`digest.py`, `analytics.py`) | stamps in `sync_flags`, `analytics_snapshots` | send when due, capture once a day | scheduler |
| wiki (`wiki.py`, `tools/wiki.py`) | page files and their table, compile watermark | read, write, delete, reconcile; brief, mark | files, memories |
| search, ranking, vitality, feedback (`tools/search.py`, `retrieval.py`, `vitality.py`) | access counts, weights, `memory_associations` | look up, fuse, expand, count, feed back | memories, vectors |
| updater (`updater.py`) | lock, installed commit | fetch, install, check, roll back | file system |
| OAuth, API keys (`oauth.py`, `api_keys.py`) | codes, tokens, clients, keys and their files | register, authorize, exchange, revoke | HTTP servers |
| rate limits, surface checks (`rate_limit.py`, `remote.py`, `webhook_server.py`, `api.py`) | buckets | admit or refuse a request | HTTP servers |
| supervision (`pid.py`, `server.py`, `sidecars.py`, `watchdog.py`) | pid file, threads of a lifespan, children | start, stop, restart | operating system |
| backup (`backup.py`, `cloud_backup.py`) | backup files | back up, restore, prune | database |
| reports, formatting, CLI, configuration | none of their own | read | everything |

What is hard: one process runs many threads (tools on the event loop, dashboard
handlers, embedding threads, sync thread, peer requests, watcher, scheduler),
each with its own SQLite connection, whose SELECTs run outside a transaction;
several server processes may share a database, files and a checkout; network
calls stand between reading state and using it; a crash may come between two
commits or between two file operations; nodes are offline for a long time, and
requests are retried. The hazards at their lines are listed in `PROJECT.json`,
each with the properties that cover it.

What makes each component correct: sync - no local write leaves the outbox
before somebody else has it, no row is left behind a cursor, no replica goes
back to an older version, all replicas agree in the end, a deleted memory stays
deleted; merge - local edits stay in the outbox, a received record is not sent
back, the newest version and every tag stay; memory tools - facts do not
contradict, every text can be had back, vectors are those of the text; store -
no upgrade leaves a hole or loses a row; import - content is imported once and
as a whole; watcher - the visible memories of a file are those of its present
content; scheduler - every reminder is delivered, and once; watermarks and seen
sets - nothing between two runs is left out or told twice; files (credentials,
pages, index, pid file, backups) - what was promised about them survives a
crash at any step; search - what should be shown is, and nothing else.

## 2. Modules

| module | about | uses |
|---|---|---|
| `HubSync` | memory sync between nodes and the hub | `Replication` |
| `Replication` | what sync promises: a replicated last-write-wins store | |
| `LocalUpsert` | storing one received record, statement by statement | |
| `GraphSync` | sync of entities, links and relations between nodes and the hub | |
| `PeerSync` | nodes without a hub: batch limits, send ledger, retention of outbox and tombstones | what `LocalUpsert` shows: a received record is stored as a whole |
| `SyncVerdict` | the reconcile: telling lag from a fault | |
| `Migrations` | opening a database of any release, statement by statement | |
| `MemoryLife` | tools, dashboard and embedder on the memories of one node | |
| `SemanticIndex` | vectors, the ANN index and its file, the record of the model | |
| `Backups` | online backup, pruning, restore | |
| `ContentImport` | import of files and payloads, and its undoing | |
| `TrackedImports` | the importers with a table of what they imported (dbs, mempalace) | |
| `FolderWatch` | the folder watcher on top of the importer | what `ContentImport` shows: content is imported once |
| `ReminderScheduler` | delivery of reminders by the schedulers of several servers | |
| `SavedSearch` | watched searches and what they have seen | |
| `PeriodicJobs` | digest and daily statistics | |
| `WikiPages`, `WikiCompile` | the pages and their table; the compile watermark | |
| `Recall` | search: tiers, fusion, expansion, access counts, feedback | |
| `Auth`, `Gate` | credential files; who gets through to the program | |
| `SelfUpdate` | perform_update of several servers on one checkout | |
| `ServerStart`, `ServerStop` | the pid file as a lock; the threads of a lifespan | |
| `MCHubSync`, `MCGraphSync`, `MCFolderWatch` | constants and symmetry sets for TLC | the module they are named after |
| `MCLive` | sync with the hub and the watched searches, for the run about what must happen sooner or later | `HubSync`, `SavedSearch` |
| `MCBackground` | imports, the folder watcher, reminders, for one run | `ContentImport`, `FolderWatch`, `ReminderScheduler` |
| `MCNodes`, `MCServices` | the components of a node, of a server, for one run each | the modules they list |
| `HubSyncProofs` | theorems about `HubSync`: push, refinement, pull | `HubSync` |
| `MigrationProofs` | theorems about `Migrations` | `Migrations` |
| `NodeProofs` | theorems about the records a node stores and exchanges | `LocalUpsert`, `PeerSync` |
| `GraphProofs` | theorems about `GraphSync` | `GraphSync` |
| `MemoryProofs` | theorems about `MemoryLife` | `MemoryLife` |
| `BackgroundProofs` | theorems about what runs in the background | `ContentImport`, `ReminderScheduler`, `SavedSearch`, `FolderWatch` |
| `StoreProofs` | theorems about other stores, backups, pages, vectors, sync status, search | `TrackedImports`, `Backups`, `WikiPages`, `SemanticIndex`, `SyncVerdict`, `Recall` |
| `ServiceProofs` | theorems about the services of a server | `WikiCompile`, `SelfUpdate`, `ServerStart`, `ServerStop`, `Auth`, `Gate`, `PeriodicJobs` |

Components that interact through more than an interface of a few guarantees are
one module: tool, trigger, sync thread and hub in `HubSync` and `GraphSync`, all
writers of one row in `LocalUpsert`, tools, dashboard and embedder in
`MemoryLife`, loop, locks and tables in the others. The `MC` modules with
several components are sums: a variable `part` is chosen in the initial state
and never changes, the component it names runs as in its own specification, and
the others stay in one initial state. A property about a component that rests
holds of a single state, so the sum checks each property against exactly the
behaviours of its component; it exists to keep the number of runs small, and
symmetry and state constraints are those of the component that runs.

Definitions that no specification uses (`PushBatchMarksEarly`, `SuppressAll`,
`LivesUnchecked`, ...) stand before the definition X they vary. Each is what X
would be after a plausible mistake, and shows which property notices it.

Some properties do not hold without exception, because the code does not keep
them in every history. Where the exception is a matter of the code's design, a
history variable records exactly the histories in which it may come about (a
record that was lost, an import that raised, an overlap of two threads), and the
property says that outside of them it holds. That is stronger than a run in
which these histories are left out: the exceptions are in the model, everything
else around them is checked, and the property tells how far they reach.

Properties that concern one promise from several sides are stated one by one and
joined: `OutboxRight` (`EditsKept`, `NoEcho`), `DeliveriesRight` (`RecordedAreSent`,
`DeliveredOnce`), `RecordsRight` (`ImportedOnce`, `NoOrphans`, `NotRefusedForever`),
`AnnouncedOnce` (`OncePerMatch`, `AnnouncedOrFirst`), `NewsOnly` (`NoFlood`,
`NewsArrive`), `FoundAsTheyAre` (`StaleHidden`, `CurrentVisible`,
`HiddenIsReplaced`), `OfferedIsHeld` (`Agreement`, `LinksPulled`), `Upgraded`
(`UpgradeComplete`, `NothingUnlogged`), `SearchesTrue` (`OneModel`, `HitsAreRight`,
`AllFindable`), `RestoreSafe` (`RestoreUndoable`, `RestoreWhole`), `CredentialsHold`
(`Remembered`, `LockedOut`), `LimitsHold` (`WindowCap`, `OwnBucket`), `FactsSettled`
(`NoContradiction`, `HeirAtTheEnd`), `StopsClean` (`ClosedLast`, `OneLoop`),
`UpdatesSafe` (`InStep`, `EditsSafe`), `DigestsRight` (one digest per claim,
`NoMoreThanServers`, `JobsSpaced`), `AnswersRight` (`LiveNotCrowdedOut`, `NothingHiddenShown`).

### 2.1 HubSync

State and code:

| variable | code |
|---|---|
| `row[n][m]` | `updated_at` of the memory in the database of node n, 0 without a row |
| `pending[n]` | rows of `sync_outbox` without a `sync_sends` mark for the hub |
| `cursor[n]`, `since[n]` | `sync_log.last_pull_seq` (`Unknown` is `SEQ_UNKNOWN`), `last_pull` |
| `pc[n]`, `batch`, `after`, `legacy`, `lpos`, `page`, `ptop`, `pfull` | local variables of `_push_outbox` and `_pull_remote`, lost when the cycle ends |
| `hub[m]`, `hubSeq` | the hub's committed row (updated_at, origin_node, hub_seq), the PostgreSQL sequence |
| `reqs` | push requests in the hands of the hub, with the open transaction of each |
| `written`, `late`, `skipped` | history: local writes; versions the hub committed after one with a later number; versions whose upsert failed on a node |
| `clock`, `faults` | bound counters |

Actions: `Edit` is a tool's write with the trigger it fires. `BeginCycle`,
`PushBatch`, `PushAck` are `_push_outbox`; `StartPull`, `ProbeFound`,
`ProbeInconclusive` (`_establish_seq_cursor`), `FetchPage`, `ApplyRecord`,
`SkipRecord`, `SaveCursor` are `_pull_remote` and `_upsert_records`. `HubSkip`,
`HubStore`, `HubCommit`, `HubReject`, `HubDrop` are a push request at the hub:
one transaction per record, `nextval` when the upsert runs, visible at commit.
`Interrupt` ends a cycle anywhere (time-out, connection error, crash);
`ResetCursor` is `reset_pull_cursor`, at any moment, also in the middle of the
node's own pull, which then writes its local cursor back.

Abstractions. A version is its `updated_at`; stamps are unique and grow with the
order of writes (skewed clocks and ties are hazards left to a later variation).
A deletion writes a tombstone, a version like another one. The merge of tags is
left to `LocalUpsert`. Sequence numbers used up by losing or aborted statements
are gaps and not modelled. Outbox ids grow with the stamps, as the triggers run
in the writers' transactions. `PUSH_BATCHES_PER_CYCLE` and `MAX_PULL_PAGES` are
a choice between going on and stopping after each full batch or page. There is
one hub, and no peers: `SEQ_UNSUPPORTED` is met with peers only. `HubWriters` is
the number of transactions open at one time: FastAPI runs the handlers in a
thread pool, so the real number is above 1. An interrupted push may still be
worked off by the hub, unseen; `lost` numbers the interruption, so that two
orphaned requests of one node stay apart.

### 2.2 LocalUpsert

One memory of one node. `ReadMax` and `ReadRow` are the two SELECTs of
`_upsert_one`, each in autocommit; the write that follows takes SQLite's write
lock and commits, so `Ignore`, `MergeTags`, `InsertRow`, `InsertFails`,
`UpdateRow` are the rest of the upsert in one step each, with the trigger and
`_suppress_echo` inside. `Edit` is a tool's edit of content or tags: it inserts
the revision first, so its stamp is taken under the write lock (`tools/crud.py`
318-363). `remind_me_delete` (`tools/crud.py` 489) and the dashboard's update,
delete and bulk tag (`api.py` 1076, 1233) take the stamp first and the lock with
the UPDATE: `TakeStamp` and `EditWithStamp`, between which anything may come.
`backdated` notes that such an edit has put an older stamp on the row than it
had, which NewestKept excepts. `EditElsewhere` is a write on another node;
its version may arrive at any thread, any number of times, in any order.
`overlapped` are the threads with an upsert between whose reads and writes an
edit or the start of another upsert came: `EditsKept`, `NewestKept` and
`TagsKept` hold as long as there is none, `NoEcho` always, `EditsAlwaysKept` (what
a comment promises) does not.

### 2.3 GraphSync

| variable | code |
|---|---|
| `ent[n][e]` | the row of `entities` (updated_at, aliases, kind), its `ts` 0 without a row |
| `link[n][e]` | `created_at` of the memory's row in `memory_entities`, 0 without one |
| `pending[n]` | outbox rows of entities and links without a `sync_sends` mark for the hub |
| `cursor[n][t]` | `last_pull`, `last_pull_id` of the table's row in `sync_log` |
| `pc`, `tab`, `batch`, `page`, `top`, `full`, `snap`, `mark` | local variables of `_push_outbox`, `_pull_graph_table` and of the upsert under way |
| `hub[e]`, `hubLink[e]` | the hub's rows, with `origin_node` |
| `reqs` | push requests in the hands of the hub |

`Mention` is `_apply_entity_mentions` with the triggers it fires, in the one
transaction and with the one stamp of the tool that stores the memory. `Push`,
`PushAck` are `_push_outbox`; `HubWin`, `HubEnrich` with `HubCommit`, and `HubIgnore`
are the branches of the hub's `_upsert_entity`, `HubInsertLink` its upsert of links.
When an older record enriches a row, the hub takes a stamp of its own in a
transaction that holds the row's lock (`hub/main.py` 1088) and is visible at its commit
(1172): `HubEnrich` takes the stamp (the request's `stamp`), `HubCommit` shows the row,
and in between other nodes read the row as it was and may page past the stamp. `Fetch`,
`SaveCursor` are `_pull_graph_table`, `Read`, `StoreEntity`, `StoreLink`,
`SkipRecord` the upsert of one pulled record: its SELECTs run in autocommit, so a
mention may come between them and the write. `Interrupt` ends a cycle.

History. `said` are the aliases users gave. `missed` are rows the hub will not
offer to a node: a row that came to the hub late, or became visible late, behind
the node's cursor; the node's own row that won and was united with what the hub had; a record whose
upsert raised. `mixed` are rows mentioned between the reads and the writes of an
upsert of the same node.

Abstractions. One memory mentions all entities, so a link goes by its entity.
Relations are stored and pulled the way links are (`sync.py` 960-1000, hub
1107-1136) and are not a third table. Names and `created_at` are left out. At the
hub every other record is one step: it locks the row, runs in a transaction of its
own and carries the stamp of its node. Of two first INSERTs of one entity the later is
taken to find the other's row, where the code refuses the record once and gets it again
with the next push; other records that the hub refuses are not modelled. A push is one
batch. Clocks are synchronised, links are not deleted and graph
cursors not reset. At first an entity is new, or made by one node and pulled by
the others.

### 2.4 PeerSync

| variable | code |
|---|---|
| `log` | history of writes: record, soft delete or not, writer, day; a version is its position |
| `copy[n][m]` | the version in the row of m at node n, 0 without a row |
| `peerOutbox[n]`, `sends[n][r]` | `sync_outbox`, `sync_sends` for the remote r |
| `since[n][r]` | `sync_log.last_pull` for r |
| `cycle[n]` | local variables of `_sync_once`, `_push_outbox`, `_pull_remote` |
| `asleep`, `peerDay` | nodes out of reach; the date |

`BeginCycle`, `PushBatch`, `PushDone`, `PullPage`, `Clean` are one cycle of
`_sync_once`: the peers that answer /health one after the other, per peer at most
`PUSH_BATCHES_PER_CYCLE` batches and then pages until one is short, at the end
`_prune_outbox` and `_compact_tombstones`. `Broken` is a request that fails: the
peer has taken the batch or not. `PutRow` is a tool's write. `Midnight` moves the
clock of the retention; it comes only after every node that is up has finished a
cycle since its last write, as a cycle takes place every minute. `FallAsleep` and
`WakeUp` are a node that is off or unreachable.

A request, its processing and the answer are one step: the peer commits record
by record and only the caller's own writes come between, which add to its outbox.
Statements inside one upsert are `LocalUpsert`'s. What a peer refuses is a set of
records. `late` holds when two nodes were apart for longer than outboxes are kept;
`StillDue` and `StaysDeleted` speak of the histories without that.

### 2.5 SyncVerdict

`LocalWrite`, `OtherWrite`, `PushOne`, `PullAll` are the writes and the sync around
the check. `AskHub` is the request of `reconcile_with_hub`, `Judge_drift` the counting and the
verdict on the answer, which may be old by then, `QuickCheck` the case in which
the totals agree, `NoAnswer` a hub that does not answer. The baseline of the cursor
in `sync_flags` outlives a check. Initially a vault may have a hole, a record of
the hub that the cursor has passed. `FaultsAreHoles` relates the second of two
quiet checks to the existence of a hole.

### 2.6 Migrations

| variable | code |
|---|---|
| `disk` | the committed store: `user_version`, objects (tables, columns), outbox triggers with their column lists, `sync_flags.sync_enabled`, the version of each row, the outbox |
| `holder`, `work` | the open write transaction and the store as it sees it |
| `stage`, `at`, `found` | where in `_get_db` a server is: which migration, which statement |
| `snapshots`, `spared` | backups taken before a migration; one of them failed |

`V1` to `V29` are the migrations of `db.py`, statement by statement, with Python's
transaction rules: DDL runs in autocommit, DML opens a transaction,
`executescript` commits the open one first. `Open` reads the version, `Snapshot`
backs up, `Execute` runs one statement, `Probe` and `Add` are v28's look for its
column and the ALTER that follows, `Migrated` commits. `ReadFlag` and `Reconcile`
compare the stored sync flag with the configuration and backfill the outbox when
sync was off. A server stops anywhere (`Stop`), or another one runs the same
upgrade beside it. `Write` are writes of a server that is open, logged by the
triggers there are. The store may come from an earlier release, with the
triggers of that release.

### 2.7 MemoryLife

| variable | code |
|---|---|
| `memRow[m]` | the row: live, soft-deleted or gone, text, tag, object of its triple, `superseded_by`, kind |
| `revisions[m]` | `memory_revisions` |
| `vecOf[m]`, `jobs` | the text whose vectors are stored; embeddings due or running |
| `doing[t]` | what a thread has read and not yet written |

Tools run one after the other on the event loop, none awaits before its commit,
so each is one step: `AddMemory`, `CaptureTurn`, `Decompose`, `Normalize`,
`Annotate`, `ClearSuperseded`, `Delete`. `Update`, `Revert` and the merge of
`remind_me_consolidate` read the row before their transaction (`EditRead`,
`MergeRead`, `EditWrite`, `MergeWrite`), as do the dashboard's handlers, which run
in threads (`PutRead`, `PutWrite`, `ApiAdd`, `BulkTag`, `ApiDelete`). `Embed` is the
end of an embedding, in any order; `ReindexAll` and `CompactRevisions` are the
maintenance tools. All triples of the model share subject and predicate; texts
are similar when equal. `unkept` are the texts overwritten by the paths that keep
no revision, `overtaken` memories with two embeddings under way at once or a
failed one, `cleared` those un-hidden by hand, `blind` those that hid others while
hidden themselves.

### 2.8 SemanticIndex

`vec` is the table of vectors with the text and the model each was made from,
`ann[s]` the index in the memory of a server, `file` the file of the index, `meta`
`embedding_meta`. An embedding is `StoreRows` (the transaction), `IndexRows` (the
index and perhaps its autosave) and `Record` (the model), each of which other
threads, a stop or a crash may follow. `StartServer` runs `_reconcile_embedding_meta`,
`SearchVectors` loads the index: from the file if that is as long as the table.
`unrecorded`, `raced`, `misled` are the histories named in section 3.

### 2.9 Backups

The database is its main file and the write-ahead log, a content the number of
its last commit; a log on top of another main file gives garbage. `handle` is what a
server has open: the file, whatever its name has become, the content it works on, and
whether its log still has its name. `Backup` is the online backup with its pruning by
modification time, `BeginRestore`, `SnapshotDone`, `Replace` or `ReplaceFails`,
`RemoveLog` are `restore_backup`; it may be killed between any two of these, and the
server may have died with its log unwritten. "The server must not be running" is
enforced by a look at the pid file before the restore only, so `OpenDatabase` comes at
any moment of it: the server then reads a half-finished copy, the old log on top of the
new file, or goes on with the file that was replaced, whose commits nobody sees again.
`halfway` notes a kill, or an opening, between the replacement and the removal of the log.
One server at a time is modelled.

### 2.10 ContentImport

| variable | code |
|---|---|
| `memories`, `tracked` | committed rows of `memories` with a `doc_id`, of `chat_imports` |
| `writer`, `lock[p]` | SQLite's write lock, `_import_lock` of process p |
| `imp[w]`, `content[w]`, `open[w]` | import id, hash and uncommitted INSERTs of a worker thread |

`Begin` is the first look-up and the parsing (outside the lock), `SkipKnown`,
`TakeLock`, `InsertChunk`, `Finish` are `_ingest_parsed`: check again, INSERT
each chunk, record the import, commit. `Busy` is busy_timeout. `Raise` leaves
the function between the first INSERT and the commit: the lock is released, the
transaction is not rolled back, and `OtherWrite`, the thread's next commit, makes
it permanent. `Undo` (one import or all, in batches) runs without an await in
between; soft and hard deletion are alike here. Which text becomes which chunk
and the embedding after the commit are left out.

### 2.11 TrackedImports

`Fetch`, `Decide`, `Store`, `EmbedImported` are one pull: the page of the foreign
store, then, with the importer's lock, the look at the table of imports, the
memories and their commit, the vectors. Items of a dbs store have versions, each
an own memory whose id is a hash of its text, and replace each other; a drawer
of a palace is imported once. The foreign store changes at any moment
(`StoreChanges`), a server may be killed.

The committed tables are `tables`, an open transaction with the tables as its thread sees
them is `open`; it keeps SQLite's write lock. `StoreRaises` leaves the loop after any
statement of an item or a drawer: nothing is rolled back (`dbs_import.py` 245-284), so
the memory, or the memory and the supersession, without the row of `dbs_imports` stay
in the thread's transaction, and `EndTxn`, the next commit on that thread, or the
thread's next pull makes them permanent. `StoreLocked` is a pull that finds the database locked and
stores nothing. `strays` and `strayCopies` are the memories stored in this way without a
record, until a pull stores that version; `overtaken` are the items and drawers that such
a late commit recorded while another pull was between its look and its writes;
`restored` the items that came back to a version that had been replaced.

### 2.12 FolderWatch

`StartScan`, `Vanished`, `PassOver`, `Debounce`, `Choose`, `EndScan` are
`_scan_once_inner`, `ImportNew`, `ImportKnown`, `ImportGone`, `ImportFails`, `EmbedFails`,
`Supersede`, `SupersedeFails` are `_ingest`; `pending`, `ingested`, `current` are the
watcher's dictionaries, which `RestartWatcher` empties; `scanAt`, `toScan`, `scanned` are
the scan's local variables. Imports are known by their content, since the same
content is not imported twice (`ImportedOnce` of `ContentImport`, with one process
and nobody undoing imports). Between the stat of a file (`Choose`) and its reading
(`ImportNew`) anybody may write, or remove the file (`ImportGone`). A file written while a
scan runs is ahead of the scan's clock: its negative age passes for stable. Contents may
come back, and be in two files. A known import makes the watcher forget the
import the path had, without superseding it (`watcher.py` 324-337).

An import that raises (`ImportFails`) leaves the chunks it has inserted, possibly all of
them, in the open transaction of the watcher's thread (`leftover`), as in
`ContentImport`; its next commit makes them `strays`, visible memories that no import
knows. An exception in the embedding (`EmbedFails`) comes after the commit. `forgotten` are
the imports that the watcher's memory of paths no longer knows, after a restart, an
exception after the commit, or a known import; `abandoned` are signatures whose
import raised, which the code does not try again; `shared` are contents that came a second
time, or to a second file. Assumed of the world: a write is completed within the grace
period, and every write changes the signature (mtime and size).

### 2.13 ReminderScheduler

| variable | code |
|---|---|
| `remindAt`, `gone` | `memories.remind_at`, deleted memories |
| `delivered` | committed rows of `reminder_deliveries`, unique in (memory_id, remind_at) |
| `dbWriter` | SQLite's write lock |
| `schedulerAt[s]` | where the loop of server s stands |
| `rows[s]`, `inHand[s]` | the result of the poll's query not yet worked off, the reminder just notified |
| `staged[s]` | records inserted and not committed |

`StartPoll`, `Notify`, `Record`, `RecordFails` are `poll_once`; `RestOfLoop` stands
for the other jobs of the loop of `start_scheduler`, whose commit takes with it
what a poll that ended with an exception has left in the open transaction
(`CommitDeliveries`). `Notify` never raises (`notify` catches everything) and comes
before the INSERT; the commit comes after the last one. `CrashServer` and
`RestartServer` are a server process that dies and comes back. `lost` are
reminders whose delivery got no record (the crash or the failed INSERT),
`contended` those that two servers had in hand at once.

### 2.14 SavedSearch

`Save`, `DeleteSearch` are the tools; `Check`, `Claim`, `List`, `TakeRow`,
`LookEmpty`, `Look`, `HasAnySeen`, `SeenMemoryIds`, `Announce`, `Mark`, `PollOver` are one
round of `maybe_poll_watched_searches` in a server: due check, claim of the watermark, the
watched rows, and for each the search, the question whether anything is seen yet, the
list of what is, the announcements and the record of what was seen. Each of these is a
statement in autocommit, so a tool may save or delete a search, and a memory arrive,
between any two. A poll looks at `PollLimit` matches (`_POLL_RESULT_LIMIT`, 100 in the
code): of more than that it sees any as many (`Hits`), and `crowded` notes the search.
`LookFails` and `PollFails` are exceptions in the poll of one search, caught by the
loop; `RestartPoller` a server that dies and comes back. Which matches rank first is left
out. `base` is what matched when a watch of a search without seen rows began, `first` the
result of the first poll that found something, `unrecorded` what was announced without a
record. Ids of deleted searches are not used again.

### 2.15 PeriodicJobs

One turn of the loop asks whether the digest is due, stamps, and sends (`Ask`,
`Claim`, `Send`, `SendFails`), then does the same for the snapshot of the
statistics, which in addition looks for a row of today (`AskSnapshot`,
`MarkSnapshot`, `CaptureSnapshot`). A server is killed at any of these; the stamps
in `sync_flags` stay. What a digest shows is not modelled: building it only reads.

### 2.16 WikiPages, WikiCompile

A page is a file and a row that caches it. A read (`StartRead`, `ReadCached`, `CheckPage`,
`StatPage`, `CommitReconcile`, `SelectPage`) selects the cached times, renews the rows
whose file has another modification time, commits, then selects; `write_page`, `ReadBack`,
`StatWritten`, `CommitWritten` write file and row, `delete_page` and `DeleteRow`
remove them. Meanwhile the owner edits, removes, or puts back an older file
(`Edited`), and calls die. A reconcile goes through all pages, and `wikiTxn` is what its
thread's connection stands in: a file that vanishes under it raises out of
`_reconcile` (`wiki.py` 293-348), which rolls nothing back, so that the rows of earlier
pages and the write lock stay open until the thread's next commit (`TxnEnds`, or that of
its next call); other calls that must write time out meanwhile (`WriteRefused`), and leave
a transaction behind whose first SELECT fixes a snapshot that the thread reads on.
`blurred` are the pages written between two accesses of one indexing, or twice with one
time; a `write_text`, which truncates the file before it fills it, is seen in between as
an edit from outside.

`Brief` serves the oldest memories past the watermark, `MarkIntegrated` moves it to
the last of a batch that it reads anew; memories arrive (also with older creation
times), are hidden, come back, become sensitive in between.

### 2.17 Recall

A search reads the keyword tier (`BeginSearch`), after an await the semantic tier,
and fuses both (`Fuse`): limits of the tiers, dormant memories dropped, reciprocal
ranks of five signals weighted by the strategy, feedback, the cut to limit and
budget. The keyword tier lists memories, the semantic one chunks, of which a memory has
any number: the nearest `Fanout` times as many as the tier's limit are fetched, reduced
to the first of each memory (`Best`), filtered by what may be shown, and cut to the limit
(`db.py` 2968-2974, 3109-3149). `Answer` expands the result by entities,
neighbours and co-retrieval and adds to `memory_associations`; a thread then counts the
accesses (`ReadCounts`, `WriteCounts`). `AnswerStructured` is the look-up by filters.
`Feedback` and `FeedbackForQuery` move the weight within its bounds, `RecallDay` lets
time pass. Vitality is kept as its logarithm in integers; scores are integers on a common
denominator, exact enough to decide the same order and to tie. Which order a
tier returns is any of `Orders`, of `ChunkOrders`. Searches restricted to a category or a
tag, whose tiers fetch more, are left out.

### 2.18 Auth, Gate

`Auth`: each change of a credential file is `ReadState`, `OpenTemporary`,
`WriteTemporary`, `ReplaceFile` of one writer, with failures (`WriteFails`) and
kills (`ProcessDies`) between; the temporary file is named after the process. The
operations of the provider (`register_client`, `authorize`,
`handle_consent_submit`, `exchange_authorization_code`, `exchange_refresh_token`,
`revoke_token`) are those of one event loop, the tools (`revoke_client`,
`create_key`, `revoke_key`) have a thread and a store object each. `given` is what
callers were told is valid, `retired` what they were told is not, `crossed` the
files two writers changed at once.

`Gate`: a handler reads the clock (`Arrive`) and then takes the limiter's lock
(`Hit`): buckets, windows and pruning as in `RateLimiter`, then the checks of the
surface, one after the other, up to the call of the handler.

### 2.19 SelfUpdate, ServerStart, ServerStop

`SelfUpdate` is `perform_update`: `NotePrevious`, `LockRepo`, `CheckTree`,
`PullTree` or `PullTimesOut`, `Reinstall`, `Rollback` or `RollbackFails`, `Report`,
with kills, pushes upstream and edits of the checkout at any moment. An install that
fails, or is killed at its time-out, may have changed the package before (`Broken` is one
that is no commit's); one that cannot be run at all raises and is not rolled back. A
server that is killed leaves its git or its installer running, and a pull that times out
the merge it has started: `orphans`, which work on without the lock and end
(`OrphanEnds`) done, failed, or in the middle, perhaps under a later update. `divergent`
notes that an update ended in a way that may leave checkout and package apart; a
reinstall with no child of another update at work mends it.

`ServerStart` has the accesses to the pid file: `ReadPid`, `Judge` (remove what is
stale), `Truncate` and `FillIn`, `Registers` (signal handlers), `Signalled`,
`AtExit`; `--restore` only reads. `ServerStop` has the lifespan of a server: services started
together, stopped one after the other with a join that may time out, then
`CloseDb`; lifespans of one process follow each other and share the Events of the
modules `sync` and `scheduler`.

## 3. Runs

| run | instance | holds |
|---|---|---|
| `hub_faulty` | 2 nodes, 2 memories, 3 writes, 1 fault or reset; batches of 2, pages of 1, 2 hub transactions, pulled records may fail | NothingLost, PassedIsHeld, LastWriteWins (refinement of `Replication`) |
| `live` | sync: 2 nodes, 2 memories, 2 writes, 1 fault; batches of 1, the hub refuses single records, resets during a pull; search: 1 server, 1 name, 2 queries, 3 memories, 3 saves, a limit of 2 results, 1 failure; weak fairness | NothingStranded, Convergence; AnnouncedOnce, NewsOnly |
| `graph` | 2 nodes, an entity whose row is followed and a second one that is linked, 2 views of it, 2 mentions, 1 fault; 3 nodes that have 2 entities, a mention by each; pages of 1 | MentionsKept, OfferedIsHeld |
| `nodes` | memory: 3 memories (one captured, one imported), 2 texts, 2 objects, a dashboard thread, 3 calls; upsert: 2 threads, 2 tags, 3 writes; peers: 3 nodes, 1 record, 2 writes, 2 midnights, 1 fault | FactsSettled, KeptText, IndexCurrent; OutboxRight, NewestKept, TagsKept; StillDue, StaysDeleted |
| `background` | imports: 2 workers of one process, 2 contents of 2 chunks, 3 imports, 2 failures; watch: 2 files, 2 contents and a draft, 3 writes, 1 restart or exception; reminders: 2 servers, 2 memories, 2 moments, 3 changes, 1 crash; fairness | RecordsRight, ImportedWhole, ImportsEnd; FoundAsTheyAre, Settles; DeliveriesRight, NoneForgotten |
| `services` | migrations: 2 servers, 3 rows, stores of versions 0, 8, 27, and 22 for two servers at once; vectors: 2 servers, 2 memories, 2 models, 3 starts; backups: 2 kept, 2 commits, a server that opens the database at any moment; tracked: 2 pulls of a process, an item with 2 texts, a drawer, 1 fault; pages: 2 pages, 2 calls, 1 edit or fault; compile: 3 memories, batches of 2; verdict: 2 records in 2 categories; recall: 3 memories, 6 orders of them, 6 of up to 8 chunks, limit 2, 2 searches; update: 2 updates, 3 commits, 2 faults; start: 2 servers and a restore; stop: a service of each kind, 2 lifespans; jobs: 2 servers; gate: 2 handlers, limit 1, window 2; auth: a client, a key, a tool thread | Upgraded, SnapshotFirst; SearchesTrue; RestoreSafe; OneCurrent; ReadsAreFresh; NotServedAgain; FaultsAreHoles; DominantFirst, AnswersRight; UpdatesSafe; ServesAlone; StopsClean; DigestsRight; LimitsHold; CredentialsHold |

| run | the code does | the repository says |
|---|---|---|
| `hub_parallel` | NothingStranded fails: sequence numbers are taken before the commit, and may become visible in another order | "being certain nothing stays stranded" |
| `hub_batch` | NothingLost fails: the acknowledgement is matched by memory id instead of outbox row | "only those rows are marked sent" |
| `upsert_race` | EditsAlwaysKept fails: an edit during an upsert loses its outbox row | "pending rows from concurrent local edits keep their place" |
| `hub_reset` | RewindFromStart fails: a running pull writes its own position over a reset cursor | "safe against concurrent sync activity: the next cycle's pull just re-walks from an earlier point" |
| `watch_twins` | TwinsVisible fails: an import shared by two files is hidden when one of them changes | "stale chunks from the old version of a changed file drop out" |
| `peers_refused` | BacklogDrains fails: as many refused rows as one call sends are all that every call sends | "naturally resumes from wherever sync_sends left off" |

In the sums (`live`, `nodes`, `background`, `services`) the parts before each semicolon are
behaviours of their own, chosen by `part` in the initial state.

### 3.1 Bounds

Two nodes and the hub are the smallest system in which a version passes
from one writer to another reader; `hub_parallel` needs a third node because a
node is never sent its own pushes. Two memories let pages and batches be full
and let sequence numbers be overtaken; three stamps let a version be overtaken
twice. A page of one record puts a page boundary between any two records. One
fault suffices for each history of interest (lost answer, crash, reset); the
proofs remove all these bounds. In `live` batches have one record, since with larger
ones and a hub that refuses records `NothingLost` fails (`hub_batch`), and the hub runs
one transaction at a time, since with two of them and a third node NothingStranded fails
(`hub_parallel`), and Convergence with it. Three memories, of which one query matches
two and another all, and a limit of two let a poll see everything or not; three saves
let a search be saved, turned off and on, or given the other query, between any two
statements of a poll.

In `GraphSync` a mention of two entities makes two links with one stamp, between
which a page of one record ends; one mention by each of two nodes makes either
row win, enrich or add nothing. A third node reads while the hub has taken a stamp for
one node's record and not committed, and a second entity moves its cursor past that
stamp meanwhile; three nodes have no faults and begin with both entities and their
links, since what faults do needs two. That TLC ends although `HubEnrich` gives out stamps
without a bound shows that the re-stamping stops.

`nodes`: two threads, two tags and three writes give each pair of writers of a row
something to disagree about. Three peers let a record reach a node by way of
another one; a write and its deletion, an outbox kept for one day and two
midnights let rows be pruned, tombstones be removed, and a sleeper come back
before or after that; one cycle at a time (`AtOnce`), as a step of a cycle touches
the own rows and one peer's. An edit after a deletion takes a third write and more days
than this run has; that it brings nothing back but as `StaysDeleted` says is proved.
`peers_refused` has two cycles at a time and two records, one refused. Three memories let a chain of supersessions close; three
calls let a second thread come between the reads and the writes of a first, and
a third see the result.

`background`: three imports of two contents let one content be imported, undone
and imported again while another worker is at it; the second failure lets a
crash follow an exception. Two servers and two reminders
let one poll be in the middle of its rows when the other begins; three changes
let a reminder be set, moved and set again. Three writes to two files let
a path be rewritten during a scan and again before the next, go back to its first
content, or get that of the other file; one fault is a restart, an import that leaves its
memories in an open transaction, or an exception in the embedding or the supersession.

`services`: the stores of version 0 (no tables), 8 (ungated triggers) and 27 pass
through all migrations, with a stop between any two statements; that of version
22, upgraded by two servers, has those in which triggers are dropped and rows are
touched. One memory, one drawer and one relation are the kinds that migrations
treat differently. Two vectors and an autosave after every second change let a
file be older than the table and as long. Five ticks of the file
clock with two backups kept let a backup push out a snapshot, and a server start, commit
and stop around a restore. Four changes of the foreign store let an item come
back to a text after another; one fault is a pull that raises, meets a lock or is killed.
Two pages let a call raise at one after it has indexed the other, and a second call meet
the lock that was left. One to four chunks of a memory fill a semantic tier of eight
chunks, or leave it a place. Limits of one in `Gate` and of two in `Recall` are
passed by two requests and by three memories. Two faults in `SelfUpdate` let a
rollback fail after a failed reinstall, and the child of a killed update work on under a
second one; two lifespans let a thread given up by one
meet the next.

Symmetry: nodes and memories (`hub_faulty`, `hub_parallel`, `hub_batch`), files and
contents (`watch_twins`), nodes and the two views (`graph`), the peers, the tags and the
receiving threads (`nodes`), the pages and the two actors `a`, `b` of `services`, that is
servers, calls, pulls, updates, starts, schedulers, handlers and categories: each
component has at most one set of actors, none of its other constants is one of them, and
no component compares them. None is used where a liveness property is checked.

State constraints of `services`: `FewOpens` (a store of before release 8, or one
that two servers upgrade, is opened twice, since a third opening of a current
store is checked with release 27), `FewMishaps` (one expiry, fault or crossing in
an `Auth` behaviour, and one pair of tokens when two writers cross), `FewPages` (calls
one after the other, on a clock that stands, once two pages have had files), `FewSearches`
(one of the options `include_sensitive`, dormant memories, budget in a search, and a second
search, of at most two memories, only when the first was counted). Each cuts off histories
that go on with a further mishap, call or search; every state before it is checked.

Deadlock is not checked in the runs of `nodes`, `background`, `services`,
`upsert_race` and `peers_refused`: these systems rest when the bounded writes,
calls or imports are used up and nothing is under way.

### 3.2 Fairness

`WF(SyncStep(n))`: the sync thread loops for ever and catches all errors
(`sync.py` 2463-2483). `WF(HubStep)`: the hub works on the requests it has. In
`PeerFair`, `WF(CycleStep(n))` is the same thread, of which an exchange with a node
that is out of reach fails, and `WF(WakeUp(n))` says that nodes come back.
`WF(SchedulerStep(s))` and `WF(PollStep(s))`: the scheduler's loop survives every
exception of its jobs (`scheduler.py` 188-223) and a server that died is started
again. `WF(WorkerStep(w))`: a thread that imports runs; nothing is assumed of who
gets a lock. `WF(ScanStep)`: the watcher's thread scans again and again;
`SF(GracePasses)` and the weak fairness of a draft's completion say that time
passes between two scans and that a program which writes a file finishes.
`WF(Interval)`: time passes. Nobody must write, fail or reset; faults are finite
in number, the usual assumption "from some time on it works". In `live` and `background`
the fairness of a component holds in its own behaviours. `graph`, `nodes` and
`services` check safety and assume no fairness.

### 3.3 Other histories

In these the code does less than one may expect. They are in the models; the
properties except them by a history variable or a clause, or the run leaves them
out by a constant, and setting the constant or dropping the exception shows them.

Synchronisation:

- A pulled record that fails to apply is passed by the cursor (`sync.py` 1061):
  PassedIsHeld without `skipped`; NothingStranded with `NodeMayReject`.
- The hub commits transactions in another order than they took their numbers, and a
  cursor passes the one still to come: PassedIsHeld without `late`, and `hub_parallel`.
- A reset in the middle of a pull is overwritten by the pull's local cursor
  (`sync.py` 427): `hub_reset`. Nothing is left behind by that (PassedIsHeld), but the walk
  from the start, which the reset was for, does not take place.
- Two nodes name an entity differently and push in the order of their stamps: the
  hub unites the rows under the origin of the later one, which is therefore never
  offered the union, and the nodes keep different aliases although "all nodes
  converge" (`hub/main.py` 1035): Agreement without `missed`. The same holds for a
  row or a link pushed late with an old stamp, behind the other cursors, and for a row
  that the hub enriches while a node reads past the stamp it has taken and not yet
  committed (`hub/main.py` 1088, 1172).
- A mention between the reads and the writes of an entity's upsert loses its
  aliases and its outbox rows (`sync.py` 875-922): MentionsKept without `mixed`.
- A deletion, or an edit on the dashboard, takes its stamp before the write lock
  (`tools/crud.py` 489, `api.py` 1076, 1233); if a newer version from elsewhere is stored in
  between, the row goes back to the older stamp: NewestKept without `backdated`.
- Two peers apart for longer than outboxes are kept: an unsent row is pruned, a
  removed tombstone is brought back by a live row (`late`; `sync.py` 1113, 1147).
- A node that has not got a deletion yet edits the record, and a node that has removed
  the tombstone receives the edit: the memory is live again there, if tombstones are
  kept for less than twice as long as outboxes (`StaysDeleted` excepts it; `sync.py` 1147).
  With the defaults of 30 and 180 days (`config.py` 1211) it cannot happen.
- One check of a reconcile cannot tell a hole from lag, and in one category a
  record that is missing and one that is still to be pushed cancel out: the
  second quiet check sees it (`FaultsAreHoles`).

The store of a node:

- Two servers upgrade one store: the rows that v29 touches may miss the outbox,
  since the other has just dropped the trigger (`together` in NothingUnlogged);
  one fails to start when the other adds v28's column first. A server killed
  half-way while another is ahead is left out of `Stop`: it may leave the triggers
  of an earlier release under the latest version.
- Relations are not backfilled when sync is switched on (`db.py` 2593).
- A memory that hides another while it is hidden itself may close a circle of
  hidden memories (`blind`); two embeddings of one memory may finish in the wrong
  order, and a revert that found the dashboard's text unchanged does not embed
  (`overtaken`); the dashboard, merges and the retention of revisions overwrite
  texts without a revision (`unkept`).
- A server killed between its vectors and their record leaves vectors that the
  next one with another model takes for its own (`unrecorded`); vectors cleared
  while a thread has its own to index leave rows in the index (`raced`); a server
  does not notice what another one wrote, nor an index file that is out of date
  but as long as the table (`misled`).
- The snapshot of a restore lacks what a killed server had only in its log, and
  carries the modification time of the file it was copied from, so that the next
  backup may prune it; a kill, or a server that opens the database, between the
  replacement and the removal of the log leaves a log on top of another file
  (`halfway`). A server that has the database open when it is replaced goes on with a
  file without a name, and loses what it commits: nothing keeps a server from starting
  during a restore (`backup.py` 195-274).

Imports, searches, reminders, digest:

- Two processes import one content twice (`importer.py` 295): `Home` with two
  processes breaks ImportedOnce; the same holds for a drawer, and for a page of
  items stored after a later one. An import that raises leaves memories that no
  undo finds, also one of a watched file (`strays`); deleting memories one by one leaves an
  import that is refused for ever (`tools/crud.py` 485).
- A pull of items that raises leaves memories without a record, and two versions of an
  item may be shown until the version is pulled again (`dbs_import.py` 245-284: `strays`,
  `strayCopies`); its late commit may undo what another pull decided (`overtaken`).
- An item of a dbs store that goes back to an earlier text stays hidden
  (`restored`, against `README.md` 838).
- A watched file that goes back to an earlier text, or has that of another file,
  shares its import: the import is hidden when one of the files changes, or the one
  before it is never superseded (`watcher.py` 324-337: `shared`, `forgotten`, and the run
  `watch_twins`).
- A watched file that changes while the server is down, or whose supersession or embedding
  raises, keeps its old version visible (`forgotten`); one written during a scan is
  imported half-written (`Imported` meets `Drafts`).
- A watch that is switched off and on, or gets another query, announces all that
  came in between (`saved_searches.py` 144): NoFlood excepts it by `base`. A search with more
  matches than a poll looks at (100; `saved_searches.py` 74) may never announce some, and
  announces old ones as they move into view (`crowded`). A search deleted between the
  statements of its poll has its old matches announced as news. A crash
  before the record announces again (`unrecorded`); two servers that find the poll
  due together announce the same (`Pollers` of two breaks OncePerMatch); a search
  deleted during its poll leaves seen rows nobody removes. A first poll without a
  result writes no row, so a match that shows up on a later poll is taken for old
  and never announced (`saved_searches.py` 342): AnnouncedOrFirst excepts what the
  first poll that found something returned.
- A reminder fires again after a crash between notification and commit, and
  from two servers that poll at once (`scheduler.py` 143-168): `again` without
  `lost` and `contended`.
- Two servers that find a digest or a snapshot due together both make it
  (`overlapped`), though never more often than there are servers. A sensitive memory with a
  reminder is in the digest (`digest.py` 118-178), although `README.md` 1147 and `digest.py`
  110 say that none is; that is a matter of one query, and the contents of digests are
  not modelled.
- A page whose file changes between the reading of its text and its stat, or
  twice within the resolution of its time, keeps the older text (`blurred`); a
  file that vanishes during a call leaves its row until the next one. A call that raises
  leaves the write lock, the rows it has written, or an old snapshot to its thread
  (`wiki.py` 293-348): others time out meanwhile. The mark of
  a compile may count memories its brief did not show, and memories that arrive
  with an older creation time are never served.

Search, access, processes:

- More dormant matches than a tier fetches in excess crowd live ones out; among the
  nearest vectors so do hidden or sensitive memories and further chunks of long ones,
  although `db.py` 3069 says that "enough distinct memories survive the dedupe"
  (`ChunksInTheWay`). The look-up by filters cuts to its limit before it drops what may not
  be shown, so that it is left out of LiveNotCrowdedOut.
- Two writers of one credential file (`crossed`): the later one overwrites what the
  earlier one added, or brings back what it revoked.
- A bucket may let through twice its limit, and one more for each request that had read
  the clock before, in one window that spans two of its own.
- An update that is killed while git or the installer works for it, whose pull times out
  and goes on, whose install fails after it has changed the package or cannot be run,
  or that goes back to a commit noted before another update finished,
  leaves checkout and package apart (`divergent`), although `updater.py` 544-549 takes
  the roll-back for making them agree. The child of a killed update works on without the lock.
- Two servers that read the pid file before either writes both start; one that
  removes a stale file may remove that of another (`met`). Servers without
  --serve-mcp never register.
- A loop whose join timed out is revived by the next lifespan, which clears the
  Event it waits for; requests under way go on with closed connections.

Known, and not in the models: a node whose clock is behind stamps below what it
has received (`db.py` 3190); two versions with one stamp, of which neither wins
(`sync.py` 731); a node restored from a backup is never sent its own rows again
(`backup.py` 109); the hub replaces rows while nodes merge tags (`hub/main.py`
971); a remote once found without sequence numbers is read by timestamps for good
(`sync.py` 341), whose cursor a late push with an old stamp lies behind (`sync.py`
434); several servers that check saved searches together
(`saved_searches.py` 478); feedback computed from a vitality that changed meanwhile
(`vitality.py` 585).

## 4. Proofs

TLAPS checks, for any constants that satisfy the modules' assumptions:

| module | theorem | says | assumes |
|---|---|---|---|
| `HubSyncProofs` | `TypeCorrect` | `Spec => []TypeOK` | |
| `HubSyncProofs` | `NothingLostHolds` | `Spec => []NothingLost` | the hub rejects no single record |
| `HubSyncProofs` | `LastWriteWinsHolds` | `HubSync` implements `Replication` | |
| `HubSyncProofs` | `PassedIsHeldHolds` | `Spec => []PassedIsHeld` | |
| `NodeProofs` | `NoEchoHolds`, `EditsKeptHolds`, `OutboxRightHolds`, `NewestKeptHolds`, `TagsKeptHolds` | the invariants of `LocalUpsert` | |
| `NodeProofs` | `StillDueThere`, `DeletedForGood` | the invariants of `PeerSync` | |
| `GraphProofs` | `GraphTypeCorrect`, `OfferedIsHeldHolds` | the invariants | |
| `GraphProofs` | `MentionsKeptHolds` | `GraphSpec => []MentionsKept` | |
| `MemoryProofs` | `KeptTextHolds`, `FactsSettledHolds`, `IndexCurrentHolds` | the invariants | |
| `BackgroundProofs` | `TypeCorrect`, `ImportedWholeHolds`, `NoOrphansHolds`, `NotRefusedForeverHolds` | the invariants of `ContentImport` | |
| `BackgroundProofs` | `ImportedOnceHolds`, `RecordsRightHolds` | the invariants | all workers in one process |
| `BackgroundProofs` | `ReminderTypeCorrect`, `RecordedAreSentHolds`, `DeliveredOnceHolds`, `DeliveriesRightHolds` | the invariants of `ReminderScheduler` | |
| `BackgroundProofs` | `SilentOnceRecordedHolds` | `ReminderSpec => SilentOnceRecorded`, an action property | |
| `BackgroundProofs` | `NoFloodHolds` | `SearchSpec => NoFlood`, an action property | |
| `BackgroundProofs` | `AnnouncedOnceHolds` | `SearchSpec => []AnnouncedOnce` | one server polls |
| `BackgroundProofs` | `FoundAsTheyAreHolds` | `WatchSpec => []FoundAsTheyAre` | |
| `MigrationProofs` | `UpgradedHolds` | `MigSpec => []Upgraded` | |
| `MigrationProofs` | `SnapshotFirstHolds` | `MigSpec => SnapshotFirst`, an action property | |
| `StoreProofs` | `OneCurrentHolds` | `PullSpec => []OneCurrent` | all pulls in one process |
| `StoreProofs` | `RestoreSafeHolds`, `ReadsAreFreshHolds` | the invariants of `Backups` and `WikiPages` | |
| `StoreProofs` | `SearchesTrueHolds` | `VecSpec => []SearchesTrue` | |
| `StoreProofs` | `FaultsAreHolesHolds` | `VerdictSpec => FaultsAreHoles`, an action property | |
| `StoreProofs` | `DominantFirstHolds` | `RecallSpec => []DominantFirst` | |
| `StoreProofs` | `AnswersRightHolds` | `RecallSpec => AnswersRight`, an action property | |
| `ServiceProofs` | `NotServedAgainHolds` | `CompileSpec => []NotServedAgain` | |
| `ServiceProofs` | `UpdatesSafeHolds` | `UpdateSpec => []UpdatesSafe` | |
| `ServiceProofs` | `ServesAloneHolds` | `StartSpec => ServesAlone`, an action property | |
| `ServiceProofs` | `StopsCleanHolds` | `StopSpec => []StopsClean` | |
| `ServiceProofs` | `CredentialsHoldHolds`, `LimitsHoldHolds` | the invariants of `Auth` and `Gate` | |
| `ServiceProofs` | `DigestsRightHolds` | `JobsSpec => []DigestsRight` | |

What stands under "assumes" is a setting of a constant whose other value breaks
the property, as a run or section 3.3 shows, so that each theorem is as strong as
the code allows. The constants' own assumptions say that bounds are numbers, that
what stands for "none" (`NoOne`, `None`, `Gone`, `Deleted`, `NoServer`, `NoOpener`, `Half`, ...) is
none of the values it stands beside, that the sets whose members are counted are finite
(`Notes`, `Schedulers`, `SyncedRows`, `Categories`), and what the instance of a model
fixes: a lifespan has a list of its services, each once (`StopsEach`), no address is
called like the bucket of the credential (`NoAddressIsKnown`), a store to be upgraded is
of a version that was released (`ReleaseAssumption`), and the keyword tier, a table with a
row per memory, lists each memory once (`TiersAssumption`; of the vectors, a table with a
row per chunk, nothing of the kind is assumed, and the over-fetch and `_CHUNK_KNN_FANOUT`
are any positive numbers).

### 4.1 The inductive invariants

None of the properties is inductive by itself. What has to be added:

`HubSync`, push: a waiting node has exactly one live request (`OneWaits`); what is
neither in `todo`, `open` nor `ok` of that request was never in the batch
(`BatchAccounted`); ids in `ok` are stored at least as new as the batch's row
(`PushInv`); at most one open transaction per row and only rows newer than the
committed one (`RowsLocked`). `LastWriteWins` needs that every version
in flight was written (`Written`). Pull (`PullFacts`): what lies at or below the cursor, the
local position of a running pull, or the last position of its page is in the database,
on the page, or one of `late` and `skipped` (`PullCovers`); a position is never past the
numbers the hub has shown, and an open transaction has a later number than the row it
replaces (`SeqOrdered`), so that one that commits behind a position is one that commits
behind a number already shown; and a node is not behind what it has pushed itself
(`OwnWritesHeld`), since the hub does not send that back.

`LocalUpsert`: while nothing has overlapped, a thread that has not written yet
is the only one under way, its mark is the outbox's last id and its copy of the
row is current (`AloneInv`, `QuietInv`); no stamp, that of a draft included, is ahead of the
clock (`StampsGiven`); `NoEcho` needs only that every mark is at most the last id
(`EchoInv`).

`PeerSync`: as long as nobody is late, every version is at a node (or a later one, or a
removed tombstone that is as late) or due there (`DueOrReached`), and what is due is
no older than the two have been apart, so younger than the outboxes' retention
(`DueIsYoung`): the prune never takes it. At midnight that rests on the cycles: a whole
cycle leaves nothing due from its node to any that is up (`AfterCycle`), because behind
the last batch there is nothing that is not past `from` (`WithinCycle`). A tombstone that is
removed is older than anything due, so no node has an older version of its record and
none can be offered (`NothingOlder`, `GoneIsOld`). A node that writes a record after its
deletion has not got the deletion, hence the first such write comes while the deletion is
still in an outbox (`RewrittenEarly`), and with tombstones kept for twice as long that
write too has reached everyone before the tombstone may go (`GoneIsLast`). What peers
refuse never leaves its writer (`RefusedStays`).

`GraphSync`: the argument follows a row on its way around. A node's own row is
made of the hub's row and of what the outbox still holds: every alias of it is in
one of the two, and a stamp newer than the hub's is that of a pending record
(`OwnRow`, `OwnLink`). A record on the page a node is storing is the hub's row as
it is now, or the hub will offer a later one, or the row is among those known to be
missed (`PageRow`). So once the hub's row of an entity is no longer due to a node -
neither past its cursor nor on its page - the node has taken it in (`Digest`,
`LinkStored`). `Sending` says that what has left a request under way is at the hub,
`Paging` that a page lies past the cursor and behind what the hub has, `Reading` that
the row an upsert has read is still that unless it counts as `mixed`, `Stamped` that no
two nodes give out the same stamp, and `Locking` that nobody else changes a row which the hub
has stamped and not committed. With nothing pending and nothing due, `OwnRow` bounds
the node's row by the hub's and `Digest` the hub's by the node's: they agree.

`Migrations` (`MigInv`): what the migrations have in common is proved of each of the 29,
statement by statement (`Sound`): after the statement that drops a trigger for the last
time no other drops it, and the statement that creates it for good comes later in the same
migration (`LastDrop`, `CreateAt`); a transaction is open before those statements only that
follow DML without a commit (`Txn`). From that follows what any statement does to any store
(`Ran`: tables and columns are only added, a trigger changes at these places only, rows are
written by v29 only), and the steps of servers are looked at without the statements. The
invariant says of each server that the store has what precedes its statement (`Upgrading`,
`Has`) and that the store on disk is backed up if it has begun (`Covered`); of an open
transaction that it is ahead of the store on disk (`Ahead`); and of each trigger that it is
of its final form, or some server is still to drop it, or it is absent and some server is
still to create it, or nobody is at work and the version tells that it is to come
(`Coming`). The last is why a server that is killed in an upgrade must be alone in it: else
the version could be the latest while the dropped trigger is nobody's to create. What is
logged needs that servers upgrade one at a time (`Alone`): v3 fills the outbox while every
row has its first version (`FilledAt`, `EarlyAt`), v29 rewrites rows when the memory
triggers are final, there are no imported memories before there is a flag, and from then
on the triggers and the reconcile log what is written (`Kept`).

`MemoryLife`: `KeptText` is inductive once a memory that was not added has said nothing.
`NoContradiction` is, given the types. `HeirAtTheEnd` says that no set of hidden memories
is closed under "hidden by" without one of `blind`; in this form, which in a finite set
of memories is that every chain of `over` ends, it needs no induction along the
chain: a step that hides a memory behind a visible one opens every closed set it
might have made. It needs that the memory a merge keeps is itself visible until the merge writes
(`MergeVisible`). `IndexCurrent` needs that the due embeddings of a memory are of its text or
else its vectors are (`JobsRight`), and that an edit which embeds nothing leaves the
text it has read (`SilentEdit`).

`ContentImport`: a worker's import was given an id and its open chunks are
finite (`TypeInv`), a worker that inserts holds the lock of its process and its
content is still unknown (`LockInv`), and an open transaction belongs to the
writer and holds what broken imports have left and the one import still at work
(`WholeInv`). `ImportedWhole` needs that the chunks inserted so far are the first
ones in order, so that as many as there should be are all of them (`ChunkInv`).

`ReminderScheduler`: what a server has staged or notified was sent (`SentInv`), and
a reminder that was sent is recorded, lost, or in the hand of a server, and
whatever two servers have in hand is contended (`HandInv`).

`SavedSearch`: ids are given once and nothing is known of one not given (`IdsKnown`);
as long as a search is there and not crowded, what matched when its watch began still
does, is in what its first poll finds and never among the news (`BaseSeen`), because only a
delete takes back that something was seen (`ReadSeen`); what was announced is recorded,
excepted, or in the hand of the poll (`Recorded`), whose news are what it found and had not
seen (`NewsRight`).

`TrackedImports` (`PullInv`): of the pulls of one process one holds the lock, and when it
stores, what it has read of the table of imports is still there and differs from what
it is about to write, but for what was overtaken (`OneWriter`); and what a thread has left in
an open transaction is as right as what is committed (`TablesRight`). `Backups`
(`BackupInv`): until its replacement a restore finds the database as it was or with what a
server has committed since (`BeforeReplacement`), and its snapshot, once complete, has what
it found unless that was in a log (`SnapshotGood`); a server works on the database, or on a
file that was replaced under it, never on both (`InOnePiece`). `WikiPages` (`WikiInv`): a
modification time is that of one text, in the file, in the row, in every open transaction
and in every call's hands (`TimesTell`); between the reading of a page and its stat the
text stays (`TextsRight`); and of every page a reader has dealt with, or need not, the row
it sees says something the page has been since the read began (`ReadRight`).

`FolderWatch` (`WatchInv`): a content that came once was imported from the one file that has
or had it (`OriginsKnown`); what such a file says, once imported, is not hidden, and is the
current import of its path or, in the middle of `_ingest`, about to be (`DiskKept`,
`Replacing`); of a path the current import alone is visible, but for the forgotten
(`OneVisible`); and a file whose signature the watcher holds for ingested is imported unless its
import raised (`KnownImported`).

`SemanticIndex` (`VecInv`): numbers of rows are given once, so that an index that does
not contradict the table never will (`Agrees`), in the file, in every server and in the
hands of every thread (`IndexesAgree`, `ThreadsAgree`); the vectors are of the model of
the servers that are up, and of the recorded one unless a thread has yet to record it
(`ModelKnown`); as long as it has not, nothing is there (`EmptyUntilRecorded`); and a
row of the table is in a server's index or in the hand of one of its threads
(`Complete`).

`SyncVerdict` (`VerdictInv`): what a node has was pulled or is pushed (`BothWays`); while
nothing is written, the baseline is the cursor of the judgement before and what a pull
has left behind no pull will bring (`StillSo`). That counts per category which differ
betray a record that is missing, and that equal ones on both sides do not hide one, is a
statement about the sizes of the parts of a finite set (`KeptSplit`, `CountsAdd`),
proved by induction on the number of parts.

`Recall` (`RecallInv`): a search after the keyword tier has the first rows of those that
could be shown as the table then was (`KeywordRight`), and after the fusion ranks, scores
and tiers that follow from what both tiers have read (`FusedRight`). Three arguments
carry the properties. A rank counts what precedes, so a memory that is no worse in a
signal has no smaller share of it (`DominantFirst`). Sorting chooses positions: in a
finite ordered set every place is taken (`PlacesTaken`), so that no memory is lost between
the scores and the answer. And of a list cut to `OverFetch` times the limit either
`limit` live ones remain or more than the excess were in the way (`TierRight`,
`SplitCount`); of a list of chunks, each of the places that is neither the first of its
memory nor that of a live one counts as wasted, and the others are as many different
memories (`ManyWasted`); while vitality only falls (`VitalityFalls`), so that what is live at the
answer was live at the fusion.

Where an argument is an induction over numbers (`SetInduction`), it is one of a set of
numbers that contains 0 and is closed under successor, which follows from the
well-foundedness of the order; the theorem of the library that takes a predicate cannot
be instantiated by the provers.

`WikiCompile`: what was counted as integrated was created no later than the
watermark (`MarkedBehind`), which a mark only raises, since it reads memories past
it. `SelfUpdate` (`UpdateInv`): exactly the update under way holds the lock (`LockHeld`); one
that found no child of another at work has none beside it (`Alone`); at each
of its steps the package is that of the checkout or of the commit it found, and no child
is at work without its update, unless one has ended divergent (`PackageKnown`); and edits made before an update
that is past its look at the tree were seen by it, or it was forced
(`EditsSeen`). `ServerStart`: as long as no two processes were between two steps on the
pid file, the one that is has read what is there (`OneAmid`), and the file names the
server that serves (`FileRight`). `ServerStop`: services not yet stopped are those of
the present lifespan (`Orderly`), a thread that goes on is one still to be joined or was
given up, and one at work uses the connection that is open (`ThreadsEnd`).

`Auth` (`AuthInv`): of a store that no two writers have crossed, at most one change is
under way, and each file it is yet to write may stand by itself: it has all that is
valid, nothing that is not, and no token without its client (`Plan`, `Fine`); what it has
written so far is in the temporary file of its own process (`UnderWay`). So whichever
file a crash leaves is right. `Gate` (`GateInv`): of what a limiter admitted, its bucket
counts a part, the latest, and what is no longer counted lies in stretches that are over
or hold no more than one limit besides (`BucketHas`, `Counted`, `ClosedCap`); a request that
read the clock before others came is counted apart (`LateIn`). `PeriodicJobs` (`JobsInv`):
the stamp is that of the last claim (`MarkIsLast`), each claim is sent or in the hand of one
loop (`SentOnce`); since a claim, each later one and each loop about to claim is that of
another server until the interval is over (`FewClaims`, `FewOfDay`); and as long as no two
loops were between a question and its stamp together, what one has found due is still due
(`Apart`).

### 4.2 What is only model-checked

Liveness: `Convergence`, `ImportsEnd`, `NewsOnly` (its half `NewsArrive`; `NoFlood` is
proved), `NoneForgotten`, `Settles`. Fairness and ENABLED are out of the prover's reach.
Of the
invariants NothingStranded is model-checked only: it holds of a hub that runs one
transaction at a time and of upserts that do not fail, which the code does not guarantee;
what it guarantees is PassedIsHeld, a theorem. Every other invariant and action property of
the passing runs is a theorem too. The violations are counterexamples and nothing to prove. No module with proofs
reaches a RECURSIVE operator, which the SMT backend does not support.

## 5. What is left, and what is not modelled

Every component with state of its own has a module. What could be added, the
most important first:

1. Remotes of both kinds in one cycle: a hub and peers, with the cursors by
   sequence number and by time side by side, and a node restored from a backup.
2. Skewed clocks and equal stamps in `HubSync` and `PeerSync`.
3. `Reconciled` with relations, once the code backfills them.

Not modelled, and why:

- Parsing of chats, mails, PDF, images, audio and notes (`importer.py`,
  `*_import.py`), formatting of answers, reports, metrics and exports, CLI and
  configuration, models and validation: text and reads, without steps between
  which anything could happen. What they write is written by operations of the
  modules above.
- The reranker, query expansion, embedding and image models: external functions,
  of which `Recall` takes any order and `SemanticIndex` a vector per text and model.
- Sidecars and the watchdog: they start external programs and poll whether they
  live.
- Discovery by multicast: it changes the table of peers only, in which `PeerSync`
  has every peer and lets any of them not answer.
- Upload of backups to the cloud, notifications, events: best-effort calls to the
  outside whose failure changes nothing here.
- The hub's pull modes for clients that have no sequence numbers, its own
  tombstone compaction and its statistics.
- Deployment scripts, tests and benchmarks, which are no part of the running
  program; tests and docs were read as statements of intent.
