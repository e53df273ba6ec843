---------------------------- MODULE TrackedImports ----------------------------
(***************************************************************************)
(* The two importers that keep a table of what they have imported:         *)
(* pull_dbs (dbs_import.py: items of a dbs store, identified by source and *)
(* external id, with the hash of their text) and pull_mempalace            *)
(* (mempalace_import.py: drawers, identified by their id alone).  A pull   *)
(* reads a page of the foreign store, then, holding the importer's lock,   *)
(* reads its table, decides, writes memories and table and commits; the    *)
(* vectors follow.  The lock is one per process.                           *)
(*                                                                         *)
(* A pull that raises in the middle rolls nothing back: what it has        *)
(* written stays in the open transaction of its thread, which keeps the    *)
(* database's write lock, until the next commit on that thread.            *)
(*                                                                         *)
(* An item has a text or is deleted (None).  The memory of a version has an *)
(* id that is a hash of the item and its text, <<item, text>>; the memory  *)
(* of a drawer has an id of its own for each pull.                         *)
(***************************************************************************)
EXTENDS Naturals, FiniteSets

CONSTANTS Items, Drawers, Texts, None, NoTxn,
          Pulls,       \* threads that run a pull
          PullServer,  \* [Pulls -> the process of the thread]
          MaxStoreChanges, MaxPullFaults   \* bounds

ASSUME DeletedIsNoText == None \notin Texts

VARIABLES
    item,        \* [Items -> Texts or None]: the dbs store
    drawer,      \* drawers there are in the palace
    tables,      \* what is committed:
                 \*   version: [memories of items -> the text that supersedes them, or None]
                 \*   dbs_imports: [Items -> text of the version last stored, or None]
                 \*   copies: [Drawers -> number of memories made of it]
                 \*   mempalace_imports: drawers imported
                 \*   restored: history, items of which a replaced version was stored again
                 \*   strays: history, memories of items that a pull which raised has stored or
                 \*     superseded without the record, and no pull has stored since
                 \*   strayCopies: history, [Drawers -> memories stored without the record]
    open,        \* [by: a thread, tables: as it has left them], not committed; or NoTxn
    embeddedVersions,  \* memories of items with vectors
    pull,        \* [Pulls -> the call under way]
    storeChanges, pullFaults,
    overtaken    \* history: items and drawers recorded by the late commit of a pull that had raised,
                 \* between another pull's look at the table and its writes

pullVars == <<item, drawer, tables, open, embeddedVersions, pull, storeChanges, pullFaults, overtaken>>

NoPull == [at |-> "none"]
Nothing == [i \in {} |-> None]

PullInit ==
    /\ item = [i \in Items |-> None] /\ drawer = {}
    /\ tables = [version |-> Nothing, dbs_imports |-> [i \in Items |-> None],
                 copies |-> [d \in Drawers |-> 0], mempalace_imports |-> {},
                 restored |-> {}, strays |-> {}, strayCopies |-> [d \in Drawers |-> 0]]
    /\ open = NoTxn
    /\ embeddedVersions = {} /\ pull = [p \in Pulls |-> NoPull]
    /\ storeChanges = 0 /\ pullFaults = 0 /\ overtaken = {}

UnchangedStores == UNCHANGED <<item, drawer, storeChanges>>
UnchangedMemories == UNCHANGED <<tables, open, overtaken>>
PullFault == pullFaults < MaxPullFaults /\ pullFaults' = pullFaults + 1

-----------------------------------------------------------------------------
(* The foreign stores: an item appears, is edited (perhaps back to a text  *)
(* it has had), is deleted; a drawer appears.                              *)
StoreChanges ==
    /\ storeChanges < MaxStoreChanges /\ storeChanges' = storeChanges + 1
    /\ \/ \E i \in Items, t \in Texts \cup {None} : t # item[i] /\ item' = [item EXCEPT ![i] = t] /\ UNCHANGED drawer
       \/ \E d \in Drawers \ drawer : drawer' = drawer \cup {d} /\ UNCHANGED item
    /\ UnchangedMemories /\ UNCHANGED <<embeddedVersions, pull, pullFaults>>

-----------------------------------------------------------------------------
\* A pull reads a page of the foreign store, before it takes the lock.
Fetch(p) ==
    /\ pull[p] = NoPull
    /\ \/ \E page \in (SUBSET {i \in Items : item[i] # None}) \ {{}} :
             pull' = [pull EXCEPT ![p] = [at |-> "lock", rows |-> [i \in page |-> item[i]], drawers |-> {}]]
       \/ \E page \in (SUBSET drawer) \ {{}} :
             pull' = [pull EXCEPT ![p] = [at |-> "lock", rows |-> Nothing, drawers |-> page]]
    /\ UnchangedStores /\ UnchangedMemories /\ UNCHANGED <<embeddedVersions, pullFaults>>

HoldsLock(q) == pull[q].at = "store"
\* The look at the table is outside the lock (SEC-10, issue #136).
NoLock(p) == TRUE
\* No other thread of the process is between its look at the table and its commit.
LockFree(p) == \A q \in Pulls \ {p} : PullServer[q] = PullServer[p] => ~HoldsLock(q)

\* A thread reads its own open transaction.
TablesOf(p) == IF open # NoTxn /\ open.by = p THEN open.tables ELSE tables

\* The look at the table decides what is imported; a dry run ends here.
Decide(p) ==
    LET call == pull[p]
        seen == TablesOf(p)
        new == {i \in DOMAIN call.rows : seen.dbs_imports[i] # call.rows[i]}
    IN /\ call.at = "lock" /\ LockFree(p)
       /\ \/ pull' = [pull EXCEPT ![p] = [at |-> "store",
                          rows |-> [i \in new |-> call.rows[i]],
                          prior |-> [i \in new |-> seen.dbs_imports[i]],
                          drawers |-> call.drawers \ seen.mempalace_imports]]
          \/ pull' = [pull EXCEPT ![p] = NoPull]
       /\ UnchangedStores /\ UnchangedMemories /\ UNCHANGED <<embeddedVersions, pullFaults>>

\* pull_dbs for a page: INSERT OR IGNORE of the new versions, each previous version superseded
\* by the new one, unconditionally.
Replaces(version, rows, prior) ==
    LET new == {<<i, rows[i]>> : i \in DOMAIN rows}
        old == {<<i, prior[i]>> : i \in {j \in DOMAIN rows : prior[j] # None}}
    IN [m \in DOMAIN version \cup new |->
            IF m \in old THEN rows[m[1]]
            ELSE IF m \in DOMAIN version THEN version[m] ELSE None]

\* The tables T after the writes for a page: memories and records.
Stored(T, rows, prior, drawers) ==
    [version |-> Replaces(T.version, rows, prior),
     dbs_imports |-> [i \in Items |-> IF i \in DOMAIN rows THEN rows[i] ELSE T.dbs_imports[i]],
     copies |-> [d \in Drawers |-> T.copies[d] + IF d \in drawers THEN 1 ELSE 0],
     mempalace_imports |-> T.mempalace_imports \cup drawers,
     restored |-> T.restored \cup {i \in DOMAIN rows : /\ <<i, rows[i]>> \in DOMAIN T.version
                                                       /\ T.version[<<i, rows[i]>>] # None},
     strays |-> T.strays \ {<<i, rows[i]>> : i \in DOMAIN rows},
     strayCopies |-> T.strayCopies]

\* The write lock of the database is free, or this thread's already.
CanWrite(p) == open # NoTxn => open.by = p

\* The writes of a page and their commit, with what the thread had left open.
Store(p) ==
    LET call == pull[p]
    IN /\ call.at = "store" /\ CanWrite(p)
       /\ tables' = Stored(TablesOf(p), call.rows, call.prior, call.drawers)
       /\ open' = NoTxn
       /\ pull' = [pull EXCEPT ![p] = IF DOMAIN call.rows = {} THEN NoPull
                                      ELSE [at |-> "embed", rows |-> call.rows]]
       /\ UnchangedStores /\ UNCHANGED <<embeddedVersions, pullFaults, overtaken>>

\* Of the item i, the memory is stored; the previous version may be superseded; no record.
CutItem(T, i, text, old, superseded) ==
    LET m == <<i, text>>
        o == <<i, old>>
    IN [T EXCEPT !.version = [x \in DOMAIN T.version \cup {m} |->
                                IF superseded /\ x = o THEN text
                                ELSE IF x \in DOMAIN T.version THEN T.version[x] ELSE None],
                 !.strays = @ \cup {m} \cup (IF superseded THEN {o} ELSE {})]

CutDrawer(T, d) == [T EXCEPT !.copies[d] = @ + 1, !.strayCopies[d] = @ + 1]

\* An exception between the first INSERT of a page and its commit, such as for tags that are no
\* strings: some are written, one of them halfway.
StoreRaises(p) ==
    LET call == pull[p] IN
    /\ call.at = "store" /\ CanWrite(p) /\ PullFault
    /\ \/ \E cut \in DOMAIN call.rows, superseded \in BOOLEAN : \E done \in SUBSET (DOMAIN call.rows \ {cut}) :
             /\ superseded => call.prior[cut] # None
             /\ open' = [by |-> p, tables |->
                   CutItem(Stored(TablesOf(p), [i \in done |-> call.rows[i]], [i \in done |-> call.prior[i]], {}),
                           cut, call.rows[cut], call.prior[cut], superseded)]
       \/ \E cut \in call.drawers : \E done \in SUBSET (call.drawers \ {cut}) :
             open' = [by |-> p, tables |-> CutDrawer(Stored(TablesOf(p), Nothing, Nothing, done), cut)]
    /\ pull' = [pull EXCEPT ![p] = NoPull]
    /\ UnchangedStores /\ UNCHANGED <<tables, embeddedVersions, overtaken>>

\* The busy time-out: another thread has the write lock, one that has left it or anybody else.
StoreLocked(p) ==
    /\ pull[p].at = "store"
    /\ \/ ~CanWrite(p) /\ UNCHANGED pullFaults
       \/ open = NoTxn /\ PullFault
    /\ pull' = [pull EXCEPT ![p] = NoPull]
    /\ UnchangedStores /\ UnchangedMemories /\ UNCHANGED embeddedVersions

\* The next commit or rollback on the thread of a pull that has raised.
EndTxn(p) ==
    /\ open # NoTxn /\ open.by = p /\ pull[p] = NoPull
    /\ \/ /\ tables' = open.tables
          /\ overtaken' = overtaken \cup UNION {
                {i \in DOMAIN pull[q].rows : open.tables.dbs_imports[i] # tables.dbs_imports[i]}
                \cup (pull[q].drawers \cap open.tables.mempalace_imports) : q \in {x \in Pulls : HoldsLock(x)}}
       \/ UNCHANGED <<tables, overtaken>>
    /\ open' = NoTxn
    /\ UnchangedStores /\ UNCHANGED <<embeddedVersions, pull, pullFaults>>

EmbedImported(p) ==
    /\ pull[p].at = "embed" /\ LockFree(p)
    /\ embeddedVersions' = embeddedVersions \cup {<<i, pull[p].rows[i]>> : i \in DOMAIN pull[p].rows}
    /\ pull' = [pull EXCEPT ![p] = NoPull]
    /\ UnchangedStores /\ UnchangedMemories /\ UNCHANGED pullFaults

\* A process is killed: its calls end, an open transaction is rolled back.
ServerKilled(s) ==
    /\ PullFault
    /\ \/ \E p \in Pulls : PullServer[p] = s /\ pull[p] # NoPull
       \/ open # NoTxn /\ PullServer[open.by] = s
    /\ pull' = [p \in Pulls |-> IF PullServer[p] = s THEN NoPull ELSE pull[p]]
    /\ open' = IF open # NoTxn /\ PullServer[open.by] = s THEN NoTxn ELSE open
    /\ UnchangedStores /\ UNCHANGED <<tables, overtaken, embeddedVersions>>

PullNext == \/ StoreChanges
            \/ \E p \in Pulls : \/ Fetch(p) \/ Decide(p) \/ Store(p) \/ StoreRaises(p) \/ StoreLocked(p) \/ EndTxn(p)
                                \/ EmbedImported(p) \/ ServerKilled(PullServer[p])

PullSpec == PullInit /\ [][PullNext]_pullVars

-----------------------------------------------------------------------------
Live(i) == {t \in Texts : <<i, t>> \in DOMAIN tables.version /\ tables.version[<<i, t>>] = None}
Stray(i) == {t \in Texts : <<i, t>> \in tables.strays}

\* pull_dbs, "SEC-10", and pull_mempalace, "issue #136" (pulls of one process): but for what a pull
\* that raised has left, an item has one memory that is shown, that of its last import, and a
\* drawer one memory, however pulls overlap, are repeated with an older page, raise in the
\* middle or are killed.  What such a pull has left of an item goes with the next import of that
\* version.  Not so an item that came back to a version that had been replaced, which stays
\* hidden, nor what the late commit of a pull that had raised overtook.
OneCurrent ==
    /\ \A i \in Items \ (tables.restored \cup overtaken) :
          Live(i) \ Stray(i) = {tables.dbs_imports[i]} \ ({None} \cup Stray(i))
    /\ \A d \in Drawers \ overtaken :
          tables.copies[d] = tables.strayCopies[d] + IF d \in tables.mempalace_imports THEN 1 ELSE 0
=============================================================================
