----------------------------- MODULE MemoryLife -----------------------------
(***************************************************************************)
(* The life of memories on one node: the MCP tools that write, edit, merge *)
(* and delete them (tools/crud.py, capture.py, history.py, lifecycle.py,   *)
(* normalize.py), the dashboard's handlers for the same rows (api.py) and  *)
(* the embedding of their text (db.py).                                    *)
(*                                                                         *)
(* The tools run one after the other on the event loop: none awaits before *)
(* its commit.  Dashboard handlers run in pool threads with connections of *)
(* their own, and so does every embedding.  A handler whose first reads    *)
(* matter to what it writes is two steps, since those reads are not part   *)
(* of its transaction; all others are one.  Content is one of a few texts, *)
(* two texts are similar if they are equal, all triples of the model share *)
(* one subject and predicate, and a tag stands for the other columns that  *)
(* a revision keeps.                                                       *)
(***************************************************************************)
EXTENDS Naturals, FiniteSets

CONSTANTS Memories,     \* memory ids
          Contents,     \* contents
          Objects,      \* objects of triples
          Workers,      \* threads of the dashboard
          NoOne,        \* no text, no object, no memory
          Stored,       \* the kinds of the memories that the store holds from the start
          Soft,         \* SYNC_ENABLED: deletes leave a tombstone
          MaxCalls,     \* bound: calls of tools and handlers, and failures
          MaxRevisions  \* bound: revisions of a memory

ASSUME NothingElse == NoOne \notin Memories \cup Contents \cup Objects
ASSUME CallBounds == MaxCalls \in Nat /\ MaxRevisions \in Nat /\ Soft \in BOOLEAN

VARIABLES
    memRow,     \* the memories table
    revisions,  \* memory_revisions: <<text, tag>> of each memory
    vecOf,      \* vecOf[m]: the text whose vectors are stored for m
    jobs,       \* embeddings that are due or running
    doing,      \* what a thread has read and not yet written
    written,    \* history: every <<text, tag>> that m has had
    unkept,     \* history: those overwritten by a path that keeps no revision
    overtaken,  \* history: memories with two embeddings at once, a failed one, or a
                \* revert that found its text in the row before the dashboard wrote
    cleared,    \* history: memories un-hidden by hand
    blind,      \* history: memories that hid others while hidden or deleted
    calls

memVars == <<memRow, revisions, vecOf, jobs, doing, written, unkept, overtaken, cleared, blind, calls>>
memHistory == <<written, unkept, overtaken, cleared, blind>>

Loop == "loop"
MemoryThreads == {Loop} \cup Workers
Idle == [op |-> "idle"]
NoRow == [at |-> "none", text |-> NoOne, tag |-> FALSE, object |-> NoOne, over |-> NoOne,
          kind |-> "note"]

MemInit ==
    /\ \E text \in [DOMAIN Stored -> Contents] :
          /\ memRow = [m \in Memories |-> IF m \notin DOMAIN Stored THEN NoRow
                      ELSE [NoRow EXCEPT !.at = "live", !.text = text[m], !.kind = Stored[m]]]
          /\ vecOf = [m \in Memories |-> IF m \in DOMAIN Stored THEN text[m] ELSE NoOne]
          /\ written = [m \in Memories |-> IF m \in DOMAIN Stored THEN {<<text[m], FALSE>>} ELSE {}]
    /\ revisions = [m \in Memories |-> {}]
    /\ jobs = {}
    /\ doing = [t \in MemoryThreads |-> Idle]
    /\ unkept = [m \in Memories |-> {}]
    /\ overtaken = {} /\ cleared = {} /\ blind = {}
    /\ calls = 0

-----------------------------------------------------------------------------
(* Helpers on the table.                                                   *)
LiveMemory(R, m) == R[m].at = "live"
IsVisible(R, m) == LiveMemory(R, m) /\ R[m].over = NoOne
Exists(R, m) == R[m].at \in {"live", "deleted"}
Tracked(R, m) == <<R[m].text, R[m].tag>>

Inserted(R, m, x, o, kind) ==
    [R EXCEPT ![m] = [NoRow EXCEPT !.at = "live", !.text = x, !.object = o, !.kind = kind]]

\* _supersede_contradicting_facts: the visible facts with another object.
Contradicted(R, m, o) ==
    IF o = NoOne THEN {}
    ELSE {n \in Memories \ {m} : IsVisible(R, n) /\ R[n].object \notin {NoOne, o}}
Superseding(R, m, o) ==
    LET S == Contradicted(R, m, o)
    IN [n \in Memories |-> IF n \in S THEN [R[n] EXCEPT !.over = m] ELSE R[n]]

\* _purge_memory, but for the vectors.
Purged(R, m) == [R EXCEPT ![m].at = IF Soft THEN "deleted" ELSE "gone"]

\* The rows become R; whatever it gives a memory is remembered as written.
CommitEdit(R) ==
    /\ memRow' = R
    /\ written' = [m \in Memories |-> IF Exists(R, m) THEN written[m] \cup {Tracked(R, m)} ELSE written[m]]

\* New embeddings <<m, text>>: a memory that is still being embedded is overtaken.
Spawn(new) ==
    LET fresh == {p[1] : p \in new}
        busy == {j.memory : j \in jobs}
    IN /\ jobs' = jobs \cup {[memory |-> p[1], text |-> p[2]] : p \in new}
       /\ overtaken' = (overtaken \ fresh) \cup (fresh \cap busy)
NoSpawn == UNCHANGED <<jobs, overtaken>>

Called == calls < MaxCalls /\ calls' = calls + 1
OnLoop == doing[Loop] = Idle /\ Called
OnWorker(w) == doing[w] = Idle /\ Called

-----------------------------------------------------------------------------
(* Tools that write rows in one transaction.                               *)

\* remind_me_add
AddMemory(m, x, o) ==
    /\ OnLoop /\ memRow[m].at = "none"
    /\ CommitEdit(Superseding(Inserted(memRow, m, x, o, "note"), m, o))
    /\ Spawn({<<m, x>>})
    /\ UNCHANGED <<revisions, vecOf, doing, unkept, cleared, blind>>

\* remind_me_auto_capture: the dialog and its summary.
CaptureTurn(m, n, x, y) ==
    /\ OnLoop /\ m # n /\ memRow[m].at = "none" /\ memRow[n].at = "none"
    /\ CommitEdit(Inserted(Inserted(memRow, m, x, NoOne, "capture"), n, y, NoOne, "capture"))
    /\ Spawn({<<m, x>>, <<n, y>>})
    /\ UNCHANGED <<revisions, vecOf, doing, unkept, cleared, blind>>

\* remind_me_decompose: the facts of a capture, one after the other, each hiding
\* what it contradicts.
Decompose(c, m, n, x, o, q) ==
    LET first == Superseding(Inserted(memRow, m, x, o, "note"), m, o)
        both == Superseding(Inserted(first, n, x, q, "note"), n, q)
    IN /\ OnLoop /\ Exists(memRow, c) /\ memRow[c].kind = "capture"
       /\ m # n /\ memRow[m].at = "none" /\ memRow[n].at = "none"
       /\ CommitEdit(both)
       /\ Spawn({<<m, x>>, <<n, x>>})
       /\ UNCHANGED <<revisions, vecOf, doing, unkept, cleared, blind>>

\* remind_me_normalize_apply: of any import that has a row, also one that was
\* normalized or deleted since the batch was read.
Normalize(m, n, x) ==
    /\ OnLoop /\ Exists(memRow, m) /\ memRow[m].kind = "import" /\ memRow[n].at = "none"
    /\ CommitEdit(Inserted(memRow, n, x, NoOne, "note"))
    /\ Spawn({<<n, x>>})
    /\ UNCHANGED <<revisions, vecOf, doing, unkept, cleared, blind>>

\* remind_me_annotate: completes the triple of any memory that has a row, also
\* one that has been hidden or deleted since the batch was read.
Annotate(m, o) ==
    LET R == [memRow EXCEPT ![m].object = o]
        new == Superseding(R, m, o)
    IN /\ OnLoop /\ Exists(memRow, m) /\ o # NoOne
       /\ CommitEdit(new)
       /\ blind' = IF ~IsVisible(memRow, m) /\ new # R THEN blind \cup {m} ELSE blind
       /\ NoSpawn
       /\ UNCHANGED <<revisions, vecOf, doing, unkept, cleared>>

\* remind_me_update with clear_superseded alone: no revision, no embedding.
ClearSuperseded(m) ==
    /\ OnLoop /\ LiveMemory(memRow, m) /\ memRow[m].over # NoOne
    /\ CommitEdit([memRow EXCEPT ![m].over = NoOne])
    /\ cleared' = cleared \cup {m}
    /\ NoSpawn
    /\ UNCHANGED <<revisions, vecOf, doing, unkept, blind>>

\* remind_me_delete, and the dashboard's delete and bulk delete, which commits
\* memory by memory.
Deleted(m) ==
    /\ LiveMemory(memRow, m)
    /\ memRow' = Purged(memRow, m)
    /\ vecOf' = [vecOf EXCEPT ![m] = NoOne]
    /\ UNCHANGED <<revisions, jobs, doing, memHistory>>
Delete(m) == OnLoop /\ Deleted(m)
ApiDelete(w, m) == OnWorker(w) /\ Deleted(m)

-----------------------------------------------------------------------------
(* Edits: remind_me_update and remind_me_revert read the row, then record  *)
(* what they read as a revision and write, in one transaction.             *)
EditRead(m, x, tag, embed) ==
    /\ OnLoop /\ LiveMemory(memRow, m)
    /\ Cardinality(revisions[m]) < MaxRevisions
    /\ doing' = [doing EXCEPT ![Loop] =
            [op |-> "edit", memory |-> m, text |-> x, tag |-> tag, old |-> Tracked(memRow, m),
             embed |-> embed]]
    /\ UNCHANGED <<memRow, revisions, vecOf, jobs, memHistory>>
Update(m, x) == EditRead(m, x, memRow[m].tag, TRUE)
RevertSilently(m, r) == r \in revisions[m] /\ EditRead(m, r[1], r[2], FALSE)

Revert(m, r) == r \in revisions[m] /\ EditRead(m, r[1], r[2], memRow[m].text # r[1])
\* The revision of an edit, if it changes a column that a revision keeps.
SnapshotsAfter(d) == IF <<d.text, d.tag>> # d.old THEN {<<d.text, d.tag>>} ELSE {}
Snapshots(d) == IF <<d.text, d.tag>> # d.old THEN {d.old} ELSE {}
EditWrite ==
    LET d == doing[Loop]
        m == d.memory
    IN /\ d.op = "edit"
       /\ revisions' = [revisions EXCEPT ![m] = @ \cup Snapshots(d)]
       /\ unkept' = IF Tracked(memRow, m) # d.old THEN [unkept EXCEPT ![m] = @ \cup {Tracked(memRow, m)}]
                                               ELSE unkept
       /\ IF Exists(memRow, m) THEN CommitEdit([memRow EXCEPT ![m].text = d.text, ![m].tag = d.tag])
                            ELSE UNCHANGED <<memRow, written>>
       /\ IF d.embed THEN Spawn({<<m, d.text>>})
          ELSE /\ overtaken' = IF memRow[m].text # d.old[1] THEN overtaken \cup {m} ELSE overtaken
               /\ UNCHANGED jobs
       /\ doing' = [doing EXCEPT ![Loop] = Idle]
       /\ UNCHANGED <<vecOf, cleared, blind, calls>>

\* The dashboard's PUT: no revision.
PutRead(w, m, x) ==
    /\ OnWorker(w) /\ LiveMemory(memRow, m)
    /\ doing' = [doing EXCEPT ![w] = [op |-> "put", memory |-> m, text |-> x]]
    /\ UNCHANGED <<memRow, revisions, vecOf, jobs, memHistory>>
PutWrite(w) ==
    LET d == doing[w]
        m == d.memory
    IN /\ d.op = "put"
       /\ IF Exists(memRow, m)
          THEN /\ unkept' = [unkept EXCEPT ![m] = @ \cup {Tracked(memRow, m)}]
               /\ CommitEdit([memRow EXCEPT ![m].text = d.text])
               /\ Spawn({<<m, d.text>>})
          ELSE UNCHANGED <<memRow, written, unkept>> /\ NoSpawn
       /\ doing' = [doing EXCEPT ![w] = Idle]
       /\ UNCHANGED <<revisions, vecOf, cleared, blind, calls>>

\* The dashboard's POST inserts no triple, and its bulk tagging no revision.
ApiAdd(w, m, x) ==
    /\ OnWorker(w) /\ memRow[m].at = "none"
    /\ CommitEdit(Inserted(memRow, m, x, NoOne, "note"))
    /\ Spawn({<<m, x>>})
    /\ UNCHANGED <<revisions, vecOf, doing, unkept, cleared, blind>>
BulkTag(w, m) ==
    /\ OnWorker(w) /\ LiveMemory(memRow, m)
    /\ CommitEdit([memRow EXCEPT ![m].tag = ~@])
    /\ unkept' = [unkept EXCEPT ![m] = @ \cup {Tracked(memRow, m)}]
    /\ NoSpawn
    /\ UNCHANGED <<revisions, vecOf, doing, cleared, blind>>

-----------------------------------------------------------------------------
(* remind_me_consolidate: clusters are read from the vectors; the summary   *)
(* that an agent wrote after an earlier dry run becomes the content of the  *)
(* canonical memory, and the others are hidden by it.                       *)
Cluster(m) == {n \in Memories : IsVisible(memRow, n) /\ vecOf[n] = vecOf[m] /\ vecOf[n] # NoOne}
MembersAll(S, m) == S
Members(S, m) == S \ {m}
MergeRead(m, x) ==
    /\ OnLoop /\ m \in Cluster(m) /\ Cardinality(Cluster(m)) >= 2
    /\ doing' = [doing EXCEPT ![Loop] =
            [op |-> "merge", memory |-> m, text |-> x, members |-> Members(Cluster(m), m)]]
    /\ UNCHANGED <<memRow, revisions, vecOf, jobs, memHistory>>
MergeWrite ==
    LET d == doing[Loop]
        m == d.memory
        R == IF Exists(memRow, m) THEN [memRow EXCEPT ![m].text = d.text] ELSE memRow
    IN /\ d.op = "merge"
       /\ CommitEdit([n \in Memories |-> IF n \in d.members /\ Exists(R, n)
                                     THEN [R[n] EXCEPT !.over = m] ELSE R[n]])
       /\ unkept' = IF Exists(memRow, m) THEN [unkept EXCEPT ![m] = @ \cup {Tracked(memRow, m)}] ELSE unkept
       /\ Spawn({<<m, d.text>>})
       /\ doing' = [doing EXCEPT ![Loop] = Idle]
       /\ UNCHANGED <<revisions, vecOf, cleared, blind, calls>>

-----------------------------------------------------------------------------
(* _embed_and_store: embeds the text it was given and replaces the vectors *)
(* of the row, if there is one (SemanticIndex has its steps).              *)
Embed(j) ==
    /\ jobs' = jobs \ {j}
    /\ vecOf' = IF Exists(memRow, j.memory) THEN [vecOf EXCEPT ![j.memory] = j.text] ELSE vecOf
    /\ UNCHANGED <<memRow, revisions, doing, memHistory, calls>>
\* The model or the database fails, or the server stops with jobs undone.
EmbedFail(j) ==
    /\ Called
    /\ jobs' = jobs \ {j}
    /\ overtaken' = overtaken \cup {j.memory}
    /\ UNCHANGED <<memRow, revisions, vecOf, doing, written, unkept, cleared, blind>>

\* remind_me_reindex: prunes the vectors of rows that are gone, and embeds the
\* memories that have none; those with a stale vector stay as they are.
ReindexAll(m) ==
    /\ OnLoop /\ LiveMemory(memRow, m) /\ vecOf[m] = NoOne
    /\ vecOf' = [n \in Memories |-> IF Exists(memRow, n) THEN vecOf[n] ELSE NoOne]
    /\ Spawn({<<m, memRow[m].text>>})
    /\ UNCHANGED <<memRow, revisions, doing, written, unkept, cleared, blind>>

\* _compact_revisions: by age.
CompactRevisions(m) ==
    /\ revisions[m] # {} /\ Called
    /\ \E r \in revisions[m] :
          /\ revisions' = [revisions EXCEPT ![m] = @ \ {r}]
          /\ unkept' = [unkept EXCEPT ![m] = @ \cup {r}]
    /\ UNCHANGED <<memRow, vecOf, jobs, doing, written, overtaken, cleared, blind>>

MemNext ==
    \/ \E m \in Memories, x \in Contents, o \in Objects \cup {NoOne} : AddMemory(m, x, o)
    \/ \E m, n \in Memories, x, y \in Contents : CaptureTurn(m, n, x, y)
    \/ \E c, m, n \in Memories, x \in Contents, o, q \in Objects \cup {NoOne} :
          Decompose(c, m, n, x, o, q)
    \/ \E m, n \in Memories, x \in Contents : Normalize(m, n, x)
    \/ \E m \in Memories, o \in Objects : Annotate(m, o)
    \/ \E m \in Memories : ClearSuperseded(m)
    \/ \E m \in Memories : Delete(m)
    \/ \E m \in Memories, x \in Contents : Update(m, x)
    \/ \E m \in Memories : \E r \in revisions[m] : Revert(m, r)
    \/ EditWrite
    \/ \E m \in Memories, x \in Contents : MergeRead(m, x)
    \/ MergeWrite
    \/ \E w \in Workers, m \in Memories : ApiDelete(w, m)
    \/ \E w \in Workers, m \in Memories, x \in Contents : PutRead(w, m, x)
    \/ \E w \in Workers : PutWrite(w)
    \/ \E w \in Workers, m \in Memories, x \in Contents : ApiAdd(w, m, x)
    \/ \E w \in Workers, m \in Memories : BulkTag(w, m)
    \/ \E j \in jobs : Embed(j) \/ EmbedFail(j)
    \/ \E m \in Memories : ReindexAll(m)
    \/ \E m \in Memories : CompactRevisions(m)
MemSpec == MemInit /\ [][MemNext]_memVars

-----------------------------------------------------------------------------
(* Two visible memories never say different things of the same subject and *)
(* predicate (README.md:1036), in whatever order facts are added, extracted*)
(* from captures or completed by annotations, unless somebody un-hid one.  *)
NoContradiction ==
    \A m, n \in Memories :
        IsVisible(memRow, m) /\ IsVisible(memRow, n) /\ {memRow[m].object, memRow[n].object} \subseteq Objects
        => memRow[m].object = memRow[n].object \/ {m, n} \cap cleared # {}

(* From a hidden memory, superseded_by leads to one that nothing hides: a  *)
(* visible one, or one deleted since.  No memories are hidden only by each *)
(* other, unless one of them hid others while it was hidden itself.        *)
HeirAtTheEnd ==
    \A S \in SUBSET Memories :
        S # {} /\ (\A m \in S : memRow[m].over \in S) => S \cap blind # {}

(* Whatever content and tags a memory had can be had back: they are in the *)
(* row (also a hidden or deleted one), in a revision, or were overwritten  *)
(* by one of the paths that keep none: the dashboard, a merge, retention,  *)
(* or a tool edit that had read the row before the dashboard wrote.        *)
KeptText ==
    \A m \in Memories :
        memRow[m].at # "gone" => written[m] \subseteq {Tracked(memRow, m)} \cup revisions[m] \cup unkept[m]

(* The vectors of a live memory are those of its current text as soon as   *)
(* none of its embeddings is due, unless two ran at the same time or one   *)
(* failed: no tool changes a text without embedding it.                    *)
IndexCurrent ==
    \A m \in Memories :
        /\ LiveMemory(memRow, m) /\ m \notin overtaken
        /\ \A j \in jobs : j.memory # m
        => vecOf[m] = memRow[m].text

(* Supersession settles what is true of a subject, and hides nothing for    *)
(* good that it does not replace.                                          *)
FactsSettled == NoContradiction /\ HeirAtTheEnd
=============================================================================
