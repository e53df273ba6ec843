--------------------------- MODULE SemanticIndex ---------------------------
(***************************************************************************)
(* The vectors of memories and the approximate index over them: memories_  *)
(* vec and vec_chunks in the database (db.py), one ANN index in the memory *)
(* of each server and its file on disk (ann_index.py), and the record of   *)
(* the embedding model they were made with (embedding_meta).               *)
(*                                                                         *)
(* A memory has one chunk, a vector is the text and the model it was made  *)
(* of, and two models have the same dimension, so that nothing but the     *)
(* record tells their vectors apart.  Embedding runs in threads: the slow  *)
(* computation, the transaction that replaces the rows, the index and the  *)
(* record are steps of their own.  sqlite-vec numbers rows with            *)
(* AUTOINCREMENT: a number comes back only after the table was dropped.    *)
(* Servers that are up together share one configuration, hence one model.  *)
(***************************************************************************)
EXTENDS Naturals, FiniteSets, Functions, SequencesExt

CONSTANTS Notes,         \* memory ids
          Servers,       \* processes on the same database
          Models,        \* embedding models
          AutosaveEvery, \* ANN_AUTOSAVE_EVERY
          NoIndex, Torn, \* no index in memory or on disk; a file that cannot be read
          MaxEdits, MaxStarts, MaxRows, MaxThreads   \* bounds; threads at a time

ASSUME Autosaves == AutosaveEvery \in Nat \ {0}
ASSUME NotesAndModels == IsFiniteSet(Notes) /\ "none" \notin Models

VARIABLES
    text,       \* text[m]: 0 before it is added and after it is deleted
    vec,        \* memories_vec and vec_chunks: row number -> [of, text, model]
    fresh,      \* the next row number
    meta,       \* embedding_meta: the model, or "none"
    ann,        \* of each server: [up, model, index, unsaved]
    file,       \* ann_index.usearch: an index, NoIndex or Torn
    embeds,     \* the threads: [by, plan, at, removed, added]
    edits, starts,
    unrecorded, \* history: a server stopped between vectors and their record
    raced,      \* history: the vectors were cleared while threads had theirs to index
    misled      \* history: servers whose index misses what others wrote, or came
                \* from a file older than the table

vecVars == <<text, vec, fresh, meta, ann, file, embeds, edits, starts, unrecorded, raced,
             misled>>

Down == [up |-> FALSE, model |-> "none", index |-> NoIndex, unsaved |-> 0]
Running == {s \in Servers : ann[s].up}
Threads(s) == {e \in embeds : e.by = s}
RowsOf(V, ms) == {k \in DOMAIN V : V[k].of \in ms}

VecInit ==
    /\ text = [m \in Notes |-> 0]
    /\ vec = <<>> /\ fresh = 1 /\ meta = "none" /\ file = NoIndex
    /\ ann = [s \in Servers |-> Down]
    /\ embeds = {} /\ edits = 0 /\ starts = 0
    /\ unrecorded = FALSE /\ raced = FALSE /\ misled = {}

-----------------------------------------------------------------------------
(* The index of one server.                                                *)
\* get_index: the file if it is readable and as long as the table.
Readable == file \notin {NoIndex, Torn}
AsLong == Cardinality(DOMAIN file) = Cardinality(DOMAIN vec)
Trusted == Readable /\ AsLong
Loaded(s) ==
    IF ann[s].index # NoIndex THEN ann[s].index ELSE IF Trusted THEN file ELSE vec
OutOfDate(s) == ann[s].index = NoIndex /\ Readable /\ AsLong /\ file # vec
Misled(s) == (Servers \ {s}) \cup (IF OutOfDate(s) THEN {s} ELSE {})
TornGone == IF file = Torn THEN NoIndex ELSE file

\* remove_vector for each of `gone`, add_vector for each row of `new`.
Updated(index, gone, new) ==
    [k \in DOMAIN new \cup (DOMAIN index \ gone) |-> IF k \in DOMAIN new THEN new[k] ELSE index[k]]

\* _maybe_autosave_locked after so many changes.
Counted(s, index, changes) ==
    LET n == ann[s].unsaved + changes
    IN IF n < AutosaveEvery
       THEN /\ ann' = [ann EXCEPT ![s].index = index, ![s].unsaved = n]
            /\ file' = TornGone
       ELSE /\ ann' = [ann EXCEPT ![s].index = index, ![s].unsaved = 0]
            /\ file' = index

-----------------------------------------------------------------------------
(* Writes to memories, and the threads that embed them.                    *)
Embedding(s, plan) == [by |-> s, plan |-> plan, at |-> "embed", removed |-> {}, added |-> <<>>]

\* A tool, the dashboard, an import or a pull stores a text and has it embedded.
SaveText(s, m) ==
    /\ ann[s].up /\ edits < MaxEdits /\ Cardinality(embeds) < MaxThreads
    /\ edits' = edits + 1
    /\ text' = [text EXCEPT ![m] = edits + 1]
    /\ embeds' = embeds \cup {Embedding(s, [x \in {m} |-> edits + 1])}
    /\ UNCHANGED <<vec, fresh, meta, ann, file, starts, unrecorded, raced, misled>>

\* _purge_memory: the chunks go with the row, the index follows after the commit.
DeleteNote(s, m) ==
    /\ ann[s].up /\ edits < MaxEdits /\ text[m] # 0 /\ Cardinality(embeds) < MaxThreads
    /\ edits' = edits + 1
    /\ text' = [text EXCEPT ![m] = 0]
    /\ vec' = Restrict(vec, DOMAIN vec \ RowsOf(vec, {m}))
    /\ LET rows == RowsOf(vec, {m})
       IN IF rows = {} THEN UNCHANGED <<embeds, misled>>
          ELSE /\ embeds' = embeds \cup {[Embedding(s, <<>>) EXCEPT !.at = "index", !.removed = rows]}
               /\ misled' = misled \cup (Servers \ {s})
    /\ UNCHANGED <<fresh, meta, ann, file, starts, unrecorded, raced>>

\* remind_me_reindex: rows of deleted memories go, memories without rows are embedded.
Reindex(s) ==
    LET orphans == {k \in DOMAIN vec : text[vec[k].of] = 0}
        missing == {m \in Notes : text[m] # 0 /\ RowsOf(vec, {m}) = {}}
        plan == [m \in missing |-> text[m]]
    IN /\ ann[s].up
       /\ orphans # {} \/ missing # {}
       /\ Cardinality(embeds) < MaxThreads
       /\ vec' = Restrict(vec, DOMAIN vec \ orphans)
       /\ IF orphans = {} THEN UNCHANGED <<ann, file>>
          ELSE Counted(s, Updated(Loaded(s), orphans, <<>>), Cardinality(orphans))
       /\ embeds' = IF missing = {} THEN embeds ELSE embeds \cup {Embedding(s, plan)}
       /\ misled' = misled \cup (IF orphans = {} THEN {} ELSE Misled(s))
       /\ UNCHANGED <<text, fresh, meta, edits, starts, unrecorded, raced>>

\* The transaction of _embed_and_store_batch.
NewRows(e) ==
    LET order == SetToSeq(DOMAIN e.plan)
    IN [k \in fresh..(fresh + Len(order) - 1) |->
          LET m == order[k - fresh + 1] IN [of |-> m, text |-> e.plan[m], model |-> ann[e.by].model]]

StoreRows(e) ==
    /\ e.at = "embed"
    /\ fresh + Cardinality(DOMAIN e.plan) <= MaxRows + 1
    /\ LET old == RowsOf(vec, DOMAIN e.plan)  new == NewRows(e)
       IN /\ vec' = Updated(vec, old, new)
          /\ fresh' = fresh + Cardinality(DOMAIN new)
          /\ embeds' = (embeds \ {e}) \cup {[e EXCEPT !.at = "index", !.removed = old, !.added = new]}
    /\ misled' = misled \cup (Servers \ {e.by})
    /\ UNCHANGED <<text, meta, ann, file, edits, starts, unrecorded, raced>>

\* The model or the database fails: the transaction is rolled back.
EmbedFails(e) ==
    /\ e.at = "embed" /\ embeds' = embeds \ {e}
    /\ UNCHANGED <<text, vec, fresh, meta, ann, file, edits, starts, unrecorded, raced, misled>>

IndexRows(e) ==
    /\ e.at = "index"
    /\ Counted(e.by, Updated(Loaded(e.by), e.removed, e.added), Cardinality(e.removed) + Cardinality(DOMAIN e.added))
    /\ embeds' = (embeds \ {e}) \cup (IF e.added = <<>> THEN {} ELSE {[e EXCEPT !.at = "record"]})
    /\ misled' = misled \cup (IF OutOfDate(e.by) THEN {e.by} ELSE {})
    /\ UNCHANGED <<text, vec, fresh, meta, edits, starts, unrecorded, raced>>

\* _mark_embedding_meta_current.
Record(e) ==
    /\ e.at = "record"
    /\ meta' = ann[e.by].model
    /\ embeds' = embeds \ {e}
    /\ UNCHANGED <<text, vec, fresh, ann, file, edits, starts, unrecorded, raced, misled>>

\* _semantic_search loads the index.
SearchVectors(s) ==
    /\ ann[s].up /\ ann[s].index = NoIndex
    /\ ann' = [ann EXCEPT ![s].index = Loaded(s), ![s].unsaved = 0]
    /\ file' = TornGone
    /\ misled' = misled \cup (IF OutOfDate(s) THEN {s} ELSE {})
    /\ UNCHANGED <<text, vec, fresh, meta, embeds, edits, starts, unrecorded, raced>>

-----------------------------------------------------------------------------
(* Processes.                                                              *)
\* embedding_mismatch_info.
MismatchEmpty(model) == meta # "none" /\ meta # model /\ vec = <<>>
Mismatch(model) == meta # "none" /\ meta # model

\* _reconcile_embedding_meta, run with the first connection of a process.
Cleared(s, servers) ==
    /\ vec' = <<>> /\ fresh' = 1 /\ file' = NoIndex
    /\ ann' = [servers EXCEPT ![s].index = <<>>, ![s].unsaved = 0]
    /\ raced' = (raced \/ \E e \in embeds : e.at # "embed")
    /\ misled' = (misled \ {s}) \cup {r \in Servers \ {s} : servers[r].index # NoIndex}

StartServer(s, model) ==
    /\ ~ann[s].up /\ starts < MaxStarts
    /\ starts' = starts + 1
    /\ \A r \in Running : ann[r].model = model
    /\ LET servers == [ann EXCEPT ![s] = [Down EXCEPT !.up = TRUE, !.model = model]]
       IN IF Mismatch(model) THEN Cleared(s, servers)
          ELSE /\ ann' = servers /\ misled' = misled \ {s}
               /\ UNCHANGED <<vec, fresh, file, raced>>
    /\ UNCHANGED <<text, meta, embeds, edits, unrecorded>>

Ended(s) ==
    /\ ann' = [ann EXCEPT ![s] = Down]
    /\ embeds' = embeds \ Threads(s)
    /\ unrecorded' = (unrecorded \/ \E e \in Threads(s) : e.at # "embed" /\ e.added # <<>>)
    /\ UNCHANGED <<text, vec, fresh, meta, edits, starts, raced, misled>>

\* A clean shutdown saves the index; a crash does not, or tears the file.
StopServer(s) ==
    /\ ann[s].up
    /\ file' = IF ann[s].index = NoIndex THEN file ELSE ann[s].index
    /\ Ended(s)
CrashServer(s) ==
    /\ ann[s].up
    /\ UNCHANGED file \/ (ann[s].index # NoIndex /\ file' = Torn)
    /\ Ended(s)

VecNext ==
    \/ \E s \in Servers : \/ \E m \in Notes : SaveText(s, m) \/ DeleteNote(s, m)
                          \/ Reindex(s) \/ SearchVectors(s)
                          \/ \E model \in Models : StartServer(s, model)
                          \/ StopServer(s) \/ CrashServer(s)
    \/ \E e \in embeds : StoreRows(e) \/ EmbedFails(e) \/ IndexRows(e) \/ Record(e)

VecSpec == VecInit /\ [][VecNext]_vecVars

-----------------------------------------------------------------------------
(* What a search compares a query with was made by the model that makes    *)
(* the query's vector.  A server killed between its vectors and their      *)
(* record breaks that.                                                     *)
OneModel ==
    ~unrecorded =>
      \A s \in Running, k \in DOMAIN vec : vec[k].model = ann[s].model

(* A row of an index that is also in the table has the table's vector, so  *)
(* that a hit is never taken for another memory: however old the file that *)
(* the index came from, whatever others wrote meanwhile.                   *)
HitsAreRight ==
    ~unrecorded /\ ~raced =>
      \A s \in Running : ann[s].index # NoIndex =>
         \A k \in DOMAIN ann[s].index \cap DOMAIN vec : ann[s].index[k] = vec[k]

(* With no thread at work a server's index has every row of the table, so  *)
(* that each memory with a vector can be found, unless the index came from *)
(* a file that was out of date but as long as the table, or another server *)
(* wrote: neither is ever noticed.  Rows too many do no harm, and two      *)
(* threads that replace or remove the same rows may leave some.            *)
AllFindable ==
    \A s \in Running : ann[s].index # NoIndex /\ s \notin misled /\ ~raced /\ Threads(s) = {}
      => \A k \in DOMAIN vec : k \in DOMAIN ann[s].index /\ ann[s].index[k] = vec[k]

(* A search by meaning compares like with like, finds what has vectors and  *)
(* takes no hit for another memory, whatever the servers and their threads *)
(* do to the table, the index and its file between two steps of another.   *)
SearchesTrue == OneModel /\ HitsAreRight /\ AllFindable
=============================================================================
