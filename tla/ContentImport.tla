---------------------------- MODULE ContentImport ----------------------------
(***************************************************************************)
(* Import of files and pushed payloads, and its undoing.  An import is     *)
(* refused when its content has been imported before; workers of one       *)
(* process check and insert under _import_lock, a lock of that process     *)
(* (remind_me_mcp/importer.py; undo in tools/admin.py).                    *)
(*                                                                         *)
(* A worker is a thread with a SQLite connection of its own, which it      *)
(* keeps from one task to the next, an open transaction included.  The     *)
(* first INSERT takes the write lock of the database until the commit.     *)
(***************************************************************************)
EXTENDS Naturals, FiniteSets

CONSTANTS Workers,      \* threads that import
          Processes,    \* server processes on one database
          Home,         \* Home[w]: the process of worker w
          NoWorker,     \* nobody holds a lock
          Contents,     \* what files may contain, as told apart by the hash
          Chunks,       \* memories made of one file
          MaxImports,   \* bound: imports begun
          MaxFailures   \* bound: exceptions and crashes in all

ASSUME WorkersAssumption == NoWorker \notin Workers /\ Home \in [Workers -> Processes]
ASSUME ImportBounds == /\ Chunks \in Nat \ {0}
                       /\ MaxImports \in Nat /\ MaxFailures \in Nat

VARIABLES
    memories,  \* committed memories, [imp, n]: chunk n of an import (doc_id)
    tracked,   \* committed rows of chat_imports, [imp, content]
    writer,    \* the worker whose transaction holds the write lock
    lock,      \* lock[p]: the worker that holds _import_lock in process p
    pc,        \* where worker w stands
    imp,       \* imp[w]: import_id of its import
    content,   \* content[w]: the set of the content it has read
    open,      \* open[w]: memories inserted and not committed
    given,     \* the last import_id given out
    undone,    \* history: imports that undo took memories of
    deleted,   \* history: imports that a deletion took memories of
    broken,    \* history: imports that raised after their first INSERT
    failures   \* exceptions and crashes so far

work == <<pc, imp, content, open>>
history == <<undone, deleted, broken>>
vars == <<memories, tracked, writer, lock, pc, imp, content, open, given,
          undone, deleted, broken, failures>>

Rows == [imp : 1..MaxImports, n : 1..Chunks]

TypeOK ==
    /\ memories \subseteq Rows
    /\ tracked \subseteq [imp : 1..MaxImports, content : Contents]
    /\ writer \in Workers \cup {NoWorker}
    /\ lock \in [Processes -> Workers \cup {NoWorker}]
    /\ pc \in [Workers -> {"idle", "parse", "insert"}]
    /\ imp \in [Workers -> 0..MaxImports]
    /\ content \in [Workers -> SUBSET Contents]
    /\ open \in [Workers -> SUBSET Rows]
    /\ given \in 0..MaxImports
    /\ undone \cup deleted \cup broken \subseteq 1..MaxImports
    /\ failures \in 0..MaxFailures

Init ==
    /\ memories = {}
    /\ tracked = {}
    /\ writer = NoWorker
    /\ lock = [p \in Processes |-> NoWorker]
    /\ pc = [w \in Workers |-> "idle"]
    /\ imp = [w \in Workers |-> 0]
    /\ content = [w \in Workers |-> {}]
    /\ open = [w \in Workers |-> {}]
    /\ given = 0
    /\ undone = {} /\ deleted = {} /\ broken = {}
    /\ failures = 0

-----------------------------------------------------------------------------
Failure == failures < MaxFailures /\ failures' = failures + 1

Known(c) == \E t \in tracked : t.content = c

LockIsFree(w) == lock[Home[w]] = NoWorker

\* The import of w is over, for better or worse.
Return(w) ==
    /\ pc' = [pc EXCEPT ![w] = "idle"]
    /\ imp' = [imp EXCEPT ![w] = 0]
    /\ content' = [content EXCEPT ![w] = {}]

\* Read and hash the file, look the hash up under the lock, parse.  Content
\* that is known is skipped at once.
Begin(w, c) ==
    /\ pc[w] = "idle"
    /\ LockIsFree(w)
    /\ ~Known(c)
    /\ given < MaxImports
    /\ given' = given + 1
    /\ pc' = [pc EXCEPT ![w] = "parse"]
    /\ imp' = [imp EXCEPT ![w] = given + 1]
    /\ content' = [content EXCEPT ![w] = {c}]
    /\ UNCHANGED <<memories, tracked, writer, lock, open, history, failures>>

\* Under the lock again: another worker has recorded the content meanwhile.
SkipKnown(w) ==
    /\ pc[w] = "parse"
    /\ LockIsFree(w)
    /\ \E c \in content[w] : Known(c)
    /\ Return(w)
    /\ UNCHANGED <<memories, tracked, writer, lock, open, given, history, failures>>

\* Mutant of TakeLock: the check of Begin is not repeated.
TakeLockUnchecked(w) ==
    /\ pc[w] = "parse"
    /\ LockIsFree(w)
    /\ lock' = [lock EXCEPT ![Home[w]] = w]
    /\ pc' = [pc EXCEPT ![w] = "insert"]
    /\ UNCHANGED <<memories, tracked, writer, imp, content, open, given, history,
                   failures>>

\* The content is still new: go on to insert, with the lock in hand.
TakeLock(w) ==
    /\ pc[w] = "parse"
    /\ LockIsFree(w)
    /\ \A c \in content[w] : ~Known(c)
    /\ lock' = [lock EXCEPT ![Home[w]] = w]
    /\ pc' = [pc EXCEPT ![w] = "insert"]
    /\ UNCHANGED <<memories, tracked, writer, imp, content, open, given, history,
                   failures>>

Inserted(w) == {r \in open[w] : r.imp = imp[w]}

\* INSERT one memory of the file; the first takes the write lock.
InsertChunk(w) ==
    /\ pc[w] = "insert"
    /\ writer \in {NoWorker, w}
    /\ Cardinality(Inserted(w)) < Chunks
    /\ writer' = w
    /\ open' = [open EXCEPT ![w] = @ \cup
                   {[imp |-> imp[w], n |-> Cardinality(Inserted(w)) + 1]}]
    /\ UNCHANGED <<memories, tracked, lock, pc, imp, content, given, history, failures>>

Release(w) == lock' = [lock EXCEPT ![Home[w]] = NoWorker]

\* The connection of w commits all that its transaction holds.
Commit(w) ==
    /\ memories' = memories \cup open[w]
    /\ open' = [open EXCEPT ![w] = {}]
    /\ writer' = NoWorker

\* Mutant of Finish: the import is recorded with its first chunks.
FinishEarly(w) ==
    /\ pc[w] = "insert"
    /\ writer = w /\ Inserted(w) # {}
    /\ tracked' = tracked \cup {[imp |-> imp[w], content |-> c] : c \in content[w]}
    /\ Commit(w) /\ Release(w) /\ Return(w)
    /\ UNCHANGED <<given, history, failures>>

\* All chunks are in: record the import in chat_imports, commit, and let go.
Finish(w) ==
    /\ pc[w] = "insert"
    /\ writer = w
    /\ Cardinality(Inserted(w)) = Chunks
    /\ tracked' = tracked \cup {[imp |-> imp[w], content |-> c] : c \in content[w]}
    /\ Commit(w)
    /\ Release(w)
    /\ Return(w)
    /\ UNCHANGED <<given, history, failures>>

\* Another connection holds the write lock beyond busy_timeout.
Busy(w) ==
    /\ pc[w] = "insert"
    /\ writer \notin {NoWorker, w}
    /\ Release(w)
    /\ Return(w)
    /\ UNCHANGED <<memories, tracked, writer, open, given, history, failures>>

\* Mutant of Raise: the lock is not released on the way out.
RaiseWithLock(w) ==
    /\ Failure
    /\ pc[w] = "insert" /\ writer = w
    /\ broken' = broken \cup {imp[w]}
    /\ Return(w)
    /\ UNCHANGED <<memories, tracked, writer, lock, open, given, undone, deleted>>

\* A record in the file makes the import raise after some of its INSERTs.
\* The caller reports the error; nobody rolls the transaction back.
Raise(w) ==
    /\ Failure
    /\ pc[w] = "insert"
    /\ writer = w
    /\ broken' = broken \cup {imp[w]}
    /\ Release(w)
    /\ Return(w)
    /\ UNCHANGED <<memories, tracked, writer, open, given, undone, deleted>>

\* The thread serves another request, and that request commits.
OtherWrite(w) ==
    /\ pc[w] = "idle"
    /\ writer = w
    /\ Commit(w)
    /\ UNCHANGED <<tracked, lock, pc, imp, content, given, history, failures>>

\* A process dies: its locks are gone and its transactions rolled back.
Crash(p) ==
    /\ Failure
    /\ LET Dead == {w \in Workers : Home[w] = p} IN
          /\ pc' = [w \in Workers |-> IF w \in Dead THEN "idle" ELSE pc[w]]
          /\ imp' = [w \in Workers |-> IF w \in Dead THEN 0 ELSE imp[w]]
          /\ content' = [w \in Workers |-> IF w \in Dead THEN {} ELSE content[w]]
          /\ open' = [w \in Workers |-> IF w \in Dead THEN {} ELSE open[w]]
          /\ writer' = IF writer \in Dead THEN NoWorker ELSE writer
    /\ lock' = [lock EXCEPT ![p] = NoWorker]
    /\ UNCHANGED <<memories, tracked, given, history>>

-----------------------------------------------------------------------------
(* Undoing.                                                                *)

\* Does import i still have a memory when those of batch are gone?
Survives(i, batch) == \E r \in memories \ batch : r.imp = i

\* remind_me_undo_import, for one import or for all: remove a batch of the
\* memories and forget the imports of which nothing is left.
Undo(batch) ==
    /\ writer = NoWorker
    /\ memories' = memories \ batch
    /\ tracked' = {t \in tracked : \/ \A r \in batch : r.imp # t.imp
                                   \/ Survives(t.imp, batch)}
    /\ undone' = undone \cup {r.imp : r \in batch}
    /\ UNCHANGED <<writer, lock, work, given, deleted, broken, failures>>

UndoOne(i) == \E batch \in (SUBSET {r \in memories : r.imp = i}) \ {{}} : Undo(batch)

UndoAll ==
    LET All == {r \in memories : \E t \in tracked : t.imp = r.imp}
    IN \E batch \in (SUBSET All) \ {{}} : Undo(batch)

\* remind_me_delete of a single memory.
Delete(r) ==
    /\ writer = NoWorker
    /\ memories' = memories \ {r}
    /\ deleted' = deleted \cup {r.imp}
    /\ UNCHANGED <<tracked, writer, lock, work, given, undone, broken, failures>>

-----------------------------------------------------------------------------
WorkerStep(w) ==
    \/ SkipKnown(w) \/ TakeLock(w) \/ InsertChunk(w) \/ Finish(w) \/ Busy(w)

Next ==
    \/ \E w \in Workers : \/ \E c \in Contents : Begin(w, c)
                          \/ WorkerStep(w) \/ Raise(w) \/ OtherWrite(w)
    \/ \E p \in Processes : Crash(p)
    \/ \E i \in 1..MaxImports : UndoOne(i)
    \/ UndoAll
    \/ \E r \in memories : Delete(r)

Spec == Init /\ [][Next]_vars

\* A worker that has begun goes on.  Nothing is assumed of who gets a lock.
FairSpec == Spec /\ \A w \in Workers : WF_vars(WorkerStep(w))

-----------------------------------------------------------------------------
(* What must hold.                                                         *)

\* The same content is not imported a second time as long as the first
\* import stands (import_chat_file: "Deduplicates by file hash").
ImportedOnce ==
    \A t, u \in tracked : t.content = u.content => t = u

\* Memories and the record of their import come together and go together:
\* what is left of an import can be found and undone, and "cannot be
\* duplicated by a re-import" (_undo_forget_tracking).  Only an import that
\* raised after its first INSERT may leave memories without a record.
NoOrphans ==
    \A r \in memories : r.imp \in broken \/ \E t \in tracked : t.imp = r.imp

\* A recorded import is there as a whole until somebody removes parts of it.
ImportedWhole ==
    \A t \in tracked :
        \/ t.imp \in undone \cup deleted
        \/ \A n \in 1..Chunks : [imp |-> t.imp, n |-> n] \in memories

\* Content is refused only as long as memories of it exist: an import that is
\* gone does not make its content "un-importable forever"
\* (_undo_forget_tracking), unless memories of it were deleted one by one.
NotRefusedForever ==
    \A t \in tracked : t.imp \in deleted \/ \E r \in memories : r.imp = t.imp

\* The records of imports say what the store holds: one record for a content, none without
\* memories, no memories without one.
RecordsRight == ImportedOnce /\ NoOrphans /\ NotRefusedForever

\* Every import that has begun comes to an end, whoever holds the locks.
ImportsEnd == \A w \in Workers : pc[w] # "idle" ~> pc[w] = "idle"
=============================================================================
