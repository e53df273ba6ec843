-------------------------- MODULE BackgroundProofs ---------------------------
(***************************************************************************)
(* Proofs about what runs in the background, for any number of servers,    *)
(* workers and crashes.                                                    *)
(*                                                                         *)
(* ContentImport: the lock of one process is enough that no content is     *)
(* imported twice; memories keep the record of their import unless it      *)
(* raises in the middle; what is recorded has memories, unless they were   *)
(* deleted one by one, and all its chunks, unless some were taken out.     *)
(* ReminderScheduler: what is recorded was delivered; what is delivered    *)
(* twice went without a record or was in the hands of two servers; what is *)
(* recorded is delivered again by such a second server only.               *)
(* SavedSearch: what matched when a watch began is never announced; with   *)
(* one server that polls, every other match is, and once.                  *)
(* FolderWatch: of each watched file the version taken in last is found,   *)
(* older ones are not, if no content comes a second time.                  *)
(***************************************************************************)
EXTENDS ContentImport, ReminderScheduler, SavedSearch, FolderWatch, FiniteSetTheorems, TLAPS

-----------------------------------------------------------------------------
(* The imports.                                                            *)
USE WorkersAssumption, ImportBounds

\* TypeOK is not inductive alone: an import at work has been given an id, and
\* the chunks that are not committed can be counted.
TypeInv ==
    /\ TypeOK
    /\ \A w \in Workers : pc[w] # "idle" => imp[w] \in 1..MaxImports
    /\ \A w \in Workers : IsFiniteSet(open[w])

LEMMA InitType == Init => TypeInv
  BY FS_EmptySet DEF Init, TypeInv, TypeOK

LEMMA InsertType ==
    ASSUME TypeInv, NEW w \in Workers, InsertChunk(w)
    PROVE  TypeInv'
  <1> DEFINE k == Cardinality(Inserted(w))
  <1>1. IsFiniteSet(Inserted(w))
    BY FS_Subset DEF TypeInv, Inserted
  <1>2. k \in Nat /\ k < Chunks
    BY <1>1, FS_CardinalityType DEF InsertChunk
  <1> DEFINE row == [imp |-> imp[w], n |-> k + 1]
  <1>3. row \in Rows
    <2>1. k + 1 \in 1..Chunks
      BY <1>2
    <2> HIDE DEF k
    <2> QED BY <2>1 DEF Rows, TypeInv, InsertChunk
  <1>4. IsFiniteSet(open[w] \cup {row})
    BY FS_AddElement DEF TypeInv
  <1> HIDE DEF row
  <1>5. open' = [open EXCEPT ![w] = @ \cup {row}]
    BY DEF InsertChunk, row
  <1>6. open' \in [Workers -> SUBSET Rows] /\ \A v \in Workers : IsFiniteSet(open'[v])
    BY <1>3, <1>4, <1>5 DEF TypeInv, TypeOK
  <1>7. writer' = w
    BY DEF InsertChunk
  <1>8. UNCHANGED <<memories, tracked, lock, pc, imp, content, given, history, failures>>
    BY DEF InsertChunk
  <1> QED
    BY <1>6, <1>7, <1>8 DEF TypeInv, TypeOK, history

LEMMA StepType == TypeInv /\ [Next]_vars => TypeInv'
  <1> SUFFICES ASSUME TypeInv, [Next]_vars PROVE TypeInv'
    OBVIOUS
  <1> USE DEF TypeInv, TypeOK, Return, Release, Commit, history
  <1>1. ASSUME NEW w \in Workers, NEW c \in Contents, Begin(w, c) PROVE TypeInv'
    BY <1>1 DEF Begin
  <1>2. ASSUME NEW w \in Workers, SkipKnown(w) \/ TakeLock(w) \/ Busy(w) PROVE TypeInv'
    <2>1. CASE SkipKnown(w)
      BY <2>1 DEF SkipKnown
    <2>2. CASE TakeLock(w)
      BY <2>2 DEF TakeLock
    <2>3. CASE Busy(w)
      BY <2>3 DEF Busy
    <2> QED BY <1>2, <2>1, <2>2, <2>3
  <1>3. ASSUME NEW w \in Workers, InsertChunk(w) PROVE TypeInv'
    BY <1>3, InsertType
  <1>4. ASSUME NEW w \in Workers, Finish(w) PROVE TypeInv'
    BY <1>4, FS_EmptySet DEF Finish, Rows
  <1>5. ASSUME NEW w \in Workers, Raise(w) PROVE TypeInv'
    BY <1>5 DEF Raise, Failure
  <1>6. ASSUME NEW w \in Workers, OtherWrite(w) PROVE TypeInv'
    BY <1>6, FS_EmptySet DEF OtherWrite
  <1>7. ASSUME NEW p \in Processes, Crash(p) PROVE TypeInv'
    BY <1>7, FS_EmptySet DEF Crash, Failure
  <1>8. ASSUME NEW batch \in SUBSET memories, Undo(batch) PROVE TypeInv'
    <2>1. \A r \in batch : r.imp \in 1..MaxImports
      BY <1>8 DEF Rows
    <2>2. undone' \subseteq 1..MaxImports
      <3>1. {r.imp : r \in batch} \subseteq 1..MaxImports
        BY ONLY <2>1
      <3> QED BY <1>8, <3>1 DEF Undo
    <2>3. memories' \subseteq memories /\ tracked' \subseteq tracked
      BY <1>8 DEF Undo
    <2> QED BY <1>8, <2>2, <2>3 DEF Undo, work
  <1>9. ASSUME NEW r \in memories, Delete(r) PROVE TypeInv'
    BY <1>9 DEF Delete, work, Rows
  <1>10. CASE UNCHANGED vars
    BY <1>10 DEF vars
  <1> QED
    BY <1>1, <1>2, <1>3, <1>4, <1>5, <1>6, <1>7, <1>8, <1>9, <1>10
    DEF Next, WorkerStep, UndoOne, UndoAll

\* Every variable of the importer keeps its type.
THEOREM TypeCorrect == Spec => []TypeOK
  <1>1. TypeInv => TypeOK
    BY DEF TypeInv
  <1> QED BY <1>1, InitType, StepType, PTL DEF Spec

-----------------------------------------------------------------------------
(* One process: what is being inserted is new, and only one worker inserts.*)

AllInOneProcess == \A w, v \in Workers : Home[w] = Home[v]

LockInv ==
    /\ TypeInv
    /\ ImportedOnce
    /\ \A w \in Workers : pc[w] = "insert" =>
          lock[Home[w]] = w /\ \A c \in content[w] : ~Known(c)

LEMMA LockStep ==
    ASSUME AllInOneProcess
    PROVE  LockInv /\ [Next]_vars => LockInv'
  <1> SUFFICES ASSUME LockInv, [Next]_vars PROVE LockInv'
    OBVIOUS
  <1>0. TypeInv /\ TypeInv'
    BY StepType DEF LockInv
  <1> USE <1>0 DEF TypeInv, TypeOK, history, LockInv, ImportedOnce, Known
  <1>1. ASSUME NEW w \in Workers, NEW c \in Contents, Begin(w, c) PROVE LockInv'
    BY <1>1 DEF Begin
  <1>2. ASSUME NEW w \in Workers, SkipKnown(w) PROVE LockInv'
    BY <1>2 DEF SkipKnown, Return
  <1>3. ASSUME NEW w \in Workers, TakeLock(w) PROVE LockInv'
    BY <1>3, AllInOneProcess DEF AllInOneProcess, TakeLock, LockIsFree
  <1>4. ASSUME NEW w \in Workers, InsertChunk(w) PROVE LockInv'
    BY <1>4 DEF InsertChunk
  <1>5. ASSUME NEW w \in Workers, Busy(w) \/ Raise(w) PROVE LockInv'
    <2>1. \A v \in Workers : pc[v] = "insert" => v = w
      BY <1>5, AllInOneProcess DEF AllInOneProcess, Busy, Raise
    <2> QED BY <1>5, <2>1 DEF Busy, Raise, Release, Return
  <1>6. ASSUME NEW w \in Workers, Finish(w) PROVE LockInv'
    <2>1. \A v \in Workers : pc[v] = "insert" => v = w
      BY <1>6, AllInOneProcess DEF AllInOneProcess, Finish
    <2>2. \A v \in Workers : pc'[v] # "insert"
      BY <1>6, <2>1 DEF Finish, Return
    <2>3. ImportedOnce'
      BY <1>6 DEF Finish
    <2> QED BY <2>2, <2>3
  <1>7. ASSUME NEW w \in Workers, OtherWrite(w) PROVE LockInv'
    BY <1>7 DEF OtherWrite
  <1>8. ASSUME NEW p \in Processes, Crash(p) PROVE LockInv'
    BY <1>8, AllInOneProcess DEF AllInOneProcess, Crash
  <1>9. ASSUME NEW batch, Undo(batch) PROVE LockInv'
    BY <1>9 DEF Undo, work
  <1>10. ASSUME NEW r \in memories, Delete(r) PROVE LockInv'
    BY <1>10 DEF Delete, work
  <1>11. CASE UNCHANGED vars
    BY <1>11 DEF vars
  <1> QED
    BY <1>1, <1>2, <1>3, <1>4, <1>5, <1>6, <1>7, <1>8, <1>9, <1>10, <1>11
    DEF Next, WorkerStep, UndoOne, UndoAll

\* Within one process no content is imported twice while its first import
\* stands, whatever raises, crashes, is undone or deleted: _import_lock and
\* the second look at chat_imports under it are enough.
THEOREM ImportedOnceHolds ==
    ASSUME AllInOneProcess
    PROVE  Spec => []ImportedOnce
  <1>1. Init => LockInv
    BY InitType DEF Init, LockInv, ImportedOnce
  <1>2. LockInv => ImportedOnce
    BY DEF LockInv
  <1> QED BY <1>1, <1>2, LockStep, PTL DEF Spec

-----------------------------------------------------------------------------
(* An open transaction holds what broken imports have left, and one import *)
(* that is still at work.                                                  *)

WholeInv ==
    /\ TypeInv
    /\ NoOrphans
    /\ \A w \in Workers :
          /\ pc[w] \in {"parse", "insert"} => content[w] # {}
          /\ open[w] # {} => writer = w
          /\ \A r \in open[w] : r.imp \in broken \/ (r.imp = imp[w] /\ pc[w] = "insert")

LEMMA WholeInit == Init => WholeInv
  BY InitType DEF Init, WholeInv, NoOrphans

LEMMA WholeStep == WholeInv /\ [Next]_vars => WholeInv'
  <1> SUFFICES ASSUME WholeInv, [Next]_vars PROVE WholeInv'
    OBVIOUS
  <1>0. TypeInv /\ TypeInv'
    BY StepType DEF WholeInv
  <1> USE <1>0 DEF TypeInv, TypeOK, WholeInv, NoOrphans, history
  <1>1. ASSUME NEW w \in Workers, NEW c \in Contents, Begin(w, c) PROVE WholeInv'
    BY <1>1 DEF Begin
  <1>2. ASSUME NEW w \in Workers, SkipKnown(w) PROVE WholeInv'
    BY <1>2 DEF SkipKnown, Return
  <1>3. ASSUME NEW w \in Workers, TakeLock(w) PROVE WholeInv'
    BY <1>3 DEF TakeLock
  <1>4. ASSUME NEW w \in Workers, InsertChunk(w) PROVE WholeInv'
    <2>1. PICK x : x.imp = imp[w] /\ open' = [open EXCEPT ![w] = @ \cup {x}]
      BY <1>4 DEF InsertChunk
    <2>2. \A v \in Workers : v # w => open'[v] = {}
      BY <1>4, <2>1 DEF InsertChunk
    <2>3. open'[w] = open[w] \cup {x}
      BY <2>1
    <2> QED BY <1>4, <2>1, <2>2, <2>3 DEF InsertChunk
  <1>5. ASSUME NEW w \in Workers, Busy(w) PROVE WholeInv'
    BY <1>5 DEF Busy, Return
  <1>6. ASSUME NEW w \in Workers, Finish(w) PROVE WholeInv'
    <2>1. PICK c \in content[w] : TRUE
      BY <1>6 DEF Finish
    <2>2. [imp |-> imp[w], content |-> c] \in tracked' /\ tracked \subseteq tracked'
      BY <1>6, <2>1 DEF Finish
    <2>3. memories' = memories \cup open[w]
      BY <1>6 DEF Finish, Commit
    <2>4. NoOrphans'
      BY <1>6, <2>2, <2>3 DEF Finish
    <2>5. \A v \in Workers : v # w => open[v] = {}
      BY <1>6 DEF Finish
    <2> QED BY <1>6, <2>4, <2>5 DEF Finish, Commit, Return
  <1>7. ASSUME NEW w \in Workers, OtherWrite(w) PROVE WholeInv'
    BY <1>7 DEF OtherWrite, Commit
  <1>8. ASSUME NEW p \in Processes, Crash(p) PROVE WholeInv'
    BY <1>8 DEF Crash
  <1>9. ASSUME NEW batch, Undo(batch) PROVE WholeInv'
    BY <1>9 DEF Undo, Survives, work
  <1>10. ASSUME NEW r \in memories, Delete(r) PROVE WholeInv'
    BY <1>10 DEF Delete, work
  <1>11. ASSUME NEW w \in Workers, Raise(w) PROVE WholeInv'
    BY <1>11 DEF Raise, Return
  <1>12. CASE UNCHANGED vars
    BY <1>12 DEF vars
  <1> QED
    BY <1>1, <1>2, <1>3, <1>4, <1>5, <1>6, <1>7, <1>8, <1>9, <1>10, <1>11, <1>12
    DEF Next, WorkerStep, UndoOne, UndoAll

\* Every memory of an import that did not raise between its INSERTs and its
\* commit finds its row in chat_imports, in any number of processes, with
\* crashes, undos and deletions.
THEOREM NoOrphansHolds == Spec => []NoOrphans
  <1>1. WholeInv => NoOrphans
    BY DEF WholeInv
  <1> QED BY <1>1, WholeInit, WholeStep, PTL DEF Spec

-----------------------------------------------------------------------------
(* What is recorded.                                                       *)

LEMMA RefusedStep ==
    ASSUME TypeInv, NotRefusedForever, [Next]_vars
    PROVE  NotRefusedForever'
  <1> USE DEF NotRefusedForever
  <1>1. ASSUME memories \subseteq memories', tracked' \subseteq tracked, deleted' = deleted
        PROVE  NotRefusedForever'
    BY <1>1
  <1>2. ASSUME NEW w \in Workers, Finish(w) PROVE NotRefusedForever'
    <2>1. Inserted(w) # {}
      <3>1. Cardinality(Inserted(w)) # 0
        BY <1>2 DEF Finish
      <3> QED BY <3>1, FS_EmptySet
    <2>2. PICK r \in open[w] : r.imp = imp[w]
      BY <2>1 DEF Inserted
    <2> QED BY <1>2, <2>2 DEF Finish, Commit, history
  <1>3. ASSUME NEW batch, Undo(batch) PROVE NotRefusedForever'
    BY <1>3 DEF Undo, Survives
  <1>4. ASSUME NEW r \in memories, Delete(r) PROVE NotRefusedForever'
    BY <1>4 DEF Delete
  <1>5. ASSUME NEW w \in Workers, OtherWrite(w) PROVE NotRefusedForever'
    BY <1>1, <1>5 DEF OtherWrite, Commit, history
  <1>6. ASSUME UNCHANGED <<memories, tracked, deleted>> PROVE NotRefusedForever'
    BY <1>1, <1>6
  <1> QED
    BY <1>2, <1>3, <1>4, <1>5, <1>6
    DEF Next, WorkerStep, UndoOne, UndoAll, Begin, SkipKnown, TakeLock, InsertChunk, Busy,
        Raise, Crash, history, vars

\* Content is refused as long as memories of its import exist, and afterwards
\* only if one of them was deleted on its own.
THEOREM NotRefusedForeverHolds == Spec => []NotRefusedForever
  <1>1. Init => NotRefusedForever
    BY DEF Init, NotRefusedForever
  <1> QED BY <1>1, InitType, StepType, RefusedStep, PTL DEF Spec

\* Within one process the records of imports are right, whatever raises, crashes, is undone or
\* deleted.
THEOREM RecordsRightHolds ==
    ASSUME AllInOneProcess
    PROVE  Spec => []RecordsRight
  <1> QED BY ImportedOnceHolds, NoOrphansHolds, NotRefusedForeverHolds, PTL DEF RecordsRight

-----------------------------------------------------------------------------
(* The chunks of an import, counted.                                       *)

\* The chunks of the import at work in w are the first ones, as many as there are.
InOrder(w) == Inserted(w) = {[imp |-> imp[w], n |-> i] : i \in 1..Cardinality(Inserted(w))}

ChunkInv ==
    /\ TypeInv
    /\ ImportedWhole
    /\ \A w \in Workers : /\ imp[w] <= given
                          /\ \A r \in open[w] : r.imp <= given
                          /\ pc[w] = "parse" => Inserted(w) = {}
                          /\ pc[w] = "insert" => InOrder(w)

\* What leaves alone a worker, and what is recorded.
LEMMA ChunkStays ==
    ASSUME ChunkInv, TypeInv', given <= given',
           tracked' \subseteq tracked, \A r \in memories \ memories' : r.imp \in (undone \cup deleted)',
           undone \cup deleted \subseteq (undone \cup deleted)',
           \A w \in Workers : /\ open'[w] \subseteq open[w] /\ imp'[w] <= given'
                              /\ pc'[w] # "idle" => open'[w] = open[w] /\ imp'[w] = imp[w]
                              /\ pc'[w] = "parse" => pc[w] = "parse"
                              /\ pc'[w] = "insert" => pc[w] \in {"parse", "insert"}
    PROVE  ChunkInv'
  <1>1. ImportedWhole'
    BY DEF ChunkInv, ImportedWhole
  <1>2. \A w \in Workers : \A r \in open'[w] : r.imp <= given'
    <2>1. given \in Nat /\ given' \in Nat /\ \A w \in Workers : \A r \in open[w] : r.imp \in Nat /\ r.imp <= given
      BY DEF ChunkInv, TypeInv, TypeOK, Rows
    <2> QED
      BY <2>1
  <1>3. ASSUME NEW w \in Workers, pc'[w] # "idle" PROVE Inserted(w)' = Inserted(w)
    BY <1>3 DEF Inserted
  <1>4. ASSUME NEW w \in Workers, pc'[w] = "parse" PROVE Inserted(w)' = {}
    BY <1>3, <1>4 DEF ChunkInv
  <1>5. ASSUME NEW w \in Workers, pc'[w] = "insert" PROVE InOrder(w)'
    <2>1. Inserted(w)' = Inserted(w) /\ imp'[w] = imp[w]
      BY <1>3, <1>5
    <2>2. CASE pc[w] = "parse"
      <3>1. Inserted(w) = {}
        BY <2>2 DEF ChunkInv
      <3>2. Cardinality(Inserted(w)) = 0
        BY <3>1, FS_EmptySet
      <3>3. {[imp |-> imp[w], n |-> i] : i \in 1..0} = {}
        OBVIOUS
      <3> QED
        BY <2>1, <3>1, <3>2, <3>3 DEF InOrder
    <2>3. CASE pc[w] = "insert"
      BY <2>1, <2>3 DEF ChunkInv, InOrder
    <2> QED
      BY <1>5, <2>2, <2>3
  <1> QED
    BY <1>1, <1>2, <1>4, <1>5 DEF ChunkInv

LEMMA ChunkInserted ==
    ASSUME ChunkInv, TypeInv', NEW w \in Workers, InsertChunk(w)
    PROVE  ChunkInv'
  <1> DEFINE I == Inserted(w)
             k == Cardinality(I)
             row == [imp |-> imp[w], n |-> k + 1]
  <1>1. IsFiniteSet(I) /\ k \in Nat /\ I = {[imp |-> imp[w], n |-> i] : i \in 1..k}
    <2>1. IsFiniteSet(I)
      BY FS_Subset DEF ChunkInv, TypeInv, Inserted
    <2> QED
      BY <2>1, FS_CardinalityType DEF ChunkInv, InOrder, InsertChunk
  <1>2. row \notin I
    <2> HIDE DEF k, I
    <2>1. \A i \in 1..k : i # k + 1
      BY <1>1
    <2>2. ASSUME NEW i \in 1..k, row = [imp |-> imp[w], n |-> i] PROVE FALSE
      <3>1. row.n = i
        BY <2>2
      <3>2. row.n = k + 1
        OBVIOUS
      <3> QED
        BY <2>1, <3>1, <3>2
    <2> QED
      BY <1>1, <2>2
  <1>3. /\ open' = [open EXCEPT ![w] = @ \cup {row}]
        /\ UNCHANGED <<memories, tracked, pc, imp, given, undone, deleted>>
    BY DEF InsertChunk, history
  <1>4. open'[w] = open[w] \cup {row} /\ \A v \in Workers : v # w => open'[v] = open[v]
    <2> HIDE DEF row
    <2> QED
      BY <1>3 DEF ChunkInv, TypeInv, TypeOK
  <1>5. Inserted(w)' = I \cup {row}
    <2>1. row.imp = imp[w]
      OBVIOUS
    <2> HIDE DEF row
    <2> QED
      BY <1>3, <1>4, <2>1 DEF Inserted
  <1>6. Cardinality(I \cup {row}) = k + 1
    BY <1>1, <1>2, FS_AddElement
  <1>7. I \cup {row} = {[imp |-> imp[w], n |-> i] : i \in 1..(k + 1)}
    <2> HIDE DEF k, I
    <2>1. \A i \in 1..(k + 1) : i \in 1..k \/ i = k + 1
      BY <1>1
    <2>2. k + 1 \in 1..(k + 1) /\ \A i \in 1..k : i \in 1..(k + 1)
      BY <1>1
    <2> QED
      BY <1>1, <2>1, <2>2
  <1>8. InOrder(w)'
    <2>1. Cardinality(Inserted(w))' = k + 1
      BY <1>5, <1>6
    <2> QED
      BY <1>3, <1>5, <1>7, <2>1 DEF InOrder
  <1>9. ASSUME NEW v \in Workers, v # w PROVE Inserted(v)' = Inserted(v) /\ imp'[v] = imp[v]
    BY <1>3, <1>4, <1>9 DEF Inserted
  <1>10. \A v \in Workers : /\ pc'[v] = "parse" => Inserted(v)' = {}
                            /\ pc'[v] = "insert" => InOrder(v)'
    <2>1. ASSUME NEW v \in Workers, v # w, pc'[v] = "insert" PROVE InOrder(v)'
      BY <1>3, <1>9, <2>1 DEF ChunkInv, InOrder
    <2>2. ASSUME NEW v \in Workers, pc'[v] = "parse" PROVE Inserted(v)' = {}
      <3>1. v # w
        BY <1>3, <2>2 DEF InsertChunk
      <3> QED
        BY <1>3, <1>9, <2>2, <3>1 DEF ChunkInv
    <2> QED
      BY <1>8, <2>1, <2>2
  <1>11. \A v \in Workers : imp'[v] <= given' /\ \A r \in open'[v] : r.imp <= given'
    <2>1. row.imp <= given
      BY DEF ChunkInv
    <2> HIDE DEF row
    <2> QED
      BY <1>3, <1>4, <2>1 DEF ChunkInv
  <1>12. ImportedWhole'
    BY <1>3 DEF ChunkInv, ImportedWhole
  <1> QED
    BY <1>10, <1>11, <1>12 DEF ChunkInv

LEMMA ChunkFinish ==
    ASSUME ChunkInv, TypeInv', NEW w \in Workers, Finish(w)
    PROVE  ChunkInv'
  <1>1. /\ tracked' = tracked \cup {[imp |-> imp[w], content |-> c] : c \in content[w]}
        /\ memories' = memories \cup open[w] /\ open' = [open EXCEPT ![w] = {}]
        /\ UNCHANGED <<given, undone, deleted>>
        /\ pc' = [pc EXCEPT ![w] = "idle"] /\ imp' = [imp EXCEPT ![w] = 0]
    BY DEF Finish, Commit, Return, history
  <1>2. \A n \in 1..Chunks : [imp |-> imp[w], n |-> n] \in open[w]
    <2>1. Inserted(w) = {[imp |-> imp[w], n |-> i] : i \in 1..Chunks}
      BY DEF Finish, ChunkInv, InOrder
    <2> QED
      BY <2>1 DEF Inserted
  <1>3. ImportedWhole'
    <2> SUFFICES ASSUME NEW t \in tracked', t.imp \notin undone \cup deleted, NEW n \in 1..Chunks
                 PROVE  [imp |-> t.imp, n |-> n] \in memories'
      BY <1>1 DEF ImportedWhole
    <2>1. CASE t \in tracked
      BY <1>1, <2>1 DEF ChunkInv, ImportedWhole
    <2>2. CASE t \notin tracked
      <3>1. t.imp = imp[w]
        BY <1>1, <2>2
      <3> QED
        BY <1>1, <1>2, <3>1
    <2> QED
      BY <2>1, <2>2
  <1>4. /\ pc'[w] = "idle" /\ imp'[w] = 0 /\ open'[w] = {}
        /\ \A v \in Workers : v # w => pc'[v] = pc[v] /\ imp'[v] = imp[v] /\ open'[v] = open[v]
    BY <1>1 DEF ChunkInv, TypeInv, TypeOK
  <1>5. \A v \in Workers : v # w => Inserted(v)' = Inserted(v)
    BY <1>4 DEF Inserted
  <1>6. 0 <= given
    BY DEF ChunkInv, TypeInv, TypeOK
  <1>7. \A v \in Workers : imp'[v] <= given' /\ \A r \in open'[v] : r.imp <= given'
    BY <1>1, <1>4, <1>6 DEF ChunkInv
  <1>8. ASSUME NEW v \in Workers PROVE /\ pc'[v] = "parse" => Inserted(v)' = {}
                                       /\ pc'[v] = "insert" => InOrder(v)'
    BY <1>4, <1>5 DEF ChunkInv, InOrder
  <1> QED
    BY <1>3, <1>7, <1>8 DEF ChunkInv

LEMMA ChunkBegin ==
    ASSUME ChunkInv, TypeInv', NEW w \in Workers, NEW c \in Contents, Begin(w, c)
    PROVE  ChunkInv'
  <1>1. /\ given' = given + 1 /\ pc' = [pc EXCEPT ![w] = "parse"] /\ imp' = [imp EXCEPT ![w] = given + 1]
        /\ UNCHANGED <<memories, tracked, open, undone, deleted>>
    BY DEF Begin, history
  <1>2. /\ pc'[w] = "parse" /\ imp'[w] = given + 1
        /\ \A v \in Workers : v # w => pc'[v] = pc[v] /\ imp'[v] = imp[v]
    BY <1>1 DEF ChunkInv, TypeInv, TypeOK
  <1>3. given \in Nat /\ \A v \in Workers : /\ imp[v] \in Nat /\ imp[v] <= given
                                            /\ \A r \in open[v] : r.imp \in Nat /\ r.imp <= given
    BY DEF ChunkInv, TypeInv, TypeOK, Rows
  <1>4. Inserted(w)' = {}
    BY <1>1, <1>2, <1>3 DEF Inserted
  <1>5. \A v \in Workers : v # w => Inserted(v)' = Inserted(v)
    BY <1>1, <1>2 DEF Inserted
  <1>6. ImportedWhole'
    BY <1>1 DEF ChunkInv, ImportedWhole
  <1>7. \A v \in Workers : imp'[v] <= given' /\ \A r \in open'[v] : r.imp <= given'
    BY <1>1, <1>2, <1>3
  <1>8. ASSUME NEW v \in Workers PROVE /\ pc'[v] = "parse" => Inserted(v)' = {}
                                       /\ pc'[v] = "insert" => InOrder(v)'
    BY <1>2, <1>4, <1>5 DEF ChunkInv, InOrder
  <1> QED
    BY <1>6, <1>7, <1>8 DEF ChunkInv

LEMMA ChunkStep == ChunkInv /\ [Next]_vars => ChunkInv'
  <1> SUFFICES ASSUME ChunkInv, [Next]_vars PROVE ChunkInv'
    OBVIOUS
  <1>0. TypeInv /\ TypeInv'
    BY StepType DEF ChunkInv
  <1>a. given \in Nat /\ \A w \in Workers : imp[w] \in Nat /\ imp[w] <= given /\ 0 <= given
    BY <1>0 DEF ChunkInv, TypeInv, TypeOK
  <1> USE DEF TypeInv, TypeOK, history
  <1>1. ASSUME NEW w \in Workers, SkipKnown(w) \/ Busy(w) \/ Raise(w) PROVE ChunkInv'
    <2>1. /\ pc' = [pc EXCEPT ![w] = "idle"] /\ imp' = [imp EXCEPT ![w] = 0]
          /\ UNCHANGED <<memories, tracked, open, given, undone, deleted>>
      BY <1>1 DEF SkipKnown, Busy, Raise, Return
    <2> QED
      BY <1>0, <1>a, <2>1, ChunkStays
  <1>2. ASSUME NEW w \in Workers, TakeLock(w) PROVE ChunkInv'
    <2>1. /\ pc[w] = "parse" /\ pc' = [pc EXCEPT ![w] = "insert"]
          /\ UNCHANGED <<memories, tracked, open, imp, given, undone, deleted>>
      BY <1>2 DEF TakeLock
    <2> QED
      BY <1>0, <1>a, <2>1, ChunkStays
  <1>3. ASSUME NEW w \in Workers, OtherWrite(w) PROVE ChunkInv'
    <2>1. /\ pc[w] = "idle" /\ open' = [open EXCEPT ![w] = {}] /\ memories' = memories \cup open[w]
          /\ UNCHANGED <<tracked, pc, imp, given, undone, deleted>>
      BY <1>3 DEF OtherWrite, Commit
    <2> QED
      BY <1>0, <1>a, <2>1, ChunkStays
  <1>4. ASSUME NEW p \in Processes, Crash(p) PROVE ChunkInv'
    <2>1. /\ UNCHANGED <<memories, tracked, given, undone, deleted>>
          /\ \A w \in Workers : \/ pc'[w] = "idle" /\ imp'[w] = 0 /\ open'[w] = {}
                                \/ pc'[w] = pc[w] /\ imp'[w] = imp[w] /\ open'[w] = open[w]
      BY <1>4 DEF Crash
    <2> QED
      BY <1>0, <1>a, <2>1, ChunkStays
  <1>5. ASSUME NEW batch, Undo(batch) PROVE ChunkInv'
    <2>1. /\ memories' = memories \ batch /\ tracked' \subseteq tracked /\ undone' = undone \cup {r.imp : r \in batch}
          /\ UNCHANGED <<pc, imp, open, given, deleted>>
      BY <1>5 DEF Undo, work
    <2> QED
      BY <1>0, <1>a, <2>1, ChunkStays
  <1>6. ASSUME NEW r \in memories, Delete(r) PROVE ChunkInv'
    <2>1. /\ memories' = memories \ {r} /\ deleted' = deleted \cup {r.imp}
          /\ UNCHANGED <<tracked, pc, imp, open, given, undone>>
      BY <1>6 DEF Delete, work
    <2> QED
      BY <1>0, <1>a, <2>1, ChunkStays
  <1>7. CASE UNCHANGED vars
    BY <1>0, <1>a, <1>7, ChunkStays DEF vars
  <1> QED
    BY <1>0, <1>1, <1>2, <1>3, <1>4, <1>5, <1>6, <1>7, ChunkBegin, ChunkInserted, ChunkFinish
    DEF Next, WorkerStep, UndoOne, UndoAll

\* A recorded import has all its chunks until an undo or a deletion takes some of them,
\* whoever imports, raises, crashes, or commits what another import has left
\* (_ingest_parsed records the import in the transaction of its last INSERT).
THEOREM ImportedWholeHolds == Spec => []ImportedWhole
  <1>1. Init => ChunkInv
    BY InitType DEF Init, ChunkInv, ImportedWhole, Inserted, TypeInv, TypeOK
  <1>2. ChunkInv => ImportedWhole
    BY DEF ChunkInv
  <1> QED
    BY <1>1, <1>2, ChunkStep, PTL DEF Spec

-----------------------------------------------------------------------------
(* The reminders.                                                          *)
USE ServersAssumption, TimeAssumption

LEMMA ReminderInitType == ReminderInit => ReminderTypeOK
  BY DEF ReminderInit, ReminderTypeOK

LEMMA DueType == ReminderTypeOK => Due \subseteq Reminders
  BY DEF Due

LEMMA ReminderStepType == ReminderTypeOK /\ [ReminderNext]_reminderVars => ReminderTypeOK'
  <1> SUFFICES ASSUME ReminderTypeOK, [ReminderNext]_reminderVars PROVE ReminderTypeOK'
    OBVIOUS
  <1> USE DEF ReminderTypeOK, users, schedulerState, deliveryHistory, SchedulerGoes, Change
  <1>1. CASE Tick
    BY <1>1 DEF Tick
  <1>2. ASSUME NEW m \in Mems, NEW t \in 1..MaxTime, SetReminder(m, t) PROVE ReminderTypeOK'
    BY <1>2 DEF SetReminder
  <1>3. ASSUME NEW m \in Mems, ClearReminder(m) \/ DeleteMemory(m) PROVE ReminderTypeOK'
    BY <1>3 DEF ClearReminder, DeleteMemory
  <1>4. ASSUME NEW s \in Servers, StartPoll(s) PROVE ReminderTypeOK'
    BY <1>4, DueType DEF StartPoll, Contend
  <1>5. ASSUME NEW s \in Servers, Notify(s) PROVE ReminderTypeOK'
    BY <1>5 DEF Notify
  <1>6. ASSUME NEW s \in Servers, Record(s) PROVE ReminderTypeOK'
    BY <1>6 DEF Record, CommitDeliveries
  <1>7. ASSUME NEW s \in Servers, RecordFails(s) PROVE ReminderTypeOK'
    BY <1>7 DEF RecordFails
  <1>8. ASSUME NEW s \in Servers, RestOfLoop(s) PROVE ReminderTypeOK'
    BY <1>8 DEF RestOfLoop, CommitDeliveries
  <1>9. ASSUME NEW s \in Servers, CrashServer(s) \/ RestartServer(s) PROVE ReminderTypeOK'
    BY <1>9 DEF CrashServer, RestartServer
  <1>10. CASE UNCHANGED reminderVars
    BY <1>10 DEF reminderVars
  <1> QED
    BY <1>1, <1>2, <1>3, <1>4, <1>5, <1>6, <1>7, <1>8, <1>9, <1>10
    DEF ReminderNext, SchedulerStep

\* Every variable of the scheduler keeps its type.
THEOREM ReminderTypeCorrect == ReminderSpec => []ReminderTypeOK
  <1> QED BY ReminderInitType, ReminderStepType, PTL DEF ReminderSpec

-----------------------------------------------------------------------------
(* Any number of servers: what is recorded, or about to be, was delivered. *)

SentInv ==
    /\ ReminderTypeOK
    /\ delivered \subseteq sent
    /\ \A s \in Servers : staged[s] \subseteq sent /\ inHand[s] \subseteq sent

LEMMA SentStep == SentInv /\ [ReminderNext]_reminderVars => SentInv'
  <1> SUFFICES ASSUME SentInv, [ReminderNext]_reminderVars PROVE SentInv'
    OBVIOUS
  <1>0. ReminderTypeOK /\ ReminderTypeOK'
    BY ReminderStepType DEF SentInv
  <1>1. ASSUME UNCHANGED <<delivered, staged, inHand, sent>> PROVE SentInv'
    BY <1>0, <1>1 DEF SentInv
  <1>2. ASSUME NEW s \in Servers, Notify(s) PROVE SentInv'
    BY <1>0, <1>2 DEF SentInv, Notify, ReminderTypeOK
  <1>3. ASSUME NEW s \in Servers, Record(s) PROVE SentInv'
    BY <1>0, <1>3 DEF SentInv, Record, CommitDeliveries, ReminderTypeOK, deliveryHistory
  <1>4. ASSUME NEW s \in Servers, RecordFails(s) PROVE SentInv'
    BY <1>0, <1>4 DEF SentInv, RecordFails, ReminderTypeOK
  <1>5. ASSUME NEW s \in Servers, RestOfLoop(s) PROVE SentInv'
    BY <1>0, <1>5 DEF SentInv, RestOfLoop, CommitDeliveries, ReminderTypeOK, deliveryHistory
  <1>6. ASSUME NEW s \in Servers, CrashServer(s) PROVE SentInv'
    BY <1>0, <1>6 DEF SentInv, CrashServer, ReminderTypeOK
  <1> QED
    BY <1>1, <1>2, <1>3, <1>4, <1>5, <1>6
    DEF ReminderNext, SchedulerStep, Tick, SetReminder, ClearReminder, DeleteMemory,
        StartPoll, RestartServer, reminderVars, schedulerState, deliveryHistory

\* What reminder_deliveries holds was delivered, whatever crashes and however
\* many servers poll.
THEOREM RecordedAreSentHolds == ReminderSpec => []RecordedAreSent
  <1>1. ReminderInit => SentInv
    BY ReminderInitType DEF ReminderInit, SentInv
  <1>2. SentInv => RecordedAreSent
    BY DEF SentInv, RecordedAreSent
  <1> QED BY <1>1, <1>2, SentStep, PTL DEF ReminderSpec

-----------------------------------------------------------------------------
(* Where a reminder is between its query and its record.                   *)

\* Every delivery is accounted for; what a server still has to deliver was
\* not delivered by itself, and if it was recorded, or is in the hands of
\* another server as well, it counts as contended.
HandInv ==
    /\ ReminderTypeOK
    /\ \A r \in sent : \/ r \in delivered \cup lost
                       \/ \E s \in Servers : r \in staged[s] \cup inHand[s]
    /\ \A s \in Servers :
          /\ rows[s] \cap delivered \subseteq contended
          /\ rows[s] \cap (staged[s] \cup inHand[s]) = {}
          /\ schedulerAt[s] \in {"off", "idle", "rest"} => rows[s] = {} /\ inHand[s] = {}
          /\ schedulerAt[s] \in {"off", "idle"} => staged[s] = {}
          /\ schedulerAt[s] = "poll" => inHand[s] = {}
    /\ \A s, t \in Servers : s # t => Hand(s) \cap Hand(t) \subseteq contended

LEMMA HandInit == ReminderInit => HandInv
  BY ReminderInitType DEF ReminderInit, HandInv, Hand

\* A reminder that is delivered for the second time was lost or is contended.
LEMMA NotifyHand ==
  ASSUME HandInv, NEW s \in Servers, Notify(s)
  PROVE  again' \subseteq again \cup lost \cup contended
  <1> SUFFICES ASSUME NEW r \in again', r \notin again PROVE r \in lost \cup contended
    OBVIOUS
  <1>1. r \in rows[s] /\ r \in sent
    BY DEF Notify
  <1>2. CASE r \in delivered \cup lost
    BY <1>1, <1>2 DEF HandInv
  <1>3. ASSUME NEW t \in Servers, r \in staged[t] \cup inHand[t]
        PROVE  r \in contended
    <2>1. s # t
      BY <1>1, <1>3 DEF HandInv
    <2>2. r \in Hand(s) \cap Hand(t)
      BY <1>1, <1>3 DEF Hand
    <2> QED BY <2>1, <2>2 DEF HandInv
  <1> QED BY <1>1, <1>2, <1>3 DEF HandInv

LEMMA HandStep == HandInv /\ [ReminderNext]_reminderVars => HandInv'
  <1> SUFFICES ASSUME HandInv, [ReminderNext]_reminderVars PROVE HandInv'
    OBVIOUS
  <1>0. ReminderTypeOK /\ ReminderTypeOK'
    BY ReminderStepType DEF HandInv
  <1> USE <1>0 DEF HandInv, Hand, SchedulerGoes, ReminderTypeOK, deliveryHistory
  <1>1. ASSUME UNCHANGED <<delivered, rows, staged, inHand, schedulerAt, sent, lost, contended>>
        PROVE  HandInv'
    BY <1>1
  <1>2. ASSUME NEW s \in Servers, StartPoll(s) PROVE HandInv'
    BY <1>2 DEF StartPoll, Contend, Due
  <1>3. ASSUME NEW s \in Servers, Notify(s) PROVE HandInv'
    BY <1>3 DEF Notify
  <1>4. ASSUME NEW s \in Servers, Record(s) PROVE HandInv'
    BY <1>4 DEF Record, CommitDeliveries
  <1>5. ASSUME NEW s \in Servers, RecordFails(s) PROVE HandInv'
    BY <1>5 DEF RecordFails
  <1>6. ASSUME NEW s \in Servers, RestOfLoop(s) PROVE HandInv'
    BY <1>6 DEF RestOfLoop, CommitDeliveries
  <1>7. ASSUME NEW s \in Servers, CrashServer(s) PROVE HandInv'
    BY <1>7 DEF CrashServer
  <1>8. ASSUME NEW s \in Servers, RestartServer(s) PROVE HandInv'
    BY <1>8 DEF RestartServer
  <1> QED
    BY <1>1, <1>2, <1>3, <1>4, <1>5, <1>6, <1>7, <1>8
    DEF ReminderNext, SchedulerStep, Tick, SetReminder, ClearReminder, DeleteMemory,
        reminderVars, schedulerState, deliveryHistory

\* Only Notify adds to the history of repeated deliveries.
LEMMA AgainSteps ==
  ASSUME [ReminderNext]_reminderVars
  PROVE  again' = again \/ \E s \in Servers : Notify(s)
  BY DEF ReminderNext, SchedulerStep, Tick, SetReminder, ClearReminder, DeleteMemory, StartPoll,
         Record, RecordFails, RestOfLoop, CrashServer, RestartServer, reminderVars, schedulerState, deliveryHistory

\* A reminder is delivered a second time only if its first delivery went
\* without a record, or if two servers had it in hand at once.
THEOREM DeliveredOnceHolds == ReminderSpec => []DeliveredOnce
  <1>1. ReminderInit => DeliveredOnce
    BY DEF ReminderInit, DeliveredOnce
  <1>2. HandInv /\ DeliveredOnce /\ [ReminderNext]_reminderVars => DeliveredOnce'
    <2> SUFFICES ASSUME HandInv, DeliveredOnce, [ReminderNext]_reminderVars PROVE DeliveredOnce'
      OBVIOUS
    <2>1. lost \subseteq lost' /\ contended \subseteq contended'
      BY DEF ReminderNext, SchedulerStep, Tick, SetReminder, ClearReminder, DeleteMemory,
             StartPoll, Contend, Notify, Record, RecordFails, RestOfLoop, CrashServer,
             RestartServer, reminderVars, schedulerState, deliveryHistory
    <2>2. again' \subseteq again \cup lost \cup contended
      BY AgainSteps, NotifyHand
    <2> QED BY <2>1, <2>2 DEF DeliveredOnce
  <1> QED BY <1>1, <1>2, HandInit, HandStep, PTL DEF ReminderSpec

\* A reminder recorded as delivered is delivered again by a server only that
\* had it in hand together with another.
THEOREM SilentOnceRecordedHolds == ReminderSpec => SilentOnceRecorded
  <1>1. HandInv /\ [ReminderNext]_reminderVars =>
            [\A r \in delivered : r \in again' => r \in again \cup contended]_reminderVars
    <2> SUFFICES ASSUME HandInv, [ReminderNext]_reminderVars, NEW r \in delivered,
                        r \in again', r \notin again
                 PROVE  r \in contended
      OBVIOUS
    <2>1. PICK s \in Servers : Notify(s)
      BY AgainSteps
    <2>2. r \in rows[s]
      BY <2>1 DEF Notify
    <2> QED BY <2>2 DEF HandInv
  <1> QED BY <1>1, HandInit, HandStep, PTL DEF ReminderSpec, SilentOnceRecorded

\* Deliveries and their records agree, for any number of servers and crashes.
THEOREM DeliveriesRightHolds == ReminderSpec => []DeliveriesRight
  <1> QED BY RecordedAreSentHolds, DeliveredOnceHolds, PTL DEF DeliveriesRight

-----------------------------------------------------------------------------
(* The watched searches.                                                   *)
SearchType ==
    /\ stored \subseteq Findable /\ saved \in [Names -> Row \cup {None}]
    /\ seen \subseteq Pairs /\ announced \subseteq Pairs /\ base \subseteq Pairs /\ reannounced \subseteq announced
    /\ pollAt \in [Pollers -> {"rest", "claim", "list", "poll", "look", "read", "announce"}]
    /\ todo \in [Pollers -> SUBSET Row] /\ cur \in [Pollers -> SUBSET Row]
    /\ results \in [Pollers -> SUBSET Findable] /\ news \in [Pollers -> SUBSET Findable]
    /\ \A s \in Pollers : pollAt[s] # "announce" => news[s] = {}
    /\ \A s \in Pollers : \A r, q \in cur[s] : r = q
    /\ idsGiven \in 0..MaxIds

\* Ids are given once; nothing is known of one that has not been given.
IdsKnown ==
    /\ \A n \in Names : saved[n] # None => saved[n].id <= idsGiven
    /\ \A n, k \in Names : saved[n] # None /\ saved[k] # None /\ saved[n].id = saved[k].id => n = k
    /\ \A id \in Ids, m \in Findable : <<id, m>> \in seen \cup announced \cup base => id <= idsGiven
    /\ \A s \in Pollers : \A r \in todo[s] \cup cur[s] : r.id <= idsGiven

\* What matched when the watch of a search began still does, and its first poll has all of
\* it, unless the search is gone or a poll met the limit.
BaseSeen ==
    \A id \in Ids, m \in Findable : <<id, m>> \in base /\ IsSaved(id) /\ id \notin crowded =>
        /\ Seen(id) # {} => m \in Seen(id)
        /\ \A n \in Names : saved[n] # None /\ saved[n].id = id => m \in Found(saved[n].query)
        /\ \A s \in Pollers : /\ \A r \in todo[s] : r.id = id => m \in Found(r.query)
                              /\ \A r \in cur[s] : r.id = id => m \in results[s] \ news[s]

\* Only a delete takes back that a search has seen something.
ReadSeen ==
    \A s \in Pollers : pollAt[s] = "read" => \A r \in cur[s] : IsSaved(r.id) => Seen(r.id) # {}

FloodInv == SearchType /\ IdsKnown /\ BaseSeen /\ ReadSeen

USE SearchBounds, MatchAssumption, SavesAssumption

LEMMA SearchTypeInit == SearchInit => SearchType
  BY DEF SearchInit, SearchType, Pairs, Ids

\* What a poll gets to see are matches, and all unless there are too many.
LEMMA HitsFound == ASSUME SearchType, NEW q, NEW hits \in Hits(q) PROVE hits \subseteq Found(q) /\ hits \subseteq Findable
  BY DEF Hits, Found, SearchType

LEMMA SearchTypeStep == SearchType /\ [SearchNext]_searchVars => SearchType'
  <1> SUFFICES ASSUME SearchType, [SearchNext]_searchVars PROVE SearchType'
    OBVIOUS
  <1> USE DEF SearchType, tables, pollState, searchHistory
  <1>1. ASSUME NEW m \in Findable, AddMemory(m) PROVE SearchType'
    BY <1>1 DEF AddMemory
  <1>2. ASSUME NEW n \in Names, DeleteSearch(n) PROVE SearchType'
    BY <1>2 DEF DeleteSearch
  <1>3. ASSUME NEW n \in Names, NEW v \in Saves, Save(n, v) PROVE SearchType'
    <2> DEFINE id == IF saved[n] = None THEN idsGiven + 1 ELSE saved[n].id
               row == [id |-> id, query |-> v.query, watch |-> v.watch]
    <2>1. /\ saved' = [saved EXCEPT ![n] = row] /\ base' = Base(id, saved[n], v)
          /\ idsGiven' = IF saved[n] = None THEN id ELSE idsGiven
          /\ saved[n] = None => idsGiven < MaxIds
          /\ UNCHANGED <<stored, seen, announced, reannounced, pollAt, todo, cur, results, news>>
      BY <1>3 DEF Save
    <2>2. id \in Ids /\ idsGiven' \in 0..MaxIds
      BY <2>1 DEF Ids, Row
    <2>3. v.query \in Queries /\ v.watch \in BOOLEAN
      OBVIOUS
    <2>4. row \in Row
      BY <2>2, <2>3 DEF Row
    <2>5. Base(id, saved[n], v) \subseteq Pairs
      BY <2>2, <2>3 DEF Base, Found, Pairs
    <2> HIDE DEF row, id
    <2> QED
      BY <2>1, <2>2, <2>4, <2>5
  <1>4. CASE Interval
    BY <1>4 DEF Interval
  <1>5. ASSUME NEW s \in Pollers, Check(s) \/ Claim(s) \/ PollOver(s) PROVE SearchType'
    BY <1>5 DEF Check, Claim, PollOver, PollGoes
  <1>6. ASSUME NEW s \in Pollers, List(s) PROVE SearchType'
    BY <1>6 DEF List, PollGoes
  <1>7. ASSUME NEW s \in Pollers, NEW r \in Row, LookEmpty(s, r) \/ LookFails(s, r) PROVE SearchType'
    BY <1>7 DEF LookEmpty, LookFails, TakeRow
  <1>8. ASSUME NEW s \in Pollers, NEW r \in Row, Look(s, r) PROVE SearchType'
    <2>1. PICK hits \in Hits(r.query) : results' = [results EXCEPT ![s] = hits]
      BY <1>8 DEF Look
    <2>2. hits \in SUBSET Findable
      BY HitsFound
    <2>3. \A q, k \in {r} : q = k
      OBVIOUS
    <2>4. /\ pollAt' = [pollAt EXCEPT ![s] = "look"] /\ pollAt[s] = "poll" /\ cur' = [cur EXCEPT ![s] = {r}]
          /\ todo' = [todo EXCEPT ![s] = @ \ {r}]
          /\ UNCHANGED <<stored, saved, seen, announced, base, reannounced, news, idsGiven>>
      BY <1>8 DEF Look, TakeRow, PollGoes
    <2> QED
      BY <2>1, <2>2, <2>3, <2>4
  <1>13. ASSUME NEW s \in Pollers, HasAnySeen(s) PROVE SearchType'
    BY <1>13 DEF HasAnySeen, PollGoes
  <1>14. ASSUME NEW s \in Pollers, SeenMemoryIds(s) PROVE SearchType'
    BY <1>14 DEF SeenMemoryIds, PollGoes
  <1>9. ASSUME NEW s \in Pollers, NEW m \in Findable, Announce(s, m) PROVE SearchType'
    <2>1. {<<r.id, m>> : r \in cur[s]} \subseteq Pairs
      BY DEF Pairs, Row
    <2> QED
      BY <1>9, <2>1 DEF Announce
  <1>10. ASSUME NEW s \in Pollers, Mark(s) PROVE SearchType'
    <2>1. Polled(s) \subseteq Pairs
      BY DEF Polled, Pairs, Row
    <2> QED
      BY <1>10, <2>1 DEF Mark, PollGoes, Done
  <1>11. ASSUME NEW s \in Pollers, PollFails(s) \/ RestartPoller(s) PROVE SearchType'
    BY <1>11 DEF PollFails, RestartPoller, PollGoes, Done
  <1>12. CASE UNCHANGED searchVars
    BY <1>12 DEF searchVars
  <1> QED
    BY <1>1, <1>2, <1>3, <1>4, <1>5, <1>6, <1>7, <1>8, <1>9, <1>10, <1>11, <1>12, <1>13, <1>14 DEF SearchNext, PollStep

\* Pairs, one by one.
LEMMA PairsAre == \A p \in Pairs : p[1] \in Ids /\ p[2] \in Findable /\ p = <<p[1], p[2]>>
  BY DEF Pairs

\* What a user's save does.
IsSave(n, v, id) ==
    /\ id \in Ids /\ v \in Saves
    /\ saved' = [saved EXCEPT ![n] = [id |-> id, query |-> v.query, watch |-> v.watch]]
    /\ base' = Base(id, saved[n], v)
    /\ \/ saved[n] = None /\ id = idsGiven + 1 /\ idsGiven' = id
       \/ saved[n] # None /\ id = saved[n].id /\ idsGiven' = idsGiven
    /\ UNCHANGED <<stored, seen, pollState, announced, reannounced, unrecorded, first, crowded>>

LEMMA SavesAre ==
  ASSUME SearchType, NEW n \in Names, NEW v \in Saves, Save(n, v)
  PROVE  \E id \in Ids : IsSave(n, v, id)
  <1> DEFINE id == IF saved[n] = None THEN idsGiven + 1 ELSE saved[n].id
  <1>1. id \in Ids
    BY DEF Save, SearchType, Ids, Row
  <1>2. IsSave(n, v, id)
    BY <1>1 DEF Save, IsSave
  <1> QED
    BY <1>1, <1>2

LEMMA IdsStep == SearchType /\ IdsKnown /\ [SearchNext]_searchVars => IdsKnown'
  <1> SUFFICES ASSUME SearchType, IdsKnown, [SearchNext]_searchVars PROVE IdsKnown'
    OBVIOUS
  <1> USE DEF tables, pollState, searchHistory
  <1>0. \A n \in Names : saved[n] # None => saved[n] \in Row
    BY DEF SearchType
  <1>1. ASSUME NEW m \in Findable, AddMemory(m) PROVE IdsKnown'
    BY <1>1 DEF AddMemory, IdsKnown
  <1>2. ASSUME NEW n \in Names, DeleteSearch(n) PROVE IdsKnown'
    BY <1>2 DEF DeleteSearch, IdsKnown, SearchType
  <1>3. ASSUME NEW n \in Names, NEW v \in Saves, Save(n, v) PROVE IdsKnown'
    <2>1. PICK id \in Ids : IsSave(n, v, id)
      BY <1>3, SavesAre
    <2>2. id <= idsGiven' /\ idsGiven <= idsGiven' /\ idsGiven' \in Nat /\ idsGiven \in Nat
      BY <1>0, <2>1 DEF IsSave, IdsKnown, SearchType, Ids
    <2>3. \A k \in Names : /\ k # n => saved'[k] = saved[k]
                           /\ saved'[n].id = id
      BY <2>1 DEF IsSave, SearchType
    <2>4. \A k \in Names : k # n /\ saved[k] # None => saved[k].id # id
      BY <1>0, <2>1 DEF IsSave, IdsKnown, SearchType, Ids, Row
    <2>5. \A k \in Names : saved'[k] # None => saved'[k].id <= idsGiven'
      BY <1>0, <2>2, <2>3 DEF IdsKnown, Row, Ids
    <2>6. \A h, k \in Names : saved'[h] # None /\ saved'[k] # None /\ saved'[h].id = saved'[k].id => h = k
      BY <2>3, <2>4 DEF IdsKnown
    <2>7. \A i \in Ids, m \in Findable : <<i, m>> \in base' => <<i, m>> \in base \/ i = id
      BY <2>1 DEF IsSave, Base
    <2>8. \A i \in Ids, m \in Findable : <<i, m>> \in seen' \cup announced' \cup base' => i <= idsGiven'
      BY <2>1, <2>2, <2>7 DEF IdsKnown, IsSave, Ids
    <2>9. \A s \in Pollers : \A r \in todo'[s] \cup cur'[s] : r.id <= idsGiven'
      BY <2>1, <2>2 DEF IdsKnown, IsSave, SearchType, Row, Ids
    <2> QED
      BY <2>5, <2>6, <2>8, <2>9 DEF IdsKnown
  <1>4. CASE Interval
    BY <1>4 DEF Interval, IdsKnown
  <1>5. ASSUME NEW s \in Pollers, Check(s) \/ Claim(s) \/ PollOver(s) PROVE IdsKnown'
    BY <1>5 DEF Check, Claim, PollOver, IdsKnown
  <1>6. ASSUME NEW s \in Pollers, List(s) PROVE IdsKnown'
    BY <1>6 DEF List, IdsKnown, SearchType
  <1>7. ASSUME NEW s \in Pollers, NEW r \in Row, LookEmpty(s, r) \/ LookFails(s, r) PROVE IdsKnown'
    BY <1>7 DEF LookEmpty, LookFails, TakeRow, IdsKnown, SearchType
  <1>13. ASSUME NEW s \in Pollers, HasAnySeen(s) PROVE IdsKnown'
    BY <1>13 DEF HasAnySeen, IdsKnown
  <1>14. ASSUME NEW s \in Pollers, SeenMemoryIds(s) PROVE IdsKnown'
    BY <1>14 DEF SeenMemoryIds, IdsKnown
  <1>8. ASSUME NEW s \in Pollers, NEW r \in Row, Look(s, r) PROVE IdsKnown'
    BY <1>8 DEF Look, TakeRow, IdsKnown, SearchType
  <1>9. ASSUME NEW s \in Pollers, NEW m \in Findable, Announce(s, m) PROVE IdsKnown'
    BY <1>9 DEF Announce, IdsKnown
  <1>10. ASSUME NEW s \in Pollers, Mark(s) PROVE IdsKnown'
    BY <1>10 DEF Mark, Polled, Done, IdsKnown, SearchType
  <1>11. ASSUME NEW s \in Pollers, PollFails(s) \/ RestartPoller(s) PROVE IdsKnown'
    BY <1>11 DEF PollFails, RestartPoller, Done, IdsKnown, SearchType
  <1>12. CASE UNCHANGED searchVars
    BY <1>12 DEF searchVars, IdsKnown
  <1> QED
    BY <1>1, <1>2, <1>3, <1>4, <1>5, <1>6, <1>7, <1>8, <1>9, <1>10, <1>11, <1>12, <1>13, <1>14 DEF SearchNext, PollStep

LEMMA SeenIs == ASSUME NEW id, NEW m \in Findable PROVE m \in Seen(id) <=> <<id, m>> \in seen
  BY DEF Seen

LEMMA SeenNextIs == ASSUME NEW id, NEW m \in Findable PROVE m \in Seen(id)' <=> <<id, m>> \in seen'
  BY DEF Seen

\* What a watch's beginning makes of the base.
LEMMA BaseIs ==
  ASSUME SearchType, IdsKnown, BaseSeen, NEW n \in Names, NEW v \in Saves, NEW id \in Ids, IsSave(n, v, id),
         NEW m \in Findable, <<id, m>> \in base', id \notin crowded
  PROVE  /\ Seen(id) # {} => m \in Seen(id)
         /\ m \in Found(v.query)
         /\ \A s \in Pollers : /\ \A r \in todo[s] : r.id = id => m \in Found(r.query)
                               /\ \A r \in cur[s] : r.id = id => m \in results[s] \ news[s]
  <1> DEFINE old == saved[n]
             others == {p \in base : p[1] # id}
  <1>1. /\ base' = Base(id, old, v)
        /\ (old = None /\ id = idsGiven + 1) \/ (old # None /\ id = old.id)
    BY DEF IsSave
  <1>2. old = None => /\ <<id, m>> \notin base /\ Seen(id) = {}
                      /\ \A s \in Pollers : \A r \in todo[s] \cup cur[s] : r.id # id
    <2>1. idsGiven \in Nat /\ (old = None => ~(id <= idsGiven))
      BY <1>1 DEF SearchType
    <2> QED
      BY <2>1 DEF IdsKnown, Seen
  <1>3. CASE BeginsFresh(id, old, v)
    <2>1. old # None => Fresh(id)
      BY <1>3 DEF BeginsFresh
    <2>2. Seen(id) = {} /\ \A s \in Pollers : \A r \in todo[s] \cup cur[s] : r.id # id
      BY <1>2, <2>1 DEF Fresh
    <2>3. base' = others \cup ({id} \X Found(v.query))
      BY <1>1, <1>3 DEF Base
    <2> QED
      BY <2>2, <2>3
  <1>4. CASE ~BeginsFresh(id, old, v)
    <2>1. ~(old # None /\ old.query # v.query) /\ base' = base
      BY <1>1, <1>4 DEF Base
    <2>2. old # None /\ old.query = v.query
      BY <1>2, <2>1
    <2>3. IsSaved(id)
      BY <1>1, <2>2 DEF IsSaved
    <2>4. m \in Found(old.query)
      BY <1>1, <2>1, <2>2, <2>3 DEF BaseSeen
    <2> QED
      BY <2>1, <2>2, <2>3, <2>4 DEF BaseSeen
  <1> QED
    BY <1>3, <1>4

\* No id that was given comes back.
LEMMA SavedStep ==
  ASSUME SearchType, IdsKnown, [SearchNext]_searchVars, NEW id \in Ids, id <= idsGiven, IsSaved(id)'
  PROVE  IsSaved(id)
  <1> USE DEF tables, pollState, searchHistory
  <1>1. CASE saved' = saved
    BY <1>1 DEF IsSaved
  <1>2. ASSUME NEW n \in Names, DeleteSearch(n) PROVE IsSaved(id)
    BY <1>2 DEF DeleteSearch, SearchType, IsSaved
  <1>3. ASSUME NEW n \in Names, NEW v \in Saves, Save(n, v) PROVE IsSaved(id)
    <2>1. PICK i \in Ids : IsSave(n, v, i)
      BY <1>3, SavesAre
    <2>2. \A k \in Names : k # n => saved'[k] = saved[k]
      BY <2>1 DEF IsSave, SearchType
    <2>3. saved'[n].id = i
      BY <2>1 DEF IsSave, SearchType
    <2>4. saved[n] = None => i = idsGiven + 1 /\ idsGiven \in Nat
      BY <2>1 DEF IsSave, SearchType
    <2>5. saved[n] # None => i = saved[n].id
      BY <2>1 DEF IsSave
    <2> QED
      BY <2>2, <2>3, <2>4, <2>5 DEF IsSaved, Ids
  <1> QED
    BY <1>1, <1>2, <1>3 DEF SearchNext, PollStep, AddMemory, Interval, Check, Claim, List, LookEmpty, Look, LookFails,
       HasAnySeen, SeenMemoryIds, Announce, Mark, PollOver, PollFails, RestartPoller, searchVars

LEMMA BaseStep == FloodInv /\ [SearchNext]_searchVars => BaseSeen'
  <1> SUFFICES ASSUME FloodInv, [SearchNext]_searchVars PROVE BaseSeen'
    OBVIOUS
  <1>0. SearchType /\ IdsKnown /\ BaseSeen
    BY DEF FloodInv
  <1> USE DEF tables, pollState, searchHistory
  <1>15. UNCHANGED <<stored, saved, seen, base, crowded, todo, cur, results, news>> => BaseSeen'
    BY <1>0 DEF BaseSeen, IsSaved, Seen, Found
  <1>1. ASSUME NEW m \in Findable, AddMemory(m) PROVE BaseSeen'
    BY <1>0, <1>1 DEF AddMemory, BaseSeen, IsSaved, Seen, Found
  <1>2. ASSUME NEW n \in Names, DeleteSearch(n) PROVE BaseSeen'
    <2>1. \A id : Seen(id)' = IF id = saved[n].id THEN {} ELSE Seen(id)
      BY <1>2 DEF DeleteSearch, Seen
    <2>2. \A k \in Names : k # n => saved'[k] = saved[k]
      BY <1>0, <1>2 DEF DeleteSearch, SearchType
    <2>3. saved'[n] = None
      BY <1>0, <1>2 DEF DeleteSearch, SearchType
    <2>4. UNCHANGED <<base, crowded, stored, todo, cur, results, news>>
      BY <1>2 DEF DeleteSearch
    <2>5. \A id : IsSaved(id)' => IsSaved(id) /\ id # saved[n].id
      BY <1>0, <2>2, <2>3, <1>2 DEF IsSaved, IdsKnown, DeleteSearch
    <2> QED
      BY <1>0, <2>1, <2>2, <2>3, <2>4, <2>5 DEF BaseSeen, Found
  <1>3. ASSUME NEW n \in Names, NEW v \in Saves, Save(n, v) PROVE BaseSeen'
    <2>1. PICK id \in Ids : IsSave(n, v, id)
      BY <1>0, <1>3, SavesAre
    <2>2. \A k \in Names : k # n => saved'[k] = saved[k]
      BY <1>0, <2>1 DEF IsSave, SearchType
    <2>3. saved'[n].id = id /\ saved'[n].query = v.query
      BY <1>0, <2>1 DEF IsSave, SearchType
    <2>4. UNCHANGED <<stored, seen, crowded, todo, cur, results, news>>
      BY <2>1 DEF IsSave
    <2>5. \A k \in Names : k # n /\ saved[k] # None => saved[k].id # id
      BY <1>0, <2>1 DEF IsSave, IdsKnown, SearchType, Ids, Row
    <2>6. ASSUME NEW i \in Ids, NEW m \in Findable, <<i, m>> \in base', i # id PROVE <<i, m>> \in base
      BY <2>1, <2>6 DEF IsSave, Base
    <2>8. ASSUME NEW i \in Ids, IsSaved(i)', i # id PROVE IsSaved(i)
      BY <2>2, <2>3, <2>8 DEF IsSaved
    <2>7. ASSUME NEW i \in Ids, NEW m \in Findable, <<i, m>> \in base', IsSaved(i)', i \notin crowded
          PROVE  /\ Seen(i) # {} => m \in Seen(i)
                 /\ \A k \in Names : saved'[k] # None /\ saved'[k].id = i => m \in Found(saved'[k].query)
                 /\ \A s \in Pollers : /\ \A r \in todo[s] : r.id = i => m \in Found(r.query)
                                       /\ \A r \in cur[s] : r.id = i => m \in results[s] \ news[s]
      <3>1. CASE i = id
        BY <1>0, <2>1, <2>2, <2>3, <2>5, <2>7, <3>1, BaseIs
      <3>2. CASE i # id
        BY <1>0, <2>2, <2>3, <2>6, <2>7, <2>8, <3>2 DEF BaseSeen
      <3> QED
        BY <3>1, <3>2
    <2> QED
      BY <2>4, <2>7 DEF BaseSeen, IsSaved, Seen, Found
  <1>4. CASE Interval
    BY <1>4, <1>15 DEF Interval
  <1>5. ASSUME NEW s \in Pollers, Check(s) \/ Claim(s) \/ PollOver(s) PROVE BaseSeen'
    BY <1>5, <1>15 DEF Check, Claim, PollOver
  <1>6. ASSUME NEW s \in Pollers, List(s) PROVE BaseSeen'
    <2>1. \A r \in todo'[s] : \E n \in Names : saved[n] # None /\ r = saved[n]
      BY <1>0, <1>6 DEF List, SearchType
    <2>2. \A k \in Pollers : k # s => todo'[k] = todo[k]
      BY <1>0, <1>6 DEF List, SearchType
    <2>3. UNCHANGED <<stored, saved, seen, base, crowded, cur, results, news>>
      BY <1>6 DEF List
    <2> QED
      BY <1>0, <2>1, <2>2, <2>3 DEF BaseSeen, IsSaved, Seen, Found
  <1>7. ASSUME NEW s \in Pollers, NEW r \in Row, LookEmpty(s, r) \/ LookFails(s, r) PROVE BaseSeen'
    BY <1>0, <1>7 DEF LookEmpty, LookFails, TakeRow, BaseSeen, IsSaved, Seen, Found, SearchType
  <1>8. ASSUME NEW s \in Pollers, NEW r \in Row, Look(s, r) PROVE BaseSeen'
    <2>0. PICK hits \in Hits(r.query) :
             /\ results' = [results EXCEPT ![s] = hits]
             /\ crowded' = IF hits = Found(r.query) THEN crowded ELSE crowded \cup {r.id}
      BY <1>8 DEF Look
    <2>1. /\ r \in todo[s] /\ cur'[s] = {r} /\ results'[s] = hits
          /\ news'[s] = {} /\ todo'[s] \subseteq todo[s]
          /\ \A k \in Pollers : k # s => /\ cur'[k] = cur[k] /\ results'[k] = results[k]
                                         /\ news'[k] = news[k] /\ todo'[k] = todo[k]
          /\ UNCHANGED <<stored, saved, seen, base>>
      BY <1>0, <1>8, <2>0 DEF Look, TakeRow, SearchType
    <2>2. crowded \subseteq crowded' /\ (r.id \notin crowded' => hits = Found(r.query))
      BY <2>0
    <2>3. ASSUME NEW id \in Ids, NEW m \in Findable, <<id, m>> \in base, IsSaved(id), id \notin crowded',
                 NEW k \in Pollers
          PROVE  /\ \A q \in todo'[k] : q.id = id => m \in Found(q.query)
                 /\ \A q \in cur'[k] : q.id = id => m \in results'[k] \ news'[k]
      <3>1. CASE k = s
        BY <1>0, <2>1, <2>2, <2>3, <3>1 DEF BaseSeen
      <3>2. CASE k # s
        BY <1>0, <2>1, <2>2, <2>3, <3>2 DEF BaseSeen
      <3> QED
        BY <3>1, <3>2
    <2> QED
      BY <1>0, <2>1, <2>2, <2>3 DEF BaseSeen, IsSaved, Seen, Found
  <1>13. ASSUME NEW s \in Pollers, HasAnySeen(s) PROVE BaseSeen'
    BY <1>13, <1>15 DEF HasAnySeen
  <1>14. ASSUME NEW s \in Pollers, SeenMemoryIds(s) PROVE BaseSeen'
    <2>1. /\ news'[s] = results[s] \ UNION {Seen(r.id) : r \in cur[s]} /\ pollAt[s] = "read"
          /\ \A k \in Pollers : k # s => news'[k] = news[k]
          /\ UNCHANGED <<stored, saved, seen, base, crowded, todo, cur, results>>
      BY <1>0, <1>14 DEF SeenMemoryIds, SearchType
    <2>2. ASSUME NEW id \in Ids, NEW m \in Findable, <<id, m>> \in base, IsSaved(id), id \notin crowded,
                 NEW r \in cur[s], r.id = id
          PROVE  m \in results[s] \ news'[s]
      <3>1. Seen(id) # {}
        BY <2>1, <2>2 DEF FloodInv, ReadSeen
      <3>2. m \in Seen(id) /\ m \in results[s]
        BY <1>0, <2>2, <3>1 DEF BaseSeen
      <3> QED
        BY <2>1, <2>2, <3>2
    <2> QED
      BY <1>0, <2>1, <2>2 DEF BaseSeen, IsSaved, Seen, Found
  <1>9. ASSUME NEW s \in Pollers, NEW m \in Findable, Announce(s, m) PROVE BaseSeen'
    <2>1. UNCHANGED <<stored, saved, seen, base, crowded, todo, cur, results>>
      BY <1>9 DEF Announce
    <2>2. \A k \in Pollers : news'[k] \subseteq news[k]
      BY <1>0, <1>9 DEF Announce, SearchType
    <2> QED
      BY <1>0, <2>1, <2>2 DEF BaseSeen, IsSaved, Seen, Found
  <1>10. ASSUME NEW s \in Pollers, Mark(s) PROVE BaseSeen'
    <2>1. /\ seen' = seen \cup Polled(s) /\ cur' = [cur EXCEPT ![s] = {}]
          /\ UNCHANGED <<stored, saved, base, crowded, todo>>
          /\ \A k \in Pollers : k # s => results'[k] = results[k] /\ news'[k] = news[k]
      BY <1>0, <1>10 DEF Mark, Done, SearchType
    <2>2. ASSUME NEW id \in Ids, NEW m \in Findable, <<id, m>> \in base, IsSaved(id), id \notin crowded,
                 Seen(id)' # {}
          PROVE  m \in Seen(id)'
      <3>1. PICK x \in Findable : <<id, x>> \in seen'
        BY <2>2, SeenNextIs DEF Seen
      <3>2. CASE <<id, x>> \in seen
        <4>1. m \in Seen(id)
          BY <1>0, <2>2, <3>2, SeenIs DEF BaseSeen
        <4> QED
          BY <2>1, <4>1, SeenIs, SeenNextIs
      <3>3. CASE <<id, x>> \in Polled(s)
        <4>1. PICK r \in cur[s] : r.id = id
          BY <3>3 DEF Polled
        <4>2. m \in results[s]
          BY <1>0, <2>2, <4>1 DEF BaseSeen
        <4>3. <<r.id, m>> \in Polled(s)
          BY <4>1, <4>2 DEF Polled
        <4> QED
          BY <2>1, <4>1, <4>3, SeenNextIs
      <3> QED
        BY <2>1, <3>1, <3>2, <3>3
    <2>3. cur'[s] = {} /\ \A k \in Pollers : k # s => cur'[k] = cur[k]
      BY <1>0, <2>1 DEF SearchType
    <2> QED
      BY <1>0, <2>1, <2>2, <2>3 DEF BaseSeen, IsSaved, Found
  <1>11. ASSUME NEW s \in Pollers, PollFails(s) \/ RestartPoller(s) PROVE BaseSeen'
    BY <1>0, <1>11 DEF PollFails, RestartPoller, Done, BaseSeen, IsSaved, Seen, Found, SearchType
  <1>12. CASE UNCHANGED searchVars
    BY <1>0, <1>12 DEF searchVars, BaseSeen, IsSaved, Seen, Found
  <1> QED
    BY <1>1, <1>2, <1>3, <1>4, <1>5, <1>6, <1>7, <1>8, <1>9, <1>10, <1>11, <1>12, <1>13, <1>14 DEF SearchNext, PollStep

LEMMA ReadStep == FloodInv /\ [SearchNext]_searchVars => ReadSeen'
  <1> SUFFICES ASSUME FloodInv, [SearchNext]_searchVars, NEW u \in Pollers, pollAt'[u] = "read", NEW r \in cur'[u],
                      IsSaved(r.id)'
               PROVE  Seen(r.id)' # {}
    BY DEF ReadSeen
  <1>0. SearchType /\ IdsKnown
    BY DEF FloodInv
  <1> USE DEF tables, pollState, searchHistory
  <1>1. ASSUME r \in cur[u], pollAt[u] = "read", seen \subseteq seen' PROVE Seen(r.id)' # {}
    <2>1. r.id \in Ids /\ r.id <= idsGiven
      BY <1>0, <1>1 DEF SearchType, IdsKnown, Row
    <2>2. Seen(r.id) # {}
      BY <1>0, <1>1, <2>1, SavedStep DEF FloodInv, ReadSeen
    <2> QED
      BY <1>1, <2>2 DEF Seen
  <1>2. CASE UNCHANGED <<pollAt, cur, seen>>
    BY <1>1, <1>2
  <1>3. ASSUME NEW n \in Names, DeleteSearch(n) PROVE Seen(r.id)' # {}
    <2>1. r \in cur[u] /\ pollAt[u] = "read"
      BY <1>3 DEF DeleteSearch
    <2>2. r.id \in Ids /\ r.id <= idsGiven
      BY <1>0, <2>1 DEF SearchType, IdsKnown, Row
    <2>3. IsSaved(r.id) /\ r.id # saved[n].id
      BY <1>0, <1>3, <2>2 DEF DeleteSearch, IsSaved, IdsKnown, SearchType
    <2>4. Seen(r.id) # {}
      BY <2>1, <2>3 DEF FloodInv, ReadSeen
    <2> QED
      BY <1>3, <2>3, <2>4 DEF DeleteSearch, Seen
  <1>4. ASSUME NEW s \in Pollers, HasAnySeen(s) PROVE Seen(r.id)' # {}
    <2>1. UNCHANGED <<cur, seen>> /\ \A k \in Pollers : k # s => pollAt'[k] = pollAt[k]
      BY <1>0, <1>4 DEF HasAnySeen, PollGoes, SearchType
    <2>2. CASE u = s
      <3> DEFINE any == \E q \in cur[s] : Seen(q.id) # {}
      <3>1. pollAt'[s] = IF any THEN "read" ELSE "announce"
        BY <1>0, <1>4 DEF HasAnySeen, PollGoes, SearchType
      <3>2. any
        <4> HIDE DEF any
        <4> QED
          BY <2>2, <3>1
      <3>3. PICK q \in cur[s] : Seen(q.id) # {}
        BY <3>2
      <3>4. r = q
        BY <1>0, <2>1, <2>2 DEF SearchType
      <3> QED
        BY <2>1, <3>3, <3>4 DEF Seen
    <2> QED
      BY <1>1, <2>1, <2>2
  <1>5. ASSUME NEW s \in Pollers, PollStep(s) \/ PollFails(s) \/ RestartPoller(s) \/ \E q \in Row : LookFails(s, q),
               ~HasAnySeen(s)
        PROVE  Seen(r.id)' # {}
    <2>1. /\ seen \subseteq seen' /\ \A k \in Pollers : k # s => pollAt'[k] = pollAt[k] /\ cur'[k] = cur[k]
          /\ pollAt'[s] = "read" => pollAt'[s] = pollAt[s] /\ cur'[s] = cur[s]
      BY <1>0, <1>5 DEF PollStep, Check, Claim, List, LookEmpty, LookFails, Look, SeenMemoryIds, TakeRow, Announce, Mark,
                        PollOver, PollFails, RestartPoller, Done, PollGoes, SearchType
    <2> QED
      BY <1>1, <2>1
  <1>6. CASE UNCHANGED searchVars \/ Interval \/ (\E m \in Findable : AddMemory(m))
             \/ \E n \in Names, v \in Saves : Save(n, v)
    BY <1>2, <1>6 DEF searchVars, Interval, AddMemory, Save
  <1> QED
    BY <1>3, <1>4, <1>5, <1>6 DEF SearchNext

\* What is announced is news of the row being polled.
LEMMA AnnouncedIsNews ==
  ASSUME FloodInv, [SearchNext]_searchVars
  PROVE  \A p \in announced' \ announced : p \in base => ~IsSaved(p[1]) \/ p[1] \in crowded
  <1> USE DEF tables, pollState, searchHistory
  <1>1. ASSUME NEW s \in Pollers, NEW m \in Findable, Announce(s, m)
        PROVE  \A p \in announced' \ announced : p \in base => ~IsSaved(p[1]) \/ p[1] \in crowded
    <2>1. announced' = announced \cup {<<r.id, m>> : r \in cur[s]} /\ m \in news[s]
      BY <1>1 DEF Announce
    <2>2. \A r \in cur[s] : <<r.id, m>> \in base => ~IsSaved(r.id) \/ r.id \in crowded
      BY <2>1 DEF FloodInv, BaseSeen, SearchType, Row
    <2> QED
      BY <2>1, <2>2
  <1>2. ASSUME announced' # announced PROVE \E s \in Pollers, m \in Findable : Announce(s, m)
    BY <1>2 DEF SearchNext, PollStep, AddMemory, DeleteSearch, Save, Interval, Check, Claim, List, LookEmpty,
                Look, LookFails, HasAnySeen, SeenMemoryIds, Mark, PollOver, PollFails, RestartPoller, searchVars
  <1> QED
    BY <1>1, <1>2

\* "turning on watch=true on a saved search that already has matches must not notify on all
\* of them" (saved_searches.py): what matched when a fresh watch began is not announced while
\* the search is there and its polls see all its matches, for any number of servers that poll,
\* whatever is saved, turned to another query or deleted in the middle of their polls, and
\* wherever these fail.
THEOREM NoFloodHolds == SearchSpec => NoFlood
  <1>1. SearchInit => FloodInv
    <2> SUFFICES ASSUME SearchInit PROVE FloodInv
      OBVIOUS
    <2>1. IdsKnown /\ BaseSeen /\ ReadSeen
      BY DEF SearchInit, IdsKnown, BaseSeen, ReadSeen
    <2> QED
      BY <2>1, SearchTypeInit DEF FloodInv
  <1>2. FloodInv /\ [SearchNext]_searchVars =>
          FloodInv' /\ [\A p \in announced' \ announced : p \in base => ~IsSaved(p[1]) \/ p[1] \in crowded]_searchVars
    BY SearchTypeStep, IdsStep, BaseStep, ReadStep, AnnouncedIsNews DEF FloodInv
  <1> QED
    BY <1>1, <1>2, PTL DEF SearchSpec, NoFlood

\* One server polls at a time.
OnePoller == \A s, u \in Pollers : s = u

PollInv ==
    /\ SearchType /\ IdsKnown
    /\ \A s \in Pollers : /\ pollAt[s] \notin {"look", "read", "announce"} => cur[s] = {}
                          /\ news[s] \subseteq results[s]
                          /\ \A r, q \in todo[s] : r.id = q.id => r = q
                          /\ \A r \in todo[s], q \in cur[s] : r.id # q.id

InHand(id, m) ==
    \E s \in Pollers : pollAt[s] = "announce" /\ m \in results[s] /\ \E r \in cur[s] : r.id = id

\* What was announced has been recorded, or is about to be, or a failure came between, or
\* its search is gone.
Recorded ==
    \A id \in Ids, m \in Findable :
        <<id, m>> \in announced => <<id, m>> \in seen \cup unrecorded \/ ~IsSaved(id) \/ InHand(id, m)

NewsRight ==
    /\ \A id \in Ids, m \in Findable :
          <<id, m>> \in reannounced => <<id, m>> \in unrecorded \/ ~IsSaved(id)
    /\ \A s \in Pollers : \A r \in cur[s], m \in news[s] :
          <<r.id, m>> \in announced => <<r.id, m>> \in unrecorded \/ ~IsSaved(r.id)
    /\ \A s \in Pollers : pollAt[s] = "announce" => \A r \in cur[s], m \in results[s] :
          Seen(r.id) # {} /\ m \notin Seen(r.id) => m \in news[s] \/ <<r.id, m>> \in announced
    /\ \A id \in Ids, m \in Findable :
          <<id, m>> \in seen /\ IsSaved(id) => <<id, m>> \in announced \cup first

OnceInv == PollInv /\ Recorded /\ NewsRight

LEMMA PollInvStep == PollInv /\ [SearchNext]_searchVars => PollInv'
  <1> SUFFICES ASSUME PollInv, [SearchNext]_searchVars PROVE PollInv'
    OBVIOUS
  <1> DEFINE Good(s) == /\ pollAt[s] \notin {"look", "read", "announce"} => cur[s] = {}
                        /\ news[s] \subseteq results[s]
                        /\ \A r, q \in todo[s] : r.id = q.id => r = q
                        /\ \A r \in todo[s], q \in cur[s] : r.id # q.id
  <1>0. SearchType /\ IdsKnown /\ \A s \in Pollers : Good(s)
    BY DEF PollInv
  <1>1. SearchType' /\ IdsKnown'
    BY <1>0, SearchTypeStep, IdsStep
  <1> SUFFICES ASSUME NEW u \in Pollers PROVE Good(u)'
    BY <1>1 DEF PollInv
  <1>2. UNCHANGED <<pollAt, cur, news, results, todo>> => Good(u)'
    BY <1>0
  <1> USE DEF tables, pollState, searchHistory
  <1>3. ASSUME NEW s \in Pollers, u # s, PollStep(s) \/ PollFails(s) \/ RestartPoller(s) \/ \E r \in Row : LookFails(s, r)
        PROVE  Good(u)'
    <2>1. /\ pollAt'[u] = pollAt[u] /\ cur'[u] = cur[u] /\ news'[u] = news[u] /\ results'[u] = results[u]
          /\ todo'[u] = todo[u]
      BY <1>0, <1>3 DEF PollStep, Check, Claim, List, LookEmpty, LookFails, Look, TakeRow, HasAnySeen, SeenMemoryIds,
                        Announce, Mark, PollOver, PollFails, RestartPoller, Done, PollGoes, SearchType
    <2> QED
      BY <1>0, <2>1
  <1>4. ASSUME Check(u) \/ Claim(u) \/ PollOver(u) PROVE Good(u)'
    BY <1>0, <1>4 DEF Check, Claim, PollOver, PollGoes, SearchType
  <1>5. ASSUME List(u) PROVE Good(u)'
    <2>1. \A r \in todo'[u] : \E n \in Names : saved[n] # None /\ r = saved[n]
      BY <1>0, <1>5 DEF List, SearchType
    <2>2. pollAt[u] = "list" /\ cur'[u] = cur[u] /\ news' = news /\ results' = results
      BY <1>5 DEF List
    <2>3. cur'[u] = {}
      BY <1>0, <2>2
    <2>4. \A r, q \in todo'[u] : r.id = q.id => r = q
      BY <1>0, <2>1 DEF IdsKnown
    <2> QED
      BY <1>0, <2>2, <2>3, <2>4
  <1>6. ASSUME NEW r \in Row, LookEmpty(u, r) \/ LookFails(u, r) PROVE Good(u)'
    BY <1>0, <1>6 DEF LookEmpty, LookFails, TakeRow, SearchType
  <1>7. ASSUME NEW r \in Row, Look(u, r) PROVE Good(u)'
    <2>1. /\ r \in todo[u] /\ todo'[u] = todo[u] \ {r} /\ cur'[u] = {r} /\ news'[u] = {}
          /\ pollAt'[u] = "look"
      BY <1>0, <1>7 DEF Look, TakeRow, PollGoes, SearchType
    <2> QED
      BY <1>0, <2>1
  <1>12. ASSUME HasAnySeen(u) PROVE Good(u)'
    BY <1>0, <1>12 DEF HasAnySeen, PollGoes, SearchType
  <1>13. ASSUME SeenMemoryIds(u) PROVE Good(u)'
    BY <1>0, <1>13 DEF SeenMemoryIds, PollGoes, SearchType
  <1>8. ASSUME NEW m \in Findable, Announce(u, m) PROVE Good(u)'
    BY <1>0, <1>8 DEF Announce, SearchType
  <1>9. ASSUME Mark(u) \/ PollFails(u) \/ RestartPoller(u) PROVE Good(u)'
    BY <1>0, <1>9 DEF Mark, PollFails, RestartPoller, Done, PollGoes, SearchType
  <1>10. CASE \E n \in Names : DeleteSearch(n) \/ \E v \in Saves : Save(n, v)
    BY <1>2, <1>10 DEF DeleteSearch, Save
  <1>11. CASE Interval \/ UNCHANGED searchVars \/ \E m \in Findable : AddMemory(m)
    BY <1>2, <1>11 DEF Interval, AddMemory, searchVars
  <1> QED
    BY <1>3, <1>4, <1>5, <1>6, <1>7, <1>8, <1>9, <1>10, <1>11, <1>12, <1>13 DEF SearchNext, PollStep

LEMMA OnceStep ==
  ASSUME OnePoller, OnceInv, [SearchNext]_searchVars
  PROVE  Recorded' /\ NewsRight'
  <1>0. SearchType /\ IdsKnown /\ PollInv /\ Recorded /\ NewsRight
    BY DEF OnceInv, PollInv
  <1> USE DEF tables, pollState, searchHistory
  <1> DEFINE Good == Recorded' /\ NewsRight'
  <1>1. UNCHANGED <<saved, seen, pollAt, cur, news, results, announced, reannounced, unrecorded, first>> => Good
    BY <1>0 DEF Recorded, NewsRight, InHand, IsSaved, Seen
  <1>2. CASE Interval \/ UNCHANGED searchVars \/ \E m \in Findable : AddMemory(m)
    BY <1>1, <1>2 DEF Interval, AddMemory, searchVars
  <1>3. ASSUME NEW n \in Names, DeleteSearch(n) PROVE Good
    <2>1. \A id : Seen(id)' = IF id = saved[n].id THEN {} ELSE Seen(id)
      BY <1>3 DEF DeleteSearch, Seen
    <2>2. \A id : IsSaved(id)' <=> IsSaved(id) /\ id # saved[n].id
      BY <1>0, <1>3 DEF DeleteSearch, SearchType, IdsKnown, IsSaved
    <2>3. \A id, m : <<id, m>> \in seen' <=> <<id, m>> \in seen /\ id # saved[n].id
      BY <1>3 DEF DeleteSearch
    <2>4. UNCHANGED <<pollAt, cur, news, results, announced, reannounced, unrecorded, first>>
      BY <1>3 DEF DeleteSearch
    <2>5. Recorded'
      BY <1>0, <2>2, <2>3, <2>4 DEF Recorded, InHand
    <2> QED
      BY <1>0, <2>1, <2>2, <2>3, <2>4, <2>5 DEF NewsRight
  <1>4. ASSUME NEW n \in Names, NEW v \in Saves, Save(n, v) PROVE Good
    <2>1. PICK id \in Ids : IsSave(n, v, id)
      BY <1>0, <1>4, SavesAre
    <2>2. UNCHANGED <<seen, pollAt, cur, news, results, announced, reannounced, unrecorded, first>>
      BY <2>1 DEF IsSave
    <2>3. \A i \in Ids : IsSaved(i) => IsSaved(i)'
      <3>1. \A k \in Names : k # n => saved'[k] = saved[k]
        BY <1>0, <2>1 DEF IsSave, SearchType
      <3>2. saved[n] # None => saved'[n].id = saved[n].id
        BY <1>0, <2>1 DEF IsSave, SearchType
      <3>3. saved'[n] # None
        BY <1>0, <2>1, NoneIsNoSearch DEF IsSave, SearchType, Ids
      <3> QED
        BY <3>1, <3>2, <3>3 DEF IsSaved
    <2>4. \A i \in Ids : IsSaved(i)' /\ ~IsSaved(i) => \A m \in Findable : <<i, m>> \notin seen \cup announced
      <3>1. ASSUME NEW i \in Ids, IsSaved(i)', ~IsSaved(i) PROVE i = id /\ saved[n] = None
        <4>1. \A k \in Names : k # n => saved'[k] = saved[k]
          BY <1>0, <2>1 DEF IsSave, SearchType
        <4>2. saved'[n].id = id
          BY <1>0, <2>1 DEF IsSave, SearchType
        <4>3. saved[n] # None => id = saved[n].id
          BY <2>1 DEF IsSave
        <4> QED
          BY <3>1, <4>1, <4>2, <4>3 DEF IsSaved
      <3>2. saved[n] = None => id = idsGiven + 1 /\ ~(id <= idsGiven)
        BY <1>0, <2>1 DEF IsSave, SearchType
      <3> QED
        BY <1>0, <3>1, <3>2 DEF IdsKnown
    <2>5. Recorded'
      BY <1>0, <2>2, <2>4 DEF Recorded, InHand
    <2>6. \A s \in Pollers : \A r \in cur[s], m \in news[s] : r.id \in Ids /\ m \in Findable
      BY <1>0 DEF SearchType, Row
    <2>7. reannounced \subseteq announced
      BY <1>0 DEF SearchType
    <2> QED
      BY <1>0, <2>2, <2>3, <2>4, <2>5, <2>6, <2>7 DEF NewsRight, Seen
  <1>5. ASSUME NEW s \in Pollers, pollAt[s] # "announce", pollAt'[s] # "announce",
               UNCHANGED <<saved, seen, announced, reannounced, unrecorded, first>>
        PROVE  Good
    <2>1. \A u \in Pollers : u = s
      BY DEF OnePoller
    <2>2. Recorded'
      BY <1>0, <1>5, <2>1 DEF Recorded, InHand, IsSaved
    <2>3. news'[s] = {}
      BY <1>0, <1>5, SearchTypeStep DEF SearchType
    <2> QED
      BY <1>0, <1>5, <2>1, <2>2, <2>3 DEF NewsRight, IsSaved, Seen
  <1>6. ASSUME NEW s \in Pollers, Check(s) \/ Claim(s) \/ PollOver(s) \/ List(s)
                                  \/ \E r \in Row : LookEmpty(s, r) \/ LookFails(s, r) \/ Look(s, r)
        PROVE  Good
    BY <1>0, <1>5, <1>6 DEF Check, Claim, PollOver, List, LookEmpty, LookFails, Look, TakeRow, PollGoes, SearchType
  <1>7. ASSUME NEW s \in Pollers, HasAnySeen(s) PROVE Good
    <2>1. /\ pollAt[s] = "look" /\ pollAt'[s] = IF \E r \in cur[s] : Seen(r.id) # {} THEN "read" ELSE "announce"
          /\ UNCHANGED <<saved, seen, cur, results, news, announced, reannounced, unrecorded, first>>
      BY <1>0, <1>7 DEF HasAnySeen, PollGoes, SearchType
    <2>2. CASE \E r \in cur[s] : Seen(r.id) # {}
      BY <1>5, <2>1, <2>2
    <2>3. CASE \A r \in cur[s] : Seen(r.id) = {}
      <3>1. \A u \in Pollers : u = s
        BY DEF OnePoller
      <3>2. news[s] = {}
        BY <1>0, <2>1 DEF SearchType
      <3>3. Recorded'
        BY <1>0, <2>1, <3>1 DEF Recorded, InHand, IsSaved
      <3>4. \A r \in cur'[s] : Seen(r.id)' = {}
        BY <2>1, <2>3 DEF Seen
      <3> QED
        BY <1>0, <2>1, <3>1, <3>2, <3>3, <3>4 DEF NewsRight, IsSaved
    <2> QED
      BY <2>2, <2>3
  <1>8. ASSUME NEW s \in Pollers, SeenMemoryIds(s) PROVE Good
    <2>1. /\ pollAt[s] = "read" /\ pollAt'[s] = "announce"
          /\ news'[s] = results[s] \ UNION {Seen(r.id) : r \in cur[s]}
          /\ UNCHANGED <<saved, seen, cur, results, announced, reannounced, unrecorded, first>>
      BY <1>0, <1>8 DEF SeenMemoryIds, PollGoes, SearchType
    <2>2. \A u \in Pollers : u = s
      BY DEF OnePoller
    <2>3. Recorded'
      BY <1>0, <2>1, <2>2 DEF Recorded, InHand, IsSaved
    <2>4. ASSUME NEW r \in cur[s], NEW m \in news'[s], <<r.id, m>> \in announced
          PROVE  <<r.id, m>> \in unrecorded \/ ~IsSaved(r.id)
      <3>1. r.id \in Ids /\ m \in Findable /\ <<r.id, m>> \notin seen
        BY <1>0, <2>1, SeenIs DEF SearchType, Row
      <3>2. ~InHand(r.id, m)
        BY <2>1, <2>2 DEF InHand
      <3> QED
        BY <1>0, <2>4, <3>1, <3>2 DEF Recorded
    <2>5. \A r, q \in cur[s] : r = q
      BY <1>0 DEF SearchType
    <2>6. \A r \in cur[s], m \in results[s] : m \notin Seen(r.id) => m \in news'[s]
      BY <2>1, <2>5
    <2> QED
      BY <1>0, <2>1, <2>2, <2>3, <2>4, <2>6 DEF NewsRight, IsSaved, Seen
  <1>9. ASSUME NEW s \in Pollers, NEW m \in Findable, Announce(s, m) PROVE Good
    <2> DEFINE telling == {<<r.id, m>> : r \in cur[s]}
    <2>1. /\ m \in news[s] /\ news'[s] = news[s] \ {m}
          /\ reannounced' = reannounced \cup (announced \cap telling) /\ announced' = announced \cup telling
      BY <1>0, <1>9 DEF Announce, SearchType
    <2>2. UNCHANGED <<saved, seen, pollAt, cur, results, unrecorded, first>> /\ pollAt[s] = "announce"
      BY <1>9 DEF Announce
    <2>3. \A u \in Pollers : u = s
      BY DEF OnePoller
    <2>4. m \in results[s]
      BY <1>0, <2>1 DEF PollInv
    <2>5. \A id, x : <<id, x>> \in telling => x = m /\ \E r \in cur[s] : r.id = id
      OBVIOUS
    <2>6. \A id \in Ids, x \in Findable : <<id, x>> \in telling \cap announced => <<id, x>> \in unrecorded \/ ~IsSaved(id)
      BY <1>0, <2>1 DEF NewsRight
    <2> HIDE DEF telling
    <2>7. Recorded'
      BY <1>0, <2>1, <2>2, <2>4, <2>5 DEF Recorded, InHand, IsSaved
    <2>8. \A r \in cur[s], x \in news'[s] : <<r.id, x>> \in announced' => <<r.id, x>> \in unrecorded \/ ~IsSaved(r.id)
      BY <1>0, <2>1, <2>5 DEF NewsRight
    <2>9. \A r \in cur[s], x \in results[s] :
             Seen(r.id) # {} /\ x \notin Seen(r.id) => x \in news'[s] \/ <<r.id, x>> \in announced'
      <3>1. \A r \in cur[s] : <<r.id, m>> \in telling
        BY DEF telling
      <3> QED
        BY <1>0, <2>1, <2>2, <3>1 DEF NewsRight
    <2> QED
      BY <1>0, <2>1, <2>2, <2>3, <2>6, <2>7, <2>8, <2>9 DEF NewsRight, IsSaved, Seen
  <1>10. ASSUME NEW s \in Pollers, Mark(s) PROVE Good
    <2>1. /\ seen' = seen \cup Polled(s) /\ first' = first \cup {p \in Polled(s) : Seen(p[1]) = {}}
          /\ cur'[s] = {} /\ results'[s] = {} /\ news[s] = {}
          /\ pollAt[s] = "announce" /\ UNCHANGED <<saved, announced, reannounced, unrecorded>>
      BY <1>0, <1>10 DEF Mark, Done, SearchType
    <2>2. \A u \in Pollers : u = s
      BY DEF OnePoller
    <2>3. \A r \in cur[s], m \in results[s] : <<r.id, m>> \in Polled(s)
      BY DEF Polled
    <2>4. \A id, m : <<id, m>> \in Polled(s) => m \in results[s] /\ \E r \in cur[s] : r.id = id
      BY DEF Polled
    <2>5. Recorded'
      BY <1>0, <2>1, <2>2, <2>3 DEF Recorded, InHand, IsSaved
    <2>7. ASSUME NEW id \in Ids, NEW m \in Findable, <<id, m>> \in seen', IsSaved(id)'
          PROVE  <<id, m>> \in announced \cup first'
      <3>1. CASE <<id, m>> \in seen
        BY <1>0, <2>1, <2>7, <3>1 DEF NewsRight, IsSaved
      <3>2. CASE <<id, m>> \notin seen
        <4>1. <<id, m>> \in Polled(s)
          BY <2>1, <2>7, <3>2
        <4>2. PICK r \in cur[s] : r.id = id
          BY <2>4, <4>1
        <4>3. m \in results[s] /\ m \notin Seen(id)
          BY <2>4, <3>2, <4>1, SeenIs
        <4>4. CASE Seen(id) = {}
          BY <2>1, <4>1, <4>4
        <4>5. CASE Seen(id) # {}
          BY <1>0, <2>1, <4>2, <4>3, <4>5 DEF NewsRight
        <4> QED
          BY <4>4, <4>5
      <3> QED
        BY <3>1, <3>2
    <2> QED
      BY <1>0, <2>1, <2>2, <2>5, <2>7 DEF NewsRight, IsSaved
  <1>11. ASSUME NEW s \in Pollers, PollFails(s) \/ RestartPoller(s) PROVE Good
    <2>1. /\ unrecorded' = unrecorded \cup {p \in Polled(s) \cap announced : p[2] \notin Seen(p[1])}
          /\ cur'[s] = {} /\ results'[s] = {} /\ news'[s] = {}
          /\ UNCHANGED <<saved, seen, announced, reannounced, first>>
      BY <1>0, <1>11 DEF PollFails, RestartPoller, Lose, Done, SearchType
    <2>2. \A u \in Pollers : u = s
      BY DEF OnePoller
    <2>3. \A r \in cur[s], m \in results[s] : <<r.id, m>> \in Polled(s)
      BY DEF Polled
    <2>4. ASSUME NEW id \in Ids, NEW m \in Findable, <<id, m>> \in announced, InHand(id, m)
          PROVE  <<id, m>> \in seen \cup unrecorded'
      <3>1. <<id, m>> \in Polled(s)
        BY <2>2, <2>3, <2>4 DEF InHand
      <3>2. m \notin Seen(id) => <<id, m>> \in unrecorded'
        BY <2>1, <2>4, <3>1
      <3> QED
        BY <3>2, SeenIs
    <2>5. Recorded'
      BY <1>0, <2>1, <2>4 DEF Recorded, IsSaved
    <2> QED
      BY <1>0, <2>1, <2>2, <2>5 DEF NewsRight, IsSaved, Seen
  <1> QED
    BY <1>2, <1>3, <1>4, <1>5, <1>6, <1>7, <1>8, <1>9, <1>10, <1>11 DEF SearchNext, PollStep

\* With one server that polls, every match is announced before it counts as seen, unless it
\* belongs to the first that its search found, and once only, unless a failure came between
\* announcement and record (poll_saved_search): for any searches, memories, and failures.
\* (Two servers that poll a row at once may announce a match twice, or take one for seen that
\* neither has announced.)
THEOREM AnnouncedOnceHolds == ASSUME OnePoller PROVE SearchSpec => []AnnouncedOnce
  <1>1. SearchInit => OnceInv
    <2> SUFFICES ASSUME SearchInit PROVE OnceInv
      OBVIOUS
    <2>1. PollInv
      BY SearchTypeInit DEF SearchInit, PollInv, IdsKnown
    <2>2. Recorded /\ NewsRight
      BY DEF SearchInit, Recorded, NewsRight
    <2> QED
      BY <2>1, <2>2 DEF OnceInv
  <1>2. OnceInv /\ [SearchNext]_searchVars => OnceInv'
    BY PollInvStep, OnceStep DEF OnceInv
  <1>3. OnceInv => AnnouncedOnce
    <2> SUFFICES ASSUME OnceInv PROVE OncePerMatch /\ AnnouncedOrFirst
      BY DEF AnnouncedOnce
    <2>1. seen \subseteq Pairs /\ reannounced \subseteq Pairs
      BY DEF OnceInv, PollInv, SearchType
    <2> QED
      BY <2>1, PairsAre DEF OnceInv, NewsRight, OncePerMatch, AnnouncedOrFirst
  <1> QED
    BY <1>1, <1>2, <1>3, PTL DEF SearchSpec

-----------------------------------------------------------------------------
(* The folder watcher.                                                     *)
WatchShape ==
    /\ writes \in Nat /\ found.sig \in 0..writes
    /\ disk = [f \in Files |-> disk[f]] /\ sig \in [Files -> 0..writes]
    /\ ingested = [f \in Files |-> ingested[f]] /\ \A f \in Files : ingested[f] \in 0..writes
    /\ current = [f \in Files |-> current[f]]
    /\ path \in Files
    /\ scanAt \in {"rest", "scan", "import", "supersede"}
    /\ found = [sig |-> found.sig, content |-> found.content]

\* A content is imported once, and if it came once, from the file that has,
\* or had, it.
ImportOf(c, f) == \E i \in imports : i.content = c /\ i.path = f
OriginsKnown ==
    /\ \A f \in Files : IsThere(f) => disk[f] \in used /\ sig[f] # 0
    /\ \A f, g \in Files : f # g /\ IsThere(f) /\ disk[f] \notin shared => disk[f] # disk[g]
    /\ used \subseteq FileContents /\ Imported \subseteq used
    /\ \A i \in imports, f \in Files : disk[f] = i.content /\ disk[f] \notin shared => i.path = f
    /\ \A i, j \in imports : i.content = j.content => i.path = j.path
    /\ hidden \subseteq Imported
    /\ \A f \in Files : current[f] # NoImport =>
          current[f] \in Imported /\ (current[f] \notin shared => ImportOf(current[f], f))

\* In the middle of _ingest: what has been imported replaces the import before.
Superseding(c, f) == scanAt = "supersede" /\ path = f /\ found.content = c
Replacing ==
    scanAt = "supersede" =>
       /\ ImportOf(found.content, path) /\ found.content \notin hidden
       /\ current[path] # found.content
       /\ disk[path] \in Imported /\ disk[path] \notin shared => disk[path] = found.content

\* What a file says, once imported, is not hidden, and the current import of its path or
\* about to be, unless the watcher forgot.
DiskKept ==
    \A f \in Files : disk[f] \in Imported /\ disk[f] \notin shared =>
       /\ disk[f] \notin hidden
       /\ \/ current[f] \in {disk[f], NoImport} \cup forgotten
          \/ Superseding(disk[f], f)

\* Of what was imported from a path, the current one alone is visible.
OneVisible ==
    \A i \in Visible : \/ current[i.path] = i.content
                       \/ i.content \in forgotten
                       \/ Superseding(i.content, i.path)

KnownImported ==
    \A f \in Files : IsThere(f) /\ Unchanged(f) /\ sig[f] \notin abandoned => disk[f] \in Imported

WatchInv ==
    /\ WatchShape /\ OriginsKnown /\ Replacing /\ DiskKept /\ OneVisible /\ KnownImported
    /\ HiddenIsReplaced

-----------------------------------------------------------------------------
(* Steps of the watcher that neither import nor supersede.                 *)
LEMMA QuietStep ==
  ASSUME WatchInv, WatchShape', scanAt # "supersede", scanAt' # "supersede",
         UNCHANGED <<disk, sig, writes, used, shared, imports, hidden, current, forgotten>>,
         \A f \in Files : IsThere(f) /\ ingested'[f] = sig[f] /\ sig[f] \notin abandoned' =>
                             ingested[f] = sig[f] /\ sig[f] \notin abandoned
  PROVE  WatchInv'
  <1>1. Imported' = Imported /\ Visible' = Visible
    BY DEF Imported, Visible
  <1>2. OriginsKnown'
    BY <1>1 DEF WatchInv, OriginsKnown, IsThere, ImportOf
  <1>3. Replacing'
    BY DEF Replacing
  <1>4. DiskKept'
    BY <1>1 DEF WatchInv, DiskKept, Superseding
  <1>5. OneVisible'
    BY <1>1 DEF WatchInv, OneVisible, Superseding
  <1>6. KnownImported'
    BY <1>1 DEF WatchInv, KnownImported, IsThere, Unchanged
  <1>7. HiddenIsReplaced'
    BY <1>1 DEF WatchInv, HiddenIsReplaced
  <1> QED
    BY <1>2, <1>3, <1>4, <1>5, <1>6, <1>7 DEF WatchInv

LEMMA FileStepKeeps ==
  ASSUME WatchInv, NEW f \in Files, FileStep(f)
  PROVE  WatchInv'
  <1>1. /\ UNCHANGED <<disk, sig, writes, used, shared, imports, hidden, ingested, current, forgotten, abandoned>>
        /\ scanAt = "scan"
    BY DEF FileStep, Vanished, PassOver, Debounce, Choose, TakeFile, files, database, memory, watchHistory
  <1>2. \/ UNCHANGED <<scanAt, path, found>>
        \/ scanAt' = "import" /\ path' = f /\ found' = [sig |-> sig[f], content |-> Absent]
    BY DEF FileStep, Vanished, PassOver, Debounce, Choose
  <1>3. WatchShape'
    BY <1>1, <1>2 DEF WatchInv, WatchShape
  <1> QED
    BY <1>1, <1>2, <1>3, QuietStep

LEMMA StartScanKeeps == ASSUME WatchInv, StartScan PROVE WatchInv'
  <1>1. /\ UNCHANGED <<disk, sig, writes, used, shared, imports, hidden, ingested, current, forgotten, abandoned,
                       path, found>>
        /\ scanAt = "rest" /\ scanAt' = "scan"
    BY DEF StartScan, database, memory, watchHistory
  <1>2. WatchShape'
    BY <1>1 DEF WatchInv, WatchShape
  <1> QED
    BY <1>1, <1>2, QuietStep

LEMMA GracePassesKeeps == ASSUME WatchInv, NEW f \in Files, GracePasses(f) PROVE WatchInv'
  <1>1. /\ UNCHANGED <<disk, sig, writes, used, shared, imports, hidden, ingested, current, forgotten, abandoned,
                       scanAt, path, found>>
        /\ scanAt = "rest"
    BY DEF GracePasses, database, memory, watchHistory, scan
  <1>2. WatchShape'
    BY <1>1 DEF WatchInv, WatchShape
  <1> QED
    BY <1>1, <1>2, QuietStep

LEMMA EndScanKeeps == ASSUME WatchInv, EndScan PROVE WatchInv'
  <1>1. /\ UNCHANGED <<disk, sig, writes, used, shared, imports, hidden, current, forgotten, abandoned, path, found>>
        /\ scanAt = "scan" /\ scanAt' = "rest"
        /\ ingested' = [f \in Files |-> IF f \in scanned THEN ingested[f] ELSE 0]
    BY DEF EndScan, files, database, watchHistory
  <1>2. WatchShape'
    BY <1>1 DEF WatchInv, WatchShape
  <1>3. \A f \in Files : IsThere(f) /\ ingested'[f] = sig[f] => ingested[f] = sig[f]
    BY <1>1 DEF WatchInv, OriginsKnown
  <1> QED
    BY <1>1, <1>2, <1>3, QuietStep

\* The signature of the last attempt is kept, and remembered if the file was there.
LEMMA ImportFailsKeeps == ASSUME WatchInv, ImportFails \/ ImportGone PROVE WatchInv'
  <1>1. /\ UNCHANGED <<disk, sig, writes, used, shared, imports, hidden, current, forgotten, path, found>>
        /\ scanAt = "import" /\ scanAt' = "scan"
        /\ ingested' = [ingested EXCEPT ![path] = found.sig]
        /\ IF IsThere(path) THEN abandoned' = abandoned \cup {found.sig} ELSE abandoned' = abandoned
    BY DEF ImportFails, ImportGone, Ingested, files, database, watchHistory
  <1>2. WatchShape'
    BY <1>1 DEF WatchInv, WatchShape
  <1>3. \A f \in Files : IsThere(f) /\ ingested'[f] = sig[f] /\ sig[f] \notin abandoned' =>
                            ingested[f] = sig[f] /\ sig[f] \notin abandoned
    BY <1>1 DEF WatchInv, WatchShape
  <1> QED
    BY <1>1, <1>2, <1>3, QuietStep

-----------------------------------------------------------------------------
(* The files, and the restart.                                             *)
\* A content that is not there, and a signature above all others.
LEMMA WriteKeeps ==
  ASSUME WatchInv, NEW f \in Files, NEW c \in FileContents, Write(f, c)
  PROVE  WatchInv'
  <1>1. /\ writes' = writes + 1
        /\ disk' = [disk EXCEPT ![f] = c] /\ sig' = [sig EXCEPT ![f] = writes + 1]
        /\ used' = used \cup {c} /\ shared' = shared \cup (used \cap {c})
        /\ UNCHANGED <<imports, hidden, ingested, current, forgotten, abandoned, scanAt, path, found>>
    BY DEF Write, database, scan, memory, watchHistory
  <1>2. /\ disk'[f] = c /\ \A g \in Files \ {f} : disk'[g] = disk[g]
        /\ sig'[f] = writes + 1 /\ \A g \in Files \ {f} : sig'[g] = sig[g]
    BY <1>1 DEF WatchInv, WatchShape
  <1>3. Imported' = Imported /\ Visible' = Visible /\ (c \in Imported => c \in shared')
    BY <1>1 DEF Imported, Visible, WatchInv, OriginsKnown
  <1>4. WatchShape'
    <2>1. writes \in Nat /\ writes' \in Nat /\ 0..writes \subseteq 0..writes'
      BY <1>1 DEF WatchInv, WatchShape
    <2>2. sig' \in [Files -> 0..writes'] /\ \A g \in Files : ingested[g] \in 0..writes'
      BY <1>1, <2>1 DEF WatchInv, WatchShape
    <2>3. found.sig \in 0..writes' /\ disk' = [g \in Files |-> disk'[g]]
      BY <1>1, <2>1 DEF WatchInv, WatchShape
    <2> QED
      BY <1>1, <2>1, <2>2, <2>3 DEF WatchInv, WatchShape
  <1>5. OriginsKnown'
    <2>1. c # Absent
      BY ContentAssumption
    <2>2. \A g \in Files : IsThere(g)' => disk'[g] \in used' /\ sig'[g] # 0
      BY <1>1, <1>2 DEF WatchInv, WatchShape, OriginsKnown, IsThere
    <2>3. \A g, h \in Files : g # h /\ disk'[g] # Absent /\ disk'[g] \notin shared' => disk'[g] # disk'[h]
      BY <1>1, <1>2 DEF WatchInv, OriginsKnown, IsThere
    <2>4. used' \subseteq FileContents /\ Imported' \subseteq used'
      BY <1>1, <1>3 DEF WatchInv, OriginsKnown
    <2>5. \A i \in imports, g \in Files : disk'[g] = i.content /\ disk'[g] \notin shared' => i.path = g
      <3> SUFFICES ASSUME NEW i \in imports, NEW g \in Files, disk'[g] = i.content, disk'[g] \notin shared'
                   PROVE  i.path = g
        OBVIOUS
      <3>1. disk'[g] \in Imported /\ g # f
        BY <1>2, <1>3 DEF Imported
      <3>2. disk[g] = i.content /\ disk[g] \notin shared
        BY <1>1, <1>2, <3>1
      <3> QED
        BY <3>2 DEF WatchInv, OriginsKnown
    <2> QED
      BY <1>1, <1>3, <2>2, <2>3, <2>4, <2>5 DEF WatchInv, OriginsKnown, IsThere, ImportOf
  <1>6. Replacing'
    BY <1>1, <1>2, <1>3 DEF WatchInv, WatchShape, Replacing, ImportOf
  <1>7. DiskKept'
    BY <1>1, <1>2, <1>3 DEF WatchInv, DiskKept, Superseding
  <1>8. OneVisible' /\ HiddenIsReplaced'
    BY <1>1, <1>3 DEF WatchInv, OneVisible, Superseding, HiddenIsReplaced
  <1>9. KnownImported'
    <2>1. ingested[f] # writes + 1
      BY DEF WatchInv, WatchShape
    <2> QED
      BY <1>1, <1>2, <1>3, <2>1 DEF WatchInv, KnownImported, IsThere, Unchanged
  <1> QED
    BY <1>4, <1>5, <1>6, <1>7, <1>8, <1>9 DEF WatchInv

LEMMA RemoveKeeps == ASSUME WatchInv, NEW f \in Files, Remove(f) PROVE WatchInv'
  <1>1. /\ writes' = writes + 1 /\ disk' = [disk EXCEPT ![f] = Absent]
        /\ UNCHANGED <<sig, used, shared, imports, hidden, ingested, current, forgotten, abandoned, scanAt, path, found>>
    BY DEF Remove, database, scan, memory, watchHistory
  <1>2. disk'[f] = Absent /\ \A g \in Files \ {f} : disk'[g] = disk[g]
    BY <1>1 DEF WatchInv, WatchShape
  <1>3. Imported' = Imported /\ Visible' = Visible /\ Absent \notin Imported
    BY <1>1, ContentAssumption DEF Imported, Visible, WatchInv, OriginsKnown
  <1>4. WatchShape'
    <2>1. writes \in Nat /\ writes' \in Nat /\ 0..writes \subseteq 0..writes'
      BY <1>1 DEF WatchInv, WatchShape
    <2>2. sig' \in [Files -> 0..writes'] /\ \A g \in Files : ingested[g] \in 0..writes'
      BY <1>1, <2>1 DEF WatchInv, WatchShape
    <2>3. found.sig \in 0..writes' /\ disk' = [g \in Files |-> disk'[g]]
      BY <1>1, <2>1 DEF WatchInv, WatchShape
    <2> QED
      BY <1>1, <2>1, <2>2, <2>3 DEF WatchInv, WatchShape
  <1>5. OriginsKnown'
    <2>1. \A i \in imports : i.content # Absent
      BY <1>3 DEF Imported
    <2>2. \A i \in imports, g \in Files : disk'[g] = i.content /\ disk'[g] \notin shared => i.path = g
      BY <1>2, <2>1 DEF WatchInv, OriginsKnown
    <2>3. \A g, h \in Files : g # h /\ disk'[g] # Absent /\ disk'[g] \notin shared => disk'[g] # disk'[h]
      BY <1>2 DEF WatchInv, OriginsKnown, IsThere
    <2>4. \A g \in Files : disk'[g] # Absent => disk'[g] \in used /\ sig[g] # 0
      BY <1>2 DEF WatchInv, OriginsKnown, IsThere
    <2> QED
      BY <1>1, <1>3, <2>2, <2>3, <2>4 DEF WatchInv, OriginsKnown, IsThere, ImportOf
  <1>6. Replacing'
    BY <1>1, <1>2, <1>3 DEF WatchInv, WatchShape, Replacing, ImportOf
  <1>7. DiskKept'
    BY <1>1, <1>2, <1>3 DEF WatchInv, DiskKept, Superseding
  <1>8. OneVisible' /\ HiddenIsReplaced'
    BY <1>1, <1>3 DEF WatchInv, OneVisible, Superseding, HiddenIsReplaced
  <1>9. KnownImported'
    BY <1>1, <1>2, <1>3 DEF WatchInv, KnownImported, IsThere, Unchanged
  <1> QED
    BY <1>4, <1>5, <1>6, <1>7, <1>8, <1>9 DEF WatchInv

LEMMA RestartKeeps == ASSUME WatchInv, RestartWatcher PROVE WatchInv'
  <1>1. /\ scanAt' = "rest" /\ ingested' = [f \in Files |-> 0] /\ current' = [f \in Files |-> NoImport]
        /\ forgotten' = forgotten \cup Imported
        /\ UNCHANGED <<disk, sig, writes, used, shared, imports, hidden, abandoned, path, found>>
    BY DEF RestartWatcher, ForgetAll, files, database
  <1>2. Imported' = Imported /\ Visible' = Visible
    BY <1>1 DEF Imported, Visible
  <1>3. WatchShape'
    BY <1>1 DEF WatchInv, WatchShape
  <1>4. OriginsKnown'
    BY <1>1, <1>2 DEF WatchInv, OriginsKnown, IsThere
  <1>5. Replacing' /\ DiskKept'
    BY <1>1, <1>2 DEF WatchInv, Replacing, DiskKept
  <1>6. OneVisible'
    BY <1>1, <1>2 DEF OneVisible, Visible, Imported
  <1>7. KnownImported'
    BY <1>1, <1>2 DEF WatchInv, OriginsKnown, KnownImported, IsThere, Unchanged
  <1>8. HiddenIsReplaced'
    BY <1>1, <1>2 DEF WatchInv, HiddenIsReplaced
  <1> QED
    BY <1>3, <1>4, <1>5, <1>6, <1>7, <1>8 DEF WatchInv

-----------------------------------------------------------------------------
(* The import and the supersession.                                        *)
LEMMA ImportNewKeeps == ASSUME WatchInv, ImportNew PROVE WatchInv'
  <1> DEFINE c == disk[path]
             new == [content |-> c, path |-> path]
  <1>1. /\ scanAt = "import" /\ scanAt' = "supersede" /\ c # Absent /\ c \notin Imported
        /\ imports' = imports \cup {new} /\ found' = [found EXCEPT !.content = c]
        /\ ingested' = [ingested EXCEPT ![path] = found.sig]
        /\ UNCHANGED <<disk, sig, writes, used, shared, hidden, current, forgotten, abandoned, path>>
    BY DEF ImportNew, IsThere, files, watchHistory
  <1>2. path \in Files /\ c \in used /\ c \in FileContents /\ c \notin hidden
    BY <1>1 DEF WatchInv, WatchShape, OriginsKnown, IsThere
  <1>3. found'.content = c /\ found'.sig = found.sig /\ found' = [sig |-> found'.sig, content |-> found'.content]
    BY <1>1 DEF WatchInv, WatchShape
  <1>0. new.content = c /\ new.path = path
    OBVIOUS
  <1> HIDE DEF new
  <1>4. Imported' = Imported \cup {c} /\ Visible' = Visible \cup {new}
    <2>1. Imported' = Imported \cup {c}
      BY <1>0, <1>1 DEF Imported
    <2>2. Visible' = Visible \cup {new}
      BY <1>0, <1>1, <1>2 DEF Visible
    <2> QED
      BY <2>1, <2>2
  <1>5. WatchShape'
    BY <1>1, <1>3 DEF WatchInv, WatchShape
  <1>6. \A g \in Files : current[g] # c
    <2>1. \A g \in Files : current[g] # NoImport => current[g] \in Imported
      BY DEF WatchInv, OriginsKnown
    <2> QED
      BY <1>1, <1>2, <2>1, ContentAssumption
  <1>7. \A i \in imports : i.content # c
    BY <1>1 DEF Imported
  <1>8. \A g \in Files : disk[g] = c /\ c \notin shared => g = path
    BY <1>1, <1>2 DEF WatchInv, OriginsKnown, IsThere
  <1>9. OriginsKnown'
    <2>1. \A i \in imports', g \in Files : disk[g] = i.content /\ disk[g] \notin shared => i.path = g
      BY <1>0, <1>1, <1>8 DEF WatchInv, OriginsKnown
    <2>2. \A i, j \in imports' : i.content = j.content => i.path = j.path
      BY <1>0, <1>1, <1>7 DEF WatchInv, OriginsKnown
    <2>3. used \subseteq FileContents /\ Imported' \subseteq used /\ hidden \subseteq Imported'
      BY <1>2, <1>4 DEF WatchInv, OriginsKnown
    <2>4. \A g \in Files : current[g] # NoImport =>
             current[g] \in Imported' /\ (current[g] \notin shared => ImportOf(current[g], g)')
      BY <1>1, <1>4 DEF WatchInv, OriginsKnown, ImportOf
    <2>5. /\ \A g \in Files : IsThere(g)' => disk'[g] \in used' /\ sig'[g] # 0
          /\ \A g, h \in Files : g # h /\ IsThere(g)' /\ disk'[g] \notin shared' => disk'[g] # disk'[h]
      BY <1>1 DEF WatchInv, OriginsKnown, IsThere
    <2> QED
      BY <1>1, <2>1, <2>2, <2>3, <2>4, <2>5 DEF OriginsKnown
  <1>10. Replacing'
    BY <1>0, <1>1, <1>2, <1>3, <1>6 DEF Replacing, ImportOf
  <1>11. DiskKept'
    <2> SUFFICES ASSUME NEW g \in Files, disk[g] \in Imported', disk[g] \notin shared
                 PROVE  /\ disk[g] \notin hidden
                        /\ \/ current[g] \in {disk[g], NoImport} \cup forgotten
                           \/ path = g /\ found'.content = disk[g]
      BY <1>1 DEF DiskKept, Superseding
    <2>1. CASE g = path
      BY <1>2, <1>3, <2>1
    <2>2. CASE g # path
      <3>1. disk[g] \in Imported
        BY <1>4, <1>8, <2>2
      <3> QED
        BY <1>1, <3>1 DEF WatchInv, DiskKept, Superseding
    <2> QED
      BY <2>1, <2>2
  <1>12. OneVisible'
    <2> SUFFICES ASSUME NEW i \in Visible'
                 PROVE  \/ current[i.path] = i.content \/ i.content \in forgotten
                        \/ path = i.path /\ found'.content = i.content
      BY <1>1 DEF OneVisible, Superseding
    <2>1. CASE i = new
      BY <1>0, <1>3, <2>1
    <2>2. CASE i \in Visible
      BY <1>1, <2>2 DEF WatchInv, OneVisible, Superseding
    <2> QED
      BY <1>4, <2>1, <2>2
  <1>13. KnownImported'
    <2> SUFFICES ASSUME NEW g \in Files, disk[g] # Absent, ingested'[g] = sig[g], sig[g] \notin abandoned
                 PROVE  disk[g] \in Imported'
      BY <1>1 DEF KnownImported, IsThere, Unchanged
    <2>1. CASE g = path
      BY <1>4, <2>1
    <2>2. CASE g # path
      <3>1. ingested[g] = sig[g]
        BY <1>1, <2>2 DEF WatchInv, WatchShape
      <3> QED
        BY <1>4, <3>1 DEF WatchInv, KnownImported, IsThere, Unchanged
    <2> QED
      BY <2>1, <2>2
  <1>14. HiddenIsReplaced'
    <2> SUFFICES ASSUME NEW i \in imports'
                 PROVE  \/ \E v \in Visible' : v.path = i.path
                        \/ \E k \in imports' : k.path = i.path /\ k.content \in shared
      BY <1>1 DEF HiddenIsReplaced
    <2>1. CASE i = new
      BY <1>4, <2>1
    <2>2. CASE i \in imports
      BY <1>1, <1>4, <2>2 DEF WatchInv, HiddenIsReplaced
    <2> QED
      BY <1>1, <2>1, <2>2
  <1> QED
    BY <1>5, <1>9, <1>10, <1>11, <1>12, <1>13, <1>14 DEF WatchInv

LEMMA ImportKnownKeeps == ASSUME WatchInv, ImportKnown PROVE WatchInv'
  <1> DEFINE c == disk[path]
  <1>1. /\ scanAt = "import" /\ scanAt' = "scan" /\ c # Absent /\ c \in Imported
        /\ ingested' = [ingested EXCEPT ![path] = found.sig]
        /\ current' = [current EXCEPT ![path] = c]
        /\ forgotten' = forgotten \cup (Old(path) \ {c})
        /\ UNCHANGED <<disk, sig, writes, used, shared, imports, hidden, abandoned, path, found>>
    BY DEF ImportKnown, Ingested, IsThere, files, database, watchHistory
  <1>2. Imported' = Imported /\ Visible' = Visible /\ path \in Files
    BY <1>1 DEF Imported, Visible, WatchInv, WatchShape
  <1>3. current'[path] = c /\ \A g \in Files \ {path} : current'[g] = current[g]
    BY <1>1, <1>2 DEF WatchInv, WatchShape
  <1>4. WatchShape'
    BY <1>1 DEF WatchInv, WatchShape
  <1>5. OriginsKnown'
    <2>1. c \notin shared => ImportOf(c, path)
      <3>1. PICK i \in imports : i.content = c
        BY <1>1 DEF Imported
      <3>2. c \notin shared => i.path = path
        BY <1>2, <3>1 DEF WatchInv, OriginsKnown
      <3> QED
        BY <3>1, <3>2 DEF ImportOf
    <2>2. \A g \in Files : current'[g] # NoImport =>
             current'[g] \in Imported /\ (current'[g] \notin shared => ImportOf(current'[g], g))
      BY <1>1, <1>3, <2>1 DEF WatchInv, OriginsKnown
    <2> QED
      BY <1>1, <1>2, <2>2 DEF WatchInv, OriginsKnown, IsThere, ImportOf
  <1>6. Replacing'
    BY <1>1 DEF Replacing
  <1>7. DiskKept'
    <2> SUFFICES ASSUME NEW g \in Files, disk[g] \in Imported, disk[g] \notin shared
                 PROVE  disk[g] \notin hidden /\ current'[g] \in {disk[g], NoImport} \cup forgotten'
      BY <1>1, <1>2 DEF DiskKept
    <2> QED
      BY <1>1, <1>3 DEF WatchInv, DiskKept, Superseding
  <1>8. OneVisible'
    <2> SUFFICES ASSUME NEW i \in Visible
                 PROVE  current'[i.path] = i.content \/ i.content \in forgotten'
      BY <1>1, <1>2 DEF OneVisible
    <2>1. current[i.path] = i.content \/ i.content \in forgotten
      BY <1>1 DEF WatchInv, OneVisible, Superseding
    <2>2. CASE i.path = path /\ current[path] = i.content
      <3>1. i.content # NoImport
        BY ContentAssumption DEF Visible, Imported, WatchInv, OriginsKnown
      <3>2. i.content # c => i.content \in forgotten'
        BY <1>1, <2>2, <3>1 DEF Old
      <3> QED
        BY <1>3, <2>2, <3>2
    <2>3. CASE i.path # path
      <3>1. ~(i.path \in Files) => current'[i.path] = current[i.path]
        BY <1>1 DEF WatchInv, WatchShape
      <3> QED
        BY <1>1, <1>3, <2>1, <2>3, <3>1
    <2> QED
      BY <1>1, <2>1, <2>2, <2>3
  <1>9. KnownImported'
    <2> SUFFICES ASSUME NEW g \in Files, disk[g] # Absent, ingested'[g] = sig[g], sig[g] \notin abandoned
                 PROVE  disk[g] \in Imported
      BY <1>1, <1>2 DEF KnownImported, IsThere, Unchanged
    <2>1. CASE g = path
      BY <1>1, <2>1
    <2>2. CASE g # path
      <3>1. ingested[g] = sig[g]
        BY <1>1, <2>2 DEF WatchInv, WatchShape
      <3> QED
        BY <3>1 DEF WatchInv, KnownImported, IsThere, Unchanged
    <2> QED
      BY <2>1, <2>2
  <1>10. HiddenIsReplaced'
    BY <1>1, <1>2 DEF WatchInv, HiddenIsReplaced
  <1> QED
    BY <1>4, <1>5, <1>6, <1>7, <1>8, <1>9, <1>10 DEF WatchInv

\* What is hidden is another import of the same path than the one that has just been made.
LEMMA SupersedeKeeps == ASSUME WatchInv, Supersede PROVE WatchInv'
  <1> DEFINE c == found.content
  <1>1. /\ scanAt = "supersede" /\ scanAt' = "scan"
        /\ hidden' = hidden \cup Old(path) /\ current' = [current EXCEPT ![path] = c]
        /\ UNCHANGED <<disk, sig, writes, used, shared, imports, ingested, forgotten, abandoned, path, found>>
    BY DEF Supersede, Ingested, files, watchHistory
  <1>2. Imported' = Imported /\ path \in Files
    BY <1>1 DEF Imported, WatchInv, WatchShape
  <1>3. current'[path] = c /\ \A g \in Files \ {path} : current'[g] = current[g]
    BY <1>1, <1>2 DEF WatchInv, WatchShape
  <1>4. ImportOf(c, path) /\ c \notin hidden /\ current[path] # c /\ (disk[path] \in Imported /\ disk[path] \notin shared => disk[path] = c)
    BY <1>1 DEF WatchInv, Replacing
  <1>5. \A x \in Old(path) : x = current[path] /\ x \in Imported /\ (x \notin shared => ImportOf(x, path))
    BY <1>2 DEF Old, WatchInv, OriginsKnown
  <1>6. WatchShape'
    BY <1>1 DEF WatchInv, WatchShape
  <1>7. OriginsKnown'
    <2>1. hidden' \subseteq Imported
      BY <1>1, <1>5 DEF WatchInv, OriginsKnown
    <2>2. \A g \in Files : current'[g] # NoImport =>
             current'[g] \in Imported /\ (current'[g] \notin shared => ImportOf(current'[g], g))
      BY <1>3, <1>4 DEF WatchInv, OriginsKnown, ImportOf, Imported
    <2> QED
      BY <1>1, <1>2, <2>1, <2>2 DEF WatchInv, OriginsKnown, IsThere, ImportOf
  <1>8. Replacing'
    BY <1>1 DEF Replacing
  <1>9. DiskKept'
    <2> SUFFICES ASSUME NEW g \in Files, disk[g] \in Imported, disk[g] \notin shared
                 PROVE  disk[g] \notin hidden' /\ current'[g] \in {disk[g], NoImport} \cup forgotten
      BY <1>1, <1>2 DEF DiskKept
    <2>1. disk[g] \notin hidden
      BY DEF WatchInv, DiskKept
    <2>2. CASE g = path
      BY <1>1, <1>3, <1>4, <1>5, <2>1, <2>2
    <2>3. CASE g # path
      <3>1. disk[g] \notin Old(path)
        BY <1>5, <2>3 DEF WatchInv, OriginsKnown, ImportOf
      <3>2. current[g] \in {disk[g], NoImport} \cup forgotten
        BY <2>3 DEF WatchInv, DiskKept, Superseding
      <3> QED
        BY <1>1, <1>3, <2>1, <2>3, <3>1, <3>2
    <2> QED
      BY <2>2, <2>3
  <1>10. OneVisible'
    <2> SUFFICES ASSUME NEW i \in imports, i.content \notin hidden'
                 PROVE  current'[i.path] = i.content \/ i.content \in forgotten
      BY <1>1 DEF OneVisible, Visible
    <2>1. i.content \notin Old(path) /\ i \in Visible
      BY <1>1 DEF Visible
    <2>2. \/ current[i.path] = i.content \/ i.content \in forgotten
          \/ path = i.path /\ c = i.content
      BY <2>1 DEF WatchInv, OneVisible, Superseding
    <2>3. i.content # NoImport
      BY ContentAssumption DEF Imported, WatchInv, OriginsKnown
    <2>4. CASE i.path = path
      BY <1>3, <2>1, <2>2, <2>3, <2>4 DEF Old
    <2>5. CASE i.path # path
      <3>1. ~(i.path \in Files) => current'[i.path] = current[i.path]
        BY <1>1 DEF WatchInv, WatchShape
      <3> QED
        BY <1>3, <2>2, <2>5, <3>1
    <2> QED
      BY <2>4, <2>5
  <1>11. KnownImported'
    BY <1>1, <1>2 DEF WatchInv, KnownImported, IsThere, Unchanged
  <1>12. HiddenIsReplaced'
    <2> SUFFICES ASSUME NEW i \in imports
                 PROVE  \/ \E v \in Visible' : v.path = i.path
                        \/ \E k \in imports : k.path = i.path /\ k.content \in shared
      BY <1>1 DEF HiddenIsReplaced
    <2>1. CASE i.path = path
      <3>1. PICK v \in imports : v.content = c /\ v.path = path
        BY <1>4 DEF ImportOf
      <3>2. c \notin Old(path)
        BY <1>4, <1>5
      <3>3. v \in Visible'
        BY <1>1, <1>4, <3>1, <3>2 DEF Visible
      <3> QED
        BY <2>1, <3>1, <3>3
    <2>2. ASSUME i.path # path, NEW v \in Visible, v.path = i.path
          PROVE  v \in Visible' \/ (v \in imports /\ v.content \in shared)
      <3>1. v.content \notin shared => v.content \notin Old(path)
        BY <1>5, <2>2 DEF WatchInv, OriginsKnown, ImportOf, Visible
      <3> QED
        BY <1>1, <3>1 DEF Visible
    <2>3. CASE i.path # path
      BY <2>2, <2>3 DEF WatchInv, HiddenIsReplaced
    <2> QED
      BY <2>1, <2>3
  <1> QED
    BY <1>6, <1>7, <1>8, <1>9, <1>10, <1>11, <1>12 DEF WatchInv

\* The import stays, and the one before, and the watcher forgets them both or only the new one.
LEMMA SupersedeFailsKeeps == ASSUME WatchInv, SupersedeFails \/ EmbedFails PROVE WatchInv'
  <1>1. /\ scanAt = "supersede" /\ scanAt' \in {"rest", "scan"}
        /\ forgotten' = forgotten \cup {found.content} \cup Old(path)
        /\ UNCHANGED <<disk, sig, writes, used, shared, imports, hidden, ingested, current, abandoned, path, found>>
    BY DEF SupersedeFails, EmbedFails, ForgetBoth, Ingested, files, database, memory
  <1>2. Imported' = Imported /\ Visible' = Visible
    BY <1>1 DEF Imported, Visible
  <1>3. WatchShape'
    BY <1>1 DEF WatchInv, WatchShape
  <1>4. OriginsKnown'
    BY <1>1, <1>2 DEF WatchInv, OriginsKnown, IsThere, ImportOf
  <1>5. Replacing'
    BY <1>1 DEF Replacing
  <1>6. DiskKept'
    <2> SUFFICES ASSUME NEW g \in Files, disk[g] \in Imported, disk[g] \notin shared
                 PROVE  disk[g] \notin hidden /\ current[g] \in {disk[g], NoImport} \cup forgotten'
      BY <1>1, <1>2 DEF DiskKept
    <2>1. \/ current[g] \in {disk[g], NoImport} \cup forgotten
          \/ path = g
      BY DEF WatchInv, DiskKept, Superseding
    <2>2. path = g => current[g] \in {NoImport} \cup forgotten'
      BY <1>1 DEF Old
    <2> QED
      BY <1>1, <2>1, <2>2 DEF WatchInv, DiskKept
  <1>7. OneVisible'
    BY <1>1, <1>2 DEF WatchInv, OneVisible, Superseding
  <1>8. KnownImported' /\ HiddenIsReplaced'
    BY <1>1, <1>2 DEF WatchInv, KnownImported, HiddenIsReplaced, IsThere, Unchanged
  <1> QED
    BY <1>3, <1>4, <1>5, <1>6, <1>7, <1>8 DEF WatchInv

LEMMA WatchInvInit == WatchInit => WatchInv
  <1> SUFFICES ASSUME WatchInit PROVE WatchInv
    OBVIOUS
  <1>1. Imported = {} /\ Visible = {} /\ \A f \in Files : disk[f] = Absent
    BY DEF WatchInit, Imported, Visible
  <1>2. WatchShape
    BY DEF WatchInit, WatchShape
  <1>3. OriginsKnown
    BY <1>1 DEF WatchInit, OriginsKnown, IsThere
  <1>4. Replacing /\ DiskKept /\ OneVisible /\ KnownImported /\ HiddenIsReplaced
    BY <1>1 DEF WatchInit, Replacing, DiskKept, OneVisible, KnownImported, HiddenIsReplaced, IsThere
  <1> QED
    BY <1>2, <1>3, <1>4 DEF WatchInv

LEMMA WatchInvNext == WatchInv /\ [WatchNext]_watchVars => WatchInv'
  <1> SUFFICES ASSUME WatchInv, [WatchNext]_watchVars PROVE WatchInv'
    OBVIOUS
  <1>1. CASE UNCHANGED watchVars
    <2>1. UNCHANGED <<disk, sig, writes, used, shared, imports, hidden, ingested, current, forgotten, abandoned,
                      scanAt, path, found>>
      BY <1>1 DEF watchVars, files, database, scan, memory, watchHistory
    <2>2. Imported' = Imported /\ Visible' = Visible
      BY <2>1 DEF Imported, Visible
    <2>3. WatchShape' /\ OriginsKnown' /\ Replacing'
      BY <2>1, <2>2 DEF WatchInv, WatchShape, OriginsKnown, Replacing, IsThere, ImportOf
    <2>4. DiskKept' /\ OneVisible' /\ KnownImported' /\ HiddenIsReplaced'
      BY <2>1, <2>2 DEF WatchInv, DiskKept, OneVisible, KnownImported, HiddenIsReplaced, Superseding,
         IsThere, Unchanged
    <2> QED
      BY <2>3, <2>4 DEF WatchInv
  <1>2. ASSUME NEW f \in Files, NEW c \in FileContents, Write(f, c) PROVE WatchInv'
    BY <1>2, WriteKeeps
  <1>3. ASSUME NEW f \in Files, Remove(f) \/ GracePasses(f) \/ FileStep(f) PROVE WatchInv'
    BY <1>3, RemoveKeeps, GracePassesKeeps, FileStepKeeps
  <1>4. CASE StartScan \/ EndScan \/ ImportFails \/ ImportGone
    BY <1>4, StartScanKeeps, EndScanKeeps, ImportFailsKeeps
  <1>5. CASE ImportNew \/ ImportKnown
    BY <1>5, ImportNewKeeps, ImportKnownKeeps
  <1>6. CASE Supersede \/ SupersedeFails \/ EmbedFails \/ RestartWatcher
    BY <1>6, SupersedeKeeps, SupersedeFailsKeeps, RestartKeeps
  <1> QED
    BY <1>1, <1>2, <1>3, <1>4, <1>5, <1>6 DEF WatchNext, ScanStep

(* However often files are written, removed and scanned, whatever content   *)
(* they get, whatever is written between the stat of a file and its import, *)
(* and wherever imports raise or the server dies: of each file a search     *)
(* finds the version the watcher has taken it in with, if that came only    *)
(* once, no older one but those it was made to forget, and never nothing    *)
(* unless the file shared an import (watch_twins shows that case).          *)
THEOREM FoundAsTheyAreHolds == WatchSpec => []FoundAsTheyAre
  <1>1. WatchInv => FoundAsTheyAre
    <2> SUFFICES ASSUME WatchInv PROVE FoundAsTheyAre
      OBVIOUS
    <2>1. StaleHidden
      BY DEF WatchInv, OneVisible, Superseding, StaleHidden
    <2>2. CurrentVisible
      <3> SUFFICES ASSUME NEW f \in Files, IsThere(f), Unchanged(f), sig[f] \notin abandoned, disk[f] \notin shared
                   PROVE  \E i \in Visible : i.content = disk[f]
        BY DEF CurrentVisible, TakenIn, IsFound
      <3>1. disk[f] \in Imported
        BY DEF WatchInv, KnownImported
      <3>2. disk[f] \notin hidden
        BY <3>1 DEF WatchInv, DiskKept
      <3> QED
        BY <3>1, <3>2 DEF Imported, Visible
    <2> QED
      BY <2>1, <2>2 DEF WatchInv, FoundAsTheyAre
  <1>2. WatchInit => WatchInv
    BY WatchInvInit
  <1>3. WatchInv /\ [WatchNext]_watchVars => WatchInv'
    BY WatchInvNext
  <1> QED
    BY <1>1, <1>2, <1>3, PTL DEF WatchSpec
=============================================================================
