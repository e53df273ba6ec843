----------------------------- MODULE MemoryProofs -----------------------------
(***************************************************************************)
(* Proofs about the life of memories on a node, for any memories, texts,   *)
(* triples, threads and bounds.                                            *)
(***************************************************************************)
EXTENDS MemoryLife, TLAPS

-----------------------------------------------------------------------------
(* The states there are.                                                   *)
LEMMA NoOneElse == NoOne \notin Memories /\ NoOne \notin Contents /\ NoOne \notin Objects
  BY NothingElse

Texts == Contents \cup {NoOne}
Kinds == {"note", "capture", "import"} \cup {Stored[m] : m \in DOMAIN Stored}
Rows == [at : {"none", "live", "deleted", "gone"}, text : Texts, tag : BOOLEAN,
         object : Objects \cup {NoOne}, over : Memories \cup {NoOne}, kind : Kinds]
Versions == Texts \X BOOLEAN

Edits == [op : {"edit"}, memory : Memories, text : Texts, tag : BOOLEAN, old : Versions, embed : BOOLEAN]
Puts == [op : {"put"}, memory : Memories, text : Contents]
Merges == [op : {"merge"}, memory : Memories, text : Contents, members : SUBSET Memories]

MemType ==
    /\ memRow \in [Memories -> Rows]
    /\ revisions \in [Memories -> SUBSET Versions]
    /\ vecOf \in [Memories -> Texts]
    /\ jobs \subseteq [memory : Memories, text : Texts]
    /\ doing \in [MemoryThreads -> {Idle} \cup Edits \cup Puts \cup Merges]
    /\ written \in [Memories -> SUBSET Versions]
    /\ unkept \in [Memories -> SUBSET Versions]
    /\ overtaken \subseteq Memories /\ cleared \subseteq Memories

LEMMA RowFields ==
  ASSUME NEW R \in [Memories -> Rows], NEW m \in Memories
  PROVE  /\ R[m] \in Rows /\ R[m].at \in {"none", "live", "deleted", "gone"} /\ R[m].text \in Texts
         /\ R[m].tag \in BOOLEAN /\ R[m].object \in Objects \cup {NoOne}
         /\ R[m].over \in Memories \cup {NoOne} /\ R[m].kind \in Kinds
         /\ Tracked(R, m) \in Versions
  BY DEF Rows, Tracked, Versions

\* The rows R and S differ in that of m only.
AllBut(R, S, m) == S \in [Memories -> Rows] /\ \A n \in Memories : n # m => S[n] = R[n]

\* In S the row of m is one just inserted.
IsInsert(R, S, m, x, o) ==
    AllBut(R, S, m) /\ S[m].at = "live" /\ S[m].text = x /\ S[m].object = o /\ S[m].over = NoOne

LEMMA InsertedRow ==
  ASSUME NEW R \in [Memories -> Rows], NEW m \in Memories, NEW x \in Contents,
         NEW o \in Objects \cup {NoOne}, NEW kind \in Kinds
  PROVE  IsInsert(R, Inserted(R, m, x, o, kind), m, x, o)
  <1> DEFINE r == [NoRow EXCEPT !.at = "live", !.text = x, !.object = o, !.kind = kind]
  <1>1. NoRow \in Rows
    BY DEF NoRow, Rows, Texts, Kinds
  <1>2. NoRow.over = NoOne
    BY DEF NoRow
  <1>3. r \in Rows /\ r.at = "live" /\ r.text = x /\ r.object = o /\ r.over = NoOne
    BY <1>1, <1>2 DEF Rows, Texts
  <1>4. Inserted(R, m, x, o, kind) = [R EXCEPT ![m] = r]
    BY DEF Inserted
  <1> HIDE DEF r
  <1> QED
    BY <1>3, <1>4 DEF IsInsert, AllBut

\* S is R but that m hides the memories of C, or R as it is for those that are gone.
Hides(R, S, C, m) ==
    /\ S \in [Memories -> Rows]
    /\ \A n \in Memories : /\ S[n].at = R[n].at /\ Tracked(S, n) = Tracked(R, n)
                           /\ S[n].text = R[n].text /\ S[n].object = R[n].object
                           /\ S[n].over = IF n \in C THEN m ELSE R[n].over

\* Superseding hides what the new fact contradicts and changes nothing else.
LEMMA SupersedingRows ==
  ASSUME NEW R \in [Memories -> Rows], NEW m \in Memories, NEW o \in Objects \cup {NoOne}
  PROVE  Hides(R, Superseding(R, m, o), Contradicted(R, m, o), m)
  <1> DEFINE S == Superseding(R, m, o)
  <1>1. S = [n \in Memories |-> IF n \in Contradicted(R, m, o) THEN [R[n] EXCEPT !.over = m] ELSE R[n]]
    BY DEF Superseding
  <1>2. ASSUME NEW n \in Memories
        PROVE  LET r == [R[n] EXCEPT !.over = m] IN
                 /\ r \in Rows /\ r.at = R[n].at /\ r.text = R[n].text /\ r.tag = R[n].tag
                 /\ r.object = R[n].object /\ r.over = m
    BY DEF Rows
  <1> HIDE DEF S
  <1>3. S \in [Memories -> Rows]
    BY <1>1, <1>2
  <1>4. ASSUME NEW n \in Memories
        PROVE  /\ S[n].at = R[n].at /\ S[n].text = R[n].text /\ S[n].tag = R[n].tag
               /\ S[n].object = R[n].object
               /\ S[n].over = IF n \in Contradicted(R, m, o) THEN m ELSE R[n].over
    BY <1>1, <1>2
  <1> QED
    BY <1>3, <1>4 DEF S, Tracked, Hides

LEMMA NoteIsKind == "note" \in Kinds /\ "capture" \in Kinds
  BY DEF Kinds

LEMMA CommitType ==
  ASSUME MemType, NEW R \in [Memories -> Rows], CommitEdit(R)
  PROVE  memRow' \in [Memories -> Rows] /\ written' \in [Memories -> SUBSET Versions]
  BY RowFields DEF MemType, CommitEdit

LEMMA SpawnType ==
  ASSUME MemType, NEW new \in SUBSET (Memories \X Texts), Spawn(new)
  PROVE  jobs' \subseteq [memory : Memories, text : Texts] /\ overtaken' \subseteq Memories
  BY DEF MemType, Spawn

\* What an edit or a merge, and a dashboard's edit, has read.
LEMMA DoingFields ==
  ASSUME MemType, NEW t \in MemoryThreads
  PROVE  /\ doing[t].op = "edit" => doing[t] \in Edits
         /\ doing[t].op = "merge" => doing[t] \in Merges
         /\ doing[t].op = "put" => doing[t] \in Puts
  <1>1. doing[t] \in {Idle} \cup Edits \cup Puts \cup Merges
    BY DEF MemType
  <1> QED
    BY <1>1 DEF Idle, Edits, Puts, Merges

\* In S the row of m has the text x, and nothing changed but for its tag.
IsEdit(R, S, m, x) ==
    /\ AllBut(R, S, m) /\ S[m].at = R[m].at /\ S[m].text = x
    /\ S[m].object = R[m].object /\ S[m].over = R[m].over

\* The row of one memory with another text or tag.
Rewritten(R, m, x, tag) == [R EXCEPT ![m].text = x, ![m].tag = tag]

LEMMA RewrittenRow ==
  ASSUME NEW R \in [Memories -> Rows], NEW m \in Memories, NEW x \in Texts, NEW tag \in BOOLEAN
  PROVE  IsEdit(R, Rewritten(R, m, x, tag), m, x) /\ Rewritten(R, m, x, tag)[m].tag = tag
  <1> DEFINE r == [R[m] EXCEPT !.text = x, !.tag = tag]
  <1>1. R[m] \in Rows
    OBVIOUS
  <1>2. /\ r \in Rows /\ r.at = R[m].at /\ r.text = x /\ r.tag = tag
        /\ r.object = R[m].object /\ r.over = R[m].over
    BY <1>1 DEF Rows
  <1>3. Rewritten(R, m, x, tag) = [R EXCEPT ![m] = r]
    BY DEF Rewritten
  <1> HIDE DEF r
  <1> QED
    BY <1>2, <1>3 DEF IsEdit, AllBut

LEMMA RowWithText ==
  ASSUME NEW R \in [Memories -> Rows], NEW m \in Memories, NEW x \in Texts
  PROVE  IsEdit(R, [R EXCEPT ![m].text = x], m, x)
  <1> DEFINE r == [R[m] EXCEPT !.text = x]
  <1>1. R[m] \in Rows
    OBVIOUS
  <1>2. /\ r \in Rows /\ r.at = R[m].at /\ r.text = x /\ r.tag = R[m].tag
        /\ r.object = R[m].object /\ r.over = R[m].over
    BY <1>1 DEF Rows
  <1> HIDE DEF r
  <1>3. [R EXCEPT ![m].text = x] = [R EXCEPT ![m] = r]
    BY DEF r
  <1> QED
    BY <1>2, <1>3 DEF IsEdit, AllBut

LEMMA RowWithTag ==
  ASSUME NEW R \in [Memories -> Rows], NEW m \in Memories
  PROVE  IsEdit(R, [R EXCEPT ![m].tag = ~@], m, R[m].text)
  <1> DEFINE r == [R[m] EXCEPT !.tag = ~@]
  <1>1. R[m] \in Rows
    OBVIOUS
  <1>2. /\ r \in Rows /\ r.at = R[m].at /\ r.text = R[m].text
        /\ r.object = R[m].object /\ r.over = R[m].over
    BY <1>1 DEF Rows
  <1> HIDE DEF r
  <1>3. [R EXCEPT ![m].tag = ~@] = [R EXCEPT ![m] = r]
    BY DEF r
  <1> QED
    BY <1>2, <1>3 DEF IsEdit, AllBut

\* In S the row of m has the object o and is hidden by k.
IsRelated(R, S, m, o, k) ==
    /\ AllBut(R, S, m) /\ S[m].at = R[m].at /\ Tracked(S, m) = Tracked(R, m) /\ S[m].text = R[m].text
    /\ S[m].object = o /\ S[m].over = k

\* A triple that is completed, and a row whose supersession is undone.
LEMMA RowWithObject ==
  ASSUME NEW R \in [Memories -> Rows], NEW m \in Memories, NEW o \in Objects \cup {NoOne}
  PROVE  IsRelated(R, [R EXCEPT ![m].object = o], m, o, R[m].over)
  <1> DEFINE r == [R[m] EXCEPT !.object = o]
  <1>1. R[m] \in Rows
    OBVIOUS
  <1>2. /\ r \in Rows /\ r.at = R[m].at /\ r.text = R[m].text /\ r.tag = R[m].tag
        /\ r.object = o /\ r.over = R[m].over
    BY <1>1 DEF Rows
  <1> HIDE DEF r
  <1>3. [R EXCEPT ![m].object = o] = [R EXCEPT ![m] = r]
    BY DEF r
  <1> QED
    BY <1>2, <1>3 DEF IsRelated, AllBut, Tracked

LEMMA RowUnhidden ==
  ASSUME NEW R \in [Memories -> Rows], NEW m \in Memories
  PROVE  IsRelated(R, [R EXCEPT ![m].over = NoOne], m, R[m].object, NoOne)
  <1> DEFINE r == [R[m] EXCEPT !.over = NoOne]
  <1>1. R[m] \in Rows
    OBVIOUS
  <1>2. /\ r \in Rows /\ r.at = R[m].at /\ r.text = R[m].text /\ r.tag = R[m].tag
        /\ r.object = R[m].object /\ r.over = NoOne
    BY <1>1 DEF Rows
  <1> HIDE DEF r
  <1>3. [R EXCEPT ![m].over = NoOne] = [R EXCEPT ![m] = r]
    BY DEF r
  <1> QED
    BY <1>2, <1>3 DEF IsRelated, AllBut, Tracked

\* In S the row of m is deleted; it keeps what it has.
IsPurge(R, S, m) == AllBut(R, S, m) /\ S[m].at \in {"deleted", "gone"} /\ Tracked(S, m) = Tracked(R, m)

LEMMA PurgedRow ==
  ASSUME NEW R \in [Memories -> Rows], NEW m \in Memories
  PROVE  IsPurge(R, Purged(R, m), m)
  <1> DEFINE to == IF Soft THEN "deleted" ELSE "gone"
             r == [R[m] EXCEPT !.at = to]
  <1>1. R[m] \in Rows /\ to \in {"deleted", "gone"}
    OBVIOUS
  <1> HIDE DEF to
  <1>2. r \in Rows /\ r.at = to /\ r.text = R[m].text /\ r.tag = R[m].tag
    BY <1>1 DEF Rows
  <1> HIDE DEF r
  <1>3. Purged(R, m) = [R EXCEPT ![m] = r]
    BY DEF r, to, Purged
  <1> QED
    BY <1>1, <1>2, <1>3 DEF IsPurge, AllBut, Tracked

\* The members of a merge, hidden by the canonical memory.
LEMMA HiddenRows ==
  ASSUME NEW R \in [Memories -> Rows], NEW m \in Memories, NEW members \in SUBSET Memories
  PROVE  Hides(R, [n \in Memories |-> IF n \in members /\ Exists(R, n) THEN [R[n] EXCEPT !.over = m] ELSE R[n]],
               {n \in members : Exists(R, n)}, m)
  <1> DEFINE S == [n \in Memories |-> IF n \in members /\ Exists(R, n) THEN [R[n] EXCEPT !.over = m] ELSE R[n]]
  <1>1. ASSUME NEW n \in Memories
        PROVE  LET r == [R[n] EXCEPT !.over = m] IN
                 /\ r \in Rows /\ r.at = R[n].at /\ r.text = R[n].text /\ r.tag = R[n].tag
                 /\ r.object = R[n].object /\ r.over = m
    BY DEF Rows
  <1>2. \A n \in Memories : S[n] = IF n \in members /\ Exists(R, n) THEN [R[n] EXCEPT !.over = m] ELSE R[n]
    OBVIOUS
  <1>3. S = [n \in Memories |-> S[n]]
    OBVIOUS
  <1> HIDE DEF S
  <1>4. S \in [Memories -> Rows]
    BY <1>1, <1>2, <1>3
  <1>5. ASSUME NEW n \in Memories
        PROVE  /\ S[n].at = R[n].at /\ S[n].text = R[n].text /\ S[n].tag = R[n].tag
               /\ S[n].object = R[n].object
               /\ S[n].over = IF n \in members /\ Exists(R, n) THEN m ELSE R[n].over
    BY <1>1, <1>2
  <1>6. \A n \in Memories : Tracked(S, n) = Tracked(R, n)
    BY <1>5 DEF Tracked
  <1> QED
    BY <1>4, <1>5, <1>6 DEF S, Hides

LEMMA TypeInit == MemInit => MemType
  <1> SUFFICES ASSUME MemInit PROVE MemType
    OBVIOUS
  <1> PICK text \in [DOMAIN Stored -> Contents] :
         /\ memRow = [m \in Memories |-> IF m \notin DOMAIN Stored THEN NoRow
                     ELSE [NoRow EXCEPT !.at = "live", !.text = text[m], !.kind = Stored[m]]]
         /\ vecOf = [m \in Memories |-> IF m \in DOMAIN Stored THEN text[m] ELSE NoOne]
         /\ written = [m \in Memories |-> IF m \in DOMAIN Stored THEN {<<text[m], FALSE>>} ELSE {}]
    BY DEF MemInit
  <1>1. NoRow \in Rows
    BY DEF NoRow, Rows, Texts, Kinds
  <1>2. ASSUME NEW m \in DOMAIN Stored
        PROVE  [NoRow EXCEPT !.at = "live", !.text = text[m], !.kind = Stored[m]] \in Rows
    <2>1. text[m] \in Texts /\ Stored[m] \in Kinds
      BY DEF Texts, Kinds
    <2> QED
      BY <1>1, <2>1 DEF Rows
  <1>3. memRow \in [Memories -> Rows]
    BY <1>1, <1>2
  <1>4. vecOf \in [Memories -> Texts]
    BY DEF Texts
  <1>5. written \in [Memories -> SUBSET Versions]
    <2>1. \A m \in DOMAIN Stored : <<text[m], FALSE>> \in Versions
      BY DEF Versions, Texts
    <2> QED
      BY <2>1
  <1> QED
    BY <1>3, <1>4, <1>5 DEF MemInit, MemType

\* What CommitEdit, Spawn and the rest of a step leave is of the right kind.
LEMMA TypeOfParts ==
  ASSUME memRow' \in [Memories -> Rows] /\ written' \in [Memories -> SUBSET Versions],
         jobs' \subseteq [memory : Memories, text : Texts] /\ overtaken' \subseteq Memories,
         revisions' \in [Memories -> SUBSET Versions], vecOf' \in [Memories -> Texts],
         doing' \in [MemoryThreads -> {Idle} \cup Edits \cup Puts \cup Merges],
         unkept' \in [Memories -> SUBSET Versions], cleared' \subseteq Memories
  PROVE  MemType'
  BY DEF MemType

LEMMA TypeStep == MemType /\ [MemNext]_memVars => MemType'
  <1> SUFFICES ASSUME MemType, [MemNext]_memVars PROVE MemType'
    OBVIOUS
  <1>0. /\ memRow \in [Memories -> Rows] /\ written \in [Memories -> SUBSET Versions]
        /\ jobs \subseteq [memory : Memories, text : Texts] /\ overtaken \subseteq Memories
        /\ revisions \in [Memories -> SUBSET Versions] /\ vecOf \in [Memories -> Texts]
        /\ doing \in [MemoryThreads -> {Idle} \cup Edits \cup Puts \cup Merges]
        /\ unkept \in [Memories -> SUBSET Versions] /\ cleared \subseteq Memories
    BY DEF MemType
  <1> USE RowFields, NoteIsKind
  <1> USE DEF Texts
  <1>1. ASSUME NEW m \in Memories, NEW x \in Contents, NEW o \in Objects \cup {NoOne}, AddMemory(m, x, o)
        PROVE  MemType'
    <2> DEFINE R == Superseding(Inserted(memRow, m, x, o, "note"), m, o)
    <2>1. R \in [Memories -> Rows]
      BY <1>0, InsertedRow, SupersedingRows DEF IsInsert, AllBut, Hides
    <2> HIDE DEF R
    <2>2. CommitEdit(R) /\ Spawn({<<m, x>>}) /\ UNCHANGED <<revisions, vecOf, doing, unkept, cleared, blind>>
      BY <1>1 DEF AddMemory, R
    <2> QED
      BY <1>0, <2>1, <2>2, CommitType, SpawnType, TypeOfParts
  <1>2. ASSUME NEW m \in Memories, NEW n \in Memories, NEW x \in Contents, NEW y \in Contents, CaptureTurn(m, n, x, y)
        PROVE  MemType'
    <2> DEFINE R == Inserted(Inserted(memRow, m, x, NoOne, "capture"), n, y, NoOne, "capture")
    <2>1. R \in [Memories -> Rows]
      BY <1>0, InsertedRow DEF IsInsert, AllBut
    <2> HIDE DEF R
    <2>2. CommitEdit(R) /\ Spawn({<<m, x>>, <<n, y>>}) /\ UNCHANGED <<revisions, vecOf, doing, unkept, cleared, blind>>
      BY <1>2 DEF CaptureTurn, R
    <2> QED
      BY <1>0, <2>1, <2>2, CommitType, SpawnType, TypeOfParts
  <1>3. ASSUME NEW c \in Memories, NEW m \in Memories, NEW n \in Memories, NEW x \in Contents,
               NEW o \in Objects \cup {NoOne}, NEW q \in Objects \cup {NoOne}, Decompose(c, m, n, x, o, q)
        PROVE  MemType'
    <2> DEFINE F == Superseding(Inserted(memRow, m, x, o, "note"), m, o)
               R == Superseding(Inserted(F, n, x, q, "note"), n, q)
    <2>1. F \in [Memories -> Rows]
      BY <1>0, InsertedRow, SupersedingRows DEF IsInsert, AllBut, Hides
    <2> HIDE DEF F
    <2>2. R \in [Memories -> Rows]
      BY <2>1, InsertedRow, SupersedingRows DEF IsInsert, AllBut, Hides
    <2> HIDE DEF R
    <2>3. CommitEdit(R) /\ Spawn({<<m, x>>, <<n, x>>}) /\ UNCHANGED <<revisions, vecOf, doing, unkept, cleared, blind>>
      BY <1>3 DEF Decompose, R, F
    <2> QED
      BY <1>0, <2>2, <2>3, CommitType, SpawnType, TypeOfParts
  <1>4. ASSUME NEW m \in Memories, NEW n \in Memories, NEW x \in Contents, Normalize(m, n, x)
        PROVE  MemType'
    <2> DEFINE R == Inserted(memRow, n, x, NoOne, "note")
    <2>1. R \in [Memories -> Rows]
      BY <1>0, InsertedRow DEF IsInsert, AllBut
    <2> HIDE DEF R
    <2>2. CommitEdit(R) /\ Spawn({<<n, x>>}) /\ UNCHANGED <<revisions, vecOf, doing, unkept, cleared, blind>>
      BY <1>4 DEF Normalize, R
    <2> QED
      BY <1>0, <2>1, <2>2, CommitType, SpawnType, TypeOfParts
  <1>5. ASSUME NEW m \in Memories, NEW o \in Objects, Annotate(m, o)
        PROVE  MemType'
    <2> DEFINE R == Superseding([memRow EXCEPT ![m].object = o], m, o)
    <2>1. R \in [Memories -> Rows]
      BY <1>0, RowWithObject, SupersedingRows DEF Hides, IsRelated, AllBut
    <2> HIDE DEF R
    <2>2. CommitEdit(R) /\ NoSpawn /\ UNCHANGED <<revisions, vecOf, doing, unkept, cleared>>
      BY <1>5 DEF Annotate, R
    <2> QED
      BY <1>0, <2>1, <2>2, CommitType, TypeOfParts DEF NoSpawn
  <1>6. ASSUME NEW m \in Memories, ClearSuperseded(m)
        PROVE  MemType'
    <2> DEFINE R == [memRow EXCEPT ![m].over = NoOne]
    <2>1. R \in [Memories -> Rows]
      BY <1>0, RowUnhidden DEF IsRelated, AllBut
    <2> HIDE DEF R
    <2>2. CommitEdit(R) /\ NoSpawn /\ cleared' = cleared \cup {m} /\ UNCHANGED <<revisions, vecOf, doing, unkept>>
      BY <1>6 DEF ClearSuperseded, R
    <2> QED
      BY <1>0, <2>1, <2>2, CommitType, TypeOfParts DEF NoSpawn
  <1>7. ASSUME NEW m \in Memories, Deleted(m)
        PROVE  MemType'
    <2>1. memRow' \in [Memories -> Rows]
      BY <1>0, <1>7, PurgedRow DEF Deleted, IsPurge, AllBut
    <2> QED
      BY <1>0, <1>7, <2>1, TypeOfParts DEF Deleted, memHistory
  <1>8. ASSUME NEW m \in Memories, NEW x \in Texts, NEW tag \in BOOLEAN, NEW embed \in BOOLEAN,
               EditRead(m, x, tag, embed)
        PROVE  MemType'
    <2>1. [op |-> "edit", memory |-> m, text |-> x, tag |-> tag, old |-> Tracked(memRow, m), embed |-> embed] \in Edits
      BY <1>0 DEF Edits
    <2> QED
      BY <1>0, <1>8, <2>1, TypeOfParts DEF EditRead, memHistory
  <1>9. CASE EditWrite
    <2> DEFINE d == doing[Loop]
               R == Rewritten(memRow, d.memory, d.text, d.tag)
    <2>1. d \in Edits
      BY <1>9, DoingFields DEF EditWrite, MemoryThreads
    <2>2. d.memory \in Memories /\ d.text \in Texts /\ d.tag \in BOOLEAN /\ d.old \in Versions
      BY <2>1 DEF Edits
    <2>4. CommitEdit(R) \/ UNCHANGED <<memRow, written>>
      BY <1>9 DEF EditWrite, Rewritten
    <2> HIDE DEF d
    <2>3. R \in [Memories -> Rows]
      BY <1>0, <2>2, RewrittenRow DEF IsEdit, AllBut
    <2> HIDE DEF R
    <2>5. memRow' \in [Memories -> Rows] /\ written' \in [Memories -> SUBSET Versions]
      BY <1>0, <2>3, <2>4, CommitType
    <2>6. \/ Spawn({<<d.memory, d.text>>})
          \/ overtaken' \in {overtaken, overtaken \cup {d.memory}} /\ jobs' = jobs
      BY <1>9 DEF EditWrite, d
    <2>7. jobs' \subseteq [memory : Memories, text : Texts] /\ overtaken' \subseteq Memories
      BY <1>0, <2>2, <2>6, SpawnType
    <2>8. revisions' \in [Memories -> SUBSET Versions]
      BY <1>0, <1>9, <2>2 DEF EditWrite, d, Snapshots
    <2>9. unkept' \in [Memories -> SUBSET Versions]
      BY <1>0, <1>9, <2>2 DEF EditWrite, d
    <2> QED
      BY <1>0, <1>9, <2>5, <2>7, <2>8, <2>9, TypeOfParts DEF EditWrite
  <1>10. ASSUME NEW m \in Memories, NEW x \in Contents, MergeRead(m, x)
         PROVE  MemType'
    <2>1. [op |-> "merge", memory |-> m, text |-> x, members |-> Members(Cluster(m), m)] \in Merges
      BY DEF Merges, Members, Cluster
    <2> QED
      BY <1>0, <1>10, <2>1, TypeOfParts DEF MergeRead, memHistory
  <1>11. CASE MergeWrite
    <2> DEFINE d == doing[Loop]
               P == IF Exists(memRow, d.memory) THEN [memRow EXCEPT ![d.memory].text = d.text] ELSE memRow
               R == [n \in Memories |-> IF n \in d.members /\ Exists(P, n) THEN [P[n] EXCEPT !.over = d.memory] ELSE P[n]]
    <2>1. d \in Merges
      BY <1>11, DoingFields DEF MergeWrite, MemoryThreads
    <2>2. d.memory \in Memories /\ d.text \in Texts /\ d.members \in SUBSET Memories
      BY <2>1 DEF Merges
    <2> HIDE DEF d
    <2>3. P \in [Memories -> Rows]
      BY <1>0, <2>2, RowWithText DEF IsEdit, AllBut
    <2> HIDE DEF P
    <2>4. R \in [Memories -> Rows]
      BY <2>2, <2>3, HiddenRows DEF Hides
    <2> HIDE DEF R
    <2>5. CommitEdit(R) /\ Spawn({<<d.memory, d.text>>})
      BY <1>11 DEF MergeWrite, R, P, d
    <2>6. unkept' \in [Memories -> SUBSET Versions]
      BY <1>0, <1>11, <2>2 DEF MergeWrite, d
    <2>7. UNCHANGED <<revisions, vecOf, cleared>> /\ doing' = [doing EXCEPT ![Loop] = Idle]
      BY <1>11 DEF MergeWrite
    <2>8. memRow' \in [Memories -> Rows] /\ written' \in [Memories -> SUBSET Versions]
      BY <2>4, <2>5, CommitType
    <2>9. jobs' \subseteq [memory : Memories, text : Texts] /\ overtaken' \subseteq Memories
      BY <2>2, <2>5, SpawnType
    <2> QED
      BY <1>0, <2>6, <2>7, <2>8, <2>9, TypeOfParts
  <1>12. ASSUME NEW w \in Workers, NEW m \in Memories, NEW x \in Contents, PutRead(w, m, x)
         PROVE  MemType'
    <2>1. [op |-> "put", memory |-> m, text |-> x] \in Puts
      BY DEF Puts
    <2> QED
      BY <1>0, <1>12, <2>1, TypeOfParts DEF PutRead, memHistory
  <1>13. ASSUME NEW w \in Workers, PutWrite(w)
         PROVE  MemType'
    <2> DEFINE d == doing[w]
               R == [memRow EXCEPT ![d.memory].text = d.text]
    <2>1. d \in Puts
      BY <1>13, DoingFields DEF PutWrite, MemoryThreads
    <2>2. d.memory \in Memories /\ d.text \in Texts
      BY <2>1 DEF Puts
    <2> HIDE DEF d
    <2>3. R \in [Memories -> Rows]
      BY <1>0, <2>2, RowWithText DEF IsEdit, AllBut
    <2> HIDE DEF R
    <2>4. \/ CommitEdit(R) /\ Spawn({<<d.memory, d.text>>})
          \/ UNCHANGED <<memRow, written>> /\ NoSpawn
      BY <1>13 DEF PutWrite, R, d
    <2>5. unkept' \in [Memories -> SUBSET Versions]
      BY <1>0, <1>13, <2>2 DEF PutWrite, d
    <2>6. memRow' \in [Memories -> Rows] /\ written' \in [Memories -> SUBSET Versions]
      BY <1>0, <2>3, <2>4, CommitType
    <2>7. jobs' \subseteq [memory : Memories, text : Texts] /\ overtaken' \subseteq Memories
      BY <1>0, <2>2, <2>4, SpawnType DEF NoSpawn
    <2> QED
      BY <1>0, <1>13, <2>5, <2>6, <2>7, TypeOfParts DEF PutWrite
  <1>14. ASSUME NEW w \in Workers, NEW m \in Memories, NEW x \in Contents, ApiAdd(w, m, x)
         PROVE  MemType'
    <2> DEFINE R == Inserted(memRow, m, x, NoOne, "note")
    <2>1. R \in [Memories -> Rows]
      BY <1>0, InsertedRow DEF IsInsert, AllBut
    <2> HIDE DEF R
    <2>2. CommitEdit(R) /\ Spawn({<<m, x>>}) /\ UNCHANGED <<revisions, vecOf, doing, unkept, cleared, blind>>
      BY <1>14 DEF ApiAdd, R
    <2> QED
      BY <1>0, <2>1, <2>2, CommitType, SpawnType, TypeOfParts
  <1>15. ASSUME NEW w \in Workers, NEW m \in Memories, BulkTag(w, m)
         PROVE  MemType'
    <2> DEFINE R == [memRow EXCEPT ![m].tag = ~@]
    <2>1. R \in [Memories -> Rows]
      BY <1>0, RowWithTag DEF IsEdit, AllBut
    <2> HIDE DEF R
    <2>2. CommitEdit(R) /\ NoSpawn /\ UNCHANGED <<revisions, vecOf, doing, cleared, blind>>
      BY <1>15 DEF BulkTag, R
    <2>3. unkept' \in [Memories -> SUBSET Versions]
      BY <1>0, <1>15 DEF BulkTag
    <2> QED
      BY <1>0, <2>1, <2>2, <2>3, CommitType, TypeOfParts DEF NoSpawn
  <1>16. ASSUME NEW j \in jobs, Embed(j)
         PROVE  MemType'
    <2>1. vecOf' \in [Memories -> Texts]
      BY <1>0, <1>16 DEF Embed
    <2> QED
      BY <1>0, <1>16, <2>1, TypeOfParts DEF Embed, memHistory
  <1>17. ASSUME NEW j \in jobs, EmbedFail(j)
         PROVE  MemType'
    BY <1>0, <1>17, TypeOfParts DEF EmbedFail
  <1>18. ASSUME NEW m \in Memories, ReindexAll(m)
         PROVE  MemType'
    <2>1. vecOf' \in [Memories -> Texts]
      BY <1>0, <1>18 DEF ReindexAll
    <2>2. jobs' \subseteq [memory : Memories, text : Texts] /\ overtaken' \subseteq Memories
      BY <1>0, <1>18, SpawnType DEF ReindexAll
    <2> QED
      BY <1>0, <1>18, <2>1, <2>2, TypeOfParts DEF ReindexAll
  <1>19. ASSUME NEW m \in Memories, CompactRevisions(m)
         PROVE  MemType'
    <2>1. PICK r \in revisions[m] : /\ revisions' = [revisions EXCEPT ![m] = @ \ {r}]
                                    /\ unkept' = [unkept EXCEPT ![m] = @ \cup {r}]
      BY <1>19 DEF CompactRevisions
    <2>2. r \in Versions
      BY <1>0
    <2> QED
      BY <1>0, <1>19, <2>1, <2>2, TypeOfParts DEF CompactRevisions
  <1>20. CASE UNCHANGED memVars
    BY <1>0, <1>20, TypeOfParts DEF memVars
  <1>21. ASSUME NEW m \in Memories, NEW x \in Contents, Update(m, x)
         PROVE  MemType'
    BY <1>0, <1>8, <1>21 DEF Update
  <1>22. ASSUME NEW m \in Memories, NEW r \in revisions[m], Revert(m, r)
         PROVE  MemType'
    <2>1. r[1] \in Texts /\ r[2] \in BOOLEAN
      BY <1>0 DEF Versions
    <2> QED
      BY <1>8, <1>22, <2>1 DEF Revert
  <1> QED
    BY <1>1, <1>2, <1>3, <1>4, <1>5, <1>6, <1>7, <1>9, <1>10, <1>11, <1>12, <1>13, <1>14, <1>15, <1>16,
       <1>17, <1>18, <1>19, <1>20, <1>21, <1>22
    DEF MemNext, Delete, ApiDelete

-----------------------------------------------------------------------------
(* What a memory has said can be had back.                                 *)
\* What has not been added has said nothing.
SilentBefore == \A m \in Memories : memRow[m].at = "none" => written[m] = {}
KeptInv == KeptText /\ SilentBefore

\* A commit keeps it if each row is added, or stays what it is, or is kept otherwise.
LEMMA KeptByCommit ==
  ASSUME MemType, KeptInv, NEW R \in [Memories -> Rows], CommitEdit(R),
         \A m \in Memories : revisions[m] \cup unkept[m] \subseteq revisions'[m] \cup unkept'[m],
         \A m \in Memories :
            \/ memRow[m].at = "none" /\ R[m].at = "live"
            \/ /\ R[m].at = memRow[m].at
               /\ Tracked(R, m) = Tracked(memRow, m) \/ Tracked(memRow, m) \in revisions'[m] \cup unkept'[m]
  PROVE  KeptInv'
  <1>0. /\ memRow' = R
        /\ \A m \in Memories : written'[m] = IF Exists(R, m) THEN written[m] \cup {Tracked(R, m)} ELSE written[m]
    BY DEF CommitEdit
  <1>1. ASSUME NEW m \in Memories, R[m].at # "gone"
        PROVE  written'[m] \subseteq {Tracked(R, m)} \cup revisions'[m] \cup unkept'[m]
    <2>1. CASE memRow[m].at = "none"
      BY <1>0, <2>1 DEF KeptInv, SilentBefore
    <2>2. CASE memRow[m].at # "none"
      <3>1. written[m] \subseteq {Tracked(memRow, m)} \cup revisions[m] \cup unkept[m]
        BY <1>1, <2>2 DEF KeptInv, KeptText
      <3> QED
        BY <1>0, <2>2, <3>1
    <2> QED
      BY <2>1, <2>2
  <1>2. KeptText'
    BY <1>0, <1>1 DEF KeptText, Tracked
  <1>3. SilentBefore'
    BY <1>0 DEF KeptInv, SilentBefore, Exists
  <1> QED
    BY <1>2, <1>3 DEF KeptInv

\* Nothing that counts has changed.
LEMMA KeptByNoCommit ==
  ASSUME KeptInv, UNCHANGED <<memRow, written>>,
         \A m \in Memories : revisions[m] \cup unkept[m] \subseteq revisions'[m] \cup unkept'[m]
  PROVE  KeptInv'
  BY DEF KeptInv, KeptText, SilentBefore, Tracked

LEMMA KeptInit == MemInit => KeptInv
  <1> SUFFICES ASSUME MemInit PROVE KeptInv
    OBVIOUS
  <1> PICK text \in [DOMAIN Stored -> Contents] :
         /\ memRow = [m \in Memories |-> IF m \notin DOMAIN Stored THEN NoRow
                     ELSE [NoRow EXCEPT !.at = "live", !.text = text[m], !.kind = Stored[m]]]
         /\ written = [m \in Memories |-> IF m \in DOMAIN Stored THEN {<<text[m], FALSE>>} ELSE {}]
    BY DEF MemInit
  <1>1. ASSUME NEW m \in Memories, m \in DOMAIN Stored
        PROVE  memRow[m].at = "live" /\ memRow[m].text = text[m] /\ memRow[m].tag = FALSE
    <2>1. memRow[m] = [NoRow EXCEPT !.at = "live", !.text = text[m], !.kind = Stored[m]]
      BY <1>1
    <2> QED
      BY <2>1 DEF NoRow
  <1> QED
    BY <1>1 DEF KeptInv, KeptText, SilentBefore, Tracked

LEMMA KeptStep == MemType /\ KeptInv /\ [MemNext]_memVars => KeptInv'
  <1> SUFFICES ASSUME MemType, KeptInv, [MemNext]_memVars PROVE KeptInv'
    OBVIOUS
  <1>0. /\ memRow \in [Memories -> Rows] /\ revisions \in [Memories -> SUBSET Versions]
        /\ unkept \in [Memories -> SUBSET Versions]
    BY DEF MemType
  <1> USE NoteIsKind
  <1>1. ASSUME NEW m \in Memories, NEW x \in Contents, NEW o \in Objects \cup {NoOne}, AddMemory(m, x, o)
        PROVE  KeptInv'
    <2> DEFINE I == Inserted(memRow, m, x, o, "note")
               R == Superseding(I, m, o)
    <2>r1. IsInsert(memRow, I, m, x, o)
      BY <1>0, InsertedRow
    <2> HIDE DEF I
    <2>1. /\ I \in [Memories -> Rows] /\ I[m].at = "live" /\ \A n \in Memories : n # m => I[n] = memRow[n]
      BY <2>r1 DEF IsInsert, AllBut
    <2>2. /\ R \in [Memories -> Rows]
          /\ \A n \in Memories : R[n].at = I[n].at /\ Tracked(R, n) = Tracked(I, n)
      BY <2>1, SupersedingRows DEF Hides
    <2> HIDE DEF R
    <2>3. CommitEdit(R) /\ memRow[m].at = "none" /\ UNCHANGED <<revisions, unkept>>
      BY <1>1 DEF AddMemory, R, I
    <2>4. \A n \in Memories : n # m => R[n].at = memRow[n].at /\ Tracked(R, n) = Tracked(memRow, n)
      BY <2>1, <2>2 DEF Tracked
    <2> QED
      BY <2>1, <2>2, <2>3, <2>4, KeptByCommit
  <1>2. ASSUME NEW m \in Memories, NEW n \in Memories, NEW x \in Contents, NEW y \in Contents, CaptureTurn(m, n, x, y)
        PROVE  KeptInv'
    <2> DEFINE I == Inserted(memRow, m, x, NoOne, "capture")
               R == Inserted(I, n, y, NoOne, "capture")
    <2>r1. IsInsert(memRow, I, m, x, NoOne)
      BY <1>0, InsertedRow
    <2> HIDE DEF I
    <2>1. /\ I \in [Memories -> Rows] /\ I[m].at = "live" /\ \A k \in Memories : k # m => I[k] = memRow[k]
      BY <2>r1 DEF IsInsert, AllBut
    <2>r2. IsInsert(I, R, n, y, NoOne)
      BY <2>1, InsertedRow
    <2> HIDE DEF R
    <2>2. /\ R \in [Memories -> Rows] /\ R[n].at = "live" /\ \A k \in Memories : k # n => R[k] = I[k]
      BY <2>r2 DEF IsInsert, AllBut
    <2>3. /\ CommitEdit(R) /\ memRow[m].at = "none" /\ memRow[n].at = "none" /\ m # n
          /\ UNCHANGED <<revisions, unkept>>
      BY <1>2 DEF CaptureTurn, R, I
    <2>4. \A k \in Memories : k \notin {m, n} => R[k].at = memRow[k].at /\ Tracked(R, k) = Tracked(memRow, k)
      BY <2>1, <2>2 DEF Tracked
    <2> QED
      BY <2>1, <2>2, <2>3, <2>4, KeptByCommit
  <1>3. ASSUME NEW c \in Memories, NEW m \in Memories, NEW n \in Memories, NEW x \in Contents,
               NEW o \in Objects \cup {NoOne}, NEW q \in Objects \cup {NoOne}, Decompose(c, m, n, x, o, q)
        PROVE  KeptInv'
    <2> DEFINE I == Inserted(memRow, m, x, o, "note")
               F == Superseding(I, m, o)
               J == Inserted(F, n, x, q, "note")
               R == Superseding(J, n, q)
    <2>r1. IsInsert(memRow, I, m, x, o)
      BY <1>0, InsertedRow
    <2> HIDE DEF I
    <2>1. /\ I \in [Memories -> Rows] /\ I[m].at = "live" /\ \A k \in Memories : k # m => I[k] = memRow[k]
      BY <2>r1 DEF IsInsert, AllBut
    <2>2. /\ F \in [Memories -> Rows]
          /\ \A k \in Memories : F[k].at = I[k].at /\ Tracked(F, k) = Tracked(I, k)
      BY <2>1, SupersedingRows DEF Hides
    <2> HIDE DEF F
    <2>r3. IsInsert(F, J, n, x, q)
      BY <2>2, InsertedRow
    <2> HIDE DEF J
    <2>3. /\ J \in [Memories -> Rows] /\ J[n].at = "live" /\ \A k \in Memories : k # n => J[k] = F[k]
      BY <2>r3 DEF IsInsert, AllBut
    <2>4. /\ R \in [Memories -> Rows]
          /\ \A k \in Memories : R[k].at = J[k].at /\ Tracked(R, k) = Tracked(J, k)
      BY <2>3, SupersedingRows DEF Hides
    <2> HIDE DEF R
    <2>5. /\ CommitEdit(R) /\ memRow[m].at = "none" /\ memRow[n].at = "none" /\ m # n
          /\ UNCHANGED <<revisions, unkept>>
      BY <1>3 DEF Decompose, R, J, F, I
    <2>6. \A k \in Memories : k \notin {m, n} => R[k].at = memRow[k].at /\ Tracked(R, k) = Tracked(memRow, k)
      BY <2>1, <2>2, <2>3, <2>4 DEF Tracked
    <2>7. R[m].at = "live" /\ R[n].at = "live"
      BY <2>1, <2>2, <2>3, <2>4, <2>5
    <2> QED
      BY <2>4, <2>5, <2>6, <2>7, KeptByCommit
  <1>4. ASSUME NEW m \in Memories, NEW n \in Memories, NEW x \in Contents, Normalize(m, n, x)
        PROVE  KeptInv'
    <2> DEFINE R == Inserted(memRow, n, x, NoOne, "note")
    <2>r1. IsInsert(memRow, R, n, x, NoOne)
      BY <1>0, InsertedRow
    <2> HIDE DEF R
    <2>1. /\ R \in [Memories -> Rows] /\ R[n].at = "live" /\ \A k \in Memories : k # n => R[k] = memRow[k]
      BY <2>r1 DEF IsInsert, AllBut
    <2>2. CommitEdit(R) /\ memRow[n].at = "none" /\ UNCHANGED <<revisions, unkept>>
      BY <1>4 DEF Normalize, R
    <2> QED
      BY <2>1, <2>2, KeptByCommit DEF Tracked
  <1>5. ASSUME NEW m \in Memories, NEW o \in Objects, Annotate(m, o)
        PROVE  KeptInv'
    <2> DEFINE A == [memRow EXCEPT ![m].object = o]
               R == Superseding(A, m, o)
    <2>1. /\ A \in [Memories -> Rows]
          /\ \A k \in Memories : A[k].at = memRow[k].at /\ Tracked(A, k) = Tracked(memRow, k)
      <3>r1. IsRelated(memRow, A, m, o, memRow[m].over)
        BY <1>0, RowWithObject
      <3> HIDE DEF A
      <3>1. /\ A \in [Memories -> Rows] /\ A[m].at = memRow[m].at /\ Tracked(A, m) = Tracked(memRow, m)
            /\ \A k \in Memories : k # m => A[k] = memRow[k]
        BY <3>r1 DEF IsRelated, AllBut
      <3> QED
        BY <3>1 DEF Tracked
    <2> HIDE DEF A
    <2>2. /\ R \in [Memories -> Rows]
          /\ \A k \in Memories : R[k].at = A[k].at /\ Tracked(R, k) = Tracked(A, k)
      BY <2>1, SupersedingRows DEF Hides
    <2> HIDE DEF R
    <2>3. CommitEdit(R) /\ UNCHANGED <<revisions, unkept>>
      BY <1>5 DEF Annotate, R, A
    <2> QED
      BY <2>1, <2>2, <2>3, KeptByCommit
  <1>6. ASSUME NEW m \in Memories, ClearSuperseded(m)
        PROVE  KeptInv'
    <2> DEFINE R == [memRow EXCEPT ![m].over = NoOne]
    <2>1. /\ R \in [Memories -> Rows] /\ R[m].at = memRow[m].at /\ Tracked(R, m) = Tracked(memRow, m)
          /\ \A k \in Memories : k # m => R[k] = memRow[k]
      BY <1>0, RowUnhidden DEF IsRelated, AllBut
    <2> HIDE DEF R
    <2>2. CommitEdit(R) /\ UNCHANGED <<revisions, unkept>>
      BY <1>6 DEF ClearSuperseded, R
    <2>3. \A k \in Memories : R[k].at = memRow[k].at /\ Tracked(R, k) = Tracked(memRow, k)
      BY <2>1 DEF Tracked
    <2> QED
      BY <2>1, <2>2, <2>3, KeptByCommit
  <1>7. ASSUME NEW m \in Memories, Deleted(m)
        PROVE  KeptInv'
    <2>1. /\ memRow'[m].at \in {"deleted", "gone"} /\ Tracked(memRow', m) = Tracked(memRow, m)
          /\ \A n \in Memories : n # m => memRow'[n] = memRow[n]
      BY <1>0, <1>7, PurgedRow DEF Deleted, IsPurge, AllBut
    <2>2. memRow[m].at = "live" /\ UNCHANGED <<revisions, unkept, written>>
      BY <1>7 DEF Deleted, LiveMemory, memHistory
    <2> QED
      BY <2>1, <2>2 DEF KeptInv, KeptText, SilentBefore, Tracked
  <1>8. ASSUME NEW m \in Memories, NEW x \in Texts, NEW tag \in BOOLEAN, NEW embed \in BOOLEAN,
               EditRead(m, x, tag, embed)
        PROVE  KeptInv'
    BY <1>8, KeptByNoCommit DEF EditRead, memHistory
  <1>9. CASE EditWrite
    <2> DEFINE d == doing[Loop]
               R == Rewritten(memRow, d.memory, d.text, d.tag)
    <2>1. d \in Edits
      BY <1>9, DoingFields DEF EditWrite, MemoryThreads
    <2>2. d.memory \in Memories /\ d.text \in Texts /\ d.tag \in BOOLEAN /\ d.old \in Versions
      BY <2>1 DEF Edits
    <2>3. revisions' = [revisions EXCEPT ![d.memory] = @ \cup Snapshots(d)]
      BY <1>9 DEF EditWrite
    <2>4. unkept' = IF Tracked(memRow, d.memory) # d.old
                    THEN [unkept EXCEPT ![d.memory] = @ \cup {Tracked(memRow, d.memory)}] ELSE unkept
      BY <1>9 DEF EditWrite
    <2>5. CommitEdit(R) \/ UNCHANGED <<memRow, written>>
      BY <1>9 DEF EditWrite, Rewritten
    <2> HIDE DEF d
    <2>6. \A m \in Memories : revisions[m] \cup unkept[m] \subseteq revisions'[m] \cup unkept'[m]
      BY <1>0, <2>2, <2>3, <2>4
    <2>7. /\ R \in [Memories -> Rows] /\ R[d.memory].at = memRow[d.memory].at
          /\ R[d.memory].text = d.text /\ R[d.memory].tag = d.tag
          /\ \A n \in Memories : n # d.memory => R[n] = memRow[n]
      BY <1>0, <2>2, RewrittenRow DEF IsEdit, AllBut
    <2> HIDE DEF R
    <2>8. \/ Tracked(R, d.memory) = Tracked(memRow, d.memory)
          \/ Tracked(memRow, d.memory) \in revisions'[d.memory] \cup unkept'[d.memory]
      <3>1. CASE Tracked(memRow, d.memory) # d.old
        BY <1>0, <2>2, <2>4, <3>1
      <3>2. CASE Tracked(memRow, d.memory) = d.old /\ <<d.text, d.tag>> # d.old
        BY <1>0, <2>2, <2>3, <3>2 DEF Snapshots
      <3>3. CASE Tracked(memRow, d.memory) = d.old /\ <<d.text, d.tag>> = d.old
        BY <2>7, <3>3 DEF Tracked
      <3> QED
        BY <3>1, <3>2, <3>3
    <2>9. CASE CommitEdit(R)
      <3>1. \A n \in Memories : n # d.memory => R[n].at = memRow[n].at /\ Tracked(R, n) = Tracked(memRow, n)
        BY <2>7 DEF Tracked
      <3> QED
        BY <2>2, <2>6, <2>7, <2>8, <2>9, <3>1, KeptByCommit
    <2> QED
      BY <2>5, <2>6, <2>9, KeptByNoCommit
  <1>10. ASSUME NEW m \in Memories, NEW x \in Contents, MergeRead(m, x)
         PROVE  KeptInv'
    BY <1>10, KeptByNoCommit DEF MergeRead, memHistory
  <1>11. CASE MergeWrite
    <2> DEFINE d == doing[Loop]
               P == IF Exists(memRow, d.memory) THEN [memRow EXCEPT ![d.memory].text = d.text] ELSE memRow
               R == [n \in Memories |-> IF n \in d.members /\ Exists(P, n) THEN [P[n] EXCEPT !.over = d.memory] ELSE P[n]]
    <2>1. d \in Merges
      BY <1>11, DoingFields DEF MergeWrite, MemoryThreads
    <2>2. d.memory \in Memories /\ d.text \in Texts /\ d.members \in SUBSET Memories
      BY <2>1 DEF Merges, Texts
    <2>3. unkept' = IF Exists(memRow, d.memory) THEN [unkept EXCEPT ![d.memory] = @ \cup {Tracked(memRow, d.memory)}]
                    ELSE unkept
      BY <1>11 DEF MergeWrite
    <2>4. CommitEdit(R) /\ revisions' = revisions
      BY <1>11 DEF MergeWrite
    <2> HIDE DEF d
    <2>5. /\ P \in [Memories -> Rows] /\ P[d.memory].at = memRow[d.memory].at
          /\ ~Exists(memRow, d.memory) => P[d.memory] = memRow[d.memory]
          /\ \A n \in Memories : n # d.memory => P[n] = memRow[n]
      BY <1>0, <2>2, RowWithText DEF IsEdit, AllBut
    <2> HIDE DEF P
    <2>r6. Hides(P, R, {n \in d.members : Exists(P, n)}, d.memory)
      BY <2>2, <2>5, HiddenRows
    <2> HIDE DEF R
    <2>6. /\ R \in [Memories -> Rows]
          /\ \A n \in Memories : R[n].at = P[n].at /\ Tracked(R, n) = Tracked(P, n)
      BY <2>r6 DEF Hides
    <2>7. \A n \in Memories : n # d.memory => R[n].at = memRow[n].at /\ Tracked(R, n) = Tracked(memRow, n)
      BY <2>5, <2>6 DEF Tracked
    <2>8. Tracked(R, d.memory) = Tracked(memRow, d.memory) \/ Tracked(memRow, d.memory) \in unkept'[d.memory]
      BY <1>0, <2>2, <2>3, <2>5, <2>6 DEF Tracked
    <2>9. \A m \in Memories : unkept[m] \subseteq unkept'[m]
      BY <1>0, <2>2, <2>3
    <2> QED
      BY <2>2, <2>4, <2>5, <2>6, <2>7, <2>8, <2>9, KeptByCommit
  <1>12. ASSUME NEW w \in Workers, NEW m \in Memories, NEW x \in Contents, PutRead(w, m, x)
         PROVE  KeptInv'
    BY <1>12, KeptByNoCommit DEF PutRead, memHistory
  <1>13. ASSUME NEW w \in Workers, PutWrite(w)
         PROVE  KeptInv'
    <2> DEFINE d == doing[w]
               R == [memRow EXCEPT ![d.memory].text = d.text]
    <2>1. d \in Puts
      BY <1>13, DoingFields DEF PutWrite, MemoryThreads
    <2>2. d.memory \in Memories /\ d.text \in Texts
      BY <2>1 DEF Puts, Texts
    <2>3. \/ CommitEdit(R) /\ unkept' = [unkept EXCEPT ![d.memory] = @ \cup {Tracked(memRow, d.memory)}]
          \/ UNCHANGED <<memRow, written, unkept>>
      BY <1>13 DEF PutWrite
    <2>4. revisions' = revisions
      BY <1>13 DEF PutWrite
    <2> HIDE DEF d
    <2>5. /\ R \in [Memories -> Rows] /\ R[d.memory].at = memRow[d.memory].at
          /\ \A n \in Memories : n # d.memory => R[n] = memRow[n]
      BY <1>0, <2>2, RowWithText DEF IsEdit, AllBut
    <2> HIDE DEF R
    <2>6. \A n \in Memories : n # d.memory => R[n].at = memRow[n].at /\ Tracked(R, n) = Tracked(memRow, n)
      BY <2>5 DEF Tracked
    <2>7. CASE CommitEdit(R) /\ unkept' = [unkept EXCEPT ![d.memory] = @ \cup {Tracked(memRow, d.memory)}]
      <3>1. /\ \A m \in Memories : unkept[m] \subseteq unkept'[m]
            /\ Tracked(memRow, d.memory) \in unkept'[d.memory]
        BY <1>0, <2>2, <2>7
      <3> QED
        BY <2>2, <2>4, <2>5, <2>6, <2>7, <3>1, KeptByCommit
    <2> QED
      BY <2>3, <2>4, <2>7, KeptByNoCommit
  <1>14. ASSUME NEW w \in Workers, NEW m \in Memories, NEW x \in Contents, ApiAdd(w, m, x)
         PROVE  KeptInv'
    <2> DEFINE R == Inserted(memRow, m, x, NoOne, "note")
    <2>r1. IsInsert(memRow, R, m, x, NoOne)
      BY <1>0, InsertedRow
    <2> HIDE DEF R
    <2>1. /\ R \in [Memories -> Rows] /\ R[m].at = "live" /\ \A k \in Memories : k # m => R[k] = memRow[k]
      BY <2>r1 DEF IsInsert, AllBut
    <2>2. CommitEdit(R) /\ memRow[m].at = "none" /\ UNCHANGED <<revisions, unkept>>
      BY <1>14 DEF ApiAdd, R
    <2> QED
      BY <2>1, <2>2, KeptByCommit DEF Tracked
  <1>15. ASSUME NEW w \in Workers, NEW m \in Memories, BulkTag(w, m)
         PROVE  KeptInv'
    <2> DEFINE R == [memRow EXCEPT ![m].tag = ~@]
    <2>1. /\ R \in [Memories -> Rows] /\ R[m].at = memRow[m].at /\ \A k \in Memories : k # m => R[k] = memRow[k]
      BY <1>0, RowWithTag DEF IsEdit, AllBut
    <2> HIDE DEF R
    <2>2. CommitEdit(R) /\ revisions' = revisions /\ unkept' = [unkept EXCEPT ![m] = @ \cup {Tracked(memRow, m)}]
      BY <1>15 DEF BulkTag, R
    <2>3. /\ \A k \in Memories : unkept[k] \subseteq unkept'[k]
          /\ Tracked(memRow, m) \in unkept'[m]
      BY <1>0, <2>2
    <2>4. \A k \in Memories : k # m => R[k].at = memRow[k].at /\ Tracked(R, k) = Tracked(memRow, k)
      BY <2>1 DEF Tracked
    <2> QED
      BY <2>1, <2>2, <2>3, <2>4, KeptByCommit
  <1>16. ASSUME NEW j \in jobs, Embed(j)
         PROVE  KeptInv'
    BY <1>16, KeptByNoCommit DEF Embed, memHistory
  <1>17. ASSUME NEW j \in jobs, EmbedFail(j)
         PROVE  KeptInv'
    BY <1>17, KeptByNoCommit DEF EmbedFail
  <1>18. ASSUME NEW m \in Memories, ReindexAll(m)
         PROVE  KeptInv'
    BY <1>18, KeptByNoCommit DEF ReindexAll
  <1>19. ASSUME NEW m \in Memories, CompactRevisions(m)
         PROVE  KeptInv'
    <2>1. PICK r \in revisions[m] : /\ revisions' = [revisions EXCEPT ![m] = @ \ {r}]
                                    /\ unkept' = [unkept EXCEPT ![m] = @ \cup {r}]
      BY <1>19 DEF CompactRevisions
    <2>2. \A k \in Memories : revisions[k] \cup unkept[k] \subseteq revisions'[k] \cup unkept'[k]
      BY <1>0, <2>1
    <2> QED
      BY <1>19, <2>2, KeptByNoCommit DEF CompactRevisions
  <1>20. CASE UNCHANGED memVars
    BY <1>20, KeptByNoCommit DEF memVars
  <1>21. ASSUME NEW m \in Memories, NEW x \in Contents, Update(m, x)
         PROVE  KeptInv'
    BY <1>0, <1>8, <1>21, RowFields DEF Update, Texts
  <1>22. ASSUME NEW m \in Memories, NEW r \in revisions[m], Revert(m, r)
         PROVE  KeptInv'
    <2>1. r[1] \in Texts /\ r[2] \in BOOLEAN
      BY <1>0 DEF Versions
    <2> QED
      BY <1>8, <1>22, <2>1 DEF Revert
  <1> QED
    BY <1>1, <1>2, <1>3, <1>4, <1>5, <1>6, <1>7, <1>9, <1>10, <1>11, <1>12, <1>13, <1>14, <1>15, <1>16,
       <1>17, <1>18, <1>19, <1>20, <1>21, <1>22
    DEF MemNext, Delete, ApiDelete

\* Whatever content and tags a memory had are in its row, in a revision, or were overwritten by
\* a path that keeps none, however tools, dashboard handlers and embeddings interleave.
THEOREM KeptTextHolds == MemSpec => []KeptText
  <1>1. KeptInv => KeptText
    BY DEF KeptInv
  <1> QED
    BY <1>1, TypeInit, TypeStep, KeptInit, KeptStep, PTL DEF MemSpec

-----------------------------------------------------------------------------
(* What a step does to the rows, as far as texts and triples go.           *)
\* S is R with a new fact, which hides what it contradicts.
IsFact(R, S, m, x, o) ==
    /\ S \in [Memories -> Rows]
    /\ S[m].at = "live" /\ S[m].text = x /\ S[m].object = o
    /\ \A n \in Memories : n # m =>
          /\ S[n].at = R[n].at /\ S[n].text = R[n].text /\ S[n].object = R[n].object
          /\ IsVisible(S, n) => IsVisible(R, n) /\ (o = NoOne \/ R[n].object \in {NoOne, o})

LEMMA FactAdded ==
  ASSUME NEW R \in [Memories -> Rows], NEW m \in Memories, NEW x \in Contents, NEW o \in Objects \cup {NoOne}
  PROVE  IsFact(R, Superseding(Inserted(R, m, x, o, "note"), m, o), m, x, o)
  <1> DEFINE I == Inserted(R, m, x, o, "note")
             S == Superseding(I, m, o)
  <1>1. IsInsert(R, I, m, x, o)
    BY InsertedRow, NoteIsKind
  <1> HIDE DEF I
  <1>2. Hides(I, S, Contradicted(I, m, o), m)
    BY <1>1, SupersedingRows DEF IsInsert, AllBut
  <1> HIDE DEF S
  <1>3. \A n \in Memories : n # m => I[n] = R[n]
    BY <1>1 DEF IsInsert, AllBut
  <1>4. S[m].at = "live" /\ S[m].text = x /\ S[m].object = o /\ S \in [Memories -> Rows]
    BY <1>1, <1>2 DEF IsInsert, Hides
  <1>5. ASSUME NEW n \in Memories, n # m
        PROVE  /\ S[n].at = R[n].at /\ S[n].text = R[n].text /\ S[n].object = R[n].object
               /\ S[n].over = IF n \in Contradicted(I, m, o) THEN m ELSE R[n].over
    BY <1>2, <1>3, <1>5 DEF Hides
  <1>6. ASSUME NEW n \in Memories, n # m, IsVisible(S, n)
        PROVE  IsVisible(R, n) /\ (o = NoOne \/ R[n].object \in {NoOne, o})
    <2>1. S[n].at = "live" /\ S[n].over = NoOne
      BY <1>6 DEF IsVisible, LiveMemory
    <2>2. n \notin Contradicted(I, m, o) /\ R[n].over = NoOne /\ R[n].at = "live"
      BY <1>5, <1>6, <2>1, NoOneElse
    <2>3. I[n] = R[n] /\ IsVisible(R, n) /\ IsVisible(I, n)
      BY <1>3, <1>6, <2>2 DEF IsVisible, LiveMemory
    <2> QED
      BY <1>6, <2>2, <2>3 DEF Contradicted
  <1> QED
    BY <1>4, <1>5, <1>6 DEF IsFact, S, I

\* The same for a fact that is already there and gets its object.
IsCompleted(R, S, m, o) ==
    /\ S \in [Memories -> Rows]
    /\ S[m].at = R[m].at /\ S[m].text = R[m].text /\ S[m].object = o
    /\ \A n \in Memories : n # m =>
          /\ S[n].at = R[n].at /\ S[n].text = R[n].text /\ S[n].object = R[n].object
          /\ IsVisible(S, n) => IsVisible(R, n) /\ R[n].object \in {NoOne, o}

LEMMA FactCompleted ==
  ASSUME NEW R \in [Memories -> Rows], NEW m \in Memories, NEW o \in Objects
  PROVE  IsCompleted(R, Superseding([R EXCEPT ![m].object = o], m, o), m, o)
  <1> DEFINE A == [R EXCEPT ![m].object = o]
             S == Superseding(A, m, o)
  <1>1. IsRelated(R, A, m, o, R[m].over)
    BY RowWithObject
  <1> HIDE DEF A
  <1>2. Hides(A, S, Contradicted(A, m, o), m)
    BY <1>1, SupersedingRows DEF IsRelated, AllBut
  <1> HIDE DEF S
  <1>3. \A n \in Memories : n # m => A[n] = R[n]
    BY <1>1 DEF IsRelated, AllBut
  <1>4. S[m].at = R[m].at /\ S[m].text = R[m].text /\ S[m].object = o /\ S \in [Memories -> Rows]
    BY <1>1, <1>2 DEF IsRelated, Hides
  <1>5. ASSUME NEW n \in Memories, n # m
        PROVE  /\ S[n].at = R[n].at /\ S[n].text = R[n].text /\ S[n].object = R[n].object
               /\ S[n].over = IF n \in Contradicted(A, m, o) THEN m ELSE R[n].over
    BY <1>2, <1>3, <1>5 DEF Hides
  <1>6. ASSUME NEW n \in Memories, n # m, IsVisible(S, n)
        PROVE  IsVisible(R, n) /\ R[n].object \in {NoOne, o}
    <2>1. S[n].at = "live" /\ S[n].over = NoOne
      BY <1>6 DEF IsVisible, LiveMemory
    <2>2. n \notin Contradicted(A, m, o) /\ R[n].over = NoOne /\ R[n].at = "live"
      BY <1>5, <1>6, <2>1, NoOneElse
    <2>3. A[n] = R[n] /\ IsVisible(R, n) /\ IsVisible(A, n)
      BY <1>3, <1>6, <2>2 DEF IsVisible, LiveMemory
    <2> QED
      BY <1>6, <2>2, <2>3, NoOneElse DEF Contradicted
  <1> QED
    BY <1>4, <1>5, <1>6 DEF S, A, IsCompleted

\* No row becomes visible or changes its object, but for those added without one.
LEMMA SettledByFewer ==
  ASSUME NoContradiction, cleared \subseteq cleared', NEW R, memRow' = R,
         \A n \in Memories : IsVisible(R, n) =>
            R[n].object = NoOne \/ (IsVisible(memRow, n) /\ R[n].object = memRow[n].object)
  PROVE  NoContradiction'
  <1>1. ASSUME NEW m \in Memories, NEW n \in Memories, IsVisible(R, m), IsVisible(R, n),
               {R[m].object, R[n].object} \subseteq Objects
        PROVE  R[m].object = R[n].object \/ {m, n} \cap cleared' # {}
    <2>1. /\ IsVisible(memRow, m) /\ R[m].object = memRow[m].object
          /\ IsVisible(memRow, n) /\ R[n].object = memRow[n].object
      BY <1>1, NoOneElse
    <2>2. R[m].object = R[n].object \/ {m, n} \cap cleared # {}
      BY <1>1, <2>1 DEF NoContradiction
    <2> QED
      BY <2>2
  <1> QED
    BY <1>1 DEF NoContradiction, IsVisible, LiveMemory

\* A fact that hides what it contradicts leaves the others as they were.
LEMMA SettledByFact ==
  ASSUME NoContradiction, cleared \subseteq cleared', NEW R, memRow' = R, NEW m \in Memories,
         \A n \in Memories : n # m => R[n].object = memRow[n].object /\ (IsVisible(R, n) =>
            IsVisible(memRow, n) /\ (R[m].object = NoOne \/ R[n].object \in {NoOne, R[m].object}))
  PROVE  NoContradiction'
  <1>1. ASSUME NEW k \in Memories, NEW n \in Memories, IsVisible(R, k), IsVisible(R, n),
               {R[k].object, R[n].object} \subseteq Objects
        PROVE  R[k].object = R[n].object \/ {k, n} \cap cleared' # {}
    <2>1. CASE k = m \/ n = m
      BY <1>1, <2>1, NoOneElse
    <2>2. CASE k # m /\ n # m
      BY <1>1, <2>2 DEF NoContradiction
    <2> QED
      BY <2>1, <2>2
  <1> QED
    BY <1>1 DEF NoContradiction, IsVisible, LiveMemory

LEMMA SettledInit == MemInit => NoContradiction
  <1> SUFFICES ASSUME MemInit PROVE NoContradiction
    OBVIOUS
  <1> PICK text \in [DOMAIN Stored -> Contents] :
         memRow = [m \in Memories |-> IF m \notin DOMAIN Stored THEN NoRow
                  ELSE [NoRow EXCEPT !.at = "live", !.text = text[m], !.kind = Stored[m]]]
    BY DEF MemInit
  <1>1. ASSUME NEW m \in Memories
        PROVE  memRow[m].object = NoOne
    <2>1. memRow[m] \in {NoRow, [NoRow EXCEPT !.at = "live", !.text = text[m], !.kind = Stored[m]]}
      OBVIOUS
    <2> QED
      BY <2>1 DEF NoRow
  <1> QED
    BY <1>1, NoOneElse DEF NoContradiction

LEMMA SettledStep == MemType /\ NoContradiction /\ [MemNext]_memVars => NoContradiction'
  <1> SUFFICES ASSUME MemType, NoContradiction, [MemNext]_memVars PROVE NoContradiction'
    OBVIOUS
  <1>0. memRow \in [Memories -> Rows]
    BY DEF MemType
  <1>1. ASSUME NEW m \in Memories, NEW x \in Contents, NEW o \in Objects \cup {NoOne}, AddMemory(m, x, o)
        PROVE  NoContradiction'
    <2>1. IsFact(memRow, memRow', m, x, o) /\ cleared' = cleared
      BY <1>0, <1>1, FactAdded DEF AddMemory, CommitEdit
    <2> QED
      BY <2>1, SettledByFact DEF IsFact
  <1>2. ASSUME NEW m \in Memories, NEW n \in Memories, NEW x \in Contents, NEW y \in Contents, CaptureTurn(m, n, x, y)
        PROVE  NoContradiction'
    <2> DEFINE I == Inserted(memRow, m, x, NoOne, "capture")
               R == Inserted(I, n, y, NoOne, "capture")
    <2>1. IsInsert(memRow, I, m, x, NoOne)
      BY <1>0, InsertedRow, NoteIsKind
    <2> HIDE DEF I
    <2>0. I \in [Memories -> Rows]
      BY <2>1 DEF IsInsert, AllBut
    <2>2. IsInsert(I, R, n, y, NoOne)
      BY <2>0, InsertedRow, NoteIsKind
    <2> HIDE DEF R
    <2>3. memRow' = R /\ cleared' = cleared
      BY <1>2 DEF CaptureTurn, CommitEdit, R, I
    <2>4. R[m].object = NoOne /\ R[n].object = NoOne /\ \A k \in Memories \ {m, n} : R[k] = memRow[k]
      BY <2>1, <2>2 DEF IsInsert, AllBut
    <2> QED
      BY <2>3, <2>4, SettledByFewer DEF IsVisible, LiveMemory
  <1>3. ASSUME NEW c \in Memories, NEW m \in Memories, NEW n \in Memories, NEW x \in Contents,
               NEW o \in Objects \cup {NoOne}, NEW q \in Objects \cup {NoOne}, Decompose(c, m, n, x, o, q)
        PROVE  NoContradiction'
    <2> DEFINE F == Superseding(Inserted(memRow, m, x, o, "note"), m, o)
               R == Superseding(Inserted(F, n, x, q, "note"), n, q)
    <2>1. IsFact(memRow, F, m, x, o)
      BY <1>0, FactAdded
    <2> HIDE DEF F
    <2>2. IsFact(F, R, n, x, q)
      BY <2>1, FactAdded DEF IsFact
    <2> HIDE DEF R
    <2>3. memRow' = R /\ cleared' = cleared
      BY <1>3 DEF Decompose, CommitEdit, R, F
    <2>4. m # n
      BY <1>3 DEF Decompose
    <2>5. ASSUME NEW k \in Memories, NEW l \in Memories, IsVisible(R, k), IsVisible(R, l),
                 {R[k].object, R[l].object} \subseteq Objects
          PROVE  R[k].object = R[l].object \/ {k, l} \cap cleared # {}
      <3>1. CASE k = n \/ l = n
        BY <2>2, <2>5, <3>1, NoOneElse DEF IsFact
      <3>2. CASE k # n /\ l # n
        <4>1. /\ IsVisible(F, k) /\ IsVisible(F, l)
              /\ R[k].object = F[k].object /\ R[l].object = F[l].object
          BY <2>2, <2>5, <3>2 DEF IsFact
        <4>2. CASE k = m \/ l = m
          BY <2>1, <2>5, <4>1, <4>2, NoOneElse DEF IsFact
        <4>3. CASE k # m /\ l # m
          BY <2>1, <2>5, <4>1, <4>3 DEF IsFact, NoContradiction
        <4> QED
          BY <4>2, <4>3
      <3> QED
        BY <3>1, <3>2
    <2> QED
      BY <2>3, <2>5 DEF NoContradiction, IsVisible, LiveMemory
  <1>4. ASSUME NEW m \in Memories, NEW x \in Contents,
               CommitEdit(Inserted(memRow, m, x, NoOne, "note")), cleared' = cleared
        PROVE  NoContradiction'
    <2>1. IsInsert(memRow, memRow', m, x, NoOne)
      BY <1>0, <1>4, InsertedRow, NoteIsKind DEF CommitEdit
    <2> QED
      BY <1>4, <2>1, SettledByFewer DEF IsInsert, AllBut, IsVisible, LiveMemory
  <1>5. ASSUME NEW m \in Memories, NEW o \in Objects, Annotate(m, o)
        PROVE  NoContradiction'
    <2> DEFINE R == Superseding([memRow EXCEPT ![m].object = o], m, o)
    <2>1. memRow' = R /\ cleared' = cleared
      BY <1>5 DEF Annotate, CommitEdit
    <2>2. IsCompleted(memRow, R, m, o)
      BY <1>0, FactCompleted
    <2> HIDE DEF R
    <2> QED
      BY <2>1, <2>2, SettledByFact DEF IsCompleted
  <1>6. ASSUME NEW m \in Memories, ClearSuperseded(m)
        PROVE  NoContradiction'
    <2>1. IsRelated(memRow, memRow', m, memRow[m].object, NoOne)
      BY <1>0, <1>6, RowUnhidden DEF ClearSuperseded, CommitEdit
    <2>2. cleared' = cleared \cup {m} /\ \A n \in Memories : n # m => memRow'[n] = memRow[n]
      BY <1>6, <2>1 DEF ClearSuperseded, IsRelated, AllBut
    <2> QED
      BY <2>2 DEF NoContradiction, IsVisible, LiveMemory
  <1>7. ASSUME NEW m \in Memories, Deleted(m)
        PROVE  NoContradiction'
    <2>1. IsPurge(memRow, memRow', m) /\ cleared' = cleared
      BY <1>0, <1>7, PurgedRow DEF Deleted, memHistory
    <2> QED
      BY <2>1, SettledByFewer DEF IsPurge, AllBut, IsVisible, LiveMemory
  <1>8. CASE EditWrite
    <2> DEFINE d == doing[Loop]
               R == Rewritten(memRow, d.memory, d.text, d.tag)
    <2>1. d.memory \in Memories /\ d.text \in Texts /\ d.tag \in BOOLEAN
      BY <1>8, DoingFields DEF EditWrite, MemoryThreads, Edits
    <2>2. memRow' \in {R, memRow} /\ cleared' = cleared
      BY <1>8 DEF EditWrite, CommitEdit, Rewritten
    <2> HIDE DEF d
    <2>3. IsEdit(memRow, R, d.memory, d.text)
      BY <1>0, <2>1, RewrittenRow
    <2> HIDE DEF R
    <2> QED
      BY <2>2, <2>3, SettledByFewer DEF IsEdit, AllBut, IsVisible, LiveMemory
  <1>9. CASE MergeWrite
    <2> DEFINE d == doing[Loop]
               P == IF Exists(memRow, d.memory) THEN [memRow EXCEPT ![d.memory].text = d.text] ELSE memRow
               R == [n \in Memories |-> IF n \in d.members /\ Exists(P, n) THEN [P[n] EXCEPT !.over = d.memory] ELSE P[n]]
    <2>1. d.memory \in Memories /\ d.text \in Texts /\ d.members \in SUBSET Memories
      BY <1>9, DoingFields DEF MergeWrite, MemoryThreads, Merges, Texts
    <2>2. memRow' = R /\ cleared' = cleared
      BY <1>9 DEF MergeWrite, CommitEdit
    <2> HIDE DEF d
    <2>3. P = memRow \/ IsEdit(memRow, P, d.memory, d.text)
      BY <1>0, <2>1, RowWithText
    <2> HIDE DEF P
    <2>4. Hides(P, R, {n \in d.members : Exists(P, n)}, d.memory)
      BY <1>0, <2>1, <2>3, HiddenRows DEF IsEdit, AllBut
    <2> HIDE DEF R
    <2>5. \A n \in Memories : P[n].at = memRow[n].at /\ P[n].object = memRow[n].object /\ P[n].over = memRow[n].over
      BY <2>3 DEF IsEdit, AllBut
    <2>6. \A n \in Memories : R[n].at = P[n].at /\ R[n].object = P[n].object /\ R[n].over \in {P[n].over, d.memory}
      BY <2>4 DEF Hides
    <2> QED
      BY <2>1, <2>2, <2>5, <2>6, SettledByFewer, NoOneElse DEF IsVisible, LiveMemory
  <1>10. ASSUME NEW w \in Workers, PutWrite(w)
         PROVE  NoContradiction'
    <2> DEFINE d == doing[w]
               R == [memRow EXCEPT ![d.memory].text = d.text]
    <2>1. d.memory \in Memories /\ d.text \in Texts
      BY <1>10, DoingFields DEF PutWrite, MemoryThreads, Puts, Texts
    <2>2. memRow' \in {R, memRow} /\ cleared' = cleared
      BY <1>10 DEF PutWrite, CommitEdit
    <2> HIDE DEF d
    <2>3. IsEdit(memRow, R, d.memory, d.text)
      BY <1>0, <2>1, RowWithText
    <2> HIDE DEF R
    <2> QED
      BY <2>2, <2>3, SettledByFewer DEF IsEdit, AllBut, IsVisible, LiveMemory
  <1>11. ASSUME NEW w \in Workers, NEW m \in Memories, BulkTag(w, m)
         PROVE  NoContradiction'
    <2>1. IsEdit(memRow, memRow', m, memRow[m].text) /\ cleared' = cleared
      BY <1>0, <1>11, RowWithTag DEF BulkTag, CommitEdit
    <2> QED
      BY <2>1, SettledByFewer DEF IsEdit, AllBut, IsVisible, LiveMemory
  <1>12. ASSUME UNCHANGED <<memRow, cleared>>
         PROVE  NoContradiction'
    BY <1>12 DEF NoContradiction, IsVisible, LiveMemory
  <1> QED
    BY <1>1, <1>2, <1>3, <1>4, <1>5, <1>6, <1>7, <1>8, <1>9, <1>10, <1>11, <1>12
    DEF MemNext, memVars, memHistory, Normalize, ApiAdd, Delete, ApiDelete, Update, Revert, EditRead, MergeRead,
        PutRead, Embed, EmbedFail, ReindexAll, CompactRevisions

-----------------------------------------------------------------------------
(* What is hidden has an heir.                                             *)
\* The canonical memory of a merge is hidden by none: only tools hide, and none runs meanwhile.
MergeVisible ==
    doing[Loop].op = "merge" => /\ memRow[doing[Loop].memory].over = NoOne
                                /\ doing[Loop].memory \notin doing[Loop].members
HeirInv == HeirAtTheEnd /\ MergeVisible

\* S is R, but m, which is hidden by none or has hidden others blindly, hides some more.
LEMMA HeirsKept ==
  ASSUME HeirAtTheEnd, blind \subseteq blind', NEW R, memRow' = R, NEW m \in Memories,
         \A n \in Memories : R[n].over \in {memRow[n].over, m, NoOne},
         R[m].over = NoOne \/ m \in blind'
  PROVE  HeirAtTheEnd'
  <1>1. ASSUME NEW S \in SUBSET Memories, S # {}, \A n \in S : R[n].over \in S
        PROVE  S \cap blind' # {}
    <2>1. CASE m \in S
      BY <1>1, <2>1, NoOneElse
    <2>2. CASE m \notin S
      <3>1. \A n \in S : memRow[n].over \in S
        BY <1>1, <2>2, NoOneElse
      <3> QED
        BY <1>1, <3>1 DEF HeirAtTheEnd
    <2> QED
      BY <2>1, <2>2
  <1> QED
    BY <1>1 DEF HeirAtTheEnd

\* Nobody is hidden who was not.
LEMMA HeirsFewer ==
  ASSUME HeirAtTheEnd, blind \subseteq blind', NEW R, memRow' = R,
         \A n \in Memories : R[n].over \in {memRow[n].over, NoOne}
  PROVE  HeirAtTheEnd'
  <1>1. ASSUME NEW S \in SUBSET Memories, S # {}, \A n \in S : R[n].over \in S
        PROVE  S \cap blind' # {}
    <2>1. \A n \in S : memRow[n].over \in S
      BY <1>1, NoOneElse
    <2> QED
      BY <1>1, <2>1 DEF HeirAtTheEnd
  <1> QED
    BY <1>1 DEF HeirAtTheEnd

LEMMA MergeStays ==
  ASSUME MemType, MergeVisible, doing'[Loop] = doing[Loop],
         doing[Loop].op = "merge" => \A n \in Memories : memRow'[n].over \in {memRow[n].over, NoOne}
  PROVE  MergeVisible'
  <1>1. doing[Loop].op = "merge" => doing[Loop].memory \in Memories
    BY DoingFields DEF MemoryThreads, Merges
  <1> QED
    BY <1>1 DEF MergeVisible

LEMMA IdleMergesNothing == Idle.op # "merge"
  BY DEF Idle

LEMMA HeirInit == MemInit => HeirInv
  <1> SUFFICES ASSUME MemInit PROVE HeirInv
    OBVIOUS
  <1> PICK text \in [DOMAIN Stored -> Contents] :
         memRow = [m \in Memories |-> IF m \notin DOMAIN Stored THEN NoRow
                  ELSE [NoRow EXCEPT !.at = "live", !.text = text[m], !.kind = Stored[m]]]
    BY DEF MemInit
  <1>1. ASSUME NEW m \in Memories
        PROVE  memRow[m].over = NoOne
    <2>1. memRow[m] \in {NoRow, [NoRow EXCEPT !.at = "live", !.text = text[m], !.kind = Stored[m]]}
      OBVIOUS
    <2> QED
      BY <2>1 DEF NoRow
  <1>2. MergeVisible
    BY IdleMergesNothing DEF MemInit, MergeVisible, MemoryThreads
  <1>3. ASSUME NEW S \in SUBSET Memories, S # {}, \A m \in S : memRow[m].over \in S
        PROVE  FALSE
    <2>1. PICK m \in S : m \in Memories
      BY <1>3
    <2>2. memRow[m].over = NoOne
      BY <1>1, <2>1
    <2>3. NoOne \in S
      BY <1>3, <2>1, <2>2
    <2> QED
      BY <2>3, NoOneElse
  <1> QED
    BY <1>2, <1>3 DEF HeirInv, HeirAtTheEnd

LEMMA HeirStep == MemType /\ HeirInv /\ [MemNext]_memVars => HeirInv'
  <1> SUFFICES ASSUME MemType, HeirInv, [MemNext]_memVars PROVE HeirInv'
    OBVIOUS
  <1>0. memRow \in [Memories -> Rows] /\ HeirAtTheEnd /\ MergeVisible
    BY DEF MemType, HeirInv
  <1> USE DEF HeirInv
  <1>1. ASSUME NEW m \in Memories, NEW x \in Contents, NEW o \in Objects \cup {NoOne}, AddMemory(m, x, o)
        PROVE  HeirInv'
    <2> DEFINE I == Inserted(memRow, m, x, o, "note")
               R == Superseding(I, m, o)
    <2>1. IsInsert(memRow, I, m, x, o)
      BY <1>0, InsertedRow, NoteIsKind
    <2> HIDE DEF I
    <2>2. Hides(I, R, Contradicted(I, m, o), m) /\ m \notin Contradicted(I, m, o)
      BY <2>1, SupersedingRows DEF IsInsert, AllBut, Contradicted
    <2> HIDE DEF R
    <2>3. memRow' = R /\ blind' = blind /\ doing' = doing /\ doing[Loop] = Idle
      BY <1>1 DEF AddMemory, CommitEdit, OnLoop, R, I
    <2>4. R[m].over = NoOne /\ \A n \in Memories : n # m => R[n].over \in {memRow[n].over, m}
      BY <2>1, <2>2 DEF IsInsert, AllBut, Hides
    <2> QED
      BY <1>0, <2>3, <2>4, HeirsKept, MergeStays, IdleMergesNothing
  <1>2. ASSUME NEW m \in Memories, NEW n \in Memories, NEW x \in Contents, NEW y \in Contents, CaptureTurn(m, n, x, y)
        PROVE  HeirInv'
    <2> DEFINE I == Inserted(memRow, m, x, NoOne, "capture")
               R == Inserted(I, n, y, NoOne, "capture")
    <2>1. IsInsert(memRow, I, m, x, NoOne)
      BY <1>0, InsertedRow, NoteIsKind
    <2> HIDE DEF I
    <2>0. I \in [Memories -> Rows]
      BY <2>1 DEF IsInsert, AllBut
    <2>2. IsInsert(I, R, n, y, NoOne)
      BY <2>0, InsertedRow, NoteIsKind
    <2> HIDE DEF R
    <2>3. memRow' = R /\ blind' = blind /\ doing' = doing
      BY <1>2 DEF CaptureTurn, CommitEdit, R, I
    <2>4. \A k \in Memories : R[k].over \in {memRow[k].over, NoOne}
      BY <2>1, <2>2 DEF IsInsert, AllBut
    <2> QED
      BY <1>0, <2>3, <2>4, HeirsFewer, MergeStays
  <1>3. ASSUME NEW c \in Memories, NEW m \in Memories, NEW n \in Memories, NEW x \in Contents,
               NEW o \in Objects \cup {NoOne}, NEW q \in Objects \cup {NoOne}, Decompose(c, m, n, x, o, q)
        PROVE  HeirInv'
    <2> DEFINE I == Inserted(memRow, m, x, o, "note")
               F == Superseding(I, m, o)
               J == Inserted(F, n, x, q, "note")
               R == Superseding(J, n, q)
    <2>1. IsInsert(memRow, I, m, x, o)
      BY <1>0, InsertedRow, NoteIsKind
    <2> HIDE DEF I
    <2>2. Hides(I, F, Contradicted(I, m, o), m) /\ m \notin Contradicted(I, m, o)
      BY <2>1, SupersedingRows DEF IsInsert, AllBut, Contradicted
    <2> HIDE DEF F
    <2>3. F \in [Memories -> Rows]
      BY <2>2 DEF Hides
    <2>4. IsInsert(F, J, n, x, q)
      BY <2>3, InsertedRow, NoteIsKind
    <2> HIDE DEF J
    <2>5. Hides(J, R, Contradicted(J, n, q), n) /\ n \notin Contradicted(J, n, q)
      BY <2>4, SupersedingRows DEF IsInsert, AllBut, Contradicted
    <2> HIDE DEF R
    <2>6. memRow' = R /\ blind' = blind /\ doing' = doing /\ doing[Loop] = Idle
      BY <1>3 DEF Decompose, CommitEdit, OnLoop, R, J, F, I
    <2>7. F[m].over = NoOne /\ \A k \in Memories : k # m => F[k].over \in {memRow[k].over, m}
      BY <2>1, <2>2 DEF IsInsert, AllBut, Hides
    <2>8. R[n].over = NoOne /\ \A k \in Memories : k # n => R[k].over \in {F[k].over, n}
      BY <2>4, <2>5 DEF IsInsert, AllBut, Hides
    <2>9. ASSUME NEW S \in SUBSET Memories, S # {}, \A k \in S : R[k].over \in S
          PROVE  S \cap blind # {}
      <3>1. n \notin S
        BY <2>8, <2>9, NoOneElse
      <3>2. \A k \in S : F[k].over \in S
        BY <2>8, <2>9, <3>1
      <3>3. m \notin S
        BY <2>7, <3>2, NoOneElse
      <3>4. \A k \in S : memRow[k].over \in S
        BY <2>7, <3>2, <3>3
      <3> QED
        BY <1>0, <2>9, <3>4 DEF HeirAtTheEnd
    <2>10. HeirAtTheEnd'
      BY <2>6, <2>9 DEF HeirAtTheEnd
    <2> QED
      BY <1>0, <2>6, <2>10, MergeStays, IdleMergesNothing
  <1>4. ASSUME NEW m \in Memories, NEW x \in Contents,
               CommitEdit(Inserted(memRow, m, x, NoOne, "note")), blind' = blind, doing' = doing
        PROVE  HeirInv'
    <2>1. IsInsert(memRow, memRow', m, x, NoOne)
      BY <1>0, <1>4, InsertedRow, NoteIsKind DEF CommitEdit
    <2>2. \A k \in Memories : memRow'[k].over \in {memRow[k].over, NoOne}
      BY <2>1 DEF IsInsert, AllBut
    <2> QED
      BY <1>0, <1>4, <2>2, HeirsFewer, MergeStays
  <1>5. ASSUME NEW m \in Memories, NEW o \in Objects, Annotate(m, o)
        PROVE  HeirInv'
    <2> DEFINE A == [memRow EXCEPT ![m].object = o]
               R == Superseding(A, m, o)
    <2>1. IsRelated(memRow, A, m, o, memRow[m].over)
      BY <1>0, RowWithObject
    <2>2. /\ memRow' = R /\ doing' = doing /\ doing[Loop] = Idle
          /\ blind' = IF ~IsVisible(memRow, m) /\ R # A THEN blind \cup {m} ELSE blind
      BY <1>5 DEF Annotate, CommitEdit, OnLoop
    <2> HIDE DEF A
    <2>3. Hides(A, R, Contradicted(A, m, o), m) /\ m \notin Contradicted(A, m, o)
      BY <2>1, SupersedingRows DEF IsRelated, AllBut, Contradicted
    <2> HIDE DEF R
    <2>4. A[m].over = memRow[m].over /\ \A n \in Memories : A[n].over = memRow[n].over
      BY <2>1 DEF IsRelated, AllBut
    <2>5. R[m].over = memRow[m].over /\ \A n \in Memories : R[n].over \in {memRow[n].over, m}
      BY <2>3, <2>4 DEF Hides
    <2>6. HeirAtTheEnd'
      <3>1. CASE IsVisible(memRow, m)
        BY <1>0, <2>2, <2>5, <3>1, HeirsKept DEF IsVisible
      <3>2. CASE ~IsVisible(memRow, m) /\ R # A
        BY <1>0, <2>2, <2>5, <3>2, HeirsKept
      <3>3. CASE R = A
        BY <1>0, <2>2, <2>4, <3>3, HeirsFewer
      <3> QED
        BY <3>1, <3>2, <3>3
    <2> QED
      BY <1>0, <2>2, <2>6, MergeStays, IdleMergesNothing
  <1>6. ASSUME NEW m \in Memories, ClearSuperseded(m)
        PROVE  HeirInv'
    <2>1. IsRelated(memRow, memRow', m, memRow[m].object, NoOne)
      BY <1>0, <1>6, RowUnhidden DEF ClearSuperseded, CommitEdit
    <2>2. \A n \in Memories : memRow'[n].over \in {memRow[n].over, NoOne}
      BY <2>1 DEF IsRelated, AllBut
    <2>3. blind' = blind /\ doing' = doing
      BY <1>6 DEF ClearSuperseded
    <2> QED
      BY <1>0, <2>2, <2>3, HeirsFewer, MergeStays
  <1>7. ASSUME \A n \in Memories : memRow'[n].over = memRow[n].over, blind' = blind,
               doing'[Loop] = doing[Loop] \/ doing'[Loop].op # "merge"
        PROVE  HeirInv'
    <2>1. HeirAtTheEnd'
      BY <1>0, <1>7, HeirsFewer
    <2>2. MergeVisible'
      BY <1>0, <1>7, MergeStays DEF MergeVisible
    <2> QED
      BY <2>1, <2>2
  <1>8. ASSUME NEW m \in Memories, Deleted(m)
        PROVE  HeirInv'
    <2>1. memRow' = [memRow EXCEPT ![m].at = IF Soft THEN "deleted" ELSE "gone"]
      BY <1>8 DEF Deleted, Purged
    <2>2. \A n \in Memories : memRow'[n].over = memRow[n].over
      BY <1>0, <2>1 DEF Rows
    <2> QED
      BY <1>7, <1>8, <2>2 DEF Deleted, memHistory
  <1>9. CASE EditWrite
    <2> DEFINE d == doing[Loop]
               R == Rewritten(memRow, d.memory, d.text, d.tag)
    <2>1. d.memory \in Memories /\ d.text \in Texts /\ d.tag \in BOOLEAN
      BY <1>9, DoingFields DEF EditWrite, MemoryThreads, Edits
    <2>2. memRow' \in {R, memRow}
      BY <1>9 DEF EditWrite, CommitEdit, Rewritten
    <2>3. blind' = blind /\ doing' = [doing EXCEPT ![Loop] = Idle]
      BY <1>9 DEF EditWrite
    <2> HIDE DEF d
    <2>4. IsEdit(memRow, R, d.memory, d.text)
      BY <1>0, <2>1, RewrittenRow
    <2> HIDE DEF R
    <2>5. \A n \in Memories : memRow'[n].over = memRow[n].over
      BY <2>2, <2>4 DEF IsEdit, AllBut
    <2>6. doing'[Loop] = Idle
      BY <2>3 DEF MemType, MemoryThreads
    <2> QED
      BY <1>7, <2>3, <2>5, <2>6, IdleMergesNothing
  <1>10. ASSUME NEW m \in Memories, NEW x \in Contents, MergeRead(m, x)
         PROVE  HeirInv'
    <2>1. memRow' = memRow /\ blind' = blind /\ IsVisible(memRow, m)
      BY <1>10 DEF MergeRead, memHistory, Cluster
    <2>2. doing'[Loop].memory = m /\ doing'[Loop].members = Cluster(m) \ {m}
      BY <1>10 DEF MergeRead, MemType, MemoryThreads, Members
    <2>3. HeirAtTheEnd'
      BY <1>0, <2>1, HeirsFewer
    <2> QED
      BY <2>1, <2>2, <2>3 DEF MergeVisible, IsVisible
  <1>11. CASE MergeWrite
    <2> DEFINE d == doing[Loop]
               P == IF Exists(memRow, d.memory) THEN [memRow EXCEPT ![d.memory].text = d.text] ELSE memRow
               R == [n \in Memories |-> IF n \in d.members /\ Exists(P, n) THEN [P[n] EXCEPT !.over = d.memory] ELSE P[n]]
    <2>1. d.memory \in Memories /\ d.text \in Texts /\ d.members \in SUBSET Memories /\ d.op = "merge"
      BY <1>11, DoingFields DEF MergeWrite, MemoryThreads, Merges, Texts
    <2>2. memRow' = R /\ blind' = blind /\ doing' = [doing EXCEPT ![Loop] = Idle]
      BY <1>11 DEF MergeWrite, CommitEdit
    <2>0. d.memory \notin d.members /\ memRow[d.memory].over = NoOne
      BY <1>0, <2>1 DEF MergeVisible
    <2> HIDE DEF d
    <2>3. P = memRow \/ IsEdit(memRow, P, d.memory, d.text)
      BY <1>0, <2>1, RowWithText
    <2> HIDE DEF P
    <2>4. Hides(P, R, {n \in d.members : Exists(P, n)}, d.memory)
      BY <1>0, <2>1, <2>3, HiddenRows DEF IsEdit, AllBut
    <2> HIDE DEF R
    <2>5. \A n \in Memories : P[n].over = memRow[n].over
      BY <2>3 DEF IsEdit, AllBut
    <2>6. R[d.memory].over = NoOne /\ \A n \in Memories : R[n].over \in {memRow[n].over, d.memory}
      BY <2>0, <2>1, <2>4, <2>5 DEF Hides
    <2>7. doing'[Loop] = Idle
      BY <2>2 DEF MemType, MemoryThreads
    <2> QED
      BY <1>0, <2>1, <2>2, <2>6, <2>7, HeirsKept, IdleMergesNothing DEF MergeVisible
  <1>12. ASSUME NEW w \in Workers, NEW m \in Memories, NEW x \in Contents, PutRead(w, m, x)
         PROVE  HeirInv'
    <2>1. doing'[Loop] = doing[Loop] \/ doing'[Loop] = [op |-> "put", memory |-> m, text |-> x]
      BY <1>12 DEF PutRead, MemType, MemoryThreads
    <2>2. doing'[Loop] = doing[Loop] \/ doing'[Loop].op # "merge"
      BY <2>1
    <2> QED
      BY <1>7, <1>12, <2>2 DEF PutRead, memHistory
  <1>13. ASSUME NEW w \in Workers, PutWrite(w)
         PROVE  HeirInv'
    <2> DEFINE d == doing[w]
               R == [memRow EXCEPT ![d.memory].text = d.text]
    <2>1. d.memory \in Memories /\ d.text \in Texts
      BY <1>13, DoingFields DEF PutWrite, MemoryThreads, Puts, Texts
    <2>2. memRow' \in {R, memRow}
      BY <1>13 DEF PutWrite, CommitEdit
    <2>0. blind' = blind /\ doing' = [doing EXCEPT ![w] = Idle]
      BY <1>13 DEF PutWrite
    <2> HIDE DEF d
    <2>3. IsEdit(memRow, R, d.memory, d.text)
      BY <1>0, <2>1, RowWithText
    <2> HIDE DEF R
    <2>4. \A n \in Memories : memRow'[n].over = memRow[n].over
      BY <2>2, <2>3 DEF IsEdit, AllBut
    <2>5. doing'[Loop] \in {doing[Loop], Idle}
      BY <2>0 DEF MemType, MemoryThreads
    <2> QED
      BY <1>7, <2>0, <2>4, <2>5, IdleMergesNothing
  <1>14. ASSUME NEW w \in Workers, NEW m \in Memories, BulkTag(w, m)
         PROVE  HeirInv'
    <2>1. IsEdit(memRow, memRow', m, memRow[m].text)
      BY <1>0, <1>14, RowWithTag DEF BulkTag, CommitEdit
    <2>2. \A n \in Memories : memRow'[n].over = memRow[n].over
      BY <2>1 DEF IsEdit, AllBut
    <2> QED
      BY <1>7, <1>14, <2>2 DEF BulkTag
  <1>15. ASSUME NEW m \in Memories, NEW x \in Texts, NEW tag \in BOOLEAN, NEW embed \in BOOLEAN,
                EditRead(m, x, tag, embed)
         PROVE  HeirInv'
    <2>1. doing'[Loop].op = "edit"
      BY <1>15 DEF EditRead, MemType, MemoryThreads
    <2> QED
      BY <1>7, <1>15, <2>1 DEF EditRead, memHistory
  <1>16. ASSUME NEW m \in Memories, NEW r \in revisions[m], Revert(m, r)
         PROVE  HeirInv'
    <2>1. r[1] \in Texts /\ r[2] \in BOOLEAN
      BY DEF Versions, MemType
    <2> QED
      BY <1>15, <1>16, <2>1 DEF Revert
  <1>17. ASSUME NEW m \in Memories, NEW x \in Contents, Update(m, x)
         PROVE  HeirInv'
    BY <1>0, <1>15, <1>17, RowFields DEF Update, Texts
  <1>18. ASSUME UNCHANGED <<memRow, blind, doing>>
         PROVE  HeirInv'
    BY <1>7, <1>18
  <1> QED
    BY <1>1, <1>2, <1>3, <1>4, <1>5, <1>6, <1>8, <1>9, <1>10, <1>11, <1>12, <1>13, <1>14, <1>16, <1>17, <1>18
    DEF MemNext, memVars, memHistory, Normalize, ApiAdd, Delete, ApiDelete, Embed, EmbedFail, ReindexAll,
        CompactRevisions

\* Two visible facts about the same subject and predicate never differ, whatever adds, extracts,
\* completes, edits, merges or deletes facts, unless one of them was un-hidden by hand; and what a
\* fact or a merge hid leads to a memory that nothing hides, but for those hidden blindly.
THEOREM FactsSettledHolds == MemSpec => []FactsSettled
  <1>1. NoContradiction /\ HeirInv => FactsSettled
    BY DEF HeirInv, FactsSettled
  <1> QED
    BY <1>1, TypeInit, TypeStep, SettledInit, SettledStep, HeirInit, HeirStep, PTL DEF MemSpec

-----------------------------------------------------------------------------
(* What is searched by meaning is the text there is.                       *)
\* The due embeddings of a live memory are of its text, or its vectors are.
JobsRight ==
    \A m \in Memories : LiveMemory(memRow, m) /\ m \notin overtaken =>
        /\ \A j \in jobs : j.memory = m => j.text = memRow[m].text
        /\ (\A j \in jobs : j.memory # m) => vecOf[m] = memRow[m].text
\* An edit that embeds nothing leaves the text that it has read.
SilentEdit == doing[Loop].op = "edit" /\ ~doing[Loop].embed => doing[Loop].text = doing[Loop].old[1]
IndexInv == JobsRight /\ SilentEdit

\* A live memory is embedded with its new text, or keeps what it has.
LEMMA IndexBySpawn ==
  ASSUME JobsRight, NEW R, memRow' = R, NEW new \in SUBSET (Memories \X Texts), Spawn(new),
         \A n \in Memories : LiveMemory(R, n) =>
            \/ (\E p \in new : p[1] = n) /\ (\A p \in new : p[1] = n => p[2] = R[n].text)
            \/ /\ LiveMemory(memRow, n) /\ R[n].text = memRow[n].text /\ vecOf'[n] = vecOf[n]
               /\ \A p \in new : p[1] # n
  PROVE  JobsRight'
  <1>0. /\ jobs' = jobs \cup {[memory |-> p[1], text |-> p[2]] : p \in new}
        /\ overtaken' = (overtaken \ {p[1] : p \in new}) \cup ({p[1] : p \in new} \cap {j.memory : j \in jobs})
    BY DEF Spawn
  <1>1. ASSUME NEW m \in Memories, LiveMemory(R, m), m \notin overtaken'
        PROVE  /\ \A j \in jobs' : j.memory = m => j.text = R[m].text
               /\ (\A j \in jobs' : j.memory # m) => vecOf'[m] = R[m].text
    <2>1. CASE \E p \in new : p[1] = m
      <3>1. \A j \in jobs : j.memory # m
        BY <1>0, <1>1, <2>1
      <3>2. \A p \in new : p[1] = m => p[2] = R[m].text
        BY <1>1, <2>1
      <3>3. \A j \in jobs' : j.memory = m => j.text = R[m].text
        BY <1>0, <3>1, <3>2
      <3>4. \E j \in jobs' : j.memory = m
        <4>1. PICK p \in new : p[1] = m
          BY <2>1
        <4>2. [memory |-> p[1], text |-> p[2]] \in jobs'
          BY <1>0
        <4> QED
          BY <4>1, <4>2
      <3> QED
        BY <3>3, <3>4
    <2>2. CASE \A p \in new : p[1] # m
      <3>1. m \notin overtaken /\ LiveMemory(memRow, m) /\ R[m].text = memRow[m].text /\ vecOf'[m] = vecOf[m]
        BY <1>0, <1>1, <2>2
      <3>2. /\ \A j \in jobs : j.memory = m => j.text = memRow[m].text
            /\ (\A j \in jobs : j.memory # m) => vecOf[m] = memRow[m].text
        BY <3>1 DEF JobsRight
      <3>3. \A j \in jobs' : j.memory = m => j \in jobs
        BY <1>0, <2>2
      <3>4. jobs \subseteq jobs'
        BY <1>0
      <3> QED
        BY <3>1, <3>2, <3>3, <3>4
    <2> QED
      BY <2>1, <2>2
  <1> QED
    BY <1>1 DEF JobsRight, LiveMemory

\* No live memory gets a text that is not embedded, unless something else is to be embedded.
LEMMA IndexByNoSpawn ==
  ASSUME JobsRight, jobs' = jobs, NEW R, memRow' = R, overtaken \subseteq overtaken',
         \A n \in Memories : LiveMemory(R, n) =>
            n \in overtaken' \/ (LiveMemory(memRow, n) /\ R[n].text = memRow[n].text /\ vecOf'[n] = vecOf[n])
  PROVE  JobsRight'
  BY DEF JobsRight, LiveMemory

LEMMA IndexInit == MemInit => IndexInv
  <1> SUFFICES ASSUME MemInit PROVE IndexInv
    OBVIOUS
  <1> PICK text \in [DOMAIN Stored -> Contents] :
         /\ memRow = [m \in Memories |-> IF m \notin DOMAIN Stored THEN NoRow
                     ELSE [NoRow EXCEPT !.at = "live", !.text = text[m], !.kind = Stored[m]]]
         /\ vecOf = [m \in Memories |-> IF m \in DOMAIN Stored THEN text[m] ELSE NoOne]
    BY DEF MemInit
  <1>1. ASSUME NEW m \in Memories
        PROVE  vecOf[m] = memRow[m].text
    <2>1. CASE m \in DOMAIN Stored
      <3>1. memRow[m] = [NoRow EXCEPT !.at = "live", !.text = text[m], !.kind = Stored[m]] /\ vecOf[m] = text[m]
        BY <2>1
      <3> QED
        BY <3>1 DEF NoRow
    <2>2. CASE m \notin DOMAIN Stored
      BY <2>2 DEF NoRow
    <2> QED
      BY <2>1, <2>2
  <1>2. doing[Loop].op # "edit" /\ jobs = {}
    BY DEF MemInit, MemoryThreads, Idle
  <1> QED
    BY <1>1, <1>2 DEF IndexInv, JobsRight, SilentEdit

LEMMA IdleEditsNothing == Idle.op # "edit"
  BY DEF Idle

LEMMA IndexStep == MemType /\ IndexInv /\ [MemNext]_memVars => IndexInv'
  <1> SUFFICES ASSUME MemType, IndexInv, [MemNext]_memVars PROVE IndexInv'
    OBVIOUS
  <1>0. memRow \in [Memories -> Rows] /\ JobsRight /\ SilentEdit
    BY DEF MemType, IndexInv
  <1>a. ASSUME doing'[Loop] = doing[Loop] \/ doing'[Loop].op # "edit"
        PROVE  SilentEdit'
    BY <1>0, <1>a DEF SilentEdit
  <1> USE DEF IndexInv
  <1>1. ASSUME NEW m \in Memories, NEW x \in Contents, NEW o \in Objects \cup {NoOne}, AddMemory(m, x, o)
        PROVE  IndexInv'
    <2>1. IsFact(memRow, memRow', m, x, o) /\ Spawn({<<m, x>>}) /\ vecOf' = vecOf /\ doing' = doing
      BY <1>0, <1>1, FactAdded DEF AddMemory, CommitEdit
    <2>2. {<<m, x>>} \in SUBSET (Memories \X Texts)
      BY DEF Texts
    <2> QED
      BY <1>0, <1>a, <2>1, <2>2, IndexBySpawn DEF IsFact, LiveMemory
  <1>2. ASSUME NEW m \in Memories, NEW n \in Memories, NEW x \in Contents, NEW y \in Contents, CaptureTurn(m, n, x, y)
        PROVE  IndexInv'
    <2> DEFINE I == Inserted(memRow, m, x, NoOne, "capture")
               R == Inserted(I, n, y, NoOne, "capture")
    <2>1. IsInsert(memRow, I, m, x, NoOne)
      BY <1>0, InsertedRow, NoteIsKind
    <2> HIDE DEF I
    <2>2. I \in [Memories -> Rows]
      BY <2>1 DEF IsInsert, AllBut
    <2>3. IsInsert(I, R, n, y, NoOne)
      BY <2>2, InsertedRow, NoteIsKind
    <2> HIDE DEF R
    <2>4. memRow' = R /\ m # n /\ Spawn({<<m, x>>, <<n, y>>}) /\ vecOf' = vecOf /\ doing' = doing
      BY <1>2 DEF CaptureTurn, CommitEdit, R, I
    <2>5. {<<m, x>>, <<n, y>>} \in SUBSET (Memories \X Texts)
      BY DEF Texts
    <2>6. R[m].text = x /\ R[n].text = y /\ \A k \in Memories \ {m, n} : R[k] = memRow[k]
      BY <2>1, <2>3, <2>4 DEF IsInsert, AllBut
    <2> QED
      BY <1>0, <1>a, <2>4, <2>5, <2>6, IndexBySpawn DEF LiveMemory
  <1>3. ASSUME NEW c \in Memories, NEW m \in Memories, NEW n \in Memories, NEW x \in Contents,
               NEW o \in Objects \cup {NoOne}, NEW q \in Objects \cup {NoOne}, Decompose(c, m, n, x, o, q)
        PROVE  IndexInv'
    <2> DEFINE F == Superseding(Inserted(memRow, m, x, o, "note"), m, o)
               R == Superseding(Inserted(F, n, x, q, "note"), n, q)
    <2>1. IsFact(memRow, F, m, x, o)
      BY <1>0, FactAdded
    <2> HIDE DEF F
    <2>2. IsFact(F, R, n, x, q)
      BY <2>1, FactAdded DEF IsFact
    <2> HIDE DEF R
    <2>3. memRow' = R /\ Spawn({<<m, x>>, <<n, x>>}) /\ vecOf' = vecOf /\ doing' = doing
      BY <1>3 DEF Decompose, CommitEdit, R, F
    <2>4. {<<m, x>>, <<n, x>>} \in SUBSET (Memories \X Texts)
      BY DEF Texts
    <2>5. /\ R[m].text = x /\ R[n].text = x
          /\ \A k \in Memories \ {m, n} : R[k].at = memRow[k].at /\ R[k].text = memRow[k].text
      BY <2>1, <2>2 DEF IsFact
    <2> QED
      BY <1>0, <1>a, <2>3, <2>4, <2>5, IndexBySpawn DEF LiveMemory
  <1>4. ASSUME NEW m \in Memories, NEW x \in Contents,
               CommitEdit(Inserted(memRow, m, x, NoOne, "note")), Spawn({<<m, x>>}), vecOf' = vecOf, doing' = doing
        PROVE  IndexInv'
    <2>1. IsInsert(memRow, memRow', m, x, NoOne)
      BY <1>0, <1>4, InsertedRow, NoteIsKind DEF CommitEdit
    <2>2. {<<m, x>>} \in SUBSET (Memories \X Texts)
      BY DEF Texts
    <2> QED
      BY <1>0, <1>a, <1>4, <2>1, <2>2, IndexBySpawn DEF IsInsert, AllBut, LiveMemory
  <1>5. ASSUME \A n \in Memories : memRow'[n].at = memRow[n].at /\ memRow'[n].text = memRow[n].text,
               jobs' = jobs, overtaken' = overtaken, vecOf' = vecOf,
               doing'[Loop] = doing[Loop] \/ doing'[Loop].op # "edit"
        PROVE  IndexInv'
    BY <1>0, <1>a, <1>5, IndexByNoSpawn DEF LiveMemory
  <1>6. ASSUME NEW m \in Memories, NEW o \in Objects, Annotate(m, o)
        PROVE  IndexInv'
    <2> DEFINE R == Superseding([memRow EXCEPT ![m].object = o], m, o)
    <2>1. memRow' = R /\ UNCHANGED <<vecOf, doing, jobs, overtaken>>
      BY <1>6 DEF Annotate, CommitEdit, NoSpawn
    <2>2. IsCompleted(memRow, R, m, o)
      BY <1>0, FactCompleted
    <2> HIDE DEF R
    <2>3. \A n \in Memories : R[n].at = memRow[n].at /\ R[n].text = memRow[n].text
      BY <2>2 DEF IsCompleted
    <2> QED
      BY <1>5, <2>1, <2>3
  <1>7. ASSUME NEW m \in Memories, ClearSuperseded(m)
        PROVE  IndexInv'
    <2>1. IsRelated(memRow, memRow', m, memRow[m].object, NoOne)
      BY <1>0, <1>7, RowUnhidden DEF ClearSuperseded, CommitEdit
    <2> QED
      BY <1>5, <1>7, <2>1 DEF ClearSuperseded, NoSpawn, IsRelated, AllBut
  <1>8. ASSUME NEW m \in Memories, Deleted(m)
        PROVE  IndexInv'
    <2>1. IsPurge(memRow, memRow', m)
      BY <1>0, <1>8, PurgedRow DEF Deleted
    <2>2. \A n \in Memories : n # m => memRow'[n] = memRow[n] /\ vecOf'[n] = vecOf[n]
      BY <1>8, <2>1 DEF Deleted, IsPurge, AllBut, MemType
    <2>3. UNCHANGED <<jobs, doing, overtaken>> /\ memRow'[m].at # "live"
      BY <1>8, <2>1 DEF Deleted, memHistory, IsPurge
    <2> QED
      BY <1>0, <1>a, <2>2, <2>3, IndexByNoSpawn DEF LiveMemory
  <1>9. CASE EditWrite
    <2> DEFINE d == doing[Loop]
               R == Rewritten(memRow, d.memory, d.text, d.tag)
    <2>1. d.memory \in Memories /\ d.text \in Texts /\ d.tag \in BOOLEAN /\ d.embed \in BOOLEAN
      BY <1>9, DoingFields DEF EditWrite, MemoryThreads, Edits
    <2>2. IF Exists(memRow, d.memory) THEN memRow' = R ELSE memRow' = memRow
      BY <1>9 DEF EditWrite, CommitEdit, Rewritten
    <2>3. vecOf' = vecOf /\ doing' = [doing EXCEPT ![Loop] = Idle]
      BY <1>9 DEF EditWrite
    <2>4. IF d.embed THEN Spawn({<<d.memory, d.text>>})
          ELSE /\ overtaken' = IF memRow[d.memory].text # d.old[1] THEN overtaken \cup {d.memory} ELSE overtaken
               /\ jobs' = jobs
      BY <1>9 DEF EditWrite
    <2>5. ~d.embed => d.text = d.old[1]
      BY <1>0, <1>9 DEF SilentEdit, EditWrite
    <2> HIDE DEF d
    <2>6. IsEdit(memRow, R, d.memory, d.text)
      BY <1>0, <2>1, RewrittenRow
    <2> HIDE DEF R
    <2>7. SilentEdit'
      BY <1>a, <2>3, IdleEditsNothing DEF MemType, MemoryThreads
    <2>8. CASE d.embed
      <3>1. {<<d.memory, d.text>>} \in SUBSET (Memories \X Texts)
        BY <2>1
      <3>2. \A n \in Memories : n # d.memory => memRow'[n] = memRow[n]
        BY <2>2, <2>6 DEF IsEdit, AllBut
      <3>3. LiveMemory(memRow', d.memory) => memRow'[d.memory].text = d.text
        BY <2>2, <2>6 DEF IsEdit, LiveMemory, Exists
      <3> QED
        BY <1>0, <2>3, <2>4, <2>7, <2>8, <3>1, <3>2, <3>3, IndexBySpawn DEF LiveMemory
    <2>9. CASE ~d.embed
      <3>1. \A n \in Memories : LiveMemory(memRow', n) =>
               n \in overtaken' \/ (LiveMemory(memRow, n) /\ memRow'[n].text = memRow[n].text)
        BY <2>2, <2>4, <2>5, <2>6, <2>9 DEF IsEdit, AllBut, LiveMemory
      <3> QED
        BY <1>0, <2>3, <2>4, <2>7, <2>9, <3>1, IndexByNoSpawn
    <2> QED
      BY <2>1, <2>8, <2>9
  <1>10. ASSUME NEW m \in Memories, NEW x \in Contents, MergeRead(m, x)
         PROVE  IndexInv'
    <2>1. doing'[Loop].op = "merge"
      BY <1>10 DEF MergeRead, MemType, MemoryThreads
    <2> QED
      BY <1>5, <1>10, <2>1 DEF MergeRead, memHistory
  <1>11. CASE MergeWrite
    <2> DEFINE d == doing[Loop]
               P == IF Exists(memRow, d.memory) THEN [memRow EXCEPT ![d.memory].text = d.text] ELSE memRow
               R == [n \in Memories |-> IF n \in d.members /\ Exists(P, n) THEN [P[n] EXCEPT !.over = d.memory] ELSE P[n]]
    <2>1. d.memory \in Memories /\ d.text \in Texts /\ d.members \in SUBSET Memories
      BY <1>11, DoingFields DEF MergeWrite, MemoryThreads, Merges, Texts
    <2>2. memRow' = R /\ vecOf' = vecOf /\ doing' = [doing EXCEPT ![Loop] = Idle] /\ Spawn({<<d.memory, d.text>>})
      BY <1>11 DEF MergeWrite, CommitEdit
    <2> HIDE DEF d
    <2>3. IF Exists(memRow, d.memory) THEN IsEdit(memRow, P, d.memory, d.text) ELSE P = memRow
      BY <1>0, <2>1, RowWithText
    <2> HIDE DEF P
    <2>4. Hides(P, R, {n \in d.members : Exists(P, n)}, d.memory)
      BY <1>0, <2>1, <2>3, HiddenRows DEF IsEdit, AllBut
    <2> HIDE DEF R
    <2>5. \A n \in Memories : n # d.memory => R[n].at = memRow[n].at /\ R[n].text = memRow[n].text
      BY <2>3, <2>4 DEF IsEdit, AllBut, Hides
    <2>6. LiveMemory(R, d.memory) => R[d.memory].text = d.text
      BY <2>1, <2>3, <2>4 DEF IsEdit, Hides, LiveMemory, Exists
    <2>7. {<<d.memory, d.text>>} \in SUBSET (Memories \X Texts)
      BY <2>1
    <2>8. SilentEdit'
      BY <1>a, <2>2, IdleEditsNothing DEF MemType, MemoryThreads
    <2> QED
      BY <1>0, <2>2, <2>5, <2>6, <2>7, <2>8, IndexBySpawn DEF LiveMemory
  <1>12. ASSUME NEW w \in Workers, NEW m \in Memories, NEW x \in Contents, PutRead(w, m, x)
         PROVE  IndexInv'
    <2>1. doing'[Loop] = doing[Loop] \/ doing'[Loop] = [op |-> "put", memory |-> m, text |-> x]
      BY <1>12 DEF PutRead, MemType, MemoryThreads
    <2>2. doing'[Loop] = doing[Loop] \/ doing'[Loop].op # "edit"
      BY <2>1
    <2> QED
      BY <1>5, <1>12, <2>2 DEF PutRead, memHistory
  <1>13. ASSUME NEW w \in Workers, PutWrite(w)
         PROVE  IndexInv'
    <2> DEFINE d == doing[w]
               R == [memRow EXCEPT ![d.memory].text = d.text]
    <2>1. d.memory \in Memories /\ d.text \in Texts
      BY <1>13, DoingFields DEF PutWrite, MemoryThreads, Puts, Texts
    <2>2. \/ memRow' = R /\ Spawn({<<d.memory, d.text>>})
          \/ memRow' = memRow /\ UNCHANGED <<jobs, overtaken>>
      BY <1>13 DEF PutWrite, CommitEdit, NoSpawn
    <2>3. vecOf' = vecOf /\ doing' = [doing EXCEPT ![w] = Idle]
      BY <1>13 DEF PutWrite
    <2> HIDE DEF d
    <2>4. IsEdit(memRow, R, d.memory, d.text)
      BY <1>0, <2>1, RowWithText
    <2> HIDE DEF R
    <2>5. doing'[Loop] = doing[Loop] \/ doing'[Loop].op # "edit"
      BY <2>3, IdleEditsNothing DEF MemType, MemoryThreads
    <2>6. {<<d.memory, d.text>>} \in SUBSET (Memories \X Texts)
      BY <2>1
    <2>7. CASE memRow' = R /\ Spawn({<<d.memory, d.text>>})
      BY <1>0, <1>a, <2>3, <2>4, <2>5, <2>6, <2>7, IndexBySpawn DEF IsEdit, AllBut, LiveMemory
    <2> QED
      BY <1>5, <2>2, <2>3, <2>5, <2>7
  <1>14. ASSUME NEW w \in Workers, NEW m \in Memories, BulkTag(w, m)
         PROVE  IndexInv'
    <2>1. IsEdit(memRow, memRow', m, memRow[m].text)
      BY <1>0, <1>14, RowWithTag DEF BulkTag, CommitEdit
    <2> QED
      BY <1>5, <1>14, <2>1 DEF BulkTag, NoSpawn, IsEdit, AllBut
  <1>15. ASSUME NEW m \in Memories, NEW x \in Texts, NEW tag \in BOOLEAN, NEW embed \in BOOLEAN,
                EditRead(m, x, tag, embed), ~embed => x = memRow[m].text
         PROVE  IndexInv'
    <2>1. UNCHANGED <<memRow, vecOf, jobs, overtaken>>
      BY <1>15 DEF EditRead, memHistory
    <2>2. doing'[Loop] = [op |-> "edit", memory |-> m, text |-> x, tag |-> tag, old |-> Tracked(memRow, m),
                          embed |-> embed]
      BY <1>15 DEF EditRead, MemType, MemoryThreads
    <2>3. SilentEdit'
      BY <1>15, <2>2 DEF SilentEdit, Tracked
    <2> QED
      BY <1>0, <2>1, <2>3, IndexByNoSpawn DEF LiveMemory
  <1>16. ASSUME NEW m \in Memories, NEW r \in revisions[m], Revert(m, r)
         PROVE  IndexInv'
    <2>1. r[1] \in Texts /\ r[2] \in BOOLEAN
      BY DEF Versions, MemType
    <2> QED
      BY <1>15, <1>16, <2>1 DEF Revert
  <1>17. ASSUME NEW m \in Memories, NEW x \in Contents, Update(m, x)
         PROVE  IndexInv'
    BY <1>0, <1>15, <1>17, RowFields DEF Update, Texts
  <1>18. ASSUME NEW j \in jobs, Embed(j)
         PROVE  IndexInv'
    <2>1. UNCHANGED <<memRow, overtaken, doing>> /\ jobs' = jobs \ {j}
      BY <1>18 DEF Embed, memHistory
    <2>2. j.memory \in Memories
      BY DEF MemType
    <2>3. vecOf' = IF Exists(memRow, j.memory) THEN [vecOf EXCEPT ![j.memory] = j.text] ELSE vecOf
      BY <1>18 DEF Embed
    <2>4. ASSUME NEW m \in Memories, LiveMemory(memRow, m), m \notin overtaken
          PROVE  /\ \A k \in jobs' : k.memory = m => k.text = memRow[m].text
                 /\ (\A k \in jobs' : k.memory # m) => vecOf'[m] = memRow[m].text
      <3>1. /\ \A k \in jobs : k.memory = m => k.text = memRow[m].text
            /\ (\A k \in jobs : k.memory # m) => vecOf[m] = memRow[m].text
        BY <1>0, <2>4 DEF JobsRight
      <3>2. CASE j.memory = m
        BY <2>1, <2>3, <2>4, <3>1, <3>2 DEF MemType, LiveMemory, Exists
      <3>3. CASE j.memory # m
        BY <2>1, <2>2, <2>3, <3>1, <3>3 DEF MemType
      <3> QED
        BY <3>2, <3>3
    <2>5. JobsRight'
      BY <2>1, <2>4 DEF JobsRight, LiveMemory
    <2> QED
      BY <1>a, <2>1, <2>5
  <1>19. ASSUME NEW j \in jobs, EmbedFail(j)
         PROVE  IndexInv'
    <2>1. /\ UNCHANGED <<memRow, vecOf, doing>> /\ jobs' = jobs \ {j}
          /\ overtaken' = overtaken \cup {j.memory}
      BY <1>19 DEF EmbedFail
    <2>2. JobsRight'
      BY <1>0, <2>1 DEF JobsRight, LiveMemory
    <2> QED
      BY <1>a, <2>1, <2>2
  <1>20. ASSUME NEW m \in Memories, ReindexAll(m)
         PROVE  IndexInv'
    <2>1. memRow' = memRow /\ doing' = doing /\ Spawn({<<m, memRow[m].text>>})
      BY <1>20 DEF ReindexAll
    <2>0. vecOf' = [n \in Memories |-> IF Exists(memRow, n) THEN vecOf[n] ELSE NoOne]
      BY <1>20 DEF ReindexAll
    <2>2. \A n \in Memories : LiveMemory(memRow, n) => vecOf'[n] = vecOf[n]
      BY <2>0 DEF LiveMemory, Exists
    <2>3. {<<m, memRow[m].text>>} \in SUBSET (Memories \X Texts)
      BY <1>0, RowFields
    <2> QED
      BY <1>0, <1>a, <2>1, <2>2, <2>3, IndexBySpawn DEF LiveMemory
  <1>21. ASSUME UNCHANGED <<memRow, vecOf, jobs, overtaken, doing>>
         PROVE  IndexInv'
    BY <1>5, <1>21
  <1> QED
    BY <1>1, <1>2, <1>3, <1>4, <1>6, <1>7, <1>8, <1>9, <1>10, <1>11, <1>12, <1>13, <1>14, <1>16, <1>17, <1>18,
       <1>19, <1>20, <1>21
    DEF MemNext, memVars, memHistory, Normalize, ApiAdd, Delete, ApiDelete, CompactRevisions

\* As soon as no embedding of a live memory is due, its vectors are those of its current text,
\* unless two of its embeddings ran at once, one failed, or a revert wrote over the dashboard.
THEOREM IndexCurrentHolds == MemSpec => []IndexCurrent
  <1>1. IndexInv => IndexCurrent
    BY DEF IndexInv, JobsRight, IndexCurrent
  <1> QED
    BY <1>1, TypeInit, TypeStep, IndexInit, IndexStep, PTL DEF MemSpec
=============================================================================
