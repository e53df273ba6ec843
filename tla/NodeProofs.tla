----------------------------- MODULE NodeProofs -----------------------------
(* Theorems about LocalUpsert, what holds however the threads of a node    *)
(* interleave, and what holds of an upsert that nothing else comes         *)
(* between; and about PeerSync, what holds of nodes that exchange records  *)
(* without a hub, however many, for all batch sizes and retentions.        *)
EXTENDS LocalUpsert, PeerSync, FiniteSetTheorems, WellFoundedInduction, TLAPS

\* The high-water mark an upsert has read is never above the last id.
MarksBehind == \A u \in Threads : mark[u] <= lastId

EchoInv == TypeOK /\ MarksBehind /\ NoEcho

\* An upsert under way is the only one, the outbox has not grown since it
\* read its mark, and the row is the one it has read.
OneAtATime == \A u, v \in Threads : at[u] # "idle" /\ at[v] # "idle" => u = v
MarkIsCurrent ==
    /\ \A u \in Threads : at[u] # "idle" => mark[u] = lastId
    /\ \A o \in outbox : o.id <= lastId
RowIsCurrent == \A u \in Threads : at[u] = "read_row" => local[u] = row

\* No version is newer than the clock.
StampsGiven == /\ row.ts <= clock
               /\ \A v \in remote : v.ts <= clock
               /\ \A u \in Threads : rec[u].ts <= clock
               /\ draft <= clock

\* What is kept as long as nothing overlaps.
NewestHeld == ~backdated => \A ts \in held : row.ts >= ts
AllTags == kept \subseteq row.tags

AloneInv == /\ TypeOK /\ StampsGiven /\ OneAtATime /\ MarkIsCurrent
            /\ RowIsCurrent /\ EditsAlwaysKept /\ NewestHeld /\ AllTags

-----------------------------------------------------------------------------
\* Suppressing rows keeps their ids, stamps and origin.
LEMMA SuppressType ==
    ASSUME NEW S, NEW max \in Nat,
           S \subseteq [id : Nat, ts : 0..MaxStamp, sent : BOOLEAN, echo : BOOLEAN]
    PROVE  /\ Suppress(S, max) \subseteq
                  [id : Nat, ts : 0..MaxStamp, sent : BOOLEAN, echo : BOOLEAN]
           /\ \A p \in Suppress(S, max) : \E o \in S :
                 /\ p.id = o.id /\ p.echo = o.echo
                 /\ p.sent = (o.sent \/ o.id > max)
<1> SUFFICES ASSUME NEW p \in Suppress(S, max)
             PROVE  /\ p \in [id : Nat, ts : 0..MaxStamp, sent : BOOLEAN, echo : BOOLEAN]
                    /\ \E o \in S : /\ p.id = o.id /\ p.echo = o.echo
                                    /\ p.sent = (o.sent \/ o.id > max)
    OBVIOUS
<1>1. PICK o \in S : p = IF o.id > max THEN [o EXCEPT !.sent = TRUE] ELSE o
    BY DEF Suppress
<1>2. o \in [id : Nat, ts : 0..MaxStamp, sent : BOOLEAN, echo : BOOLEAN]
    OBVIOUS
<1>3. CASE o.id > max
    BY <1>1, <1>2, <1>3
<1>4. CASE ~(o.id > max)
    BY <1>1, <1>2, <1>4
<1> QED  BY <1>3, <1>4

\* A step keeps the type invariant.
LEMMA StepType == TypeOK /\ [Next]_vars => TypeOK'
<1> SUFFICES ASSUME TypeOK, [Next]_vars PROVE TypeOK'
    OBVIOUS
<1> USE LocalBounds
<1>0. ASSUME NEW ts \in 0..MaxStamp, NEW tags \in SUBSET Tags, Write(ts, tags),
             clock' \in 0..MaxStamp, draft' \in 0..MaxStamp
      PROVE  TypeOK'
    <2>1. [ts |-> ts, tags |-> tags] \in Versions
        BY DEF Versions
    <2>2. Trigger(ts, FALSE) \in
             [id : Nat, ts : 0..MaxStamp, sent : BOOLEAN, echo : BOOLEAN]
        BY DEF Trigger, TypeOK
    <2>3. outbox' \subseteq [id : Nat, ts : 0..MaxStamp, sent : BOOLEAN, echo : BOOLEAN]
        BY <1>0, <2>2 DEF Write, TypeOK
    <2>4. backdated' \in BOOLEAN
        <3>1. CASE ts < row.ts
            BY <1>0, <3>1 DEF Write
        <3>2. CASE ~(ts < row.ts)
            <4>1. backdated' = backdated
                BY <1>0, <3>2 DEF Write
            <4> QED  BY <4>1 DEF TypeOK
        <3> QED  BY <3>1, <3>2
    <2>5. /\ remote' \subseteq Versions /\ row' \in Versions /\ lastId' \in Nat
          /\ held' \subseteq 0..MaxStamp /\ kept' \subseteq Tags
        BY <1>0, <2>1 DEF Write, TypeOK
    <2>6. overlapped' \subseteq Threads
        BY <1>0 DEF Write, TypeOK, NoteOverlap, UnderWay
    <2>7. UNCHANGED <<at, rec, mark, local>>
        BY <1>0 DEF Write, reading
    <2>8. /\ at' \in [Threads -> {"idle", "read_max", "read_row"}] /\ rec' \in [Threads -> Versions]
          /\ mark' \in [Threads -> Nat] /\ local' \in [Threads -> Versions]
        BY <2>7 DEF TypeOK
    <2> QED  BY <1>0, <2>3, <2>4, <2>5, <2>6, <2>8 DEF TypeOK
<1>1. ASSUME NEW tags \in SUBSET Tags, Edit(tags) PROVE TypeOK'
    <2>1. clock + 1 \in 0..MaxStamp
        BY <1>1 DEF Edit, TypeOK
    <2> QED  BY <1>0, <1>1, <2>1 DEF Edit, TypeOK
<1>13. CASE TakeStamp
    <2>1. clock + 1 \in 0..MaxStamp
        BY <1>13 DEF TakeStamp, TypeOK
    <2> QED  BY <1>13, <2>1 DEF TakeStamp, TypeOK, reading, history
<1>14. ASSUME NEW tags \in SUBSET Tags, EditWithStamp(tags) PROVE TypeOK'
    BY <1>0, <1>14 DEF EditWithStamp, TypeOK
<1>2. ASSUME NEW tags \in SUBSET Tags, EditElsewhere(tags) PROVE TypeOK'
    <2>1. clock + 1 \in 0..MaxStamp
        BY <1>2 DEF EditElsewhere, TypeOK
    <2>2. [ts |-> clock + 1, tags |-> tags] \in Versions
        BY <2>1 DEF Versions
    <2> QED  BY <1>2, <2>1, <2>2 DEF EditElsewhere, TypeOK, reading, history
<1>3. ASSUME NEW u \in Threads, ReadMax(u) PROVE TypeOK'
    BY <1>3 DEF ReadMax, TypeOK, history, NoteOverlap, UnderWay
<1>4. ASSUME NEW u \in Threads, ReadRow(u) PROVE TypeOK'
    BY <1>4 DEF ReadRow, TypeOK, history
<1>5. ASSUME NEW u \in Threads, Return(u)
      PROVE  /\ at' \in [Threads -> {"idle", "read_max", "read_row"}]
             /\ rec' \in [Threads -> Versions]
             /\ mark' \in [Threads -> Nat]
             /\ local' \in [Threads -> Versions]
             /\ overlapped' \subseteq Threads
             /\ draft' \in 0..MaxStamp
    <2>1. NoVersion \in Versions
        BY DEF NoVersion, Versions
    <2> QED  BY <1>5, <2>1 DEF Return, TypeOK
<1>6. ASSUME NEW u \in Threads
      PROVE  /\ rec[u] \in Versions /\ local[u] \in Versions
             /\ rec[u].ts \in 0..MaxStamp /\ rec[u].tags \subseteq Tags
             /\ Merged(u) \subseteq Tags
             /\ mark[u] \in Nat
    <2>1. rec[u] \in Versions /\ local[u] \in Versions /\ mark[u] \in Nat
        BY DEF TypeOK
    <2> QED  BY <2>1 DEF Merged, Versions
<1>12. ASSUME NEW u \in Threads, Accept(u)
       PROVE  /\ held' \subseteq 0..MaxStamp /\ kept' \subseteq Tags /\ backdated' \in BOOLEAN
              /\ Return(u)
    BY <1>6, <1>12 DEF Accept, TypeOK
<1>7. ASSUME NEW u \in Threads, Ignore(u) PROVE TypeOK'
    BY <1>5, <1>12, <1>7 DEF Ignore, TypeOK
<1>8. ASSUME NEW u \in Threads, MergeTags(u) PROVE TypeOK'
    <2>1. row' \in Versions
        BY <1>6, <1>8 DEF MergeTags, TypeOK, Versions
    <2>2. outbox' \subseteq [id : Nat, ts : 0..MaxStamp, sent : BOOLEAN, echo : BOOLEAN]
        <3>1. Suppress(outbox, mark[u]) \subseteq
                 [id : Nat, ts : 0..MaxStamp, sent : BOOLEAN, echo : BOOLEAN]
            BY <1>6, SuppressType DEF TypeOK
        <3> QED  BY <3>1, <1>8 DEF MergeTags
    <2> QED  BY <2>1, <2>2, <1>5, <1>12, <1>8 DEF MergeTags, TypeOK
<1>9. ASSUME NEW u \in Threads, Store(u) PROVE TypeOK'
    <2>1. row' \in Versions
        BY <1>6, <1>9 DEF Store, Versions
    <2>2. Trigger(rec[u].ts, TRUE) \in
             [id : Nat, ts : 0..MaxStamp, sent : BOOLEAN, echo : BOOLEAN]
        BY <1>6 DEF Trigger, TypeOK
    <2>3. outbox \cup {Trigger(rec[u].ts, TRUE)} \subseteq
             [id : Nat, ts : 0..MaxStamp, sent : BOOLEAN, echo : BOOLEAN]
        BY <2>2 DEF TypeOK
    <2>4. outbox' \subseteq [id : Nat, ts : 0..MaxStamp, sent : BOOLEAN, echo : BOOLEAN]
        <3>1. \A S : S \subseteq [id : Nat, ts : 0..MaxStamp, sent : BOOLEAN, echo : BOOLEAN]
                 => Suppress(S, mark[u]) \subseteq
                      [id : Nat, ts : 0..MaxStamp, sent : BOOLEAN, echo : BOOLEAN]
            BY <1>6, SuppressType
        <3>2. \/ outbox' = Suppress(outbox, mark[u])
              \/ outbox' = Suppress(outbox \cup {Trigger(rec[u].ts, TRUE)}, mark[u])
            BY <1>9 DEF Store
        <3>3. outbox \subseteq [id : Nat, ts : 0..MaxStamp, sent : BOOLEAN, echo : BOOLEAN]
            BY DEF TypeOK
        <3> QED  BY <2>3, <3>1, <3>2, <3>3
    <2>5. lastId' \in Nat
        BY <1>9 DEF Store, TypeOK
    <2> QED  BY <2>1, <2>4, <2>5, <1>5, <1>12, <1>9 DEF Store, TypeOK
<1>10. ASSUME NEW u \in Threads, InsertFails(u) PROVE TypeOK'
    BY <1>5, <1>10 DEF InsertFails, TypeOK, history
<1>11. CASE UNCHANGED vars
    BY <1>11 DEF vars, TypeOK
<1> QED
    BY <1>1, <1>2, <1>3, <1>4, <1>7, <1>8, <1>9, <1>10, <1>11, <1>13, <1>14
       DEF Next, InsertRow, UpdateRow

-----------------------------------------------------------------------------
(* No echo, however the threads interleave.                                *)

LEMMA TypeInit == Init => TypeOK
<1> SUFFICES ASSUME Init PROVE TypeOK
    OBVIOUS
<1>1. 0 \in 0..MaxStamp /\ NoVersion \in Versions
    BY LocalBounds DEF Versions, NoVersion
<1>2. backdated \in BOOLEAN
    BY DEF Init
<1>3. /\ clock \in 0..MaxStamp /\ draft \in 0..MaxStamp /\ remote \subseteq Versions /\ row \in Versions
      /\ outbox = {} /\ lastId \in Nat /\ held \subseteq 0..MaxStamp /\ kept \subseteq Tags /\ overlapped \subseteq Threads
    BY <1>1 DEF Init
<1>4. /\ at \in [Threads -> {"idle", "read_max", "read_row"}] /\ rec \in [Threads -> Versions]
      /\ mark \in [Threads -> Nat] /\ local \in [Threads -> Versions]
    BY <1>1 DEF Init
<1> QED  BY <1>2, <1>3, <1>4 DEF TypeOK

LEMMA EchoInit == Init => EchoInv
BY TypeInit DEF Init, EchoInv, MarksBehind, NoEcho

LEMMA EchoStep == EchoInv /\ [Next]_vars => EchoInv'
<1> SUFFICES ASSUME EchoInv, [Next]_vars PROVE MarksBehind' /\ NoEcho'
    BY StepType DEF EchoInv
<1> USE DEF EchoInv
<1>0. /\ \A u \in Threads : mark[u] \in Nat
      /\ lastId \in Nat
      /\ outbox \subseteq [id : Nat, ts : 0..MaxStamp, sent : BOOLEAN, echo : BOOLEAN]
      /\ mark \in [Threads -> Nat]
    BY DEF TypeOK
<1>1. ASSUME NEW ts, NEW tags \in SUBSET Tags, Write(ts, tags) PROVE MarksBehind' /\ NoEcho'
    BY <1>0, <1>1 DEF Write, MarksBehind, NoEcho, Trigger, reading
<1>12. CASE TakeStamp
    BY <1>12 DEF TakeStamp, MarksBehind, NoEcho, reading
<1>2. ASSUME NEW tags \in SUBSET Tags, EditElsewhere(tags)
      PROVE MarksBehind' /\ NoEcho'
    BY <1>2 DEF EditElsewhere, MarksBehind, NoEcho, reading
<1>3. ASSUME NEW u \in Threads, ReadMax(u) PROVE MarksBehind' /\ NoEcho'
    BY <1>0, <1>3 DEF ReadMax, MarksBehind, NoEcho
<1>4. ASSUME NEW u \in Threads, ReadRow(u) PROVE MarksBehind' /\ NoEcho'
    BY <1>4 DEF ReadRow, MarksBehind, NoEcho
<1>5. ASSUME NEW u \in Threads, Return(u), lastId' \in {lastId, lastId + 1}
      PROVE MarksBehind'
    BY <1>0, <1>5 DEF Return, MarksBehind
<1>6. ASSUME NEW u \in Threads, Ignore(u) PROVE MarksBehind' /\ NoEcho'
    BY <1>5, <1>6 DEF Ignore, Accept, NoEcho
\* Suppressing rows marks some as sent and none as pending.
<1>7. ASSUME NEW u \in Threads, outbox' = Suppress(outbox, mark[u]) PROVE NoEcho'
    BY <1>0, <1>7, SuppressType DEF NoEcho
<1>8. ASSUME NEW u \in Threads, MergeTags(u) PROVE MarksBehind' /\ NoEcho'
    BY <1>5, <1>7, <1>8 DEF MergeTags, Accept
\* The new row is above the mark, so it is suppressed.
<1>9. ASSUME NEW u \in Threads, Store(u) PROVE MarksBehind' /\ NoEcho'
    <2> DEFINE fresh == Trigger(rec[u].ts, TRUE)
    <2>1. fresh \in [id : Nat, ts : 0..MaxStamp, sent : BOOLEAN, echo : BOOLEAN]
        <3>1. rec[u].ts \in 0..MaxStamp
            BY DEF TypeOK, Versions
        <3> QED  BY <1>0, <3>1 DEF Trigger
    <2>2. fresh.id > mark[u]
        BY <1>0 DEF Trigger, MarksBehind
    <2>3. ASSUME outbox' = Suppress(outbox \cup {fresh}, mark[u]) PROVE NoEcho'
        <3> HIDE DEF fresh
        <3>1. outbox \cup {fresh} \subseteq
                 [id : Nat, ts : 0..MaxStamp, sent : BOOLEAN, echo : BOOLEAN]
            BY <1>0, <2>1
        <3>2. \A p \in outbox' : \E o \in outbox \cup {fresh} :
                 p.echo = o.echo /\ p.sent = (o.sent \/ o.id > mark[u])
            BY <1>0, <2>3, <3>1, SuppressType
        <3> QED  BY <2>2, <3>2 DEF NoEcho
    <2> QED  BY <1>0, <1>5, <1>7, <1>9, <2>3 DEF Store, Accept
<1>10. ASSUME NEW u \in Threads, InsertFails(u) PROVE MarksBehind' /\ NoEcho'
    BY <1>5, <1>10 DEF InsertFails, NoEcho
<1>11. CASE UNCHANGED vars
    BY <1>11 DEF vars, MarksBehind, NoEcho
<1> QED
    BY <1>1, <1>2, <1>3, <1>4, <1>6, <1>8, <1>9, <1>10, <1>11, <1>12
       DEF Next, Edit, EditWithStamp, InsertRow, UpdateRow

\* Whatever the number of threads and however they interleave, a node never
\* keeps a pending outbox row for a record it was sent (_suppress_echo).
THEOREM NoEchoHolds == Spec => []NoEcho
<1>1. EchoInv => NoEcho
    BY DEF EchoInv
<1> QED  BY EchoInit, EchoStep, <1>1, PTL DEF Spec

-----------------------------------------------------------------------------
(* An upsert that nothing comes between.                                   *)

LEMMA AloneInit == Init => AloneInv
<1> SUFFICES ASSUME Init PROVE AloneInv
    OBVIOUS
<1> USE LocalBounds
<1>1. TypeOK
    BY TypeInit
<1>2. StampsGiven /\ NewestHeld /\ AllTags
    BY DEF Init, StampsGiven, NewestHeld, AllTags, NoVersion
<1>3. OneAtATime /\ MarkIsCurrent /\ RowIsCurrent /\ EditsAlwaysKept
    BY DEF Init, OneAtATime, MarkIsCurrent, RowIsCurrent, EditsAlwaysKept
<1> QED  BY <1>1, <1>2, <1>3 DEF AloneInv

Rows == [id : Nat, ts : 0..MaxStamp, sent : BOOLEAN, echo : BOOLEAN]

\* What the invariant says of an upsert that is about to write: it is the only
\* one, and every row of the outbox is at or below its mark.
LEMMA AboutToWrite ==
    ASSUME AloneInv, NEW u \in Threads, at[u] = "read_row"
    PROVE  /\ \A v \in Threads : v # u => at[v] = "idle"
           /\ mark[u] = lastId /\ lastId \in Nat
           /\ local[u] = row
           /\ \A o \in outbox : o.id <= lastId
           /\ rec[u] \in Versions /\ row \in Versions
           /\ rec[u].ts \in 0..MaxStamp /\ row.ts \in 0..MaxStamp
           /\ rec[u].ts <= clock /\ clock \in Nat
           /\ outbox \subseteq Rows
<1>1. /\ lastId \in Nat /\ clock \in Nat /\ rec[u] \in Versions
      /\ row \in Versions /\ outbox \subseteq Rows
    BY LocalBounds DEF AloneInv, TypeOK, Rows
<1>2. rec[u].ts \in 0..MaxStamp /\ row.ts \in 0..MaxStamp
    BY <1>1 DEF Versions
<1> QED
    BY <1>1, <1>2 DEF AloneInv, OneAtATime, MarkIsCurrent, RowIsCurrent, StampsGiven

\* The end of an upsert leaves no thread at work.
LEMMA AllReturn ==
    ASSUME AloneInv, NEW u \in Threads, at[u] = "read_row", Return(u)
    PROVE  /\ \A v \in Threads : at'[v] = "idle"
           /\ OneAtATime' /\ RowIsCurrent'
           /\ \A v \in Threads : rec'[v].ts <= clock
           /\ draft' = draft
<1>1. \A v \in Threads : at'[v] = "idle"
    BY AboutToWrite DEF Return, AloneInv, TypeOK
<1>2. \A v \in Threads : rec'[v].ts <= clock
    <2>1. NoVersion.ts = 0 /\ 0 <= clock
        BY AboutToWrite DEF NoVersion
    <2> QED  BY <2>1 DEF Return, AloneInv, TypeOK, StampsGiven
<1>3. draft' = draft
    BY DEF Return
<1> QED  BY <1>1, <1>2, <1>3 DEF OneAtATime, RowIsCurrent

\* Rows at or below the mark are left as they are.
LEMMA NothingSuppressed ==
    ASSUME NEW S, NEW max \in Nat, S \subseteq Rows, \A o \in S : o.id <= max
    PROVE  Suppress(S, max) = S
<1>1. \A o \in S : ~(o.id > max)
    BY DEF Rows
<1> QED  BY <1>1 DEF Suppress

\* Of the rows with the upsert's own row among them, that row alone is marked.
LEMMA OnlyEchoSuppressed ==
    ASSUME AloneInv, NEW u \in Threads, at[u] = "read_row",
           NEW p \in Suppress(outbox \cup {Trigger(rec[u].ts, TRUE)}, mark[u])
    PROVE  \/ p \in outbox
           \/ p.echo /\ p.id = lastId + 1
<1> DEFINE fresh == Trigger(rec[u].ts, TRUE)
<1>1. fresh \in Rows /\ fresh.id = lastId + 1 /\ fresh.echo
    BY AboutToWrite DEF Trigger, Rows
<1>2. PICK o \in outbox \cup {fresh} :
         p = IF o.id > mark[u] THEN [o EXCEPT !.sent = TRUE] ELSE o
    BY DEF Suppress
<1>3. CASE o \in outbox
    <2>1. ~(o.id > mark[u])
        BY <1>3, AboutToWrite DEF Rows
    <2> QED  BY <1>2, <1>3, <2>1
<1>4. CASE o = fresh
    <2> HIDE DEF fresh
    <2>1. p.echo = fresh.echo /\ p.id = fresh.id
        BY <1>1, <1>2, <1>4 DEF Rows
    <2> QED  BY <1>1, <2>1
<1> QED  BY <1>3, <1>4

LEMMA AloneStep ==
    ASSUME overlapped' = {}, AloneInv, [Next]_vars
    PROVE  AloneInv'
<1> DEFINE Goal == /\ StampsGiven' /\ OneAtATime' /\ MarkIsCurrent'
                   /\ RowIsCurrent' /\ EditsAlwaysKept' /\ NewestHeld' /\ AllTags'
<1> SUFFICES Goal
    BY StepType DEF AloneInv
<1>0. /\ lastId \in Nat /\ clock \in Nat /\ row.ts \in Nat
      /\ outbox \subseteq Rows
      /\ held \subseteq Nat
      /\ \A v \in remote : v.ts \in Nat
      /\ \A u \in Threads : rec[u].ts \in Nat
      /\ rec \in [Threads -> Versions] /\ local \in [Threads -> Versions]
      /\ mark \in [Threads -> Nat]
      /\ at \in [Threads -> {"idle", "read_max", "read_row"}]
      /\ draft \in Nat /\ backdated \in BOOLEAN
    BY LocalBounds DEF AloneInv, TypeOK, Rows, Versions
<1>a. /\ StampsGiven /\ OneAtATime /\ MarkIsCurrent /\ RowIsCurrent
      /\ EditsAlwaysKept /\ NewestHeld /\ AllTags
    BY DEF AloneInv
<1>b. ASSUME NEW ts \in Nat, NEW tags \in SUBSET Tags, Write(ts, tags), clock' \in Nat,
             clock <= clock', ts <= clock', draft' <= clock'
      PROVE  Goal
    <2>1. \A u \in Threads : at[u] = "idle" /\ at'[u] = "idle"
        BY <1>b DEF Write, NoteOverlap, UnderWay, reading
    <2>2. OneAtATime' /\ RowIsCurrent'
        BY <2>1 DEF OneAtATime, RowIsCurrent
    <2>3. MarkIsCurrent'
        BY <1>0, <1>a, <1>b, <2>1 DEF Write, MarkIsCurrent, Trigger, Rows
    <2>4. EditsAlwaysKept' /\ AllTags'
        BY <1>a, <1>b DEF Write, EditsAlwaysKept, AllTags, Trigger
    <2>5. StampsGiven'
        BY <1>0, <1>a, <1>b DEF Write, StampsGiven, reading
    <2>6. NewestHeld'
        BY <1>0, <1>a, <1>b DEF Write, NewestHeld, StampsGiven
    <2> QED  BY <2>2, <2>3, <2>4, <2>5, <2>6
<1>1. ASSUME NEW tags \in SUBSET Tags, Edit(tags) PROVE Goal
    <2>1. clock' = clock + 1 /\ Write(clock + 1, tags) /\ draft' = draft
        BY <1>1 DEF Edit
    <2>2. clock + 1 \in Nat /\ clock <= clock + 1 /\ draft <= clock + 1
        BY <1>0, <1>a DEF StampsGiven
    <2> QED  BY <1>b, <2>1, <2>2
<1>12. ASSUME NEW tags \in SUBSET Tags, EditWithStamp(tags) PROVE Goal
    <2>1. clock' = clock /\ Write(draft, tags) /\ draft' = 0 /\ draft <= clock /\ 0 <= clock
        BY <1>0, <1>12, <1>a DEF EditWithStamp, StampsGiven
    <2> QED  BY <1>0, <1>b, <2>1
<1>13. CASE TakeStamp
    <2>1. StampsGiven'
        BY <1>0, <1>13, <1>a DEF TakeStamp, StampsGiven, reading
    <2> QED
        BY <1>13, <1>a, <2>1
           DEF TakeStamp, reading, history, OneAtATime, MarkIsCurrent,
               RowIsCurrent, EditsAlwaysKept, NewestHeld, AllTags
<1>2. ASSUME NEW tags \in SUBSET Tags, EditElsewhere(tags) PROVE Goal
    <2>1. StampsGiven'
        BY <1>0, <1>2, <1>a DEF EditElsewhere, StampsGiven, reading
    <2> QED
        BY <1>2, <1>a, <2>1
           DEF EditElsewhere, reading, history, OneAtATime, MarkIsCurrent,
               RowIsCurrent, EditsAlwaysKept, NewestHeld, AllTags
<1>3. ASSUME NEW u \in Threads, ReadMax(u) PROVE Goal
    <2>1. \A v \in Threads : at[v] = "idle"
        BY <1>3 DEF ReadMax, NoteOverlap, UnderWay
    <2>2. \A v \in Threads : at'[v] = IF v = u THEN "read_max" ELSE "idle"
        BY <1>0, <1>3, <2>1 DEF ReadMax
    <2>3. OneAtATime' /\ RowIsCurrent'
        BY <2>2 DEF OneAtATime, RowIsCurrent
    <2>4. MarkIsCurrent'
        BY <1>0, <1>3, <1>a, <2>2 DEF ReadMax, MarkIsCurrent
    <2>5. StampsGiven'
        BY <1>0, <1>3, <1>a DEF ReadMax, StampsGiven
    <2> QED
        BY <1>3, <1>a, <2>3, <2>4, <2>5
           DEF ReadMax, history, EditsAlwaysKept, NewestHeld, AllTags
<1>4. ASSUME NEW u \in Threads, ReadRow(u) PROVE Goal
    <2>1. \A v \in Threads : at'[v] # "idle" => at[v] # "idle"
        BY <1>0, <1>4 DEF ReadRow
    <2>2. OneAtATime' /\ MarkIsCurrent'
        BY <1>4, <1>a, <2>1 DEF ReadRow, OneAtATime, MarkIsCurrent
    <2>3. RowIsCurrent'
        BY <1>0, <1>4, <1>a DEF ReadRow, RowIsCurrent
    <2> QED
        BY <1>4, <1>a, <2>2, <2>3
           DEF ReadRow, history, StampsGiven, EditsAlwaysKept, NewestHeld, AllTags
<1>5. ASSUME NEW u \in Threads, Ignore(u) PROVE Goal
    <2>1. /\ at[u] = "read_row" /\ Return(u)
          /\ UNCHANGED <<clock, remote, row, outbox, lastId>>
        BY <1>5 DEF Ignore, Accept
    <2>2. rec[u].ts <= row.ts /\ rec[u].tags \subseteq row.tags
        BY <1>0, <1>5, <2>1, AboutToWrite DEF Ignore, Wins, Merged
    <2>3. NewestHeld' /\ AllTags'
        BY <1>5, <1>a, <2>1, <2>2 DEF Ignore, Accept, NewestHeld, AllTags
    <2> QED
        BY <1>a, <2>1, <2>3, AllReturn DEF StampsGiven, MarkIsCurrent, EditsAlwaysKept
<1>6. ASSUME NEW u \in Threads, MergeTags(u) PROVE Goal
    <2>1. /\ at[u] = "read_row" /\ Return(u)
          /\ UNCHANGED <<clock, remote, lastId>>
          /\ row' = [row EXCEPT !.tags = row.tags \cup rec[u].tags]
        BY <1>6, AboutToWrite DEF MergeTags, Accept, Merged
    <2>2. row'.ts = row.ts /\ row'.tags = row.tags \cup rec[u].tags
        BY <2>1, AboutToWrite DEF Versions
    <2>3. rec[u].ts <= row.ts
        BY <1>0, <1>6, <2>1, AboutToWrite DEF MergeTags, Wins
    <2>4. outbox' = outbox
        BY <1>6, <2>1, AboutToWrite, NothingSuppressed DEF MergeTags
    <2>5. NewestHeld' /\ AllTags'
        BY <1>6, <1>a, <2>2, <2>3 DEF MergeTags, Accept, NewestHeld, AllTags
    <2> QED
        BY <1>a, <2>1, <2>2, <2>4, <2>5, AllReturn
           DEF StampsGiven, MarkIsCurrent, EditsAlwaysKept
<1>7. ASSUME NEW u \in Threads, at[u] = "read_row", row.ts <= rec[u].ts, Store(u)
      PROVE  Goal
    <2>1. /\ Return(u) /\ UNCHANGED <<clock, remote>>
          /\ row'.ts = rec[u].ts
          /\ row'.tags = row.tags \cup rec[u].tags
        BY <1>7, AboutToWrite DEF Store, Accept, Merged
    <2>2. \/ outbox' = outbox /\ lastId' = lastId
          \/ /\ outbox' = Suppress(outbox \cup {Trigger(rec[u].ts, TRUE)}, mark[u])
             /\ lastId' = lastId + 1
        BY <1>7, AboutToWrite, NothingSuppressed DEF Store
    <2>3. \A p \in outbox' : p \in outbox \/ (p.echo /\ p.id = lastId' /\ lastId' = lastId + 1)
        BY <1>7, <2>2, OnlyEchoSuppressed
    <2>4. EditsAlwaysKept'
        BY <1>a, <2>3 DEF EditsAlwaysKept
    <2>5. MarkIsCurrent'
        <3>1. \A o \in outbox : o.id \in Nat /\ o.id <= lastId
            BY <1>0, <1>a DEF Rows, MarkIsCurrent
        <3>2. \A p \in outbox' : p.id <= lastId'
            BY <1>0, <2>2, <2>3, <3>1
        <3> QED  BY <1>7, <2>1, <3>2, AllReturn DEF MarkIsCurrent
    <2>6. NewestHeld'
        BY <1>0, <1>7, <1>a, <2>1 DEF Store, Accept, NewestHeld
    <2>7. AllTags'
        BY <1>7, <1>a, <2>1 DEF Store, Accept, AllTags
    <2>8. StampsGiven'
        BY <1>7, <1>a, <2>1, AllReturn, AboutToWrite DEF StampsGiven
    <2> QED  BY <1>7, <2>1, <2>4, <2>5, <2>6, <2>7, <2>8, AllReturn
<1>8. ASSUME NEW u \in Threads, InsertRow(u) PROVE Goal
    <2>1. at[u] = "read_row" /\ row.ts <= rec[u].ts /\ Store(u)
        BY <1>0, <1>8 DEF InsertRow
    <2> QED  BY <1>7, <2>1
\* The row was there when it was read, so the INSERT is not tried.
<1>9. ASSUME NEW u \in Threads, InsertFails(u) PROVE Goal
    BY <1>0, <1>9, AboutToWrite DEF InsertFails
<1>10. ASSUME NEW u \in Threads, UpdateRow(u) PROVE Goal
    <2>1. at[u] = "read_row" /\ Store(u)
        BY <1>10 DEF UpdateRow
    <2>2. row.ts <= rec[u].ts
        BY <1>0, <1>10, <2>1, AboutToWrite DEF UpdateRow, Wins
    <2> QED  BY <1>7, <2>1, <2>2
<1>11. CASE UNCHANGED vars
    BY <1>11, <1>a
       DEF vars, StampsGiven, OneAtATime, MarkIsCurrent, RowIsCurrent,
           EditsAlwaysKept, NewestHeld, AllTags
<1> QED
    BY <1>1, <1>2, <1>3, <1>4, <1>5, <1>6, <1>8, <1>9, <1>10, <1>11, <1>12, <1>13 DEF Next

\* The invariant of an upsert that nothing comes between holds until the first
\* overlap, and no overlap is ever forgotten.
QuietInv == TypeOK /\ (overlapped = {} => AloneInv)

LEMMA OverlapStays == ASSUME [Next]_vars PROVE overlapped \subseteq overlapped'
BY DEF Next, Write, Edit, TakeStamp, EditWithStamp, EditElsewhere, ReadMax, ReadRow, Ignore, MergeTags, InsertRow,
       InsertFails, UpdateRow, Store, Accept, Return, NoteOverlap, vars

LEMMA QuietHolds == Spec => []QuietInv
<1>1. Init => QuietInv
    BY AloneInit DEF QuietInv, AloneInv
<1>2. QuietInv /\ [Next]_vars => QuietInv'
    BY StepType, OverlapStays, AloneStep DEF QuietInv
<1> QED  BY <1>1, <1>2, PTL DEF Spec

\* Storing a record never takes a local edit out of the outbox, for as long as
\* no other thread writes between the reads and the writes of _upsert_one.
THEOREM EditsKeptHolds == Spec => []EditsKept
<1>1. QuietInv => EditsKept
    BY DEF QuietInv, AloneInv, EditsKept
<1> QED  BY QuietHolds, <1>1, PTL

\* Under the same condition, and until an edit has written a stamp older than the row's, the row
\* is no older than anything that was edited or accepted here, in any order of arrival.
THEOREM NewestKeptHolds == Spec => []NewestKept
<1>1. QuietInv => NewestKept
    BY DEF QuietInv, AloneInv, NewestKept, NewestHeld
<1> QED  BY QuietHolds, <1>1, PTL

\* Under the same condition no accepted tag is lost before the next local edit
\* (merge_tags).
THEOREM TagsKeptHolds == Spec => []TagsKept
<1>1. QuietInv => TagsKept
    BY DEF QuietInv, AloneInv, TagsKept, AllTags
<1> QED  BY QuietHolds, <1>1, PTL

\* What is to be sent stays in the outbox and what was received never enters it, for any
\* number of threads.
THEOREM OutboxRightHolds == Spec => []OutboxRight
<1> QED  BY EditsKeptHolds, NoEchoHolds, PTL DEF OutboxRight

-----------------------------------------------------------------------------
(* PeerSync.                                                               *)
Writes == [rec : PeerRecords, dead : BOOLEAN, by : Peers, day : Nat]
Visiting == [at : {"push", "pull"}, with : Peers, todo : SUBSET Peers,
             from : Nat, batches : Nat, whole : BOOLEAN]
Cleaning == [at : {"clean"}, whole : BOOLEAN]
Cycles == {Off} \cup Visiting \cup Cleaning

PeerTypeOK ==
    /\ log \in Seq(Writes)
    /\ copy \in [Peers -> [PeerRecords -> Nat]]
    /\ peerOutbox \in [Peers -> SUBSET Nat]
    /\ sends \in [Peers -> [Peers -> SUBSET Nat]]
    /\ since \in [Peers -> [Peers -> Nat]]
    /\ cycle \in [Peers -> Cycles]
    /\ asleep \subseteq Peers /\ ran \subseteq Peers
    /\ peerDay \in Nat /\ faults \in Nat /\ late \in BOOLEAN
    /\ apart \in [PeerPairs -> Nat]
    /\ gone \in [Peers -> SUBSET Nat]

\* What rows, outboxes, markers and removed tombstones stand for was written,
\* by the node whose outbox has it.
WasWritten ==
    /\ \A n \in Peers : \A m \in PeerRecords :
          copy[n][m] # 0 => copy[n][m] \in DOMAIN log /\ log[copy[n][m]].rec = m
    /\ \A n \in Peers : \A v \in peerOutbox[n] : v \in DOMAIN log /\ log[v].by = n
    /\ \A n, r \in Peers : sends[n][r] \subseteq DOMAIN log
    /\ \A n \in Peers : \A g \in gone[n] : g \in DOMAIN log /\ log[g].dead

\* A cycle does not visit its own node.
VisitsOthers ==
    \A n \in Peers : cycle[n] \in Visiting => cycle[n].with # n /\ n \notin cycle[n].todo

\* Later writes have later days, none later than today.
DaysRise ==
    /\ \A v \in DOMAIN log : log[v].day <= peerDay
    /\ \A u, v \in DOMAIN log : u <= v => log[u].day <= log[v].day

NotApartForLong == ~late => \A p \in PeerPairs : apart[p] <= OutboxDays

PeerBase == PeerTypeOK /\ WasWritten /\ VisitsOthers /\ DaysRise /\ NotApartForLong

-----------------------------------------------------------------------------
\* A set of numbers has a least one, and if it is bounded a greatest, Max.
LEMMA LeastOf ==
    ASSUME NEW S, S \subseteq Nat, S # {}
    PROVE  \E x \in S : \A y \in S : x <= y
<1>1. PICK x \in S : \A y \in S : ~ (<<y, x>> \in OpToRel(<, Nat))
    BY NatLessThanWellFounded, WFMin
<1>2. \A y \in S : ~ (y < x)
    BY <1>1 DEF OpToRel
<1> QED  BY <1>2

LEMMA GreatestOf ==
    ASSUME NEW top \in Nat, NEW S, S \subseteq 0..top, S # {}
    PROVE  Max(S) \in S /\ \A y \in S : y <= Max(S)
<1> DEFINE Below == {top - y : y \in S}
<1>0. \A y \in S : y \in Nat /\ top - y \in Nat
    OBVIOUS
<1>1. Below \subseteq Nat /\ Below # {}
    BY <1>0
<1>2. PICK x \in Below : \A y \in Below : x <= y
    BY <1>1, LeastOf
<1>3. PICK z \in S : x = top - z
    BY <1>2
<1>4. \A y \in S : z >= y
    BY <1>0, <1>2, <1>3
<1>5. \E w \in S : \A y \in S : w >= y
    BY <1>4
<1>6. Max(S) \in S /\ \A y \in S : Max(S) >= y
    BY <1>5 DEF Max
<1> QED  BY <1>6

\* The first k of a set of versions precede all others in it, and if they are
\* fewer than k there are no others.
LEMMA FirstFacts ==
    ASSUME NEW top \in Nat, NEW S, S \subseteq 0..top, NEW k \in Nat
    PROVE  /\ First(S, k) \subseteq S
           /\ \A v \in First(S, k) : \A w \in S \ First(S, k) : v < w
           /\ Cardinality(First(S, k)) < k => First(S, k) = S
<1> DEFINE Before(v) == {w \in S : w < v}
<1>0. S \subseteq Nat
    OBVIOUS
<1>1. \A T \in SUBSET S : IsFiniteSet(T) /\ Cardinality(T) \in Nat
    <2>1. IsFiniteSet(0..top)
        BY FS_Interval
    <2>2. IsFiniteSet(S)
        BY <2>1, FS_Subset
    <2> QED  BY <2>2, FS_Subset, FS_CardinalityType
<1>2. First(S, k) \subseteq S
    BY DEF First
<1>3. ASSUME NEW v \in First(S, k), NEW w \in S \ First(S, k) PROVE v < w
    <2>0. v \in Nat /\ w \in Nat
        BY <1>0, <1>2
    <2> SUFFICES ASSUME w <= v PROVE FALSE
        BY <2>0
    <2>1. Before(w) \subseteq Before(v)
      <3>1. \A u \in S : u < w => u < v
          BY <1>0, <2>0
      <3> QED  BY <3>1
    <2>2. Cardinality(Before(w)) <= Cardinality(Before(v))
        BY <1>1, <2>1, FS_Subset
    <2>3. Cardinality(Before(v)) < k
        BY DEF First
    <2>4. Cardinality(Before(w)) < k
        BY <2>2, <2>3, <1>1
    <2> QED  BY <2>4 DEF First
<1>4. ASSUME Cardinality(First(S, k)) < k, First(S, k) # S PROVE FALSE
    <2> DEFINE Rest == S \ First(S, k)
    <2>0. Rest \subseteq Nat /\ Rest # {}
        BY <1>0, <1>2, <1>4
    <2>1. PICK w \in Rest : \A u \in Rest : w <= u
        BY <2>0, LeastOf
    <2>2. Before(w) \subseteq First(S, k)
      <3>1. \A u \in S : u < w => u \notin Rest
          BY <1>0, <2>1
      <3> QED  BY <3>1
    <2>3. Cardinality(Before(w)) <= Cardinality(First(S, k))
        BY <1>1, <1>2, <2>2, FS_Subset
    <2>4. Cardinality(Before(w)) < k
        BY <2>3, <1>1, <1>2, <1>4
    <2> QED  BY <2>1, <2>4 DEF First
<1> QED  BY <1>2, <1>3, <1>4

\* Two different nodes are a pair.
LEMMA TwoApart ==
    ASSUME NEW w \in Peers, NEW r \in Peers, w # r
    PROVE  {w, r} \in PeerPairs
<1>1. IsFiniteSet({w}) /\ Cardinality({w}) = 1
    BY FS_Singleton
<1>2. Cardinality({w} \cup {r}) = 2
    BY <1>1, FS_AddElement
<1>3. {w} \cup {r} = {w, r}
    OBVIOUS
<1> QED  BY <1>2, <1>3 DEF PeerPairs, kSubset
-----------------------------------------------------------------------------
\* What storing versions makes of a node's row of m: the latest of those that
\* are accepted and the one it has.
MergesTo(m, before, vs, after) ==
    /\ after \in Nat /\ after >= before
    /\ after = before \/ (m \notin Refused /\ after \in vs /\ log[after].rec = m)
    /\ m \notin Refused => \A v \in vs : log[v].rec = m => after >= v

LEMMA MergeFacts ==
    ASSUME PeerTypeOK, WasWritten, NEW r \in Peers, NEW vs \in SUBSET DOMAIN log
    PROVE  /\ MergedAll(copy[r], vs) \in [PeerRecords -> Nat]
           /\ \A m \in PeerRecords : MergesTo(m, copy[r][m], vs, MergedAll(copy[r], vs)[m])
<1> DEFINE all == MergedAll(copy[r], vs)
<1>1. Len(log) \in Nat /\ DOMAIN log = 1..Len(log)
    BY DEF PeerTypeOK
<1>2. ASSUME NEW m \in PeerRecords PROVE MergesTo(m, copy[r][m], vs, all[m])
    <2> DEFINE S == {copy[r][m]} \cup {v \in vs : log[v].rec = m}
    <2>1. copy[r][m] \in 0..Len(log) /\ copy[r][m] \in Nat
        BY <1>1 DEF PeerTypeOK, WasWritten
    <2>2. S \subseteq 0..Len(log) /\ S # {}
        BY <1>1, <2>1
    <2>3. Max(S) \in S /\ \A y \in S : y <= Max(S)
        BY <1>1, <2>2, GreatestOf
    <2>4. CASE m \in Refused
        <3>1. all[m] = copy[r][m]
            BY <2>4 DEF MergedAll
        <3> QED  BY <3>1, <2>1, <2>4 DEF MergesTo
    <2>5. CASE m \notin Refused
        <3>1. all[m] = Max(S)
            BY <2>5 DEF MergedAll
        <3>2. Max(S) \in Nat /\ Max(S) >= copy[r][m]
            BY <2>1, <2>2, <2>3, <1>1
        <3>3. \A v \in vs : log[v].rec = m => Max(S) >= v
            BY <2>2, <2>3, <1>1
        <3>4. Max(S) = copy[r][m] \/ (Max(S) \in vs /\ log[Max(S)].rec = m)
            BY <2>3
        <3> HIDE DEF S
        <3> QED  BY <3>1, <3>2, <3>3, <3>4, <2>5 DEF MergesTo
    <2> QED  BY <2>4, <2>5
<1>3. \A m \in PeerRecords : all[m] \in Nat
    BY <1>2 DEF MergesTo
<1>4. all \in [PeerRecords -> Nat]
    BY <1>3 DEF MergedAll
<1> QED  BY <1>2, <1>4

-----------------------------------------------------------------------------
\* How far a cycle is tells its shape.
LEMMA CycleShape ==
    ASSUME NEW c \in Cycles
    PROVE  /\ c.at \in {"push", "pull"} => c \in Visiting
           /\ c.at = "clean" => c \in Cleaning
           /\ c = Off <=> c.at = "idle"
           /\ c \in Visiting => c.at \in {"push", "pull"}
           /\ c \in Cleaning => c.at = "clean"
BY DEF Cycles, Off, Visiting, Cleaning

\* Going on with the next peer, or with the clean-up.
GoesOn(n, left, whole) ==
    /\ cycle' \in [Peers -> Cycles]
    /\ \A k \in Peers \ {n} : cycle'[k] = cycle[k]
    /\ \/ left \subseteq asleep /\ cycle'[n] = [at |-> "clean", whole |-> whole]
       \/ \E r \in left \ asleep : cycle'[n] = Visit(r, left \ {r}, whole)

LEMMA NextPeerGoesOn ==
    ASSUME PeerTypeOK, NEW n \in Peers, NEW left \in SUBSET Peers, NEW whole \in BOOLEAN,
           NextPeer(n, left, whole)
    PROVE  GoesOn(n, left, whole)
<1>0. cycle \in [Peers -> Cycles]
    BY DEF PeerTypeOK
<1>1. CASE left \subseteq asleep
    <2> DEFINE c == [at |-> "clean", whole |-> whole]
    <2>1. c \in Cycles
        BY DEF Cycles, Cleaning
    <2>2. cycle' = [cycle EXCEPT ![n] = c]
        BY <1>1 DEF NextPeer
    <2> HIDE DEF c
    <2>3. cycle' \in [Peers -> Cycles] /\ cycle'[n] = c
        BY <1>0, <2>1, <2>2
    <2>4. \A k \in Peers \ {n} : cycle'[k] = cycle[k]
        BY <1>0, <2>2
    <2> QED  BY <2>3, <2>4, <1>1 DEF GoesOn, c
<1>2. CASE ~(left \subseteq asleep)
    <2>1. PICK r \in left \ asleep : cycle' = [cycle EXCEPT ![n] = Visit(r, left \ {r}, whole)]
        BY <1>2 DEF NextPeer
    <2> DEFINE c == Visit(r, left \ {r}, whole)
    <2>2. c \in Visiting
        BY DEF Visit, Visiting
    <2>3. c \in Cycles
        BY <2>2 DEF Cycles
    <2>4. cycle' = [cycle EXCEPT ![n] = c]
        BY <2>1
    <2> HIDE DEF c
    <2>5. cycle' \in [Peers -> Cycles] /\ cycle'[n] = c
        BY <1>0, <2>3, <2>4
    <2>6. \A k \in Peers \ {n} : cycle'[k] = cycle[k]
        BY <1>0, <2>4
    <2> QED  BY <2>5, <2>6 DEF GoesOn, c
<1> QED  BY <1>1, <1>2

\* A cycle that no longer counts as whole is otherwise as it was.
Spoils(N) ==
    /\ cycle' \in [Peers -> Cycles]
    /\ \A k \in Peers \ N : cycle'[k] = cycle[k]
    /\ \A k \in N : \/ cycle[k] = Off /\ cycle'[k] = Off
                   \/ /\ cycle[k] # Off /\ cycle'[k] # Off /\ ~cycle'[k].whole
                      /\ cycle'[k] \in Visiting <=> cycle[k] \in Visiting
                      /\ cycle[k] \in Visiting => /\ cycle'[k].with = cycle[k].with
                                                 /\ cycle'[k].todo = cycle[k].todo

LEMMA UnfinishedSpoils ==
    ASSUME PeerTypeOK, NEW N \in SUBSET Peers, cycle' = Unfinished(N)
    PROVE  Spoils(N)
<1>0. cycle \in [Peers -> Cycles]
    BY DEF PeerTypeOK
<1>1. ASSUME NEW k \in Peers, k \notin N \/ cycle[k] = Off
      PROVE  cycle'[k] = cycle[k] /\ cycle'[k] \in Cycles
    BY <1>0, <1>1 DEF Unfinished
<1>2. ASSUME NEW k \in N, cycle[k] # Off
      PROVE  /\ cycle'[k] \in Cycles
             /\ cycle'[k] # Off /\ ~cycle'[k].whole
             /\ cycle'[k] \in Visiting <=> cycle[k] \in Visiting
             /\ cycle[k] \in Visiting => /\ cycle'[k].with = cycle[k].with
                                        /\ cycle'[k].todo = cycle[k].todo
    <2>1. cycle'[k] = [cycle[k] EXCEPT !.whole = FALSE]
        BY <1>2 DEF Unfinished
    <2>2. CASE cycle[k] \in Visiting
        <3>1. cycle'[k] \in Visiting /\ ~cycle'[k].whole
              /\ cycle'[k].with = cycle[k].with /\ cycle'[k].todo = cycle[k].todo
            BY <2>1, <2>2 DEF Visiting
        <3> QED  BY <3>1, <2>2, CycleShape DEF Cycles, Off
    <2>3. CASE cycle[k] \in Cleaning
        <3>1. cycle'[k] \in Cleaning /\ ~cycle'[k].whole
            BY <2>1, <2>3 DEF Cleaning
        <3>2. cycle'[k] \in Cycles /\ cycle[k] \in Cycles
            BY <3>1, <2>3 DEF Cycles
        <3>3. cycle'[k].at = "clean" /\ cycle[k].at = "clean"
            BY <3>1, <2>3 DEF Cleaning
        <3>4. cycle'[k] \notin Visiting /\ cycle[k] \notin Visiting /\ cycle'[k] # Off
            BY <3>2, <3>3, CycleShape DEF Visiting, Off
        <3> QED  BY <3>1, <3>2, <3>4
    <2> QED  BY <2>2, <2>3, <1>0, <1>2 DEF Cycles
<1>3. cycle' \in [Peers -> Cycles]
    <2>1. \A k \in Peers : cycle'[k] \in Cycles
        BY <1>1, <1>2
    <2>2. cycle' = [k \in Peers |-> cycle'[k]]
        BY DEF Unfinished
    <2> QED  BY <2>1, <2>2
<1> QED  BY <1>1, <1>2, <1>3 DEF Spoils

-----------------------------------------------------------------------------
\* A batch: the first of what is due to the peer after the last batch.
LEMMA BatchFacts ==
    ASSUME PeerBase, NEW n \in Peers, cycle[n].at = "push"
    PROVE  LET c == cycle[n]
               rest == {v \in PendingTo(n, c.with) : v > c.from}
               batch == PushNext(n, c)
           IN /\ c \in Visiting /\ c.with \in Peers /\ c.with # n
              /\ batch \subseteq rest /\ rest \subseteq DOMAIN log
              /\ \A v \in batch : \A w \in rest \ batch : v < w
              /\ Cardinality(batch) < BatchSize => batch = rest
              /\ batch = {} => rest = {}
              /\ batch # {} => Max(batch) \in batch /\ \A v \in batch : v <= Max(batch)
<1> DEFINE c == cycle[n]
           rest == {v \in PendingTo(n, c.with) : v > c.from}
           batch == PushNext(n, c)
<1>1. c \in Visiting /\ c.with \in Peers /\ c.with # n
    <2>1. c \in Cycles
        BY DEF PeerBase, PeerTypeOK
    <2>2. c \in Visiting
        BY <2>1, CycleShape
    <2> QED  BY <2>2 DEF PeerBase, VisitsOthers, Visiting
<1>2. Len(log) \in Nat /\ DOMAIN log = 1..Len(log) /\ BatchSize \in Nat \ {0}
    BY SyncSizes DEF PeerBase, PeerTypeOK
<1>3. rest \subseteq DOMAIN log
    BY DEF PeerBase, WasWritten, PendingTo
<1>4. rest \subseteq 0..Len(log)
    BY <1>2, <1>3
<1>5. batch = First(rest, BatchSize)
    BY DEF PushNext
<1> HIDE DEF c, rest, batch
<1>6. /\ batch \subseteq rest
      /\ \A v \in batch : \A w \in rest \ batch : v < w
      /\ Cardinality(batch) < BatchSize => batch = rest
    BY <1>2, <1>4, <1>5, FirstFacts
<1>7. batch = {} => rest = {}
    <2>1. Cardinality({}) < BatchSize
        BY <1>2, FS_EmptySet
    <2> QED  BY <2>1, <1>6
<1>8. batch # {} => Max(batch) \in batch /\ \A v \in batch : v <= Max(batch)
    BY <1>2, <1>4, <1>6, GreatestOf
<1> QED  BY <1>1, <1>3, <1>6, <1>7, <1>8 DEF c, rest, batch

\* A page: versions that rows of the peer have.
LEMMA PageFacts ==
    ASSUME PeerBase, NEW n \in Peers, NEW r \in Peers
    PROVE  /\ PullNextPage(n, r) \subseteq DOMAIN log
           /\ \A v \in PullNextPage(n, r) : copy[r][log[v].rec] = v
           /\ Max(PullNextPage(n, r) \cup {since[n][r]}) \in Nat
<1> DEFINE after == {m \in PeerRecords : copy[r][m] > since[n][r] /\ Creator(m) # n}
           S == {copy[r][m] : m \in after}
           page == PullNextPage(n, r)
<1>1. Len(log) \in Nat /\ DOMAIN log = 1..Len(log) /\ PageSize \in Nat
    BY SyncSizes DEF PeerBase, PeerTypeOK
<1>2. since[n][r] \in Nat
    BY DEF PeerBase, PeerTypeOK
<1>3. \A m \in after : /\ copy[r][m] \in DOMAIN log /\ log[copy[r][m]].rec = m
                       /\ m \in PeerRecords
    BY <1>2 DEF PeerBase, PeerTypeOK, WasWritten
<1>4. S \subseteq DOMAIN log /\ \A v \in S : copy[r][log[v].rec] = v
    BY <1>3
<1>5. page = First(S, PageSize)
    BY DEF PullNextPage
<1> HIDE DEF S, page
<1>6. S \subseteq 0..Len(log)
    BY <1>1, <1>4
<1>7. page \subseteq S
    BY <1>1, <1>5, <1>6, FirstFacts
<1>8. Max(page \cup {since[n][r]}) \in Nat
    <2> DEFINE top == Len(log) + since[n][r]
               T == page \cup {since[n][r]}
    <2>1. top \in Nat
        BY <1>1, <1>2
    <2>2. T \subseteq 0..top /\ T # {}
        <3>1. \A v \in page : v \in 0..Len(log)
            BY <1>6, <1>7
        <3>2. \A v \in page : v \in 0..top
            BY <1>1, <1>2, <3>1
        <3>3. since[n][r] \in 0..top
            BY <1>1, <1>2
        <3> QED  BY <3>2, <3>3
    <2>3. Max(T) \in T
        BY <2>1, <2>2, GreatestOf
    <2> QED  BY <2>1, <2>2, <2>3
<1> QED  BY <1>4, <1>7, <1>8 DEF page

-----------------------------------------------------------------------------
\* What an exchange of n with r does to the data: r stores some of what is due
\* to it, or of what rows have, and n may mark what r has processed.
Stored(r, vs) ==
    /\ vs \subseteq DOMAIN log
    /\ copy' \in [Peers -> [PeerRecords -> Nat]]
    /\ \A k \in Peers \ {r} : copy'[k] = copy[k]
    /\ \A m \in PeerRecords : MergesTo(m, copy[r][m], vs, copy'[r][m])

Offered(v, r) ==
    \/ \E w \in Peers \ {r} : v \in PendingTo(w, r)
    \/ \E q \in Peers : copy[q][log[v].rec] = v

Marked(n, r, vs) ==
    /\ sends' \in [Peers -> [Peers -> SUBSET Nat]]
    /\ \A w, k \in Peers : w # n \/ k # r => sends'[w][k] = sends[w][k]
    /\ sends'[n][r] = sends[n][r] \cup Processed(vs)

Exchange(n, r, vs) ==
    /\ UNCHANGED <<log, peerOutbox, peerDay, apart, late, gone>>
    /\ Stored(r, vs) /\ \A v \in vs : Offered(v, r)
    /\ Marked(n, r, vs) \/ UNCHANGED sends

\* _upsert_records at r.
LEMMA AcceptedStored ==
    ASSUME PeerBase, NEW r \in Peers, NEW vs \in SUBSET DOMAIN log,
           copy' = [copy EXCEPT ![r] = MergedAll(@, vs)]
    PROVE  Stored(r, vs)
<1> DEFINE all == MergedAll(copy[r], vs)
<1>1. copy \in [Peers -> [PeerRecords -> Nat]]
    BY DEF PeerBase, PeerTypeOK
<1>2. all \in [PeerRecords -> Nat] /\ \A m \in PeerRecords : MergesTo(m, copy[r][m], vs, all[m])
    BY MergeFacts DEF PeerBase
<1>3. copy' = [copy EXCEPT ![r] = all]
    OBVIOUS
<1> HIDE DEF all
<1>4. /\ copy' \in [Peers -> [PeerRecords -> Nat]]
      /\ copy'[r] = all
      /\ \A k \in Peers \ {r} : copy'[k] = copy[k]
    BY <1>1, <1>2, <1>3
<1> QED  BY <1>2, <1>4 DEF Stored

\* Storing nothing.
LEMMA NothingStored ==
    ASSUME PeerBase, NEW r \in Peers, UNCHANGED copy
    PROVE  Stored(r, {})
<1>1. copy \in [Peers -> [PeerRecords -> Nat]]
    BY DEF PeerBase, PeerTypeOK
<1>2. \A m \in PeerRecords : MergesTo(m, copy[r][m], {}, copy'[r][m])
    BY <1>1 DEF MergesTo
<1> QED  BY <1>1, <1>2 DEF Stored

\* A batch is an exchange with the visited peer, and the loop of _push_outbox
\* goes on after its last version.
LEMMA PushBatchExchanges ==
    ASSUME PeerBase, NEW n \in Peers, PushBatch(n)
    PROVE  LET c == cycle[n]  batch == PushNext(n, c)
           IN /\ Exchange(n, c.with, batch) /\ Marked(n, c.with, batch)
              /\ cycle' \in [Peers -> Cycles]
              /\ cycle'[n] = Pushed(c, batch) /\ cycle'[n] \in Visiting
              /\ \A k \in Peers \ {n} : cycle'[k] = cycle[k]
              /\ batch # {} /\ Max(batch) \in Nat
<1> DEFINE c == cycle[n]
           r == c.with
           rest == {v \in PendingTo(n, r) : v > c.from}
           batch == PushNext(n, c)
<1>1. /\ c.at = "push" /\ batch # {}
      /\ copy' = Accepted(r, batch)
      /\ sends' = [sends EXCEPT ![n][r] = @ \cup Processed(batch)]
      /\ cycle' = [cycle EXCEPT ![n] = Pushed(c, batch)]
      /\ UNCHANGED <<log, peerOutbox, since, asleep, peerDay, ran, apart, late, gone, faults>>
    BY DEF PushBatch
<1>2. /\ c \in Visiting /\ r \in Peers /\ r # n
      /\ batch \subseteq rest /\ rest \subseteq DOMAIN log
      /\ Max(batch) \in batch
    BY <1>1, BatchFacts
<1>3. batch \subseteq Nat /\ Max(batch) \in Nat
    <2>1. DOMAIN log \subseteq Nat
        BY DEF PeerBase, PeerTypeOK
    <2> QED  BY <1>2, <2>1
<1>4. Stored(r, batch)
    <2>1. batch \in SUBSET DOMAIN log
        BY <1>2
    <2> QED  BY <1>1, <1>2, <2>1, AcceptedStored DEF Accepted
<1>5. \A v \in batch : Offered(v, r)
    BY <1>2 DEF Offered
<1>6. Marked(n, r, batch)
    <2>1. sends \in [Peers -> [Peers -> SUBSET Nat]]
        BY DEF PeerBase, PeerTypeOK
    <2>2. Processed(batch) \subseteq Nat
        BY <1>3 DEF Processed
    <2> HIDE DEF batch, c, r
    <2> QED  BY <1>1, <1>2, <2>1, <2>2 DEF Marked
<1>7. Pushed(c, batch) \in Visiting
    <2>1. c.from \in Nat /\ c.batches \in Nat
        BY <1>2 DEF Visiting
    <2> DEFINE last == Max(batch)
               next == IF Cardinality(batch) < BatchSize THEN "pull" ELSE "push"
    <2>2. next \in {"push", "pull"} /\ last \in Nat /\ c.batches + 1 \in Nat
        BY <1>3, <2>1
    <2>3. Pushed(c, batch) = [c EXCEPT !.from = last, !.batches = @ + 1, !.at = next]
        BY DEF Pushed
    <2> HIDE DEF batch, c, last, next
    <2> QED  BY <1>2, <2>2, <2>3 DEF Visiting
<1>8. /\ cycle' \in [Peers -> Cycles]
      /\ cycle'[n] = Pushed(c, batch)
      /\ \A k \in Peers \ {n} : cycle'[k] = cycle[k]
    <2>1. cycle \in [Peers -> Cycles]
        BY DEF PeerBase, PeerTypeOK
    <2>2. Pushed(c, batch) \in Cycles
        BY <1>7 DEF Cycles
    <2> HIDE DEF batch, c
    <2> QED  BY <1>1, <2>1, <2>2
<1> QED  BY <1>1, <1>3, <1>4, <1>5, <1>6, <1>7, <1>8 DEF Exchange, c, r, batch

\* A page is an exchange in which the visited peer gives.
LEMMA PullPageExchanges ==
    ASSUME PeerBase, NEW n \in Peers, PullPage(n)
    PROVE  LET c == cycle[n]  page == PullNextPage(n, c.with)
           IN /\ c \in Visiting /\ c.at = "pull" /\ c.with \in Peers /\ c.todo \in SUBSET Peers
              /\ Exchange(c.with, n, page)
              /\ since' \in [Peers -> [Peers -> Nat]]
              /\ cycle' = cycle \/ GoesOn(n, c.todo, c.whole)
<1> DEFINE c == cycle[n]
           r == c.with
           page == PullNextPage(n, r)
<1>1. /\ c.at = "pull"
      /\ copy' = [copy EXCEPT ![n] = MergedAll(@, page)]
      /\ since' = [since EXCEPT ![n][r] = Max(page \cup {@})]
      /\ UNCHANGED cycle \/ NextPeer(n, c.todo, c.whole)
      /\ UNCHANGED <<log, peerOutbox, sends, asleep, peerDay, ran, apart, late, gone, faults>>
    BY DEF PullPage
<1>2. c \in Visiting /\ r \in Peers /\ c.todo \in SUBSET Peers /\ c.whole \in BOOLEAN
    <2>1. c \in Cycles
        BY DEF PeerBase, PeerTypeOK
    <2>2. c \in Visiting
        BY <1>1, <2>1, CycleShape
    <2> QED  BY <2>2 DEF Visiting
<1>3. /\ page \subseteq DOMAIN log
      /\ \A v \in page : copy[r][log[v].rec] = v
      /\ Max(page \cup {since[n][r]}) \in Nat
    BY <1>2, PageFacts
<1>4. Stored(n, page)
    <2>1. page \in SUBSET DOMAIN log
        BY <1>3
    <2> HIDE DEF page
    <2> QED  BY <1>1, <2>1, AcceptedStored
<1>5. \A v \in page : Offered(v, n)
    BY <1>2, <1>3 DEF Offered
<1>6. since' \in [Peers -> [Peers -> Nat]]
    <2>1. since \in [Peers -> [Peers -> Nat]]
        BY DEF PeerBase, PeerTypeOK
    <2> HIDE DEF page, c, r
    <2> QED  BY <1>1, <1>2, <1>3, <2>1
<1>7. cycle' = cycle \/ GoesOn(n, c.todo, c.whole)
    BY <1>1, <1>2, NextPeerGoesOn DEF PeerBase
<1> QED  BY <1>1, <1>2, <1>4, <1>5, <1>6, <1>7 DEF Exchange, c, r, page

\* An exchange that fails may have stored the batch, and marks nothing.
LEMMA BrokenExchanges ==
    ASSUME PeerBase, NEW n \in Peers, Broken(n)
    PROVE  LET c == cycle[n]
           IN /\ c \in Visiting /\ c.with \in Peers /\ c.todo \in SUBSET Peers
              /\ \E vs \in SUBSET DOMAIN log : Exchange(n, c.with, vs)
              /\ GoesOn(n, c.todo, c.whole /\ c.with \in asleep)
<1> DEFINE c == cycle[n]
           r == c.with
           batch == PushNext(n, c)
<1>1. /\ c.at \in {"push", "pull"}
      /\ UNCHANGED copy \/ (c.at = "push" /\ copy' = Accepted(r, batch))
      /\ NextPeer(n, c.todo, c.whole /\ r \in asleep)
      /\ UNCHANGED <<log, peerOutbox, sends, since, asleep, peerDay, ran, apart, late, gone>>
    BY DEF Broken
<1>2. c \in Visiting /\ r \in Peers /\ r # n /\ c.todo \in SUBSET Peers /\ c.whole \in BOOLEAN
    <2>1. c \in Cycles
        BY DEF PeerBase, PeerTypeOK
    <2>2. c \in Visiting
        BY <1>1, <2>1, CycleShape
    <2> QED  BY <2>2 DEF Visiting, PeerBase, VisitsOthers
<1>3. \E vs \in SUBSET DOMAIN log : Exchange(n, r, vs)
    <2>1. CASE UNCHANGED copy
        <3>1. Stored(r, {})
            BY <1>2, <2>1, NothingStored
        <3>2. Exchange(n, r, {})
            BY <1>1, <3>1 DEF Exchange
        <3> QED  BY <3>2
    <2>2. CASE c.at = "push" /\ copy' = Accepted(r, batch)
        <3>1. batch \in SUBSET DOMAIN log /\ \A v \in batch : v \in PendingTo(n, r)
            BY <2>2, BatchFacts
        <3>2. Stored(r, batch)
            BY <1>2, <2>2, <3>1, AcceptedStored DEF Accepted
        <3>3. \A v \in batch : Offered(v, r)
            BY <1>2, <3>1 DEF Offered
        <3>4. Exchange(n, r, batch)
            BY <1>1, <3>2, <3>3 DEF Exchange
        <3> QED  BY <3>1, <3>4
    <2> QED  BY <1>1, <2>1, <2>2
<1>4. GoesOn(n, c.todo, c.whole /\ r \in asleep)
    <2>1. (c.whole /\ r \in asleep) \in BOOLEAN
        OBVIOUS
    <2> QED  BY <1>1, <1>2, <2>1, NextPeerGoesOn DEF PeerBase
<1> QED  BY <1>2, <1>3, <1>4 DEF c, r

\* What the clean-up at the end of a cycle leaves.
Cleaned(n) ==
    /\ UNCHANGED <<log, peerDay, apart, late>>
    /\ copy' \in [Peers -> [PeerRecords -> Nat]]
    /\ peerOutbox' \in [Peers -> SUBSET Nat]
    /\ sends' \in [Peers -> [Peers -> SUBSET Nat]]
    /\ gone' \in [Peers -> SUBSET Nat]
    /\ \A k \in Peers \ {n} : /\ copy'[k] = copy[k] /\ peerOutbox'[k] = peerOutbox[k]
                              /\ sends'[k] = sends[k] /\ gone'[k] = gone[k]
    /\ \A m \in PeerRecords : copy'[n][m] = IF m \in Compacted(n) THEN 0 ELSE copy[n][m]
    /\ peerOutbox'[n] = Kept(peerOutbox[n])
    /\ \A r \in Peers : sends'[n][r] = Kept(sends[n][r])
    /\ gone'[n] = gone[n] \cup {copy[n][m] : m \in Compacted(n)}

\* _prune_outbox and _compact_tombstones do that.
LEMMA CleanCleans ==
    ASSUME PeerBase, NEW n \in Peers, Clean(n)
    PROVE  Cleaned(n)
<1> DEFINE newRow == [m \in PeerRecords |-> IF m \in Compacted(n) THEN 0 ELSE copy[n][m]]
           marks == [r \in Peers |-> Kept(sends[n][r])]
           left == Kept(peerOutbox[n])
           removed == gone[n] \cup {copy[n][m] : m \in Compacted(n)}
<1>1. /\ copy' = [copy EXCEPT ![n] = newRow]
      /\ sends' = [sends EXCEPT ![n] = marks]
      /\ peerOutbox' = [peerOutbox EXCEPT ![n] = left]
      /\ gone' = [gone EXCEPT ![n] = removed]
      /\ UNCHANGED <<log, peerDay, apart, late>>
    BY DEF Clean
<1>2. /\ copy \in [Peers -> [PeerRecords -> Nat]]
      /\ peerOutbox \in [Peers -> SUBSET Nat]
      /\ sends \in [Peers -> [Peers -> SUBSET Nat]]
      /\ gone \in [Peers -> SUBSET Nat]
    BY DEF PeerBase, PeerTypeOK
<1>3. newRow \in [PeerRecords -> Nat]
    BY <1>2
<1>4. marks \in [Peers -> SUBSET Nat] /\ left \in SUBSET Nat
    BY <1>2 DEF Kept
<1>5. removed \in SUBSET Nat
    BY <1>2 DEF Compacted
<1>6. /\ \A m \in PeerRecords : newRow[m] = IF m \in Compacted(n) THEN 0 ELSE copy[n][m]
      /\ \A r \in Peers : marks[r] = Kept(sends[n][r])
    OBVIOUS
<1> HIDE DEF newRow, marks
<1>7. copy' \in [Peers -> [PeerRecords -> Nat]] /\ copy'[n] = newRow
      /\ \A k \in Peers \ {n} : copy'[k] = copy[k]
    BY <1>1, <1>2, <1>3
<1>8. sends' \in [Peers -> [Peers -> SUBSET Nat]] /\ sends'[n] = marks
      /\ \A k \in Peers \ {n} : sends'[k] = sends[k]
    BY <1>1, <1>2, <1>4
<1>9. peerOutbox' \in [Peers -> SUBSET Nat] /\ peerOutbox'[n] = left
      /\ \A k \in Peers \ {n} : peerOutbox'[k] = peerOutbox[k]
    <2> HIDE DEF left
    <2> QED  BY <1>1, <1>2, <1>4
<1>10. gone' \in [Peers -> SUBSET Nat] /\ gone'[n] = removed
      /\ \A k \in Peers \ {n} : gone'[k] = gone[k]
    <2> HIDE DEF removed
    <2> QED  BY <1>1, <1>2, <1>5
<1> QED  BY <1>1, <1>6, <1>7, <1>8, <1>9, <1>10 DEF Cleaned

\* The fields of a write.
LEMMA EachWrite ==
    ASSUME PeerTypeOK, NEW v \in DOMAIN log
    PROVE  /\ v \in Nat /\ v # 0 /\ v <= Len(log)
           /\ log[v].rec \in PeerRecords /\ log[v].dead \in BOOLEAN
           /\ log[v].by \in Peers /\ log[v].day \in Nat
<1>1. log[v] \in Writes
    BY DEF PeerTypeOK
<1>2. DOMAIN log = 1..Len(log) /\ Len(log) \in Nat
    BY DEF PeerTypeOK
<1> QED  BY <1>1, <1>2 DEF Writes

\* A write of n: a new version, the last of all, in its row and its outbox.
Written(n, m, dead) ==
    LET v == Len(log) + 1
    IN /\ UNCHANGED <<sends, peerDay, apart, late, gone>>
       /\ log' \in Seq(Writes) /\ DOMAIN log' = 1..v
       /\ \A u \in DOMAIN log : log'[u] = log[u]
       /\ log'[v] = [rec |-> m, dead |-> dead, by |-> n, day |-> peerDay]
       /\ copy' \in [Peers -> [PeerRecords -> Nat]]
       /\ copy'[n][m] = v
       /\ \A k \in Peers, j \in PeerRecords : k # n \/ j # m => copy'[k][j] = copy[k][j]
       /\ peerOutbox' \in [Peers -> SUBSET Nat]
       /\ peerOutbox'[n] = peerOutbox[n] \cup {v}
       /\ \A k \in Peers \ {n} : peerOutbox'[k] = peerOutbox[k]

\* An insert, an edit or a soft delete is one.
LEMMA PutRowWrites ==
    ASSUME PeerBase, NEW n \in Peers, NEW m \in PeerRecords, NEW dead \in BOOLEAN,
           PutRow(n, m, dead)
    PROVE  Written(n, m, dead)
<1> DEFINE v == Len(log) + 1
           e == [rec |-> m, dead |-> dead, by |-> n, day |-> peerDay]
<1>1. /\ log' = Append(log, e)
      /\ copy' = [copy EXCEPT ![n][m] = v]
      /\ peerOutbox' = [peerOutbox EXCEPT ![n] = @ \cup {v}]
      /\ UNCHANGED <<sends, peerDay, apart, late, gone>>
    BY DEF PutRow
<1>2. log \in Seq(Writes) /\ e \in Writes /\ v \in Nat
    BY DEF PeerBase, PeerTypeOK, Writes
<1> HIDE DEF e
<1>3. /\ log' \in Seq(Writes) /\ DOMAIN log' = 1..v
      /\ \A u \in DOMAIN log : log'[u] = log[u]
      /\ log'[v] = e
    BY <1>1, <1>2
<1> HIDE DEF v
<1>4. /\ copy' \in [Peers -> [PeerRecords -> Nat]]
      /\ copy'[n][m] = v
      /\ \A k \in Peers, j \in PeerRecords : k # n \/ j # m => copy'[k][j] = copy[k][j]
    <2>1. copy \in [Peers -> [PeerRecords -> Nat]]
        BY DEF PeerBase, PeerTypeOK
    <2> QED  BY <1>1, <1>2, <2>1
<1>5. /\ peerOutbox' \in [Peers -> SUBSET Nat]
      /\ peerOutbox'[n] = peerOutbox[n] \cup {v}
      /\ \A k \in Peers \ {n} : peerOutbox'[k] = peerOutbox[k]
    <2>1. peerOutbox \in [Peers -> SUBSET Nat]
        BY DEF PeerBase, PeerTypeOK
    <2> QED  BY <1>1, <1>2, <2>1
<1> QED  BY <1>1, <1>3, <1>4, <1>5 DEF Written, v, e

-----------------------------------------------------------------------------
\* The kinds of steps keep what rows, outboxes and markers stand for.
LEMMA WriteKeepsBase ==
    ASSUME PeerBase, NEW n \in Peers, NEW m \in PeerRecords, NEW dead \in BOOLEAN,
           Written(n, m, dead)
    PROVE  WasWritten' /\ DaysRise' /\ NotApartForLong'
<1> DEFINE v == Len(log) + 1
<1>1. Len(log) \in Nat /\ DOMAIN log = 1..Len(log) /\ DOMAIN log' = 1..v
    BY DEF PeerBase, PeerTypeOK, Written
<1>2. \A u \in DOMAIN log : u \in DOMAIN log' /\ log'[u] = log[u] /\ u < v
    BY <1>1 DEF Written
<1>3. v \in DOMAIN log' /\ log'[v] = [rec |-> m, dead |-> dead, by |-> n, day |-> peerDay]
    BY <1>1 DEF Written
<1>4. \A u \in DOMAIN log' : u \in DOMAIN log \/ u = v
    BY <1>1
<1> HIDE DEF v
<1>5. WasWritten'
    <2>1. ASSUME NEW k \in Peers, NEW j \in PeerRecords, copy'[k][j] # 0
          PROVE  copy'[k][j] \in DOMAIN log' /\ log'[copy'[k][j]].rec = j
        <3>1. CASE k = n /\ j = m
            BY <1>3, <3>1 DEF Written, v
        <3>2. CASE k # n \/ j # m
            <4>1. copy'[k][j] = copy[k][j]
                BY <3>2 DEF Written
            <4> QED  BY <4>1, <2>1, <1>2 DEF PeerBase, WasWritten
        <3> QED  BY <3>1, <3>2
    <2>2. ASSUME NEW k \in Peers, NEW u \in peerOutbox'[k]
          PROVE  u \in DOMAIN log' /\ log'[u].by = k
        <3>1. u \in peerOutbox[k] \/ (k = n /\ u = v)
            BY DEF Written, v
        <3> QED  BY <3>1, <1>2, <1>3 DEF PeerBase, WasWritten
    <2>3. ASSUME NEW k \in Peers, NEW r \in Peers PROVE sends'[k][r] \subseteq DOMAIN log'
        BY <1>2 DEF PeerBase, WasWritten, Written
    <2>4. ASSUME NEW k \in Peers, NEW g \in gone'[k] PROVE g \in DOMAIN log' /\ log'[g].dead
        BY <1>2 DEF PeerBase, WasWritten, Written
    <2> QED  BY <2>1, <2>2, <2>3, <2>4 DEF WasWritten
<1>6. DaysRise'
    <2>1. peerDay' = peerDay /\ peerDay \in Nat
        BY DEF Written, PeerBase, PeerTypeOK
    <2>2. \A u \in DOMAIN log : log[u].day \in Nat
        BY EachWrite DEF PeerBase
    <2>3. \A u \in DOMAIN log' : log'[u].day <= peerDay
        BY <1>2, <1>3, <1>4, <2>1 DEF PeerBase, DaysRise
    <2>4. ASSUME NEW u \in DOMAIN log', NEW w \in DOMAIN log', u <= w
          PROVE  log'[u].day <= log'[w].day
        <3>1. CASE u \in DOMAIN log /\ w \in DOMAIN log
            BY <1>2, <2>4, <3>1 DEF PeerBase, DaysRise
        <3>2. CASE w = v
            BY <1>3, <2>3, <3>2
        <3>3. CASE u = v /\ w \in DOMAIN log
            <4>1. FALSE
                BY <1>1, <1>2, <2>4, <3>3 DEF v
            <4> QED  BY <4>1
        <3> QED  BY <3>1, <3>2, <3>3, <1>4
    <2> QED  BY <2>1, <2>3, <2>4 DEF DaysRise
<1>7. NotApartForLong'
    BY DEF Written, PeerBase, NotApartForLong
<1> QED  BY <1>5, <1>6, <1>7

\* So does an exchange.
LEMMA ExchangeKeepsBase ==
    ASSUME PeerBase, NEW n \in Peers, NEW r \in Peers, NEW vs, Exchange(n, r, vs)
    PROVE  WasWritten' /\ DaysRise' /\ NotApartForLong'
<1>1. log' = log /\ peerOutbox' = peerOutbox /\ gone' = gone /\ peerDay' = peerDay
      /\ apart' = apart /\ late' = late
    BY DEF Exchange
<1>2. ASSUME NEW k \in Peers, NEW j \in PeerRecords, copy'[k][j] # 0
      PROVE  copy'[k][j] \in DOMAIN log /\ log[copy'[k][j]].rec = j
    <2>1. copy'[k][j] = copy[k][j] \/ (copy'[k][j] \in vs /\ log[copy'[k][j]].rec = j)
        BY DEF Exchange, Stored, MergesTo
    <2>2. vs \subseteq DOMAIN log
        BY DEF Exchange, Stored
    <2> QED  BY <1>2, <2>1, <2>2 DEF PeerBase, WasWritten
<1>3. ASSUME NEW k \in Peers, NEW w \in Peers PROVE sends'[k][w] \subseteq DOMAIN log
    <2>1. Processed(vs) \subseteq DOMAIN log
        BY DEF Exchange, Stored, Processed
    <2>2. sends'[k][w] \subseteq sends[k][w] \cup Processed(vs)
        BY DEF Exchange, Marked
    <2> QED  BY <2>1, <2>2 DEF PeerBase, WasWritten
<1>4. WasWritten'
    BY <1>1, <1>2, <1>3 DEF PeerBase, WasWritten
<1> QED  BY <1>1, <1>4 DEF PeerBase, DaysRise, NotApartForLong

\* So does the clean-up.
LEMMA CleaningKeepsBase ==
    ASSUME PeerBase, NEW n \in Peers, Cleaned(n)
    PROVE  WasWritten' /\ DaysRise' /\ NotApartForLong'
<1>1. log' = log /\ peerDay' = peerDay /\ apart' = apart /\ late' = late
    BY DEF Cleaned
<1>2. ASSUME NEW k \in Peers, NEW j \in PeerRecords, copy'[k][j] # 0
      PROVE  copy'[k][j] \in DOMAIN log /\ log[copy'[k][j]].rec = j
    <2>1. copy'[k][j] = copy[k][j]
        BY <1>2 DEF Cleaned
    <2> QED  BY <1>2, <2>1 DEF PeerBase, WasWritten
<1>3. ASSUME NEW k \in Peers
      PROVE  /\ peerOutbox'[k] \subseteq peerOutbox[k]
             /\ \A r \in Peers : sends'[k][r] \subseteq sends[k][r]
    BY DEF Cleaned, Kept
<1>4. ASSUME NEW k \in Peers, NEW g \in gone'[k] PROVE g \in DOMAIN log /\ log[g].dead
    <2>1. CASE g \in gone[k]
        BY <2>1 DEF PeerBase, WasWritten
    <2>2. CASE g \notin gone[k]
        <3>1. k = n
            BY <2>2 DEF Cleaned
        <3>2. PICK m \in Compacted(n) : g = copy[n][m]
            BY <2>2, <3>1 DEF Cleaned
        <3> QED  BY <3>2 DEF Compacted, Dead, PeerBase, WasWritten
    <2> QED  BY <2>1, <2>2
<1>5. WasWritten'
    BY <1>1, <1>2, <1>3, <1>4 DEF PeerBase, WasWritten
<1> QED  BY <1>1, <1>5 DEF PeerBase, DaysRise, NotApartForLong

\* So does midnight: it counts the nights two nodes spend apart.
LEMMA MidnightKeepsBase ==
    ASSUME PeerBase, Midnight
    PROVE  WasWritten' /\ DaysRise' /\ NotApartForLong' /\ apart' \in [PeerPairs -> Nat]
           /\ late' \in BOOLEAN
<1>1. UNCHANGED <<log, copy, peerOutbox, sends, gone>> /\ peerDay' = peerDay + 1
    BY DEF Midnight
<1>2. WasWritten'
    BY <1>1 DEF PeerBase, WasWritten
<1>3. DaysRise'
    <2>1. \A v \in DOMAIN log : log[v].day \in Nat /\ peerDay \in Nat
        BY EachWrite DEF PeerBase, PeerTypeOK
    <2> QED  BY <1>1, <2>1 DEF PeerBase, DaysRise
<1>4. apart' \in [PeerPairs -> Nat]
    BY DEF Midnight, PeerBase, PeerTypeOK
<1>5. NotApartForLong'
    <2> SUFFICES ASSUME ~late', NEW p \in PeerPairs PROVE apart'[p] <= OutboxDays
        BY DEF NotApartForLong
    <2>1. ~(apart'[p] > OutboxDays)
        BY DEF Midnight
    <2>2. apart'[p] \in Nat /\ OutboxDays \in Nat
        BY <1>4, Retention
    <2> QED  BY <2>1, <2>2
<1>6. late' \in BOOLEAN
    BY DEF Midnight, PeerBase, PeerTypeOK
<1> QED  BY <1>2, <1>3, <1>4, <1>5, <1>6

\* Going on, and spoiling cycles, keeps that a cycle does not visit its own node.
LEMMA GoingOnVisitsOthers ==
    ASSUME PeerBase, NEW n \in Peers, NEW left \in SUBSET (Peers \ {n}), NEW whole,
           GoesOn(n, left, whole)
    PROVE  VisitsOthers'
<1> SUFFICES ASSUME NEW k \in Peers, cycle'[k] \in Visiting
             PROVE  cycle'[k].with # k /\ k \notin cycle'[k].todo
    BY DEF VisitsOthers
<1>1. CASE k # n
    BY <1>1 DEF GoesOn, PeerBase, VisitsOthers
<1>2. CASE k = n
    <2>1. CASE cycle'[n] = [at |-> "clean", whole |-> whole]
        <3>1. cycle'[n].at = "clean"
            BY <2>1
        <3> QED  BY <3>1, <1>2 DEF Visiting
    <2>2. ASSUME NEW r \in left \ asleep, cycle'[n] = Visit(r, left \ {r}, whole)
          PROVE  cycle'[n].with # n /\ n \notin cycle'[n].todo
        BY <2>2 DEF Visit
    <2> QED  BY <1>2, <2>1, <2>2 DEF GoesOn
<1> QED  BY <1>1, <1>2

LEMMA SpoilingVisitsOthers ==
    ASSUME PeerBase, NEW N \in SUBSET Peers, Spoils(N)
    PROVE  VisitsOthers'
<1> SUFFICES ASSUME NEW k \in Peers, cycle'[k] \in Visiting
             PROVE  cycle'[k].with # k /\ k \notin cycle'[k].todo
    BY DEF VisitsOthers
<1>1. CASE k \notin N
    BY <1>1 DEF Spoils, PeerBase, VisitsOthers
<1>2. CASE k \in N
    <2>1. Off \notin Visiting
        BY DEF Off, Visiting
    <2>2. /\ cycle[k] \in Visiting
          /\ cycle'[k].with = cycle[k].with /\ cycle'[k].todo = cycle[k].todo
        BY <1>2, <2>1 DEF Spoils
    <2> QED  BY <2>2 DEF PeerBase, VisitsOthers
<1> QED  BY <1>1, <1>2

\* Switching a node's cycle off.
LEMMA OffVisitsOthers ==
    ASSUME PeerBase, NEW n \in Peers, cycle' = [cycle EXCEPT ![n] = Off]
    PROVE  VisitsOthers' /\ cycle' \in [Peers -> Cycles] /\ cycle'[n] = Off
           /\ \A k \in Peers \ {n} : cycle'[k] = cycle[k]
<1>1. cycle \in [Peers -> Cycles] /\ Off \in Cycles /\ Off \notin Visiting
    BY DEF PeerBase, PeerTypeOK, Cycles, Off, Visiting
<1> HIDE DEF Off
<1>2. cycle' \in [Peers -> Cycles] /\ cycle'[n] = Off
      /\ \A k \in Peers \ {n} : cycle'[k] = cycle[k]
    BY <1>1
<1>3. VisitsOthers'
    BY <1>1, <1>2 DEF PeerBase, VisitsOthers
<1> QED  BY <1>2, <1>3

\* The end of the push to a peer: a cycle is whole if nothing was left.
LEMMA PushDoneTurns ==
    ASSUME PeerBase, NEW n \in Peers, PushDone(n)
    PROVE  LET c == cycle[n]
               all == PushNext(n, c) = {}
               next == [c EXCEPT !.at = "pull", !.whole = @ /\ all]
           IN /\ c \in Visiting /\ c.at = "push"
              /\ next \in Visiting /\ cycle'[n] = next
              /\ cycle' \in [Peers -> Cycles]
              /\ \A k \in Peers \ {n} : cycle'[k] = cycle[k]
              /\ VisitsOthers'
<1> DEFINE c == cycle[n]
           all == PushNext(n, c) = {}
           next == [c EXCEPT !.at = "pull", !.whole = @ /\ all]
<1>1. c.at = "push" /\ cycle' = [cycle EXCEPT ![n] = next]
    BY DEF PushDone
<1>2. cycle \in [Peers -> Cycles] /\ c \in Visiting
    BY <1>1, CycleShape DEF PeerBase, PeerTypeOK
<1>3. /\ next \in Visiting
      /\ next.with = c.with /\ next.todo = c.todo
    <2>1. (c.whole /\ all) \in BOOLEAN
        OBVIOUS
    <2> HIDE DEF c, all
    <2> QED  BY <1>2, <2>1 DEF Visiting
<1>4. next \in Cycles
    BY <1>3 DEF Cycles
<1> HIDE DEF next
<1>5. cycle' \in [Peers -> Cycles] /\ cycle'[n] = next
      /\ \A k \in Peers \ {n} : cycle'[k] = cycle[k]
    BY <1>1, <1>2, <1>4
<1>6. VisitsOthers'
    BY <1>2, <1>3, <1>5 DEF PeerBase, VisitsOthers
<1> QED  BY <1>1, <1>2, <1>3, <1>5, <1>6 DEF next, c, all

\* Every step keeps the base.
LEMMA PeerBaseStep ==
    ASSUME PeerBase, [PeerNext]_peerVars
    PROVE  PeerBase'
<1> USE DEF PeerBase
<1>1. CASE UNCHANGED peerVars
    BY <1>1 DEF peerVars, PeerTypeOK, WasWritten, VisitsOthers, DaysRise, NotApartForLong
<1>2. CASE Midnight
    <2>1. PeerTypeOK'
        BY <1>2, MidnightKeepsBase DEF Midnight, PeerTypeOK
    <2>2. VisitsOthers'
        BY <1>2 DEF Midnight, VisitsOthers
    <2> QED  BY <2>1, <2>2, <1>2, MidnightKeepsBase
<1>3. ASSUME NEW n \in Peers, NEW m \in PeerRecords, NEW dead \in BOOLEAN, PutRow(n, m, dead)
      PROVE  PeerBase'
    <2>1. Written(n, m, dead)
        BY <1>3, PutRowWrites
    <2>2. {n} \in SUBSET Peers /\ cycle' = Unfinished({n})
        BY <1>3 DEF PutRow
    <2>3. Spoils({n})
        BY <2>2, UnfinishedSpoils
    <2>4. VisitsOthers'
        BY <2>2, <2>3, SpoilingVisitsOthers
    <2>5. WasWritten' /\ DaysRise' /\ NotApartForLong'
        BY <2>1, WriteKeepsBase
    <2>6. UNCHANGED <<since, asleep, faults>> /\ ran' = ran \ {n}
        BY <1>3 DEF PutRow
    <2>7. PeerTypeOK'
        BY <2>1, <2>3, <2>6 DEF Written, Spoils, PeerTypeOK
    <2> QED  BY <2>4, <2>5, <2>7
<1>4. ASSUME NEW n \in Peers, BeginCycle(n) PROVE PeerBase'
    <2>1. NextPeer(n, Peers \ {n}, TRUE)
          /\ UNCHANGED <<log, copy, peerOutbox, sends, since, asleep, peerDay, ran, apart,
                         late, gone, faults>>
        BY <1>4 DEF BeginCycle
    <2>2. GoesOn(n, Peers \ {n}, TRUE)
        BY <2>1, NextPeerGoesOn
    <2>3. VisitsOthers'
        BY <2>2, GoingOnVisitsOthers
    <2> QED  BY <2>1, <2>2, <2>3
                DEF GoesOn, PeerTypeOK, WasWritten, DaysRise, NotApartForLong
<1>5. ASSUME NEW n \in Peers, PushBatch(n) PROVE PeerBase'
    <2> DEFINE c == cycle[n]
               batch == PushNext(n, c)
    <2>1. /\ Exchange(n, c.with, batch) /\ Marked(n, c.with, batch)
          /\ cycle' \in [Peers -> Cycles]
          /\ cycle'[n] = Pushed(c, batch)
          /\ \A k \in Peers \ {n} : cycle'[k] = cycle[k]
        BY <1>5, PushBatchExchanges
    <2>2. c \in Visiting /\ c.with \in Peers
        BY <1>5, BatchFacts DEF PushBatch
    <2>3. UNCHANGED <<since, asleep, ran, faults>>
        BY <1>5 DEF PushBatch
    <2> HIDE DEF batch
    <2>4. WasWritten' /\ DaysRise' /\ NotApartForLong'
        BY <2>1, <2>2, ExchangeKeepsBase
    <2>5. cycle'[n].with = c.with /\ cycle'[n].todo = c.todo
        BY <2>1, <2>2 DEF Pushed, Visiting
    <2>6. VisitsOthers'
        BY <2>1, <2>2, <2>5 DEF VisitsOthers
    <2>7. PeerTypeOK'
        BY <2>1, <2>3 DEF Exchange, Stored, Marked, PeerTypeOK
    <2> QED  BY <2>4, <2>6, <2>7
<1>6. ASSUME NEW n \in Peers, PushDone(n) PROVE PeerBase'
    <2>1. cycle' \in [Peers -> Cycles] /\ VisitsOthers'
        BY <1>6, PushDoneTurns
    <2>2. UNCHANGED <<log, copy, peerOutbox, sends, since, asleep, peerDay, ran, apart,
                      late, gone, faults>>
        BY <1>6 DEF PushDone
    <2> QED  BY <2>1, <2>2 DEF PeerTypeOK, WasWritten, DaysRise, NotApartForLong
<1>7. ASSUME NEW n \in Peers, PullPage(n) PROVE PeerBase'
    <2> DEFINE c == cycle[n]
               page == PullNextPage(n, c.with)
    <2>1. /\ c \in Visiting /\ c.with \in Peers /\ c.todo \in SUBSET Peers
          /\ Exchange(c.with, n, page)
          /\ since' \in [Peers -> [Peers -> Nat]]
          /\ cycle' = cycle \/ GoesOn(n, c.todo, c.whole)
        BY <1>7, PullPageExchanges
    <2>2. UNCHANGED <<sends, asleep, ran, faults>>
        BY <1>7 DEF PullPage
    <2> HIDE DEF page
    <2>3. WasWritten' /\ DaysRise' /\ NotApartForLong'
        BY <2>1, ExchangeKeepsBase
    <2>4. VisitsOthers' /\ cycle' \in [Peers -> Cycles]
        <3>1. c.todo \in SUBSET (Peers \ {n})
            BY <2>1 DEF VisitsOthers
        <3>2. CASE cycle' = cycle
            BY <3>2 DEF VisitsOthers, PeerTypeOK
        <3>3. CASE GoesOn(n, c.todo, c.whole)
            BY <3>1, <3>3, GoingOnVisitsOthers DEF GoesOn
        <3> QED  BY <2>1, <3>2, <3>3
    <2>5. PeerTypeOK'
        BY <2>1, <2>2, <2>4 DEF Exchange, Stored, PeerTypeOK
    <2> QED  BY <2>3, <2>4, <2>5
<1>8. ASSUME NEW n \in Peers, Broken(n) PROVE PeerBase'
    <2> DEFINE c == cycle[n]
    <2>1. /\ c \in Visiting /\ c.with \in Peers /\ c.todo \in SUBSET Peers
          /\ \E vs \in SUBSET DOMAIN log : Exchange(n, c.with, vs)
          /\ GoesOn(n, c.todo, c.whole /\ c.with \in asleep)
        BY <1>8, BrokenExchanges
    <2>2. PICK vs \in SUBSET DOMAIN log : Exchange(n, c.with, vs)
        BY <2>1
    <2>3. UNCHANGED <<sends, since, asleep, ran>> /\ faults' \in Nat
        BY <1>8 DEF Broken, PeerTypeOK
    <2>4. WasWritten' /\ DaysRise' /\ NotApartForLong'
        BY <2>1, <2>2, ExchangeKeepsBase
    <2>5. c.todo \in SUBSET (Peers \ {n})
        BY <2>1 DEF VisitsOthers
    <2>6. VisitsOthers'
        BY <2>1, <2>5, GoingOnVisitsOthers
    <2>7. PeerTypeOK'
        BY <2>1, <2>2, <2>3 DEF Exchange, Stored, PeerTypeOK, GoesOn
    <2> QED  BY <2>4, <2>6, <2>7
<1>9. ASSUME NEW n \in Peers, Clean(n) PROVE PeerBase'
    <2>1. Cleaned(n)
        BY <1>9, CleanCleans
    <2>2. /\ cycle' = [cycle EXCEPT ![n] = Off]
          /\ ran' \subseteq ran \cup {n}
          /\ UNCHANGED <<since, asleep, faults>>
        BY <1>9 DEF Clean
    <2>3. VisitsOthers' /\ cycle' \in [Peers -> Cycles]
        BY <2>2, OffVisitsOthers
    <2>4. WasWritten' /\ DaysRise' /\ NotApartForLong'
        BY <2>1, CleaningKeepsBase
    <2>5. PeerTypeOK'
        BY <2>1, <2>2, <2>3 DEF Cleaned, PeerTypeOK
    <2> QED  BY <2>3, <2>4, <2>5
<1>10. ASSUME NEW n \in Peers, FallAsleep(n) PROVE PeerBase'
    <2>1. /\ cycle' = [cycle EXCEPT ![n] = Off] /\ asleep' = asleep \cup {n}
          /\ faults' = faults + 1
          /\ UNCHANGED <<log, copy, peerOutbox, sends, since, peerDay, ran, apart, late, gone>>
        BY <1>10 DEF FallAsleep
    <2>2. VisitsOthers' /\ cycle' \in [Peers -> Cycles]
        BY <2>1, OffVisitsOthers
    <2> QED  BY <2>1, <2>2 DEF PeerTypeOK, WasWritten, DaysRise, NotApartForLong
<1>11. ASSUME NEW n \in Peers, WakeUp(n) PROVE PeerBase'
    <2>1. /\ cycle' = Unfinished(Peers) /\ asleep' = asleep \ {n} /\ ran' = {}
          /\ UNCHANGED <<log, copy, peerOutbox, sends, since, peerDay, apart, late, gone, faults>>
        BY <1>11 DEF WakeUp
    <2>2. Spoils(Peers)
        BY <2>1, UnfinishedSpoils
    <2>3. VisitsOthers'
        BY <2>2, SpoilingVisitsOthers
    <2> QED  BY <2>1, <2>2, <2>3
                DEF Spoils, PeerTypeOK, WasWritten, DaysRise, NotApartForLong
<1> QED
    BY <1>1, <1>2, <1>3, <1>4, <1>5, <1>6, <1>7, <1>8, <1>9, <1>10, <1>11
       DEF PeerNext, PeerStep

-----------------------------------------------------------------------------
(* The inductive invariant, for as long as no two nodes were apart for     *)
(* longer than the outboxes are kept.                                      *)
Common(v) == log[v].rec \notin Refused
Same(u, v) == log[u].rec = log[v].rec

\* r has v or a later version of its record, or has removed its tombstone.
Reached(v, r) ==
    \/ copy[r][log[v].rec] >= v
    \/ \E g \in gone[r] : Same(g, v) /\ g >= v

DueOrReached ==
    \A v \in DOMAIN log : \A r \in Peers \ {log[v].by} :
       Common(v) => v \in PendingTo(log[v].by, r) \/ Reached(v, r)
WriterHasIt == \A v \in DOMAIN log : Reached(v, log[v].by)

\* What is refused stays where it was written.
RefusedStays ==
    \A v \in DOMAIN log : \A r \in Peers :
       ~Common(v) /\ copy[r][log[v].rec] # 0 => r = log[v].by

\* What is due has waited only while the two were apart.
DueIsYoung ==
    \A w, r \in Peers : w # r =>
       \A v \in PendingTo(w, r) : Common(v) => peerDay <= log[v].day + apart[{w, r}]

\* A removed tombstone was old, and no node has an older version of its record.
GoneIsOld == \A n \in Peers : \A g \in gone[n] : peerDay > log[g].day + TombstoneDays
NothingOlder ==
    \A n \in Peers : \A g \in gone[n] : \A r \in Peers :
       copy[r][log[g].rec] = 0 \/ copy[r][log[g].rec] >= g

\* Whoever writes a record after its deletion has not got the deletion yet: the
\* first such write comes before the outbox of the deletion is pruned.
RewrittenEarly ==
    \A g, u \in DOMAIN log : log[g].dead /\ Same(u, g) /\ u > g =>
       \E w \in DOMAIN log : /\ Same(w, g) /\ g < w /\ w <= u
                             /\ log[w].day <= log[g].day + OutboxDays

\* With tombstones kept for long enough, a removed one is its record's last version.
GoneIsLast ==
    2 * OutboxDays <= TombstoneDays =>
       \A n \in Peers : \A g \in gone[n] : \A u \in DOMAIN log : Same(u, g) => u <= g

DataInv == /\ DueOrReached /\ WriterHasIt /\ RefusedStays /\ DueIsYoung
           /\ GoneIsOld /\ NothingOlder /\ RewrittenEarly /\ GoneIsLast

\* The cycles: nothing that r can store is due to it from w.
NothingDue(w, r) == \A v \in PendingTo(w, r) : ~Common(v)

AfterCycle == \A w \in ran : \A r \in Peers \ (asleep \cup {w}) : NothingDue(w, r)

\* A whole cycle has left nothing due to the nodes it has visited, and to the
\* one it visits only what comes after the last batch.
WithinCycle(n) ==
    LET c == cycle[n]
    IN c # Off /\ c.whole =>
         /\ c \in Cleaning => \A r \in Peers \ (asleep \cup {n}) : NothingDue(n, r)
         /\ c \in Visiting =>
              /\ \A r \in Peers \ (asleep \cup {n, c.with} \cup c.todo) : NothingDue(n, r)
              /\ c.at = "push" => \A v \in PendingTo(n, c.with) : Common(v) => v > c.from
              /\ c.at = "pull" => NothingDue(n, c.with)

CycleInv == AfterCycle /\ \A n \in Peers : WithinCycle(n)

PeerInv == PeerBase /\ (~late => DataInv /\ CycleInv)

-----------------------------------------------------------------------------
\* Something due to a node that can store it is young, unless late.
LEMMA DueInTime ==
    ASSUME PeerBase, ~late, DueIsYoung, NEW w \in Peers, NEW r \in Peers, w # r,
           NEW v \in PendingTo(w, r), Common(v)
    PROVE  v \in DOMAIN log /\ peerDay <= log[v].day + OutboxDays
<1>1. v \in DOMAIN log
    BY DEF PendingTo, PeerBase, WasWritten
<1>2. peerDay <= log[v].day + apart[{w, r}]
    BY DEF DueIsYoung
<1>3. {w, r} \in PeerPairs
    BY TwoApart
<1>4. apart[{w, r}] \in Nat /\ apart[{w, r}] <= OutboxDays
    BY <1>3 DEF PeerBase, PeerTypeOK, NotApartForLong
<1>5. log[v].day \in Nat /\ peerDay \in Nat /\ OutboxDays \in Nat
    BY <1>1, EachWrite, Retention DEF PeerBase, PeerTypeOK
<1> QED  BY <1>1, <1>2, <1>4, <1>5

\* A version that a node has not reached is still due to it, or it is refused.
LEMMA UnreachedInTime ==
    ASSUME PeerBase, ~late, DueIsYoung, DueOrReached, WriterHasIt, RefusedStays,
           NEW v \in DOMAIN log, NEW r \in Peers, ~Reached(v, r), copy[r][log[v].rec] # 0
    PROVE  peerDay <= log[v].day + OutboxDays
<1>1. r # log[v].by /\ log[v].by \in Peers
    BY EachWrite DEF WriterHasIt, PeerBase
<1>2. Common(v)
    BY <1>1 DEF RefusedStays
<1>3. v \in PendingTo(log[v].by, r)
    BY <1>1, <1>2 DEF DueOrReached
<1> QED  BY <1>1, <1>2, <1>3, DueInTime

\* A row that is older than a version has not reached it: the tombstones its
\* node has removed are older too.
LEMMA OlderIsUnreached ==
    ASSUME PeerBase, NothingOlder, NEW v \in DOMAIN log, NEW r \in Peers,
           copy[r][log[v].rec] # 0, copy[r][log[v].rec] < v
    PROVE  ~Reached(v, r)
<1>1. v \in Nat /\ log[v].rec \in PeerRecords
    BY EachWrite DEF PeerBase
<1>2. copy[r][log[v].rec] \in Nat
    BY <1>1 DEF PeerBase, PeerTypeOK
<1> SUFFICES ASSUME NEW g \in gone[r], Same(g, v), g >= v PROVE FALSE
    BY <1>1, <1>2 DEF Reached
<1>3. g \in Nat
    BY DEF PeerBase, PeerTypeOK
<1>4. copy[r][log[v].rec] >= g
    BY DEF NothingOlder, Same
<1> QED  BY <1>1, <1>2, <1>3, <1>4

\* What is offered to a node is no older than any removed tombstone of its record.
LEMMA OfferedIsNotOlder ==
    ASSUME PeerBase, ~late, DueIsYoung, GoneIsOld, NothingOlder,
           NEW n \in Peers, NEW g \in gone[n], NEW r \in Peers,
           NEW u \in DOMAIN log, Offered(u, r), Common(u), Same(u, g)
    PROVE  u >= g
<1>1. g \in DOMAIN log
    BY DEF PeerBase, WasWritten
<1>2. u \in Nat /\ u # 0 /\ g \in Nat /\ log[u].day \in Nat /\ log[g].day \in Nat
    BY <1>1, EachWrite DEF PeerBase
<1>3. ASSUME NEW w \in Peers \ {r}, u \in PendingTo(w, r) PROVE u >= g
    <2>1. peerDay <= log[u].day + OutboxDays
        BY <1>3, DueInTime
    <2>2. peerDay > log[g].day + TombstoneDays
        BY DEF GoneIsOld
    <2>3. OutboxDays \in Nat /\ TombstoneDays \in Nat /\ OutboxDays <= TombstoneDays
          /\ peerDay \in Nat
        BY Retention DEF PeerBase, PeerTypeOK
    <2>4. ~(log[u].day <= log[g].day)
        BY <1>2, <2>1, <2>2, <2>3
    <2>5. ~(u <= g)
        BY <1>1, <2>4 DEF PeerBase, DaysRise
    <2> QED  BY <1>2, <2>5
<1>4. ASSUME NEW q \in Peers, copy[q][log[u].rec] = u PROVE u >= g
    BY <1>2, <1>4 DEF NothingOlder, Same
<1> QED  BY <1>3, <1>4 DEF Offered

-----------------------------------------------------------------------------
\* Steps that write nothing shrink what is due.
Shrinks == \A w, r \in Peers : PendingTo(w, r)' \subseteq PendingTo(w, r)

\* An exchange marks only what the receiver has processed.
LEMMA ExchangeShrinks ==
    ASSUME PeerBase, NEW n \in Peers, NEW r \in Peers, NEW vs, Exchange(n, r, vs)
    PROVE  /\ Shrinks
           /\ \A w, k \in Peers : \A v \in PendingTo(w, k) :
                 v \in PendingTo(w, k)' \/ (k = r /\ v \in vs /\ Common(v))
<1>1. peerOutbox' = peerOutbox
    BY DEF Exchange
<1>2. ASSUME NEW w \in Peers, NEW k \in Peers
      PROVE  /\ sends[w][k] \subseteq sends'[w][k]
             /\ \A v \in sends'[w][k] : v \in sends[w][k] \/ (k = r /\ v \in Processed(vs))
    BY DEF Exchange, Marked
<1> QED  BY <1>1, <1>2 DEF Shrinks, PendingTo, Processed, Common

\* What a node has reached stays reached when it stores more.
LEMMA ExchangeKeepsReached ==
    ASSUME PeerBase, NEW n \in Peers, NEW r \in Peers, NEW vs, Exchange(n, r, vs),
           NEW v \in DOMAIN log, NEW k \in Peers, Reached(v, k)
    PROVE  Reached(v, k)'
<1>1. log' = log /\ gone' = gone
    BY DEF Exchange
<1>2. log[v].rec \in PeerRecords /\ v \in Nat
    BY EachWrite DEF PeerBase
<1> DEFINE m == log[v].rec
<1>3. copy[k][m] \in Nat /\ copy'[k][m] \in Nat
    BY <1>2 DEF Exchange, Stored, PeerBase, PeerTypeOK
<1>4. copy'[k][m] >= copy[k][m]
    <2>1. CASE k = r
        BY <1>2, <2>1 DEF Exchange, Stored, MergesTo
    <2>2. CASE k # r
        BY <1>3, <2>2 DEF Exchange, Stored
    <2> QED  BY <2>1, <2>2
<1> QED  BY <1>1, <1>2, <1>3, <1>4 DEF Reached, Same

\* An exchange keeps the data invariant: what it marks is stored, and what is
\* stored is no older than a removed tombstone.
LEMMA ExchangeKeepsData ==
    ASSUME PeerBase, DataInv, ~late, NEW n \in Peers, NEW r \in Peers, NEW vs,
           Exchange(n, r, vs)
    PROVE  DataInv'
<1>1. /\ log' = log /\ gone' = gone /\ peerDay' = peerDay /\ apart' = apart
      /\ vs \subseteq DOMAIN log
    BY DEF Exchange, Stored
<1>2. DueOrReached'
    <2> SUFFICES ASSUME NEW v \in DOMAIN log, NEW w \in Peers, w = log[v].by,
                        NEW k \in Peers \ {w}, Common(v)
                 PROVE  v \in PendingTo(w, k)' \/ Reached(v, k)'
        BY <1>1, EachWrite DEF DueOrReached, Common, PendingTo, PeerBase
    <2>1. CASE Reached(v, k)
        BY <2>1, ExchangeKeepsReached
    <2>2. CASE v \in PendingTo(w, k)
        <3>1. log[v].by \in Peers /\ log[v].rec \in PeerRecords
            BY EachWrite DEF PeerBase
        <3>2. CASE k = r /\ v \in vs
            <4>1. copy'[r][log[v].rec] >= v
                BY <3>1, <3>2 DEF Exchange, Stored, MergesTo, Common
            <4> QED  BY <4>1, <3>2, <1>1 DEF Reached
        <3> QED  BY <2>2, <3>1, <3>2, ExchangeShrinks
    <2> QED  BY <2>1, <2>2 DEF DataInv, DueOrReached
<1>3. WriterHasIt'
    <2> SUFFICES ASSUME NEW v \in DOMAIN log, NEW w \in Peers, w = log[v].by
                 PROVE  Reached(v, w)'
        BY <1>1, EachWrite DEF WriterHasIt, Reached, Same, PeerBase
    <2> QED  BY ExchangeKeepsReached DEF DataInv, WriterHasIt
<1>4. RefusedStays'
    <2> SUFFICES ASSUME NEW v \in DOMAIN log, NEW k \in Peers, ~Common(v),
                        copy'[k][log[v].rec] # 0
                 PROVE  k = log[v].by
        BY <1>1 DEF RefusedStays, Common
    <2>1. log[v].rec \in PeerRecords
        BY EachWrite DEF PeerBase
    <2>2. copy'[k][log[v].rec] = copy[k][log[v].rec]
        BY <2>1 DEF Exchange, Stored, MergesTo, Common
    <2> QED  BY <2>2 DEF DataInv, RefusedStays
<1>5. DueIsYoung'
    BY <1>1, ExchangeShrinks DEF DataInv, DueIsYoung, Shrinks, Common
<1>6. GoneIsOld'
    BY <1>1 DEF DataInv, GoneIsOld
<1>7. NothingOlder'
    <2> SUFFICES ASSUME NEW h \in Peers, NEW g \in gone[h], NEW k \in Peers
                 PROVE  copy'[k][log[g].rec] = 0 \/ copy'[k][log[g].rec] >= g
        BY <1>1 DEF NothingOlder
    <2> DEFINE m == log[g].rec
               u == copy'[k][m]
    <2>1. g \in DOMAIN log /\ m \in PeerRecords
        BY EachWrite DEF PeerBase, WasWritten
    <2>2. CASE u = copy[k][m]
        BY <2>2 DEF DataInv, NothingOlder
    <2>3. CASE u # copy[k][m]
        <3>1. k = r /\ m \notin Refused /\ u \in vs /\ log[u].rec = m
            BY <2>1, <2>3 DEF Exchange, Stored, MergesTo
        <3>2. u \in DOMAIN log /\ Offered(u, r) /\ Common(u) /\ Same(u, g)
            BY <1>1, <3>1 DEF Exchange, Common, Same
        <3>3. u >= g
            BY <3>2, OfferedIsNotOlder DEF DataInv
        <3> QED  BY <3>3
    <2> QED  BY <2>2, <2>3
<1>8. RewrittenEarly'
    BY <1>1 DEF DataInv, RewrittenEarly, Same
<1>9. GoneIsLast'
    BY <1>1 DEF DataInv, GoneIsLast, Same
<1> QED  BY <1>2, <1>3, <1>4, <1>5, <1>6, <1>7, <1>8, <1>9 DEF DataInv

-----------------------------------------------------------------------------
\* The clean-up prunes what is old, and markers no earlier than what they mark.
LEMMA CleaningShrinks ==
    ASSUME PeerBase, NEW n \in Peers, Cleaned(n)
    PROVE  /\ Shrinks
           /\ \A w, k \in Peers : \A v \in PendingTo(w, k) :
                 v \in PendingTo(w, k)' \/ (w = n /\ Older(v, OutboxDays))
<1>1. ASSUME NEW w \in Peers, NEW k \in Peers, w # n
      PROVE  PendingTo(w, k)' = PendingTo(w, k)
    BY <1>1 DEF Cleaned, PendingTo
<1>2. ASSUME NEW k \in Peers
      PROVE  PendingTo(n, k)' = {v \in PendingTo(n, k) : ~Older(v, OutboxDays)}
    BY DEF Cleaned, PendingTo, Kept
<1> QED  BY <1>1, <1>2 DEF Shrinks

\* A tombstone that is removed has been reached.
LEMMA CleaningKeepsReached ==
    ASSUME PeerBase, NEW n \in Peers, Cleaned(n),
           NEW v \in DOMAIN log, NEW k \in Peers, Reached(v, k)
    PROVE  Reached(v, k)'
<1> DEFINE m == log[v].rec
<1>1. log' = log /\ gone[k] \subseteq gone'[k]
    BY DEF Cleaned
<1>2. m \in PeerRecords /\ v \in Nat /\ v # 0
    BY EachWrite DEF PeerBase
<1>3. CASE copy[k][m] >= v
    <2>1. CASE copy'[k][m] = copy[k][m]
        BY <1>1, <1>3, <2>1 DEF Reached
    <2>2. CASE copy'[k][m] # copy[k][m]
        <3>1. k = n /\ m \in Compacted(n)
            BY <1>2, <2>2 DEF Cleaned
        <3>2. copy[k][m] \in gone'[k]
            BY <3>1 DEF Cleaned
        <3>3. copy[k][m] # 0
            BY <1>2, <1>3
        <3>4. log[copy[k][m]].rec = m
            BY <1>2, <3>3 DEF PeerBase, WasWritten
        <3> QED  BY <1>1, <1>3, <3>2, <3>4 DEF Reached, Same
    <2> QED  BY <2>1, <2>2
<1>4. ASSUME NEW g \in gone[k], Same(g, v), g >= v PROVE Reached(v, k)'
    BY <1>1, <1>4 DEF Reached, Same
<1> QED  BY <1>3, <1>4 DEF Reached

\* The tombstones that a clean-up removes.
LEMMA RemovedTombstone ==
    ASSUME PeerBase, NEW n \in Peers, NEW m \in Compacted(n)
    PROVE  LET g == copy[n][m]
           IN /\ m \in PeerRecords /\ g \in Nat /\ g # 0 /\ g \in DOMAIN log
              /\ log[g].rec = m /\ log[g].dead
              /\ peerDay > log[g].day + TombstoneDays
BY DEF Compacted, Dead, Older, PeerBase, PeerTypeOK, WasWritten

\* The clean-up keeps it: what it prunes is old enough to be everywhere, and so
\* are the tombstones it removes.
LEMMA CleaningKeepsData ==
    ASSUME PeerBase, DataInv, ~late, NEW n \in Peers, Cleaned(n)
    PROVE  DataInv'
<1>1. log' = log /\ peerDay' = peerDay /\ apart' = apart
    BY DEF Cleaned
<1>2. /\ \A k \in Peers \ {n} : copy'[k] = copy[k] /\ gone'[k] = gone[k]
      /\ \A k \in Peers, m \in PeerRecords : copy'[k][m] \in {0, copy[k][m]}
      /\ gone'[n] = gone[n] \cup {copy[n][m] : m \in Compacted(n)}
      /\ \A m \in Compacted(n) : copy'[n][m] = 0
    BY DEF Cleaned, Compacted
<1>3. OutboxDays \in Nat /\ TombstoneDays \in Nat /\ OutboxDays <= TombstoneDays
      /\ peerDay \in Nat
    BY Retention DEF PeerBase, PeerTypeOK
<1>4. DueOrReached'
    <2> SUFFICES ASSUME NEW v \in DOMAIN log, NEW w \in Peers, w = log[v].by,
                        NEW k \in Peers \ {w}, Common(v)
                 PROVE  v \in PendingTo(w, k)' \/ Reached(v, k)'
        BY <1>1, EachWrite DEF DueOrReached, Common, PendingTo, PeerBase
    <2>1. CASE Reached(v, k)
        BY <2>1, CleaningKeepsReached
    <2>2. CASE v \in PendingTo(w, k)
        <3>1. log[v].by \in Peers /\ log[v].day \in Nat
            BY EachWrite DEF PeerBase
        <3>2. peerDay <= log[v].day + OutboxDays
            BY <2>2, <3>1, DueInTime DEF DataInv
        <3>3. ~Older(v, OutboxDays)
            BY <1>3, <3>1, <3>2 DEF Older
        <3> QED  BY <2>2, <3>1, <3>3, CleaningShrinks
    <2> QED  BY <2>1, <2>2 DEF DataInv, DueOrReached
<1>5. WriterHasIt'
    <2> SUFFICES ASSUME NEW v \in DOMAIN log, NEW w \in Peers, w = log[v].by
                 PROVE  Reached(v, w)'
        BY <1>1, EachWrite DEF WriterHasIt, Reached, Same, PeerBase
    <2> QED  BY CleaningKeepsReached DEF DataInv, WriterHasIt
<1>6. RefusedStays'
    <2> SUFFICES ASSUME NEW v \in DOMAIN log, NEW k \in Peers, ~Common(v),
                        copy'[k][log[v].rec] # 0
                 PROVE  k = log[v].by
        BY <1>1 DEF RefusedStays, Common
    <2>1. log[v].rec \in PeerRecords
        BY EachWrite DEF PeerBase
    <2>2. copy'[k][log[v].rec] = copy[k][log[v].rec]
        BY <1>2, <2>1
    <2> QED  BY <2>2 DEF DataInv, RefusedStays
<1>7. DueIsYoung'
    BY <1>1, CleaningShrinks DEF DataInv, DueIsYoung, Shrinks, Common
<1>8. GoneIsOld'
    BY <1>1, <1>2, RemovedTombstone DEF DataInv, GoneIsOld
<1>9. NothingOlder'
    <2> SUFFICES ASSUME NEW h \in Peers, NEW g \in gone'[h], NEW k \in Peers
                 PROVE  copy'[k][log[g].rec] = 0 \/ copy'[k][log[g].rec] >= g
        BY <1>1 DEF NothingOlder
    <2>1. CASE g \in gone[h]
        <3>1. g \in DOMAIN log /\ log[g].rec \in PeerRecords
            BY <2>1, EachWrite DEF PeerBase, WasWritten
        <3>2. copy'[k][log[g].rec] \in {0, copy[k][log[g].rec]}
            BY <1>2, <3>1
        <3> QED  BY <2>1, <3>2 DEF DataInv, NothingOlder
    <2>2. ASSUME NEW m \in Compacted(n), g = copy[n][m]
          PROVE  copy'[k][log[g].rec] = 0 \/ copy'[k][log[g].rec] >= g
        <3>1. /\ m \in PeerRecords /\ g \in Nat /\ g # 0 /\ g \in DOMAIN log
              /\ log[g].rec = m /\ log[g].dead
              /\ peerDay > log[g].day + TombstoneDays
            BY <2>2, RemovedTombstone
        <3>2. CASE k = n
            BY <1>2, <3>1, <3>2
        <3>3. CASE k # n
            <4>1. copy'[k] = copy[k] /\ copy[k][m] \in Nat
                BY <1>2, <3>1, <3>3 DEF PeerBase, PeerTypeOK
            <4>2. ASSUME copy[k][m] # 0, copy[k][m] < g PROVE FALSE
                <5>1. ~Reached(g, k)
                    BY <3>1, <4>2, OlderIsUnreached DEF DataInv
                <5>2. peerDay <= log[g].day + OutboxDays
                    BY <3>1, <4>2, <5>1, UnreachedInTime DEF DataInv
                <5>3. log[g].day \in Nat
                    BY <3>1, EachWrite DEF PeerBase
                <5> QED  BY <1>3, <3>1, <5>2, <5>3
            <4> QED  BY <3>1, <4>1, <4>2
        <3> QED  BY <3>2, <3>3
    <2> QED  BY <2>1, <2>2, <1>2
<1>10. RewrittenEarly'
    BY <1>1 DEF DataInv, RewrittenEarly, Same
<1>11. GoneIsLast'
    <2> SUFFICES ASSUME 2 * OutboxDays <= TombstoneDays,
                        NEW h \in Peers, NEW g \in gone'[h], NEW u \in DOMAIN log, Same(u, g)
                 PROVE  u <= g
        BY <1>1 DEF GoneIsLast, Same
    <2>1. CASE g \in gone[h]
        BY <2>1 DEF DataInv, GoneIsLast
    <2>2. ASSUME NEW m \in Compacted(n), g = copy[n][m] PROVE u <= g
        <3>1. /\ m \in PeerRecords /\ g \in Nat /\ g # 0 /\ g \in DOMAIN log
              /\ log[g].rec = m /\ log[g].dead
              /\ peerDay > log[g].day + TombstoneDays
            BY <2>2, RemovedTombstone
        <3>2. u \in Nat
            BY EachWrite DEF PeerBase
        <3> SUFFICES ASSUME u > g PROVE FALSE
            BY <3>1, <3>2
        <3>3. PICK w \in DOMAIN log : /\ Same(w, g) /\ g < w
                                      /\ log[w].day <= log[g].day + OutboxDays
            BY <3>1 DEF DataInv, RewrittenEarly
        <3>4. log[w].rec = m /\ copy[n][m] < w /\ copy[n][m] # 0
            BY <2>2, <3>1, <3>3 DEF Same
        <3>5. ~Reached(w, n)
            BY <3>4, OlderIsUnreached DEF DataInv
        <3>6. peerDay <= log[w].day + OutboxDays
            BY <3>4, <3>5, UnreachedInTime DEF DataInv
        <3>7. log[w].day \in Nat /\ log[g].day \in Nat
            BY <3>1, EachWrite DEF PeerBase
        <3> QED  BY <1>3, <3>1, <3>3, <3>6, <3>7
    <2> QED  BY <2>1, <2>2, <1>2
<1> QED  BY <1>4, <1>5, <1>6, <1>7, <1>8, <1>9, <1>10, <1>11 DEF DataInv

-----------------------------------------------------------------------------
\* What a write changes, field by field.
LEMMA WriteFacts ==
    ASSUME PeerBase, NEW n \in Peers, NEW m \in PeerRecords, NEW dead \in BOOLEAN,
           Written(n, m, dead)
    PROVE  LET v == Len(log) + 1
           IN /\ v \in Nat /\ v \in DOMAIN log' /\ v \notin DOMAIN log
              /\ log'[v].rec = m /\ log'[v].dead = dead
              /\ log'[v].by = n /\ log'[v].day = peerDay
              /\ \A u \in DOMAIN log : u \in DOMAIN log' /\ log'[u] = log[u] /\ u < v
              /\ \A u \in DOMAIN log' : u \in DOMAIN log \/ u = v
              /\ \A k \in Peers, j \in PeerRecords :
                    /\ copy[k][j] \in Nat /\ copy[k][j] < v
                    /\ copy'[k][j] = IF k = n /\ j = m THEN v ELSE copy[k][j]
              /\ \A w, k \in Peers :
                    PendingTo(w, k)' = PendingTo(w, k) \cup (IF w = n THEN {v} ELSE {})
<1> DEFINE v == Len(log) + 1
<1>1. Len(log) \in Nat /\ DOMAIN log = 1..Len(log) /\ DOMAIN log' = 1..v
    BY DEF PeerBase, PeerTypeOK, Written
<1>2. v \in Nat /\ v \in DOMAIN log' /\ v \notin DOMAIN log
    BY <1>1
<1>3. log'[v].rec = m /\ log'[v].dead = dead /\ log'[v].by = n /\ log'[v].day = peerDay
    BY DEF Written
<1>4. \A u \in DOMAIN log : u \in DOMAIN log' /\ log'[u] = log[u] /\ u < v
    BY <1>1 DEF Written
<1>5. \A u \in DOMAIN log' : u \in DOMAIN log \/ u = v
    BY <1>1
<1> HIDE DEF v
<1>6. ASSUME NEW k \in Peers, NEW j \in PeerRecords
      PROVE  /\ copy[k][j] \in Nat /\ copy[k][j] < v
             /\ copy'[k][j] = IF k = n /\ j = m THEN v ELSE copy[k][j]
    <2>1. copy[k][j] \in Nat
        BY DEF PeerBase, PeerTypeOK
    <2>2. copy[k][j] = 0 \/ copy[k][j] \in DOMAIN log
        BY DEF PeerBase, WasWritten
    <2>3. copy[k][j] < v
        BY <1>1, <2>1, <2>2, <1>4 DEF v
    <2>4. copy'[k][j] = IF k = n /\ j = m THEN v ELSE copy[k][j]
        BY DEF Written, v
    <2> QED  BY <2>1, <2>3, <2>4
<1>7. ASSUME NEW w \in Peers, NEW k \in Peers
      PROVE  PendingTo(w, k)' = PendingTo(w, k) \cup (IF w = n THEN {v} ELSE {})
    <2>1. sends' = sends /\ v \notin sends[w][k]
        BY <1>2 DEF Written, PeerBase, WasWritten
    <2>2. peerOutbox'[w] = peerOutbox[w] \cup (IF w = n THEN {v} ELSE {})
        BY DEF Written, v
    <2> QED  BY <2>1, <2>2 DEF PendingTo
<1> QED  BY <1>2, <1>3, <1>4, <1>5, <1>6, <1>7 DEF v

\* A live row is not the tombstone of anything its node has reached.
LEMMA LiveIsEarlier ==
    ASSUME PeerBase, NEW n \in Peers, NEW m \in PeerRecords, LiveAt(n, m)
    PROVE  /\ copy[n][m] # 0 /\ copy[n][m] \in DOMAIN log /\ copy[n][m] \in Nat
           /\ log[copy[n][m]].rec = m /\ ~log[copy[n][m]].dead
BY DEF LiveAt, Dead, PeerBase, PeerTypeOK, WasWritten

\* A write keeps it: what it writes is due everywhere, and who writes after a
\* deletion has not got the deletion.
LEMMA WriteKeepsData ==
    ASSUME PeerBase, DataInv, ~late,
           NEW n \in Peers, NEW m \in PeerRecords, NEW dead \in BOOLEAN,
           Written(n, m, dead), LiveAt(n, m) \/ PeerVersions(m) = {}
    PROVE  DataInv'
<1> DEFINE v == Len(log) + 1
<1>1. /\ v \in Nat /\ v \in DOMAIN log' /\ v \notin DOMAIN log
      /\ log'[v].rec = m /\ log'[v].dead = dead
      /\ log'[v].by = n /\ log'[v].day = peerDay
      /\ \A u \in DOMAIN log : u \in DOMAIN log' /\ log'[u] = log[u] /\ u < v
      /\ \A u \in DOMAIN log' : u \in DOMAIN log \/ u = v
      /\ \A k \in Peers, j \in PeerRecords :
            /\ copy[k][j] \in Nat /\ copy[k][j] < v
            /\ copy'[k][j] = IF k = n /\ j = m THEN v ELSE copy[k][j]
      /\ \A w, k \in Peers :
            PendingTo(w, k)' = PendingTo(w, k) \cup (IF w = n THEN {v} ELSE {})
    BY WriteFacts
<1>2. gone' = gone /\ peerDay' = peerDay /\ apart' = apart
    BY DEF Written
<1> HIDE DEF v
<1>3. ASSUME NEW u \in DOMAIN log, NEW k \in Peers, Reached(u, k) PROVE Reached(u, k)'
    <2>1. log[u].rec \in PeerRecords /\ log'[u] = log[u] /\ u \in Nat
        BY <1>1, EachWrite DEF PeerBase
    <2>2. copy'[k][log[u].rec] >= copy[k][log[u].rec]
        BY <1>1, <2>1
    <2>3. \A g \in gone[k] : g \in DOMAIN log /\ log'[g] = log[g]
        BY <1>1 DEF PeerBase, WasWritten
    <2>4. copy'[k][log[u].rec] \in Nat /\ copy[k][log[u].rec] \in Nat
        BY <1>1, <2>1
    <2> QED  BY <1>2, <1>3, <2>1, <2>2, <2>3, <2>4 DEF Reached, Same
<1>4. ASSUME NEW g \in DOMAIN log, log[g].rec = m
      PROVE  LiveAt(n, m)
    BY <1>4 DEF PeerVersions
<1>5. DueOrReached'
    <2> SUFFICES ASSUME NEW u \in DOMAIN log', NEW w \in Peers, w = log'[u].by,
                        NEW k \in Peers \ {w}, log'[u].rec \notin Refused
                 PROVE  u \in PendingTo(w, k)' \/ Reached(u, k)'
        <3>1. \A u \in DOMAIN log' : log'[u].by \in Peers
            BY <1>1, EachWrite DEF PeerBase
        <3> QED  BY <3>1 DEF DueOrReached, Common, PendingTo
    <2>1. CASE u \in DOMAIN log
        <3>1. u \in PendingTo(w, k) \/ Reached(u, k)
            BY <1>1, <2>1 DEF DataInv, DueOrReached, Common
        <3> QED  BY <1>1, <1>3, <2>1, <3>1
    <2>2. CASE u = v
        BY <1>1, <2>2
    <2> QED  BY <1>1, <2>1, <2>2
<1>6. WriterHasIt'
    <2> SUFFICES ASSUME NEW u \in DOMAIN log', NEW w \in Peers, w = log'[u].by
                 PROVE  Reached(u, w)'
        <3>1. \A u \in DOMAIN log' : log'[u].by \in Peers
            BY <1>1, EachWrite DEF PeerBase
        <3> QED  BY <3>1 DEF WriterHasIt, Reached, Same
    <2>1. CASE u \in DOMAIN log
        <3>1. Reached(u, w)
            BY <1>1, <2>1 DEF DataInv, WriterHasIt
        <3> QED  BY <1>3, <2>1, <3>1
    <2>2. CASE u = v
        <3>1. copy'[w][log'[u].rec] = v
            BY <1>1, <2>2
        <3> QED  BY <1>1, <2>2, <3>1 DEF Reached
    <2> QED  BY <1>1, <2>1, <2>2
<1>7. RefusedStays'
    <2> SUFFICES ASSUME NEW u \in DOMAIN log', NEW k \in Peers, log'[u].rec \in Refused,
                        copy'[k][log'[u].rec] # 0
                 PROVE  k = log'[u].by
        BY DEF RefusedStays, Common
    <2> DEFINE j == log'[u].rec
    <2>1. j \in PeerRecords
        BY <1>1, EachWrite DEF PeerBase
    <2>2. ASSUME j = m, PeerVersions(m) # {}
          PROVE  LiveAt(n, m) /\ \A g \in DOMAIN log : log[g].rec = m => log[g].by = n
        <3>1. LiveAt(n, m)
            BY <2>2
        <3>2. copy[n][m] # 0
            BY <3>1, LiveIsEarlier
        <3> QED  BY <2>2, <3>1, <3>2 DEF DataInv, RefusedStays, Common
    <2>3. CASE k = n /\ j = m
        <3>1. CASE u = v
            BY <1>1, <2>3, <3>1
        <3>2. CASE u \in DOMAIN log
            <4>1. log[u].rec = m /\ PeerVersions(m) # {}
                BY <1>1, <2>3, <3>2 DEF PeerVersions
            <4> QED  BY <1>1, <2>2, <2>3, <3>2, <4>1
        <3> QED  BY <1>1, <3>1, <3>2
    <2>4. CASE ~(k = n /\ j = m)
        <3>1. copy[k][j] # 0
            BY <1>1, <2>1, <2>4
        <3>2. CASE u \in DOMAIN log
            BY <1>1, <3>1, <3>2 DEF DataInv, RefusedStays, Common
        <3>3. CASE u = v
            <4>1. j = m /\ copy[k][m] \in DOMAIN log /\ log[copy[k][m]].rec = m
                BY <1>1, <2>1, <3>1, <3>3 DEF PeerBase, WasWritten
            <4>2. log[copy[k][m]].by = n
                BY <2>2, <4>1 DEF PeerVersions
            <4>3. k = log[copy[k][m]].by
                BY <3>1, <4>1 DEF DataInv, RefusedStays, Common
            <4> QED  BY <2>4, <4>1, <4>2, <4>3
        <3> QED  BY <1>1, <3>2, <3>3
    <2> QED  BY <2>3, <2>4
<1>8. DueIsYoung'
    <2> SUFFICES ASSUME NEW w \in Peers, NEW r \in Peers, w # r,
                        NEW u \in PendingTo(w, r)', log'[u].rec \notin Refused
                 PROVE  peerDay <= log'[u].day + apart[{w, r}]
        BY <1>2 DEF DueIsYoung, Common
    <2>1. CASE u \in PendingTo(w, r)
        <3>1. u \in DOMAIN log
            BY <2>1 DEF PendingTo, PeerBase, WasWritten
        <3> QED  BY <1>1, <2>1, <3>1 DEF DataInv, DueIsYoung, Common
    <2>2. CASE u = v
        <3>1. apart[{w, r}] \in Nat /\ peerDay \in Nat
            BY TwoApart DEF PeerBase, PeerTypeOK
        <3> QED  BY <1>1, <2>2, <3>1
    <2> QED  BY <1>1, <2>1, <2>2
<1>9. GoneIsOld'
    BY <1>1, <1>2 DEF DataInv, GoneIsOld, PeerBase, WasWritten
<1>10. NothingOlder'
    <2> SUFFICES ASSUME NEW h \in Peers, NEW g \in gone[h], NEW k \in Peers
                 PROVE  copy'[k][log'[g].rec] = 0 \/ copy'[k][log'[g].rec] >= g
        BY <1>2 DEF NothingOlder
    <2>1. g \in DOMAIN log
        BY DEF PeerBase, WasWritten
    <2>2. log'[g] = log[g] /\ log[g].rec \in PeerRecords /\ g < v /\ g \in Nat
        BY <1>1, <2>1, EachWrite DEF PeerBase
    <2>3. copy[k][log[g].rec] = 0 \/ copy[k][log[g].rec] >= g
        BY DEF DataInv, NothingOlder
    <2> QED  BY <1>1, <2>2, <2>3
<1>11. RewrittenEarly'
    <2> SUFFICES ASSUME NEW g \in DOMAIN log', NEW u \in DOMAIN log',
                        log'[g].dead, log'[u].rec = log'[g].rec, u > g
                 PROVE  \E w \in DOMAIN log' :
                           /\ log'[w].rec = log'[g].rec /\ g < w /\ w <= u
                           /\ log'[w].day <= log'[g].day + OutboxDays
        BY DEF RewrittenEarly, Same
    <2>1. g \in DOMAIN log /\ log'[g] = log[g] /\ g \in Nat
        <3>1. g # v
            BY <1>1, EachWrite DEF PeerBase
        <3> QED  BY <1>1, <3>1, EachWrite DEF PeerBase
    <2>2. ASSUME NEW b \in DOMAIN log, Same(b, g), b > g, b <= u
          PROVE  \E w \in DOMAIN log' :
                    /\ log'[w].rec = log'[g].rec /\ g < w /\ w <= u
                    /\ log'[w].day <= log'[g].day + OutboxDays
        <3>1. PICK w \in DOMAIN log : /\ Same(w, g) /\ g < w /\ w <= b
                                      /\ log[w].day <= log[g].day + OutboxDays
            BY <2>1, <2>2 DEF DataInv, RewrittenEarly
        <3>2. w \in Nat /\ b \in Nat /\ u \in Nat
            BY <1>1, EachWrite DEF PeerBase
        <3>3. w <= u
            BY <2>2, <3>1, <3>2
        <3>4. w \in DOMAIN log' /\ log'[w] = log[w]
            BY <1>1
        <3> QED  BY <2>1, <3>1, <3>3, <3>4 DEF Same
    <2>3. CASE u \in DOMAIN log
        <3>1. Same(u, g) /\ u <= u
            BY <1>1, <2>1, <2>3, EachWrite DEF Same, PeerBase
        <3> QED  BY <2>2, <2>3, <3>1
    <2>4. CASE u = v /\ \E b \in DOMAIN log : Same(b, g) /\ b > g
        <3>1. PICK b \in DOMAIN log : Same(b, g) /\ b > g
            BY <2>4
        <3>2. b <= u
            BY <1>1, <2>4, EachWrite DEF PeerBase
        <3> QED  BY <2>2, <3>1, <3>2
    <2>5. CASE u = v /\ \A b \in DOMAIN log : Same(b, g) => ~(b > g)
        <3>1. log[g].rec = m
            BY <1>1, <2>1, <2>5
        <3>2. LiveAt(n, m)
            BY <1>4, <2>1, <3>1
        <3> DEFINE c == copy[n][m]
        <3>3. c # 0 /\ c \in DOMAIN log /\ c \in Nat /\ log[c].rec = m /\ ~log[c].dead
            BY <3>2, LiveIsEarlier
        <3>4. c < g
            <4>1. c # g
                BY <2>1, <3>3
            <4>2. ~(c > g)
                BY <2>5, <3>1, <3>3 DEF Same
            <4> QED  BY <2>1, <3>3, <4>1, <4>2
        <3>5. ~Reached(g, n)
            BY <2>1, <3>1, <3>3, <3>4, OlderIsUnreached DEF DataInv
        <3>6. peerDay <= log[g].day + OutboxDays
            BY <2>1, <3>1, <3>3, <3>5, UnreachedInTime DEF DataInv
        <3>7. log'[v].day <= log'[g].day + OutboxDays /\ v <= u /\ g < v
            BY <1>1, <2>1, <2>5, <3>6
        <3> QED  BY <1>1, <2>1, <3>1, <3>7
    <2> QED  BY <1>1, <2>3, <2>4, <2>5
<1>12. GoneIsLast'
    <2> SUFFICES ASSUME 2 * OutboxDays <= TombstoneDays, NEW h \in Peers, NEW g \in gone[h],
                        NEW u \in DOMAIN log', log'[u].rec = log'[g].rec
                 PROVE  u <= g
        BY <1>2 DEF GoneIsLast, Same
    <2>1. g \in DOMAIN log /\ log[g].dead
        BY DEF PeerBase, WasWritten
    <2>2. g \in Nat /\ log'[g] = log[g]
        BY <1>1, <2>1, EachWrite DEF PeerBase
    <2>3. CASE u \in DOMAIN log
        BY <1>1, <2>2, <2>3 DEF DataInv, GoneIsLast, Same
    <2>4. CASE u = v
        <3>1. log[g].rec = m
            BY <1>1, <2>2, <2>4
        <3>2. LiveAt(n, m)
            BY <1>4, <2>1, <3>1
        <3> DEFINE c == copy[n][m]
        <3>3. c # 0 /\ c \in DOMAIN log /\ c \in Nat /\ log[c].rec = m /\ ~log[c].dead
            BY <3>2, LiveIsEarlier
        <3>4. c <= g
            BY <3>1, <3>3 DEF DataInv, GoneIsLast, Same
        <3>5. c >= g
            BY <3>1, <3>3 DEF DataInv, NothingOlder
        <3>6. c = g
            BY <2>2, <3>3, <3>4, <3>5
        <3> QED  BY <2>1, <3>3, <3>6
    <2> QED  BY <1>1, <2>3, <2>4
<1> QED  BY <1>5, <1>6, <1>7, <1>8, <1>9, <1>10, <1>11, <1>12 DEF DataInv

-----------------------------------------------------------------------------
LEMMA MidnightKeepsData ==
    ASSUME PeerBase, DataInv, AfterCycle, ~late, Midnight
    PROVE  DataInv'
<1>1. /\ UNCHANGED <<log, copy, peerOutbox, sends, gone>>
      /\ peerDay' = peerDay + 1 /\ peerDay \in Nat
      /\ Peers \ asleep \subseteq ran
      /\ apart' = [p \in PeerPairs |-> IF p \cap asleep = {} THEN 0 ELSE apart[p] + 1]
    BY DEF Midnight, PeerBase, PeerTypeOK
<1>2. DueIsYoung'
    <2> SUFFICES ASSUME NEW w \in Peers, NEW r \in Peers, w # r,
                        NEW v \in PendingTo(w, r), Common(v)
                 PROVE  peerDay + 1 <= log[v].day + apart'[{w, r}]
        BY <1>1 DEF DueIsYoung, PendingTo, Common
    <2>1. {w, r} \in PeerPairs
        BY TwoApart
    <2>2. {w, r} \cap asleep # {}
        BY <1>1 DEF AfterCycle, NothingDue
    <2>3. apart'[{w, r}] = apart[{w, r}] + 1
        BY <1>1, <2>1, <2>2
    <2>4. v \in DOMAIN log /\ apart[{w, r}] \in Nat
        BY <2>1 DEF PendingTo, PeerBase, WasWritten, PeerTypeOK
    <2>5. log[v].day \in Nat
        BY <2>4, EachWrite DEF PeerBase
    <2>6. peerDay <= log[v].day + apart[{w, r}]
        BY DEF DataInv, DueIsYoung
    <2> QED  BY <1>1, <2>3, <2>4, <2>5, <2>6
<1>3. GoneIsOld'
    <2>1. \A n \in Peers : \A g \in gone[n] : log[g].day \in Nat
        BY EachWrite DEF PeerBase, WasWritten
    <2> QED  BY <1>1, <2>1, Retention DEF DataInv, GoneIsOld
<1>4. (DueOrReached /\ WriterHasIt /\ RefusedStays /\ NothingOlder /\ RewrittenEarly /\ GoneIsLast)'
    BY <1>1 DEF DataInv, DueOrReached, WriterHasIt, RefusedStays, NothingOlder,
                RewrittenEarly, GoneIsLast, Reached, Same, Common, PendingTo
<1> QED  BY <1>2, <1>3, <1>4 DEF DataInv

\* The steps that leave the data alone.
LEMMA RestKeepsData ==
    ASSUME DataInv, UNCHANGED <<log, copy, peerOutbox, sends, peerDay, apart, gone>>
    PROVE  DataInv' /\ Shrinks
BY DEF DataInv, DueOrReached, WriterHasIt, RefusedStays, DueIsYoung, GoneIsOld, NothingOlder,
       RewrittenEarly, GoneIsLast, Reached, Same, Common, PendingTo, Shrinks

-----------------------------------------------------------------------------
\* Nothing new is due from w.
NoMoreDue(w) ==
    \A r \in Peers : \A v \in PendingTo(w, r)' : v \in PendingTo(w, r) /\ log'[v] = log[v]

\* A step that shrinks what is due adds nothing to it.
LEMMA ShrinkingAddsNothing ==
    ASSUME Shrinks, log' = log
    PROVE  \A w \in Peers : NoMoreDue(w)
BY DEF Shrinks, NoMoreDue

\* Where nothing was due and nothing is added, nothing is due.
LEMMA StillNothingDue ==
    ASSUME NEW w \in Peers, NEW r \in Peers, NoMoreDue(w), NothingDue(w, r)
    PROVE  NothingDue(w, r)'
BY DEF NoMoreDue, NothingDue, Common

\* A cycle that a step leaves alone.
LEMMA OtherCycles ==
    ASSUME NEW k \in Peers, WithinCycle(k), cycle'[k] = cycle[k], asleep \subseteq asleep',
           cycle[k] \in Cycles, NoMoreDue(k)
    PROVE  WithinCycle(k)'
<1> DEFINE c == cycle[k]
<1>1. \A r \in Peers : NothingDue(k, r) => NothingDue(k, r)'
    BY StillNothingDue
<1> SUFFICES ASSUME c # Off, c.whole
             PROVE  /\ c \in Cleaning =>
                         \A r \in Peers \ (asleep' \cup {k}) : NothingDue(k, r)'
                    /\ c \in Visiting =>
                         /\ \A r \in Peers \ (asleep' \cup {k, c.with} \cup c.todo) :
                               NothingDue(k, r)'
                         /\ c.at = "push" =>
                               \A v \in PendingTo(k, c.with)' : Common(v)' => v > c.from
                         /\ c.at = "pull" => NothingDue(k, c.with)'
    BY DEF WithinCycle, NothingDue, PendingTo
<1>2. ASSUME c \in Cleaning, NEW r \in Peers \ (asleep' \cup {k}) PROVE NothingDue(k, r)'
    <2>1. NothingDue(k, r)
        BY <1>2 DEF WithinCycle
    <2> QED  BY <1>1, <2>1
<1>3. ASSUME c \in Visiting, NEW r \in Peers \ (asleep' \cup {k, c.with} \cup c.todo)
      PROVE  NothingDue(k, r)'
    <2>1. NothingDue(k, r)
        BY <1>3 DEF WithinCycle
    <2> QED  BY <1>1, <2>1
<1>4. ASSUME c \in Visiting, c.at = "push", NEW v \in PendingTo(k, c.with)', Common(v)'
      PROVE  v > c.from
    <2>1. c.with \in Peers
        BY <1>4 DEF Visiting
    <2>2. v \in PendingTo(k, c.with) /\ Common(v)
        BY <1>4, <2>1 DEF NoMoreDue, Common
    <2> QED  BY <1>4, <2>2 DEF WithinCycle
<1>5. ASSUME c \in Visiting, c.at = "pull" PROVE NothingDue(k, c.with)'
    <2>1. c.with \in Peers
        BY <1>5 DEF Visiting
    <2>2. NothingDue(k, c.with)
        BY <1>5 DEF WithinCycle
    <2>3. \A v \in PendingTo(k, c.with)' : v \in PendingTo(k, c.with) /\ log'[v] = log[v]
        BY <2>1 DEF NoMoreDue
    <2> QED  BY <2>2, <2>3 DEF NothingDue, Common, PendingTo
<1> QED  BY <1>2, <1>3, <1>4, <1>5

\* A cycle that goes on with the next peer: nothing may be due to those that are
\* up and no longer on its list.
LEMMA NextPeerWithin ==
    ASSUME PeerBase, NEW n \in Peers, NEW left \in SUBSET (Peers \ {n}), NEW whole \in BOOLEAN,
           GoesOn(n, left, whole), asleep' = asleep, NoMoreDue(n),
           whole => \A r \in Peers \ (asleep \cup {n} \cup left) : NothingDue(n, r)
    PROVE  WithinCycle(n)'
<1>1. ASSUME whole, NEW r \in Peers \ (asleep \cup {n} \cup left) PROVE NothingDue(n, r)'
    <2>1. NothingDue(n, r)
        BY <1>1
    <2> QED  BY <2>1, StillNothingDue
<1>2. CASE left \subseteq asleep /\ cycle'[n] = [at |-> "clean", whole |-> whole]
    <2> DEFINE d == cycle'[n]
    <2>1. d.whole = whole /\ d \notin Visiting
        BY <1>2 DEF Visiting
    <2>2. whole => \A r \in Peers \ (asleep' \cup {n}) : NothingDue(n, r)'
        BY <1>1, <1>2
    <2> QED  BY <2>1, <2>2 DEF WithinCycle, NothingDue, PendingTo
<1>3. ASSUME NEW r \in left \ asleep, cycle'[n] = Visit(r, left \ {r}, whole)
      PROVE  WithinCycle(n)'
    <2> DEFINE d == cycle'[n]
    <2>1. /\ d.whole = whole /\ d.at = "push" /\ d.with = r /\ d.todo = left \ {r} /\ d.from = 0
          /\ d \notin Cleaning
        BY <1>3 DEF Visit, Cleaning
    <2>2. ASSUME whole, NEW k \in Peers \ (asleep' \cup {n, d.with} \cup d.todo)
          PROVE  NothingDue(n, k)'
        BY <1>1, <2>1, <2>2
    <2>3. ASSUME NEW v \in PendingTo(n, r)' PROVE v > d.from
        <3>1. v \in DOMAIN log
            BY <2>3 DEF NoMoreDue, PendingTo, PeerBase, WasWritten
        <3>2. v \in Nat /\ v # 0
            BY <3>1, EachWrite DEF PeerBase
        <3> QED  BY <2>1, <3>2
    <2>4. \A v \in peerOutbox'[n] \ sends'[n][d.with] : v > d.from
        BY <2>1, <2>3 DEF PendingTo
    <2> QED  BY <2>1, <2>2, <2>4 DEF WithinCycle, NothingDue, PendingTo
<1> QED  BY <1>2, <1>3 DEF GoesOn

\* What has become of a node's cycle when it is off or no longer whole.
LEMMA NotWholeWithin ==
    ASSUME NEW k \in Peers, cycle'[k] = Off \/ ~cycle'[k].whole
    PROVE  WithinCycle(k)'
BY DEF WithinCycle, Off

\* The nodes that have had a whole cycle, when nothing more is due from them.
LEMMA RanStays ==
    ASSUME AfterCycle, ran \subseteq Peers, NEW R \in SUBSET ran, ran' \subseteq R,
           asleep \subseteq asleep', \A w \in R : NoMoreDue(w)
    PROVE  AfterCycle'
<1> SUFFICES ASSUME NEW w \in ran', NEW r \in Peers \ (asleep' \cup {w})
             PROVE  NothingDue(w, r)'
    BY DEF AfterCycle
<1>1. NothingDue(w, r) /\ w \in Peers
    BY DEF AfterCycle
<1> QED  BY <1>1, StillNothingDue

-----------------------------------------------------------------------------
\* A step in which only the cycle of n changes, and nothing more is due.
LEMMA OneCycle ==
    ASSUME PeerBase, CycleInv, NEW n \in Peers, Shrinks, log' = log,
           asleep \subseteq asleep', ran' \subseteq ran,
           \A k \in Peers \ {n} : cycle'[k] = cycle[k], WithinCycle(n)'
    PROVE  CycleInv'
<1>1. \A w \in Peers : NoMoreDue(w)
    BY ShrinkingAddsNothing
<1>2. AfterCycle'
    <2>1. ran \subseteq Peers /\ \A w \in ran : NoMoreDue(w)
        BY <1>1 DEF PeerBase, PeerTypeOK
    <2> QED  BY <2>1, RanStays DEF CycleInv
<1>3. ASSUME NEW k \in Peers \ {n} PROVE WithinCycle(k)'
    <2>1. cycle[k] \in Cycles /\ WithinCycle(k)
        BY DEF PeerBase, PeerTypeOK, CycleInv
    <2> QED  BY <1>1, <2>1, OtherCycles
<1> QED  BY <1>2, <1>3 DEF CycleInv

\* Each step keeps what cycles have delivered: a write,
LEMMA PutRowDelivers ==
    ASSUME PeerBase, DataInv, CycleInv, ~late,
           NEW n \in Peers, NEW m \in PeerRecords, NEW dead \in BOOLEAN, PutRow(n, m, dead)
    PROVE  DataInv' /\ CycleInv'
<1>1. Written(n, m, dead)
    BY PutRowWrites
<1>2. /\ LiveAt(n, m) \/ PeerVersions(m) = {}
      /\ cycle' = Unfinished({n}) /\ asleep' = asleep /\ ran' = ran \ {n}
    BY DEF PutRow
<1>3. DataInv'
    BY <1>1, <1>2, WriteKeepsData
<1>4. ASSUME NEW w \in Peers \ {n} PROVE NoMoreDue(w)
    <2>1. \A r \in Peers : PendingTo(w, r)' = PendingTo(w, r)
        BY <1>1 DEF Written, PendingTo
    <2>2. \A u \in DOMAIN log : log'[u] = log[u]
        BY <1>1 DEF Written
    <2>3. \A r \in Peers : PendingTo(w, r) \subseteq DOMAIN log
        BY DEF PendingTo, PeerBase, WasWritten
    <2> QED  BY <2>1, <2>2, <2>3 DEF NoMoreDue
<1>5. Spoils({n})
    BY <1>2, UnfinishedSpoils DEF PeerBase
<1>6. AfterCycle'
    <2>1. ran \subseteq Peers /\ ran \ {n} \in SUBSET ran
        BY DEF PeerBase, PeerTypeOK
    <2>2. \A w \in ran \ {n} : NoMoreDue(w)
        BY <1>4, <2>1
    <2> QED  BY <1>2, <2>1, <2>2, RanStays DEF CycleInv
<1>7. ASSUME NEW k \in Peers PROVE WithinCycle(k)'
    <2>1. CASE k = n
        <3>1. cycle'[n] = Off \/ ~cycle'[n].whole
            BY <1>5 DEF Spoils
        <3> QED  BY <2>1, <3>1, NotWholeWithin
    <2>2. CASE k # n
        <3>1. cycle'[k] = cycle[k] /\ cycle[k] \in Cycles /\ WithinCycle(k) /\ NoMoreDue(k)
            BY <1>4, <1>5, <2>2 DEF Spoils, PeerBase, PeerTypeOK, CycleInv
        <3> QED  BY <1>2, <3>1, OtherCycles
    <2> QED  BY <2>1, <2>2
<1> QED  BY <1>3, <1>6, <1>7 DEF CycleInv

\* the beginning of a cycle,
LEMMA BeginCycleDelivers ==
    ASSUME PeerBase, DataInv, CycleInv, ~late, NEW n \in Peers, BeginCycle(n)
    PROVE  DataInv' /\ CycleInv'
<1>1. /\ NextPeer(n, Peers \ {n}, TRUE)
      /\ UNCHANGED <<log, copy, peerOutbox, sends, since, asleep, peerDay, ran, apart,
                     late, gone, faults>>
    BY DEF BeginCycle
<1>2. DataInv' /\ Shrinks
    BY <1>1, RestKeepsData
<1>3. GoesOn(n, Peers \ {n}, TRUE)
    BY <1>1, NextPeerGoesOn DEF PeerBase
<1>4. NoMoreDue(n)
    BY <1>1, <1>2, ShrinkingAddsNothing
<1>5. WithinCycle(n)'
    <2>1. \A r \in Peers \ (asleep \cup {n} \cup (Peers \ {n})) : NothingDue(n, r)
        OBVIOUS
    <2> QED  BY <1>1, <1>3, <1>4, <2>1, NextPeerWithin
<1>6. \A k \in Peers \ {n} : cycle'[k] = cycle[k]
    BY <1>3 DEF GoesOn
<1> QED  BY <1>1, <1>2, <1>5, <1>6, OneCycle

\* a batch,
LEMMA PushBatchDelivers ==
    ASSUME PeerBase, DataInv, CycleInv, ~late, NEW n \in Peers, PushBatch(n)
    PROVE  DataInv' /\ CycleInv'
<1> DEFINE c == cycle[n]
           r == c.with
           rest == {v \in PendingTo(n, r) : v > c.from}
           batch == PushNext(n, c)
           d == cycle'[n]
<1>1. /\ Exchange(n, r, batch) /\ Marked(n, r, batch)
      /\ d = Pushed(c, batch) /\ d \in Visiting
      /\ \A k \in Peers \ {n} : cycle'[k] = cycle[k]
      /\ batch # {} /\ Max(batch) \in Nat
    BY PushBatchExchanges
<1>2. c.at = "push" /\ asleep' = asleep /\ ran' = ran
    BY DEF PushBatch
<1>3. /\ c \in Visiting /\ r \in Peers /\ r # n
      /\ batch \subseteq rest /\ rest \subseteq DOMAIN log
      /\ \A v \in batch : \A w \in rest \ batch : v < w
      /\ Cardinality(batch) < BatchSize => batch = rest
      /\ Max(batch) \in batch
    BY <1>1, <1>2, BatchFacts
<1>4. DataInv'
    BY <1>1, <1>3, ExchangeKeepsData
<1>5. Shrinks /\ log' = log
    BY <1>1, <1>3, ExchangeShrinks DEF Exchange
<1>6. /\ d.with = r /\ d.todo = c.todo /\ d.whole = c.whole /\ d.from = Max(batch)
      /\ d.at = "pull" => Cardinality(batch) < BatchSize
    <2> HIDE DEF batch
    <2> QED  BY <1>1, <1>3 DEF Pushed, Visiting
<1>7. ASSUME NEW v \in peerOutbox'[n] \ sends'[n][r], Common(v)
      PROVE  v \in PendingTo(n, r) /\ v \notin batch
    <2>1. v \in PendingTo(n, r)
        BY <1>3, <1>5, <1>7 DEF Shrinks, PendingTo
    <2>2. v \notin batch
        BY <1>1, <1>7 DEF Marked, Processed, Common
    <2> QED  BY <2>1, <2>2
<1>8. WithinCycle(n)'
    <2>0. Off \notin Visiting /\ d \notin Cleaning
        <3>1. d \in Cycles
            BY <1>1 DEF Cycles
        <3>2. d.at # "clean"
            BY <1>1, <3>1, CycleShape
        <3> QED  BY <3>1, <3>2, CycleShape DEF Off, Visiting
    <2> SUFFICES ASSUME c.whole
                 PROVE  /\ \A k \in Peers \ (asleep \cup {n, r} \cup c.todo) : NothingDue(n, k)'
                        /\ \A v \in peerOutbox'[n] \ sends'[n][r] : Common(v) => v > Max(batch)
                        /\ d.at = "pull" =>
                              \A v \in peerOutbox'[n] \ sends'[n][r] : ~Common(v)
        BY <1>1, <1>2, <1>5, <1>6, <2>0 DEF WithinCycle, NothingDue, Common, PendingTo
    <2>1. WithinCycle(n) /\ c # Off
        BY <1>3, <2>0 DEF CycleInv
    <2>2. ASSUME NEW k \in Peers \ (asleep \cup {n, r} \cup c.todo) PROVE NothingDue(n, k)'
        <3>1. NothingDue(n, k)
            BY <1>3, <2>1 DEF WithinCycle
        <3>2. NoMoreDue(n)
            BY <1>5, ShrinkingAddsNothing
        <3> QED  BY <3>1, <3>2, StillNothingDue
    <2>3. ASSUME NEW v \in peerOutbox'[n] \ sends'[n][r], Common(v) PROVE v \in rest \ batch
        <3>1. v > c.from
            BY <1>2, <1>3, <1>7, <2>1, <2>3 DEF WithinCycle
        <3> QED  BY <1>7, <2>3, <3>1
    <2>4. ASSUME NEW v \in peerOutbox'[n] \ sends'[n][r], Common(v) PROVE v > Max(batch)
        <3>1. Max(batch) < v
            BY <1>3, <2>3, <2>4
        <3> QED  BY <3>1
    <2>5. ASSUME d.at = "pull", NEW v \in peerOutbox'[n] \ sends'[n][r] PROVE ~Common(v)
        BY <1>3, <1>6, <2>3, <2>5
    <2> QED  BY <2>2, <2>4, <2>5
<1> QED  BY <1>1, <1>2, <1>4, <1>5, <1>8, OneCycle

\* the end of the batches,
LEMMA PushDoneDelivers ==
    ASSUME PeerBase, DataInv, CycleInv, ~late, NEW n \in Peers, PushDone(n)
    PROVE  DataInv' /\ CycleInv'
<1> DEFINE c == cycle[n]
           all == PushNext(n, c) = {}
           d == cycle'[n]
<1>1. /\ c \in Visiting /\ c.at = "push"
      /\ d \in Visiting /\ d = [c EXCEPT !.at = "pull", !.whole = @ /\ all]
      /\ \A k \in Peers \ {n} : cycle'[k] = cycle[k]
    BY PushDoneTurns
<1>2. UNCHANGED <<log, copy, peerOutbox, sends, since, asleep, peerDay, ran, apart,
                  late, gone, faults>>
    BY DEF PushDone
<1>3. DataInv' /\ Shrinks
    BY <1>2, RestKeepsData
<1>4. /\ d.at = "pull" /\ d.with = c.with /\ d.todo = c.todo
      /\ d.whole => c.whole /\ all
    <2> HIDE DEF c, all
    <2> QED  BY <1>1 DEF Visiting
<1>5. WithinCycle(n)'
    <2>0. Off \notin Visiting /\ d \notin Cleaning
        <3>1. d.at # "clean"
            BY <1>4
        <3> QED  BY <3>1 DEF Off, Visiting, Cleaning
    <2> SUFFICES ASSUME d.whole
                 PROVE  /\ \A k \in Peers \ (asleep \cup {n, c.with} \cup c.todo) : NothingDue(n, k)
                        /\ NothingDue(n, c.with)
        BY <1>1, <1>2, <1>4, <2>0 DEF WithinCycle, NothingDue, Common, PendingTo
    <2>1. WithinCycle(n) /\ c # Off /\ c.whole
        BY <1>1, <1>4, <2>0 DEF CycleInv
    <2>2. {v \in PendingTo(n, c.with) : v > c.from} = {}
        BY <1>1, <1>4, BatchFacts
    <2>3. NothingDue(n, c.with)
        BY <1>1, <2>1, <2>2 DEF WithinCycle, NothingDue
    <2> QED  BY <1>1, <2>1, <2>3 DEF WithinCycle
<1> QED  BY <1>1, <1>2, <1>3, <1>5, OneCycle

\* a page,
LEMMA PullPageDelivers ==
    ASSUME PeerBase, DataInv, CycleInv, ~late, NEW n \in Peers, PullPage(n)
    PROVE  DataInv' /\ CycleInv'
<1> DEFINE c == cycle[n]
           page == PullNextPage(n, c.with)
<1>1. /\ c \in Visiting /\ c.at = "pull" /\ c.with \in Peers /\ c.todo \in SUBSET Peers
      /\ Exchange(c.with, n, page)
      /\ cycle' = cycle \/ GoesOn(n, c.todo, c.whole)
    BY PullPageExchanges
<1>2. asleep' = asleep /\ ran' = ran
    BY DEF PullPage
<1> HIDE DEF page
<1>3. DataInv'
    BY <1>1, ExchangeKeepsData
<1>4. Shrinks /\ log' = log
    BY <1>1, ExchangeShrinks DEF Exchange
<1>5. NoMoreDue(n) /\ WithinCycle(n) /\ c \in Cycles /\ c # Off
    BY <1>1, <1>4, ShrinkingAddsNothing DEF CycleInv, Cycles, Off, Visiting
<1>6. WithinCycle(n)' /\ \A k \in Peers \ {n} : cycle'[k] = cycle[k]
    <2>1. CASE cycle' = cycle
        <3>1. cycle'[n] = cycle[n] /\ asleep \subseteq asleep'
            BY <1>2, <2>1
        <3> QED  BY <1>5, <2>1, <3>1, OtherCycles
    <2>2. CASE GoesOn(n, c.todo, c.whole)
        <3>1. c.todo \in SUBSET (Peers \ {n}) /\ c.whole \in BOOLEAN
            BY <1>1 DEF PeerBase, VisitsOthers, Visiting
        <3>2. c.whole => \A r \in Peers \ (asleep \cup {n} \cup c.todo) : NothingDue(n, r)
            BY <1>1, <1>5 DEF WithinCycle
        <3>3. WithinCycle(n)'
            BY <1>2, <1>5, <2>2, <3>1, <3>2, NextPeerWithin
        <3> QED  BY <2>2, <3>3 DEF GoesOn
    <2> QED  BY <1>1, <2>1, <2>2
<1> QED  BY <1>2, <1>3, <1>4, <1>6, OneCycle

\* a failure,
LEMMA BrokenDelivers ==
    ASSUME PeerBase, DataInv, CycleInv, ~late, NEW n \in Peers, Broken(n)
    PROVE  DataInv' /\ CycleInv'
<1> DEFINE c == cycle[n]
           whole == c.whole /\ c.with \in asleep
<1>1. /\ c \in Visiting /\ c.with \in Peers /\ c.todo \in SUBSET Peers
      /\ \E vs \in SUBSET DOMAIN log : Exchange(n, c.with, vs)
      /\ GoesOn(n, c.todo, whole)
    BY BrokenExchanges
<1>2. PICK vs \in SUBSET DOMAIN log : Exchange(n, c.with, vs)
    BY <1>1
<1>3. asleep' = asleep /\ ran' = ran
    BY DEF Broken
<1>4. DataInv'
    BY <1>1, <1>2, ExchangeKeepsData
<1>5. Shrinks /\ log' = log
    BY <1>1, <1>2, ExchangeShrinks DEF Exchange
<1>6. NoMoreDue(n) /\ WithinCycle(n) /\ c # Off
    BY <1>1, <1>5, ShrinkingAddsNothing DEF CycleInv, Off, Visiting
<1>7. WithinCycle(n)'
    <2>1. c.todo \in SUBSET (Peers \ {n}) /\ whole \in BOOLEAN
        BY <1>1 DEF PeerBase, VisitsOthers
    <2>2. whole => \A r \in Peers \ (asleep \cup {n} \cup c.todo) : NothingDue(n, r)
        BY <1>1, <1>6 DEF WithinCycle
    <2> HIDE DEF whole
    <2> QED  BY <1>1, <1>3, <1>6, <2>1, <2>2, NextPeerWithin
<1>8. \A k \in Peers \ {n} : cycle'[k] = cycle[k]
    BY <1>1 DEF GoesOn
<1> QED  BY <1>3, <1>4, <1>5, <1>7, <1>8, OneCycle

\* and the clean-up.
LEMMA CleanDelivers ==
    ASSUME PeerBase, DataInv, CycleInv, ~late, NEW n \in Peers, Clean(n)
    PROVE  DataInv' /\ CycleInv'
<1>1. Cleaned(n)
    BY CleanCleans
<1>2. /\ cycle[n].at = "clean" /\ cycle' = [cycle EXCEPT ![n] = Off] /\ asleep' = asleep
      /\ ran' = IF cycle[n].whole THEN ran \cup {n} ELSE ran
    BY DEF Clean
<1>3. DataInv'
    BY <1>1, CleaningKeepsData
<1>4. \A w \in Peers : NoMoreDue(w)
    BY <1>1, CleaningShrinks, ShrinkingAddsNothing DEF Cleaned
<1>5. cycle'[n] = Off /\ \A k \in Peers \ {n} : cycle'[k] = cycle[k]
    BY <1>2, OffVisitsOthers
<1>6. ASSUME NEW k \in Peers PROVE WithinCycle(k)'
    <2>1. CASE k = n
        BY <1>5, <2>1, NotWholeWithin
    <2>2. CASE k # n
        <3>1. cycle'[k] = cycle[k] /\ cycle[k] \in Cycles /\ WithinCycle(k) /\ NoMoreDue(k)
            BY <1>4, <1>5, <2>2 DEF PeerBase, PeerTypeOK, CycleInv
        <3> QED  BY <1>2, <3>1, OtherCycles
    <2> QED  BY <2>1, <2>2
<1>7. AfterCycle'
    <2> SUFFICES ASSUME NEW w \in ran', NEW r \in Peers \ (asleep \cup {w})
                 PROVE  NothingDue(w, r)'
        BY <1>2 DEF AfterCycle
    <2>1. w \in Peers
        BY <1>2 DEF PeerBase, PeerTypeOK
    <2>2. CASE w \in ran
        <3>1. NothingDue(w, r)
            BY <2>2 DEF CycleInv, AfterCycle
        <3> QED  BY <1>4, <2>1, <3>1, StillNothingDue
    <2>3. CASE w \notin ran
        <3>1. w = n /\ cycle[n].whole
            BY <1>2, <2>3
        <3>2. cycle[n] \in Cleaning /\ cycle[n] # Off
            BY <1>2, CycleShape DEF PeerBase, PeerTypeOK, Off
        <3>3. NothingDue(w, r)
            BY <3>1, <3>2 DEF CycleInv, WithinCycle
        <3> QED  BY <1>4, <2>1, <3>3, StillNothingDue
    <2> QED  BY <2>2, <2>3
<1> QED  BY <1>3, <1>6, <1>7 DEF CycleInv

\* The delivery of what is written: every step keeps it.
LEMMA DeliveryStep ==
    ASSUME PeerBase, DataInv, CycleInv, ~late, [PeerNext]_peerVars
    PROVE  DataInv' /\ CycleInv'
<1>1. CASE UNCHANGED peerVars
    <2>1. UNCHANGED <<log, copy, peerOutbox, sends, cycle, asleep, peerDay, ran, apart, gone>>
        BY <1>1 DEF peerVars
    <2>2. DataInv'
        BY <2>1, RestKeepsData
    <2>3. CycleInv'
        BY <2>1 DEF CycleInv, AfterCycle, WithinCycle, NothingDue, PendingTo, Common
    <2> QED  BY <2>2, <2>3
<1>2. CASE Midnight
    <2>1. DataInv'
        BY <1>2, MidnightKeepsData DEF CycleInv
    <2>2. ran' = {} /\ cycle' = cycle /\ \A k \in Peers : cycle[k] = Off
        BY <1>2 DEF Midnight
    <2>3. ASSUME NEW k \in Peers PROVE WithinCycle(k)'
        <3>1. cycle'[k] = Off
            BY <2>2
        <3> QED  BY <3>1, NotWholeWithin
    <2> QED  BY <2>1, <2>2, <2>3 DEF CycleInv, AfterCycle
<1>3. ASSUME NEW n \in Peers, FallAsleep(n) PROVE DataInv' /\ CycleInv'
    <2>1. /\ cycle' = [cycle EXCEPT ![n] = Off] /\ asleep' = asleep \cup {n}
          /\ UNCHANGED <<log, copy, peerOutbox, sends, peerDay, ran, apart, gone>>
        BY <1>3 DEF FallAsleep
    <2>2. DataInv' /\ Shrinks
        BY <2>1, RestKeepsData
    <2>3. cycle'[n] = Off /\ \A k \in Peers \ {n} : cycle'[k] = cycle[k]
        BY <2>1, OffVisitsOthers
    <2>4. WithinCycle(n)'
        BY <2>3, NotWholeWithin
    <2> QED  BY <2>1, <2>2, <2>3, <2>4, OneCycle
<1>4. ASSUME NEW n \in Peers, WakeUp(n) PROVE DataInv' /\ CycleInv'
    <2>1. /\ cycle' = Unfinished(Peers) /\ ran' = {}
          /\ UNCHANGED <<log, copy, peerOutbox, sends, peerDay, apart, gone>>
        BY <1>4 DEF WakeUp
    <2>2. DataInv'
        BY <2>1, RestKeepsData
    <2>3. Spoils(Peers)
        BY <2>1, UnfinishedSpoils DEF PeerBase
    <2>4. ASSUME NEW k \in Peers PROVE WithinCycle(k)'
        <3>1. cycle'[k] = Off \/ ~cycle'[k].whole
            BY <2>3 DEF Spoils
        <3> QED  BY <3>1, NotWholeWithin
    <2> QED  BY <2>1, <2>2, <2>4 DEF CycleInv, AfterCycle
<1> QED
    BY <1>1, <1>2, <1>3, <1>4, PutRowDelivers, BeginCycleDelivers, PushBatchDelivers,
       PushDoneDelivers, PullPageDelivers, BrokenDelivers, CleanDelivers
       DEF PeerNext, PeerStep

\* Once two nodes were apart for too long, that stays so.
LEMMA LateStays ==
    ASSUME [PeerNext]_peerVars, ~late'
    PROVE  ~late
BY DEF PeerNext, PeerStep, Midnight, PutRow, BeginCycle, PushBatch, PushDone, PullPage, Broken,
       Clean, FallAsleep, WakeUp, peerVars

\* The invariant is inductive.
LEMMA PeerInvStep == PeerInv /\ [PeerNext]_peerVars => PeerInv'
BY PeerBaseStep, DeliveryStep, LateStays DEF PeerInv

\* It holds at first.
LEMMA PeerInvInit == PeerInit => PeerInv
<1> SUFFICES ASSUME PeerInit PROVE PeerInv
    OBVIOUS
<1>1. log = <<>> /\ DOMAIN log = {} /\ log \in Seq(Writes)
    BY DEF PeerInit
<1>2. PeerTypeOK
    BY <1>1 DEF PeerInit, PeerTypeOK, Cycles
<1>3. \A n \in Peers : cycle[n] = Off /\ Off \notin Visiting
    BY DEF PeerInit, Off, Visiting
<1>4. /\ \A n \in Peers : peerOutbox[n] = {} /\ gone[n] = {}
      /\ \A n, r \in Peers : sends[n][r] = {} /\ PendingTo(n, r) = {}
      /\ \A n \in Peers : \A m \in PeerRecords : copy[n][m] = 0
    BY DEF PeerInit, PendingTo
<1>5. PeerBase
    <2>1. \A p \in PeerPairs : apart[p] <= OutboxDays
        BY Retention DEF PeerInit
    <2> QED  BY <1>1, <1>2, <1>3, <1>4, <2>1
                DEF PeerBase, WasWritten, VisitsOthers, DaysRise, NotApartForLong
<1>6. DataInv
    BY <1>1, <1>4 DEF DataInv, DueOrReached, WriterHasIt, RefusedStays, DueIsYoung, GoneIsOld,
                      NothingOlder, RewrittenEarly, GoneIsLast
<1>7. CycleInv
    BY <1>3 DEF PeerInit, CycleInv, AfterCycle, WithinCycle
<1> QED  BY <1>5, <1>6, <1>7 DEF PeerInv

\* It holds always.
LEMMA PeerInvariant == PeerSpec => []PeerInv
<1> QED  BY PeerInvInit, PeerInvStep, PTL DEF PeerSpec

-----------------------------------------------------------------------------
(* As long as no two nodes are apart for longer than the outboxes are      *)
(* kept, the newest version of a record that peers can store is, at every  *)
(* node, in its row, deleted and removed, or in the writer's outbox and    *)
(* not marked as sent to that node (_push_outbox, _prune_outbox): for any  *)
(* number of nodes and records, any batch size and limit of batches.       *)
THEOREM StillDueThere == PeerSpec => []StillDue
<1>1. PeerInv => StillDue
    <2> SUFFICES ASSUME PeerInv, ~late, NEW m \in PeerRecords \ Refused, NEW r \in Peers,
                        Newest(m) # 0, log[Newest(m)].by # r, copy[r][m] < Newest(m),
                        Newest(m) \notin gone[r]
                 PROVE  Newest(m) \in PendingTo(log[Newest(m)].by, r)
        BY DEF StillDue
    <2> DEFINE v == Newest(m)
               S == PeerVersions(m) \cup {0}
    <2>1. Len(log) \in Nat /\ DOMAIN log = 1..Len(log)
        BY DEF PeerInv, PeerBase, PeerTypeOK
    <2>2. S \subseteq 0..Len(log) /\ S # {}
        BY <2>1 DEF PeerVersions
    <2>3. Max(S) \in S /\ \A u \in S : u <= Max(S)
        BY <2>1, <2>2, GreatestOf
    <2>4. v \in PeerVersions(m) /\ \A u \in PeerVersions(m) : u <= v
        BY <2>3 DEF Newest
    <2> HIDE DEF v
    <2>5. v \in DOMAIN log /\ log[v].rec = m /\ v \in Nat
        BY <2>1, <2>4 DEF PeerVersions
    <2>6. ~Reached(v, r)
        <3>1. copy[r][m] \in Nat /\ ~(copy[r][m] >= v)
            BY <2>5 DEF PeerInv, PeerBase, PeerTypeOK, v
        <3>2. ASSUME NEW g \in gone[r], Same(g, v), g >= v PROVE FALSE
            <4>1. g \in PeerVersions(m) /\ g \in Nat
                BY <2>5, <3>2 DEF PeerVersions, Same, PeerInv, PeerBase, PeerTypeOK, WasWritten
            <4>2. g = v
                BY <2>4, <2>5, <3>2, <4>1
            <4> QED  BY <3>2, <4>2 DEF v
        <3> QED  BY <2>5, <3>1, <3>2 DEF Reached
    <2>7. v \in PendingTo(log[v].by, r)
        BY <2>5, <2>6 DEF PeerInv, DataInv, DueOrReached, Common, v
    <2> QED  BY <2>7 DEF v
<1> QED  BY <1>1, PeerInvariant, PTL

(* A node that has removed a tombstone (_compact_tombstones) gets the      *)
(* record back only from a write made after the deletion by a node that    *)
(* did not know of it, and not at all if tombstones are kept for twice as  *)
(* long as outboxes, as they are by default (30 and 180 days).             *)
THEOREM DeletedForGood == PeerSpec => []StaysDeleted
<1>1. PeerInv => StaysDeleted
    <2> SUFFICES ASSUME PeerInv, ~late, NEW n \in Peers, NEW v \in gone[n], LiveAt(n, log[v].rec)
                 PROVE  copy[n][log[v].rec] > v /\ TombstoneDays < 2 * OutboxDays
        BY DEF StaysDeleted
    <2> DEFINE m == log[v].rec
               c == copy[n][m]
    <2>1. v \in DOMAIN log /\ log[v].dead /\ v \in Nat /\ m \in PeerRecords
        BY EachWrite DEF PeerInv, PeerBase, WasWritten
    <2>2. c # 0 /\ c \in DOMAIN log /\ c \in Nat /\ log[c].rec = m /\ ~log[c].dead
        BY <2>1, LiveIsEarlier DEF PeerInv
    <2>3. c >= v
        BY <2>2 DEF PeerInv, DataInv, NothingOlder
    <2>4. c > v
        <3>1. c # v
            BY <2>1, <2>2
        <3> QED  BY <2>1, <2>2, <2>3, <3>1
    <2>5. ~(2 * OutboxDays <= TombstoneDays)
        <3>1. Same(c, v) /\ ~(c <= v)
            BY <2>1, <2>2, <2>4 DEF Same
        <3> QED  BY <2>2, <3>1 DEF PeerInv, DataInv, GoneIsLast
    <2>6. TombstoneDays < 2 * OutboxDays
        BY <2>5, Retention
    <2> QED  BY <2>4, <2>6
<1> QED  BY <1>1, PeerInvariant, PTL
=============================================================================
