----------------------------- MODULE StoreProofs -----------------------------
(***************************************************************************)
(* Proofs about what a server keeps besides the memories: what it has      *)
(* imported from other stores, for any items, drawers and pulls; its       *)
(* backups, for any number of commits, backups and restores; its wiki, for *)
(* any pages, calls and times; its vectors and their index, for any        *)
(* memories, servers and models; what the sync status says of its records, *)
(* for any records and categories; and what a search shows, for any        *)
(* memories, tiers, limits and feedback.                                   *)
(***************************************************************************)
EXTENDS TrackedImports, Backups, WikiPages, SemanticIndex, SyncVerdict, Recall,
        FiniteSetTheorems, SequenceTheorems, WellFoundedInduction, TLAPS

-----------------------------------------------------------------------------
(* The tracked importers.                                                  *)
\* A page has texts, of items there are.
IsPage(rows) == DOMAIN rows \subseteq Items /\ \A i \in DOMAIN rows : rows[i] \in Texts

TableType(T) ==
    /\ T = [version |-> T.version, dbs_imports |-> T.dbs_imports, copies |-> T.copies,
            mempalace_imports |-> T.mempalace_imports, restored |-> T.restored, strays |-> T.strays,
            strayCopies |-> T.strayCopies]
    /\ T.dbs_imports \in [Items -> Texts \cup {None}] /\ T.mempalace_imports \subseteq Drawers
    /\ T.copies \in [Drawers -> Nat] /\ T.strayCopies \in [Drawers -> Nat]

\* What is shown of the item i is the version on record, or a stray; and that version is there.
ItemRight(T, i) ==
    /\ \A t \in Texts : <<i, t>> \in DOMAIN T.version =>
          (T.version[<<i, t>>] = None => t = T.dbs_imports[i] \/ <<i, t>> \in T.strays)
    /\ T.dbs_imports[i] # None =>
          /\ <<i, T.dbs_imports[i]>> \in DOMAIN T.version
          /\ T.version[<<i, T.dbs_imports[i]>>] = None \/ <<i, T.dbs_imports[i]>> \in T.strays
DrawerRight(T, d) == T.copies[d] = T.strayCopies[d] + IF d \in T.mempalace_imports THEN 1 ELSE 0
TableRight(T) ==
    /\ TableType(T)
    /\ \A i \in Items \ (T.restored \cup overtaken) : ItemRight(T, i)
    /\ \A d \in Drawers \ overtaken : DrawerRight(T, d)

\* What a call has read is what it says; when it writes, what it has seen of its table
\* is still there, but for what was overtaken.
SeenStill(call, T) ==
    /\ \A i \in DOMAIN call.rows \ overtaken : call.prior[i] = T.dbs_imports[i] /\ call.rows[i] # T.dbs_imports[i]
    /\ \A d \in call.drawers \ overtaken : d \notin T.mempalace_imports
CallRight(call) ==
    /\ call.at \in {"none", "lock", "store", "embed"}
    /\ call.at \in {"lock", "store"} => IsPage(call.rows) /\ call.drawers \subseteq Drawers
PullType ==
    /\ item \in [Items -> Texts \cup {None}] /\ drawer \subseteq Drawers
    /\ pull = [p \in Pulls |-> pull[p]]
    /\ \A p \in Pulls : CallRight(pull[p])
    /\ open # NoTxn => open.by \in Pulls
\* What a thread has left open is as right as what is committed.
TablesRight == TableRight(tables) /\ (open # NoTxn => TableRight(open.tables))
OneWriter ==
    /\ \A p \in Pulls : pull[p].at = "store" => SeenStill(pull[p], TablesOf(p))
    /\ \A p, q \in Pulls : HoldsLock(p) /\ HoldsLock(q) => p = q
PullInv == PullType /\ TablesRight /\ OneWriter

\* More that was overtaken leaves less to be right.
LEMMA OvertakenGrows ==
  ASSUME NEW T, TableRight(T), overtaken \subseteq overtaken'
  PROVE  TableRight(T)'
  BY DEF TableRight, TableType, ItemRight, DrawerRight

\* The writes of a page.
LEMMA StoredRight ==
  ASSUME NEW T, TableRight(T), NEW rows, NEW prior, NEW drawers, IsPage(rows), drawers \subseteq Drawers,
         \A i \in DOMAIN rows \ overtaken : prior[i] = T.dbs_imports[i] /\ rows[i] # T.dbs_imports[i],
         \A d \in drawers \ overtaken : d \notin T.mempalace_imports
  PROVE  TableRight(Stored(T, rows, prior, drawers))
  <1> DEFINE S == Stored(T, rows, prior, drawers)
             new == {<<j, rows[j]>> : j \in DOMAIN rows}
             old == {<<j, prior[j]>> : j \in {k \in DOMAIN rows : prior[k] # None}}
  <1>1. /\ S.version = Replaces(T.version, rows, prior)
        /\ S.dbs_imports = [i \in Items |-> IF i \in DOMAIN rows THEN rows[i] ELSE T.dbs_imports[i]]
        /\ S.copies = [d \in Drawers |-> T.copies[d] + IF d \in drawers THEN 1 ELSE 0]
        /\ S.mempalace_imports = T.mempalace_imports \cup drawers
        /\ S.restored = T.restored \cup {i \in DOMAIN rows : /\ <<i, rows[i]>> \in DOMAIN T.version
                                                              /\ T.version[<<i, rows[i]>>] # None}
        /\ S.strays = T.strays \ new
        /\ S.strayCopies = T.strayCopies
        /\ S = [version |-> S.version, dbs_imports |-> S.dbs_imports, copies |-> S.copies,
                mempalace_imports |-> S.mempalace_imports, restored |-> S.restored, strays |-> S.strays,
                strayCopies |-> S.strayCopies]
    BY DEF Stored
  <1> HIDE DEF S
  <1>2. TableType(S)
    <2>1. S.dbs_imports \in [Items -> Texts \cup {None}]
      BY <1>1 DEF TableRight, TableType, IsPage
    <2>2. S.copies \in [Drawers -> Nat] /\ S.mempalace_imports \subseteq Drawers /\ S.strayCopies \in [Drawers -> Nat]
      BY <1>1 DEF TableRight, TableType
    <2> QED
      BY <1>1, <2>1, <2>2 DEF TableType
  <1>3. ASSUME NEW i \in Items \ (S.restored \cup overtaken)
        PROVE  ItemRight(S, i)
    <2>1. ItemRight(T, i)
      BY <1>1, <1>3 DEF TableRight
    <2>2. S.version = [m \in DOMAIN T.version \cup new |->
                        IF m \in old THEN rows[m[1]] ELSE IF m \in DOMAIN T.version THEN T.version[m] ELSE None]
      BY <1>1 DEF Replaces
    <2>3. CASE i \in DOMAIN rows
      <3>1. <<i, rows[i]>> \in new /\ <<i, rows[i]>> \notin old
        BY <1>3, <2>3
      <3>2. rows[i] \in Texts /\ rows[i] # None /\ S.dbs_imports[i] = rows[i]
        BY <1>1, <2>3, DeletedIsNoText DEF IsPage
      <3>3. <<i, rows[i]>> \in DOMAIN T.version => T.version[<<i, rows[i]>>] = None
        BY <1>1, <1>3, <2>3
      <3>4. <<i, rows[i]>> \in DOMAIN S.version /\ S.version[<<i, rows[i]>>] = None
        BY <2>2, <3>1, <3>3
      <3>5. ASSUME NEW t \in Texts, <<i, t>> \in DOMAIN S.version, S.version[<<i, t>>] = None, t # rows[i]
            PROVE  <<i, t>> \in S.strays
        <4>1. <<i, t>> \notin new
          BY <3>5
        <4>2. <<i, t>> \in DOMAIN T.version
          BY <2>2, <3>5, <4>1
        <4>3. <<i, t>> \notin old
          BY <2>2, <3>2, <3>5
        <4>4. T.version[<<i, t>>] = None
          BY <2>2, <3>5, <4>2, <4>3
        <4>5. t = T.dbs_imports[i] \/ <<i, t>> \in T.strays
          BY <2>1, <4>2, <4>4 DEF ItemRight
        <4>6. t # T.dbs_imports[i]
          <5>1. SUFFICES ASSUME t = T.dbs_imports[i] PROVE FALSE
            OBVIOUS
          <5>2. prior[i] = t /\ t # None
            BY <1>3, <2>3, <5>1, DeletedIsNoText
          <5> QED
            BY <2>3, <4>3, <5>2
        <4> QED
          BY <1>1, <4>1, <4>5, <4>6
      <3> QED
        BY <3>2, <3>4, <3>5 DEF ItemRight
    <2>4. CASE i \notin DOMAIN rows
      <3>1. \A t : <<i, t>> \notin new /\ <<i, t>> \notin old
        BY <2>4
      <3>2. S.dbs_imports[i] = T.dbs_imports[i]
        BY <1>1, <2>4
      <3>3. \A t : /\ <<i, t>> \in DOMAIN S.version <=> <<i, t>> \in DOMAIN T.version
                   /\ <<i, t>> \in DOMAIN T.version => S.version[<<i, t>>] = T.version[<<i, t>>]
                   /\ <<i, t>> \in S.strays <=> <<i, t>> \in T.strays
        BY <1>1, <2>2, <3>1
      <3> QED
        BY <2>1, <3>2, <3>3 DEF ItemRight
    <2> QED
      BY <2>3, <2>4
  <1>4. ASSUME NEW d \in Drawers \ overtaken
        PROVE  DrawerRight(S, d)
    <2>1. DrawerRight(T, d) /\ T.copies[d] \in Nat /\ T.strayCopies[d] \in Nat
      BY DEF TableRight, TableType
    <2>2. /\ S.copies[d] = T.copies[d] + IF d \in drawers THEN 1 ELSE 0
          /\ S.strayCopies[d] = T.strayCopies[d]
          /\ d \in S.mempalace_imports <=> d \in T.mempalace_imports \/ d \in drawers
          /\ d \in drawers => d \notin T.mempalace_imports
      BY <1>1
    <2> QED
      BY <2>1, <2>2 DEF DrawerRight
  <1> QED
    BY <1>2, <1>3, <1>4 DEF TableRight, S

\* One of a page is written halfway.
LEMMA CutItemRight ==
  ASSUME NEW T, TableRight(T), NEW i, NEW new, NEW old, NEW superseded \in BOOLEAN
  PROVE  TableRight(CutItem(T, i, new, old, superseded))
  <1> DEFINE S == CutItem(T, i, new, old, superseded)
             m == <<i, new>>
             o == <<i, old>>
             marks == T.strays \cup {m} \cup (IF superseded THEN {o} ELSE {})
             memories == [x \in DOMAIN T.version \cup {m} |->
                            IF superseded /\ x = o THEN new ELSE IF x \in DOMAIN T.version THEN T.version[x] ELSE None]
  <1>0. TableType(T)
    BY DEF TableRight
  <1>a. S = [T EXCEPT !.version = memories, !.strays = marks]
    BY DEF CutItem
  <1> HIDE DEF memories, marks
  <1>b. S = [version |-> memories, dbs_imports |-> T.dbs_imports, copies |-> T.copies,
             mempalace_imports |-> T.mempalace_imports, restored |-> T.restored, strays |-> marks,
             strayCopies |-> T.strayCopies]
    <2>1. T = [version |-> T.version, dbs_imports |-> T.dbs_imports, copies |-> T.copies,
               mempalace_imports |-> T.mempalace_imports, restored |-> T.restored, strays |-> T.strays,
               strayCopies |-> T.strayCopies]
      BY <1>0 DEF TableType
    <2> HIDE DEF S
    <2> QED
      BY <1>a, <2>1
  <1> HIDE DEF S
  <1>1. /\ S.version = memories
        /\ S.strays = marks
        /\ S.dbs_imports = T.dbs_imports /\ S.copies = T.copies /\ S.mempalace_imports = T.mempalace_imports
        /\ S.restored = T.restored /\ S.strayCopies = T.strayCopies
        /\ S = [version |-> S.version, dbs_imports |-> S.dbs_imports, copies |-> S.copies,
                mempalace_imports |-> S.mempalace_imports, restored |-> S.restored, strays |-> S.strays,
                strayCopies |-> S.strayCopies]
    BY <1>b
  <1>2. TableType(S)
    BY <1>0, <1>1 DEF TableType
  <1>3. ASSUME NEW j \in Items \ (S.restored \cup overtaken)
        PROVE  ItemRight(S, j)
    <2>1. ItemRight(T, j)
      BY <1>1, <1>3 DEF TableRight
    <2>2. ASSUME NEW t, <<j, t>> \in DOMAIN T.version
          PROVE  /\ <<j, t>> \in DOMAIN S.version
                 /\ S.version[<<j, t>>] = T.version[<<j, t>>] \/ <<j, t>> \in S.strays
                 /\ <<j, t>> \in T.strays => <<j, t>> \in S.strays
      <3>1. CASE superseded
        BY <1>1, <2>2, <3>1 DEF memories, marks
      <3>2. CASE ~superseded
        BY <1>1, <2>2, <3>2 DEF memories, marks
      <3> QED
        BY <3>1, <3>2
    <2>3. ASSUME NEW t, <<j, t>> \in DOMAIN S.version, <<j, t>> \notin DOMAIN T.version
          PROVE  <<j, t>> \in S.strays
      BY <1>1, <2>3 DEF memories, marks
    <2> QED
      BY <1>1, <2>1, <2>2, <2>3 DEF ItemRight
  <1>4. \A d \in Drawers \ overtaken : DrawerRight(S, d)
    BY <1>1 DEF TableRight, DrawerRight
  <1> QED
    BY <1>2, <1>3, <1>4 DEF TableRight, S

LEMMA CutDrawerRight ==
  ASSUME NEW T, TableRight(T), NEW d \in Drawers
  PROVE  TableRight(CutDrawer(T, d))
  <1> DEFINE S == CutDrawer(T, d)
  <1>0. TableType(T)
    BY DEF TableRight
  <1>a. S = [T EXCEPT !.copies = [T.copies EXCEPT ![d] = @ + 1], !.strayCopies = [T.strayCopies EXCEPT ![d] = @ + 1]]
    BY DEF CutDrawer
  <1>b. S = [version |-> T.version, dbs_imports |-> T.dbs_imports, copies |-> [T.copies EXCEPT ![d] = @ + 1],
             mempalace_imports |-> T.mempalace_imports, restored |-> T.restored, strays |-> T.strays,
             strayCopies |-> [T.strayCopies EXCEPT ![d] = @ + 1]]
    <2>1. T = [version |-> T.version, dbs_imports |-> T.dbs_imports, copies |-> T.copies,
               mempalace_imports |-> T.mempalace_imports, restored |-> T.restored, strays |-> T.strays,
               strayCopies |-> T.strayCopies]
      BY <1>0 DEF TableType
    <2> HIDE DEF S
    <2> QED
      BY <1>a, <2>1
  <1> HIDE DEF S
  <1>1. /\ S.copies = [T.copies EXCEPT ![d] = @ + 1] /\ S.strayCopies = [T.strayCopies EXCEPT ![d] = @ + 1]
        /\ S.version = T.version /\ S.dbs_imports = T.dbs_imports /\ S.mempalace_imports = T.mempalace_imports
        /\ S.restored = T.restored /\ S.strays = T.strays
        /\ S = [version |-> S.version, dbs_imports |-> S.dbs_imports, copies |-> S.copies,
                mempalace_imports |-> S.mempalace_imports, restored |-> S.restored, strays |-> S.strays,
                strayCopies |-> S.strayCopies]
    BY <1>b
  <1>2. TableType(S)
    BY <1>0, <1>1 DEF TableType
  <1>3. \A i \in Items \ (S.restored \cup overtaken) : ItemRight(S, i)
    BY <1>1 DEF TableRight, ItemRight
  <1>4. ASSUME NEW e \in Drawers \ overtaken PROVE DrawerRight(S, e)
    <2>1. DrawerRight(T, e) /\ T.copies[e] \in Nat /\ T.strayCopies[e] \in Nat
      BY DEF TableRight, TableType
    <2>2. /\ S.copies[e] = T.copies[e] + (IF e = d THEN 1 ELSE 0)
          /\ S.strayCopies[e] = T.strayCopies[e] + (IF e = d THEN 1 ELSE 0)
      BY <1>0, <1>1 DEF TableType
    <2> QED
      BY <1>1, <2>1, <2>2 DEF DrawerRight
  <1> QED
    BY <1>2, <1>3, <1>4 DEF TableRight, S

\* Nothing but a call or the foreign stores has changed.
LEMMA CallChanges ==
  ASSUME PullInv, UnchangedMemories,
         item' \in [Items -> Texts \cup {None}], drawer' \subseteq Drawers,
         pull' = [p \in Pulls |-> pull'[p]],
         \A p \in Pulls : \/ pull'[p] = pull[p]
                          \/ CallRight(pull'[p]) /\ (pull'[p].at = "store" => SeenStill(pull'[p], TablesOf(p))),
         \A p, q \in Pulls : pull'[p].at = "store" /\ pull'[q].at = "store" => p = q
  PROVE  PullInv'
  <1>1. \A p \in Pulls : CallRight(pull'[p])
    BY DEF PullInv, PullType
  <1>2. PullType'
    BY <1>1 DEF PullInv, PullType, UnchangedMemories, CallRight
  <1>3. TablesRight'
    BY DEF PullInv, TablesRight, UnchangedMemories, TableRight, TableType, ItemRight, DrawerRight
  <1>4. ASSUME NEW p \in Pulls, pull'[p].at = "store" PROVE SeenStill(pull[p], TablesOf(p))'
    <2>1. SeenStill(pull'[p], TablesOf(p))
      BY <1>4 DEF PullInv, OneWriter
    <2>2. TablesOf(p)' = TablesOf(p) /\ overtaken' = overtaken
      BY DEF TablesOf, UnchangedMemories
    <2> QED
      BY <2>1, <2>2 DEF SeenStill
  <1> QED
    BY <1>2, <1>3, <1>4 DEF PullInv, OneWriter, HoldsLock

\* The holder of the lock ends its call, having written.
LEMMA WriterEnds ==
  ASSUME PullInv, NEW p \in Pulls, NEW call, pull[p].at = "store", pull' = [pull EXCEPT ![p] = call],
         call.at \in {"none", "embed"}, UnchangedStores, overtaken' = overtaken,
         TableRight(tables'), open' # NoTxn => open'.by \in Pulls /\ TableRight(open'.tables)
  PROVE  PullInv'
  <1>1. pull' = [q \in Pulls |-> pull'[q]] /\ \A q \in Pulls : pull'[q] = IF q = p THEN call ELSE pull[q]
    BY DEF PullInv, PullType
  <1>2. \A q \in Pulls : pull'[q].at # "store"
    BY <1>1 DEF PullInv, OneWriter, HoldsLock
  <1>3. \A q \in Pulls : CallRight(pull'[q])
    BY <1>1 DEF PullInv, PullType, CallRight
  <1>4. PullType'
    BY <1>1, <1>3 DEF PullInv, PullType, UnchangedStores, CallRight
  <1>5. TablesRight'
    BY DEF TablesRight, TableRight, TableType, ItemRight, DrawerRight
  <1> QED
    BY <1>2, <1>4, <1>5 DEF PullInv, OneWriter, HoldsLock

\* What a writer has before it, its own open transaction or what is committed.
LEMMA WriterSees ==
  ASSUME PullInv, NEW p \in Pulls, pull[p].at = "store"
  PROVE  /\ TableRight(TablesOf(p)) /\ SeenStill(pull[p], TablesOf(p))
         /\ IsPage(pull[p].rows) /\ pull[p].drawers \subseteq Drawers
  <1>1. TableRight(TablesOf(p))
    BY DEF TablesOf, PullInv, TablesRight
  <1> QED
    BY <1>1 DEF PullInv, PullType, OneWriter, CallRight

LEMMA StoreKeeps ==
  ASSUME PullInv, NEW p \in Pulls, Store(p)
  PROVE  PullInv'
  <1> DEFINE call == pull[p]
             next == IF DOMAIN call.rows = {} THEN NoPull ELSE [at |-> "embed", rows |-> call.rows]
  <1>1. call.at = "store" /\ UnchangedStores /\ overtaken' = overtaken /\ open' = NoTxn
    BY DEF Store
  <1>2. tables' = Stored(TablesOf(p), call.rows, call.prior, call.drawers) /\ pull' = [pull EXCEPT ![p] = next]
    BY DEF Store
  <1>3. TableRight(tables')
    BY <1>1, <1>2, WriterSees, StoredRight DEF SeenStill
  <1>4. next.at \in {"none", "embed"}
    BY DEF NoPull
  <1> HIDE DEF next
  <1> QED
    BY <1>1, <1>2, <1>3, <1>4, WriterEnds

LEMMA StoreRaisesKeeps ==
  ASSUME PullInv, NEW p \in Pulls, StoreRaises(p)
  PROVE  PullInv'
  <1> DEFINE call == pull[p]
  <1>1. /\ call.at = "store" /\ UnchangedStores /\ overtaken' = overtaken /\ tables' = tables
        /\ pull' = [pull EXCEPT ![p] = NoPull]
    BY DEF StoreRaises
  <1>2. TableRight(tables')
    BY <1>1 DEF PullInv, TablesRight
  <1>3. NoPull.at \in {"none", "embed"}
    BY DEF NoPull
  <1>4. /\ TableRight(TablesOf(p)) /\ SeenStill(call, TablesOf(p)) /\ IsPage(call.rows) /\ call.drawers \subseteq Drawers
    BY <1>1, WriterSees
  <1>5. ASSUME NEW cut \in DOMAIN call.rows, NEW superseded \in BOOLEAN, NEW done \in SUBSET (DOMAIN call.rows \ {cut}),
               open' = [by |-> p, tables |->
                   CutItem(Stored(TablesOf(p), [i \in done |-> call.rows[i]], [i \in done |-> call.prior[i]], {}),
                           cut, call.rows[cut], call.prior[cut], superseded)]
        PROVE  open'.by \in Pulls /\ TableRight(open'.tables)
    <2> DEFINE rows == [i \in done |-> call.rows[i]]
               prior == [i \in done |-> call.prior[i]]
    <2>1. IsPage(rows) /\ {} \subseteq Drawers
      BY <1>4 DEF IsPage
    <2>2. \A i \in DOMAIN rows \ overtaken : prior[i] = TablesOf(p).dbs_imports[i] /\ rows[i] # TablesOf(p).dbs_imports[i]
      BY <1>4 DEF SeenStill
    <2> HIDE DEF rows, prior
    <2>3. TableRight(Stored(TablesOf(p), rows, prior, {}))
      BY <1>4, <2>1, <2>2, StoredRight
    <2>4. TableRight(CutItem(Stored(TablesOf(p), rows, prior, {}), cut, call.rows[cut], call.prior[cut], superseded))
      BY <2>3, CutItemRight
    <2> QED
      BY <1>5, <2>4 DEF rows, prior
  <1>6. ASSUME NEW cut \in call.drawers, NEW done \in SUBSET (call.drawers \ {cut}),
               open' = [by |-> p, tables |-> CutDrawer(Stored(TablesOf(p), Nothing, Nothing, done), cut)]
        PROVE  open'.by \in Pulls /\ TableRight(open'.tables)
    <2>1. IsPage(Nothing) /\ DOMAIN Nothing = {} /\ done \subseteq Drawers /\ cut \in Drawers
      BY <1>4 DEF IsPage, Nothing
    <2>2. \A d \in done \ overtaken : d \notin TablesOf(p).mempalace_imports
      BY <1>4 DEF SeenStill
    <2>3. TableRight(Stored(TablesOf(p), Nothing, Nothing, done))
      BY <1>4, <2>1, <2>2, StoredRight
    <2> QED
      BY <1>6, <2>1, <2>3, CutDrawerRight
  <1>7. open'.by \in Pulls /\ TableRight(open'.tables)
    BY <1>5, <1>6 DEF StoreRaises
  <1> QED
    BY <1>1, <1>2, <1>3, <1>7, WriterEnds

\* The transaction that a pull which raised has left open ends.
LEMMA EndTxnKeeps ==
  ASSUME PullInv, NEW p \in Pulls, EndTxn(p)
  PROVE  PullInv'
  <1>1. /\ open # NoTxn /\ open.by = p /\ pull[p] = NoPull /\ open' = NoTxn
        /\ UnchangedStores /\ pull' = pull
    BY DEF EndTxn
  <1>2. PullType'
    BY <1>1 DEF PullInv, PullType, UnchangedStores, CallRight
  <1>3. ASSUME NEW q \in Pulls, pull[q].at = "store"
        PROVE  SeenStill(pull[q], tables) /\ TablesOf(q)' = tables'
    <2>1. q # p
      BY <1>1, <1>3 DEF NoPull
    <2>2. TablesOf(q) = tables /\ TablesOf(q)' = tables'
      BY <1>1, <2>1 DEF TablesOf
    <2> QED
      BY <1>3, <2>2 DEF PullInv, OneWriter
  <1>4. CASE UNCHANGED <<tables, overtaken>>
    <2>1. TablesRight'
      BY <1>1, <1>4 DEF PullInv, TablesRight, TableRight, TableType, ItemRight, DrawerRight
    <2>2. \A q \in Pulls : pull[q].at = "store" => SeenStill(pull[q], TablesOf(q))'
      BY <1>1, <1>3, <1>4 DEF SeenStill
    <2> QED
      BY <1>1, <1>2, <2>1, <2>2 DEF PullInv, OneWriter, HoldsLock
  <1>5. CASE /\ tables' = open.tables
             /\ overtaken' = overtaken \cup UNION {
                    {i \in DOMAIN pull[q].rows : open.tables.dbs_imports[i] # tables.dbs_imports[i]}
                    \cup (pull[q].drawers \cap open.tables.mempalace_imports) : q \in {x \in Pulls : HoldsLock(x)}}
    <2>1. overtaken \subseteq overtaken'
      BY <1>5
    <2>2. TableRight(open.tables)
      BY <1>1 DEF PullInv, TablesRight
    <2>3. TablesRight'
      BY <1>1, <1>5, <2>1, <2>2, OvertakenGrows DEF TablesRight, TableRight, TableType, ItemRight, DrawerRight
    <2>4. ASSUME NEW q \in Pulls, pull[q].at = "store" PROVE SeenStill(pull[q], TablesOf(q))'
      <3>1. SeenStill(pull[q], tables) /\ TablesOf(q)' = tables' /\ HoldsLock(q)
        BY <1>3, <2>4 DEF HoldsLock
      <3>2. \A i \in DOMAIN pull[q].rows \ overtaken' : tables'.dbs_imports[i] = tables.dbs_imports[i]
        BY <1>5, <3>1
      <3>3. \A d \in pull[q].drawers \ overtaken' : d \notin tables'.mempalace_imports
        BY <1>5, <3>1
      <3> QED
        BY <1>1, <2>1, <3>1, <3>2, <3>3 DEF SeenStill
    <2> QED
      BY <1>1, <1>2, <2>3, <2>4 DEF PullInv, OneWriter, HoldsLock
  <1> QED
    BY <1>4, <1>5 DEF EndTxn

LEMMA PullInitRight == PullInit => PullInv
  <1> SUFFICES ASSUME PullInit PROVE PullInv
    OBVIOUS
  <1>1. TableType(tables)
    BY DEF PullInit, TableType
  <1>2. TableRight(tables)
    BY <1>1 DEF PullInit, TableRight, ItemRight, DrawerRight, Nothing
  <1>3. PullType
    BY DEF PullInit, PullType, CallRight, NoPull
  <1> QED
    BY <1>2, <1>3 DEF PullInv, TablesRight, OneWriter, PullInit, NoPull, HoldsLock

LEMMA PullStep ==
  ASSUME \A p, q \in Pulls : PullServer[p] = PullServer[q], PullInv, [PullNext]_pullVars
  PROVE  PullInv'
  <1>0. pull = [p \in Pulls |-> pull[p]] /\ \A p \in Pulls : CallRight(pull[p])
    BY DEF PullInv, PullType
  <1>1. CASE StoreChanges
    <2>1. item' \in [Items -> Texts \cup {None}] /\ drawer' \subseteq Drawers
      BY <1>1 DEF StoreChanges, PullInv, PullType
    <2> QED
      BY <1>0, <1>1, <2>1, CallChanges DEF StoreChanges, PullInv, OneWriter, HoldsLock
  <1>2. ASSUME NEW p \in Pulls, NEW call, CallRight(call), call.at # "store", pull' = [pull EXCEPT ![p] = call],
               UnchangedStores, UnchangedMemories
        PROVE  PullInv'
    <2>1. \A q \in Pulls : pull'[q] = IF q = p THEN call ELSE pull[q]
      BY <1>0, <1>2
    <2>2. pull' = [q \in Pulls |-> pull'[q]]
      BY <1>0, <1>2
    <2>3. item' \in [Items -> Texts \cup {None}] /\ drawer' \subseteq Drawers
      BY <1>2 DEF PullInv, PullType, UnchangedStores
    <2> QED
      BY <1>2, <2>1, <2>2, <2>3, CallChanges DEF PullInv, OneWriter, HoldsLock
  <1>3. ASSUME NEW p \in Pulls, Fetch(p) PROVE PullInv'
    <2>1. CASE \E page \in (SUBSET {i \in Items : item[i] # None}) \ {{}} :
                  pull' = [pull EXCEPT ![p] = [at |-> "lock", rows |-> [i \in page |-> item[i]], drawers |-> {}]]
      <3>1. PICK page \in SUBSET {i \in Items : item[i] # None} :
                  pull' = [pull EXCEPT ![p] = [at |-> "lock", rows |-> [i \in page |-> item[i]], drawers |-> {}]]
        BY <2>1
      <3>2. IsPage([i \in page |-> item[i]])
        BY DEF IsPage, PullInv, PullType
      <3>3. CallRight([at |-> "lock", rows |-> [i \in page |-> item[i]], drawers |-> {}])
        BY <3>2 DEF CallRight
      <3> QED
        BY <1>2, <1>3, <3>1, <3>3 DEF Fetch
    <2>2. CASE \E page \in (SUBSET drawer) \ {{}} :
                  pull' = [pull EXCEPT ![p] = [at |-> "lock", rows |-> Nothing, drawers |-> page]]
      <3>1. PICK page \in SUBSET drawer :
                  pull' = [pull EXCEPT ![p] = [at |-> "lock", rows |-> Nothing, drawers |-> page]]
        BY <2>2
      <3>2. CallRight([at |-> "lock", rows |-> Nothing, drawers |-> page])
        BY DEF CallRight, IsPage, Nothing, PullInv, PullType
      <3> QED
        BY <1>2, <1>3, <3>1, <3>2 DEF Fetch
    <2> QED
      BY <1>3, <2>1, <2>2 DEF Fetch
  <1>4. CallRight(NoPull) /\ NoPull.at # "store"
    BY DEF CallRight, NoPull
  <1>5. ASSUME NEW p \in Pulls, Decide(p) PROVE PullInv'
    <2> DEFINE seen == TablesOf(p)
               new == {i \in DOMAIN pull[p].rows : seen.dbs_imports[i] # pull[p].rows[i]}
               call == [at |-> "store", rows |-> [i \in new |-> pull[p].rows[i]],
                        prior |-> [i \in new |-> seen.dbs_imports[i]],
                        drawers |-> pull[p].drawers \ seen.mempalace_imports]
    <2>1. pull[p].at = "lock" /\ LockFree(p) /\ UnchangedStores /\ UnchangedMemories
      BY <1>5 DEF Decide
    <2>2. pull' = [pull EXCEPT ![p] = call] \/ pull' = [pull EXCEPT ![p] = NoPull]
      BY <1>5 DEF Decide
    <2>3. IsPage(pull[p].rows) /\ pull[p].drawers \subseteq Drawers
      BY <1>0, <2>1 DEF CallRight
    <2>4. CallRight(call) /\ SeenStill(call, TablesOf(p))
      <3>1. DOMAIN [i \in new |-> pull[p].rows[i]] = new /\ new \subseteq DOMAIN pull[p].rows
        OBVIOUS
      <3>2. IsPage([i \in new |-> pull[p].rows[i]])
        BY <2>3 DEF IsPage
      <3>3. SeenStill(call, TablesOf(p))
        BY <3>1 DEF SeenStill
      <3>4. CallRight(call)
        BY <2>3, <3>2 DEF CallRight
      <3> QED
        BY <3>3, <3>4
    <2>5. \A q \in Pulls : q # p => pull[q].at # "store"
      BY <2>1 DEF LockFree, HoldsLock
    <2> HIDE DEF call
    <2>6. CASE pull' = [pull EXCEPT ![p] = call]
      <3>1. \A q \in Pulls : pull'[q] = IF q = p THEN call ELSE pull[q]
        BY <1>0, <2>6
      <3>2. pull' = [q \in Pulls |-> pull'[q]]
        BY <1>0, <2>6
      <3>3. item' \in [Items -> Texts \cup {None}] /\ drawer' \subseteq Drawers
        BY <2>1 DEF PullInv, PullType, UnchangedStores
      <3> QED
        BY <2>1, <2>4, <2>5, <3>1, <3>2, <3>3, CallChanges
    <2> QED
      BY <1>2, <1>4, <2>1, <2>2, <2>6
  <1>6. ASSUME NEW p \in Pulls, EmbedImported(p) PROVE PullInv'
    BY <1>2, <1>4, <1>6 DEF EmbedImported
  <1>7. ASSUME NEW p \in Pulls, StoreLocked(p) PROVE PullInv'
    BY <1>2, <1>4, <1>7 DEF StoreLocked
  <1>8. ASSUME NEW p \in Pulls, ServerKilled(PullServer[p]) PROVE PullInv'
    <2>1. \A q \in Pulls : pull'[q] = NoPull
      BY <1>8 DEF ServerKilled
    <2>2. pull' = [q \in Pulls |-> pull'[q]]
      BY <1>8 DEF ServerKilled
    <2>3. UNCHANGED <<item, drawer, tables, overtaken>> /\ (open' = NoTxn \/ open' = open)
      BY <1>8 DEF ServerKilled, UnchangedStores
    <2>4. PullType'
      BY <1>4, <2>1, <2>2, <2>3 DEF PullInv, PullType, CallRight
    <2>5. TablesRight'
      BY <2>3 DEF PullInv, TablesRight, TableRight, TableType, ItemRight, DrawerRight
    <2> QED
      BY <1>4, <2>1, <2>4, <2>5 DEF PullInv, OneWriter, HoldsLock
  <1>9. CASE UNCHANGED pullVars
    <2>1. item' \in [Items -> Texts \cup {None}] /\ drawer' \subseteq Drawers /\ UnchangedMemories /\ pull' = pull
      BY <1>9 DEF PullInv, PullType, pullVars, UnchangedMemories
    <2> QED
      BY <1>0, <2>1, CallChanges DEF PullInv, OneWriter, HoldsLock
  <1> QED
    BY <1>1, <1>3, <1>5, <1>6, <1>7, <1>8, <1>9, StoreKeeps, StoreRaisesKeeps, EndTxnKeeps DEF PullNext

LEMMA PullInvGives == PullInv => OneCurrent
  <1> SUFFICES ASSUME PullInv PROVE OneCurrent
    OBVIOUS
  <1>0. TableRight(tables)
    BY DEF PullInv, TablesRight
  <1>1. ASSUME NEW i \in Items \ (tables.restored \cup overtaken)
        PROVE  Live(i) \ Stray(i) = {tables.dbs_imports[i]} \ ({None} \cup Stray(i))
    <2>1. ItemRight(tables, i) /\ tables.dbs_imports[i] \in Texts \cup {None}
      BY <1>0 DEF TableRight, TableType
    <2>2. ASSUME NEW t \in Live(i) \ Stray(i) PROVE t = tables.dbs_imports[i] /\ t # None /\ t \notin Stray(i)
      BY <2>1, <2>2, DeletedIsNoText DEF Live, Stray, ItemRight
    <2>3. ASSUME tables.dbs_imports[i] # None, tables.dbs_imports[i] \notin Stray(i)
          PROVE  tables.dbs_imports[i] \in Live(i)
      BY <2>1, <2>3 DEF Live, Stray, ItemRight
    <2> QED
      BY <2>2, <2>3
  <1> QED
    BY <1>0, <1>1 DEF OneCurrent, TableRight, DrawerRight

\* However the pulls of one process overlap, are repeated with an older page, raise in the middle
\* or are killed, an item has one memory that is shown, that of its last import, and a drawer one
\* memory, but for what a pull that raised has stored without its record, or committed under
\* another pull, and for an item that came back to a version that had been replaced.
THEOREM OneCurrentHolds ==
  ASSUME \A p, q \in Pulls : PullServer[p] = PullServer[q]
  PROVE  PullSpec => []OneCurrent
  <1>1. PullInit => PullInv
    BY PullInitRight
  <1>2. PullInv /\ [PullNext]_pullVars => PullInv'
    BY PullStep
  <1>3. PullInv => OneCurrent
    BY PullInvGives
  <1> QED
    BY <1>1, <1>2, <1>3, PTL DEF PullSpec

-----------------------------------------------------------------------------
(* Backups.                                                                *)
Contents == (0..commits) \cup {Garbage}
BackupFiles == [id : Nat, label : {"manual", "pre-restore"}, content : Nat \cup {Garbage}, whole : BOOLEAN,
                mtime : Nat]
RestoreRuns == [at : {"snapshot", "replace", "log"}, from : BackupFiles, had : Nat \cup {Garbage},
                bare : BOOLEAN, snapshot : Nat]
BackupType ==
    /\ commits \in Nat /\ clock \in Nat
    /\ main \in [id : Nat, content : Nat \cup {Garbage}, mtime : Nat]
    /\ wal \in [of : Nat, content : Nat] \cup {NoLog}
    /\ handle \in [file : Nat, content : Nat \cup {Garbage}, linked : BOOLEAN] \cup {Unopened}
    /\ files \subseteq BackupFiles
    /\ restoring \in RestoreRuns \cup {NotRestoring}

\* No content is newer than the last commit, no file newer than the clock.
Dated ==
    /\ main.content \in Contents /\ main.id <= clock /\ main.mtime <= clock
    /\ wal # NoLog => wal.content \in Contents
    /\ handle # Unopened => handle.content \in Contents /\ handle.file <= clock
    /\ \A f \in files : f.content \in Contents /\ f.id <= clock /\ f.mtime <= clock
    /\ restoring # NotRestoring => /\ restoring.had \in Contents /\ restoring.snapshot <= clock
                                   /\ restoring.from.content \in Contents \ {Garbage}
                                   /\ restoring.from.mtime <= clock

\* Until its replacement a restore finds the database as it was, or with what a server that
\* has opened it since has committed.
BeforeReplacement ==
    restoring.at \in {"snapshot", "replace"} =>
        /\ handle # Unopened => handle.file = main.id /\ handle.linked = TRUE /\ handle.content = Content
        /\ restoring.bare = TRUE => \/ wal = NoLog /\ main.content = restoring.had
                                    \/ Content = commits /\ Content # restoring.had
        /\ Content = restoring.had \/ Content = commits

\* What the snapshot of such a restore is good for.
SnapshotGood ==
    /\ restoring.at = "snapshot" =>
          \A f \in files : f.id = restoring.snapshot =>
              f.whole = FALSE /\ (restoring.bare = TRUE => f.content = restoring.had)
    /\ restoring.at = "replace" /\ restoring.bare = TRUE /\ Content = restoring.had =>
          restoring.had = Garbage \/ \E f \in files : f.whole = TRUE /\ f.content = restoring.had

\* A server works on the database, or on a file that a restore has replaced, with a log that has
\* no name once the restore is over.
InOnePiece ==
    halfway = FALSE =>
        /\ main.content # Garbage
        /\ handle # Unopened => handle.content # Garbage
        /\ restoring.at = "log" => (handle # Unopened => handle.file # main.id)
        /\ restoring.at # "log" =>
              /\ Content # Garbage
              /\ handle # Unopened => \/ handle.file # main.id /\ handle.linked = FALSE
                                      \/ /\ handle.file = main.id /\ handle.linked = TRUE
                                         /\ handle.content = Content

BackupInv ==
    /\ BackupType /\ halfway \in BOOLEAN
    /\ Dated /\ BeforeReplacement /\ SnapshotGood /\ InOnePiece /\ RestoreUndoable

LEMMA RestoringIs ==
  ASSUME BackupType
  PROVE  /\ restoring = NotRestoring <=> restoring.at = "no"
         /\ restoring # NotRestoring => restoring \in RestoreRuns
         /\ restoring.at \in {"no", "snapshot", "replace", "log"}
  BY DEF BackupType, NotRestoring, RestoreRuns

LEMMA ContentIs ==
  ASSUME BackupType, Dated
  PROVE  Content \in Contents /\ (wal = NoLog => Content = main.content)
  BY NoContent DEF BackupType, Dated, Content, Contents

LEMMA RestoreSafeFollows == ASSUME BackupInv PROVE RestoreSafe
  <1>1. RestoreWhole
    BY RestoringIs DEF BackupInv, BeforeReplacement, InOnePiece, RestoreWhole
  <1> QED
    BY <1>1 DEF BackupInv, RestoreSafe

\* What the server's steps leave alone, and when they keep the rest.
LEMMA ServerSteps ==
  ASSUME BackupInv, UNCHANGED <<files, restoring, replaced>>, BackupType', halfway' \in BOOLEAN,
         Dated', BeforeReplacement', InOnePiece',
         restoring.at = "replace" => Content' = Content \/ Content' # restoring.had
  PROVE  BackupInv'
  <1>1. SnapshotGood'
    BY DEF BackupInv, SnapshotGood
  <1>2. RestoreUndoable'
    BY DEF BackupInv, RestoreUndoable
  <1> QED
    BY <1>1, <1>2 DEF BackupInv

LEMMA OpenKeeps ==
  ASSUME BackupInv, OpenDatabase
  PROVE  BackupInv'
  <1>1. /\ UNCHANGED <<main, wal, files, restoring, commits, clock, replaced>> /\ handle = Unopened
        /\ handle' = [file |-> main.id, content |-> Content, linked |-> TRUE]
        /\ halfway' = (halfway \/ restoring.at = "log")
    BY DEF OpenDatabase
  <1>2. Content' = Content /\ Contents' = Contents /\ Content \in Contents
    BY <1>1, ContentIs DEF BackupInv, Content, Contents
  <1>3. handle' \in [file : Nat, content : Nat \cup {Garbage}, linked : BOOLEAN] /\ handle' # Unopened
        /\ handle'.file = main.id /\ handle'.content = Content /\ handle'.linked = TRUE
    <2>1. Content \in Nat \cup {Garbage} /\ main.id \in Nat
      BY <1>2 DEF BackupInv, BackupType, Contents
    <2>2. [file |-> main.id, content |-> Content, linked |-> TRUE]
             \in [file : Nat, content : Nat \cup {Garbage}, linked : BOOLEAN]
      BY <2>1
    <2> QED
      BY <1>1, <2>2, NotOpen
  <1>4. BackupType'
    BY <1>1, <1>3 DEF BackupInv, BackupType
  <1>5. Dated'
    BY <1>1, <1>2, <1>3 DEF BackupInv, Dated
  <1>6. BeforeReplacement'
    BY <1>1, <1>2, <1>3 DEF BackupInv, BeforeReplacement
  <1>7. InOnePiece'
    <2>1. CASE halfway = TRUE \/ restoring.at = "log"
      BY <1>1, <2>1 DEF InOnePiece
    <2>2. CASE halfway = FALSE /\ restoring.at # "log"
      BY <1>1, <1>2, <1>3, <2>2 DEF InOnePiece, BackupInv
    <2> QED
      BY <2>1, <2>2 DEF BackupInv
  <1>8. halfway' \in BOOLEAN
    BY <1>1 DEF BackupInv
  <1> QED
    BY <1>1, <1>2, <1>4, <1>5, <1>6, <1>7, <1>8, ServerSteps

LEMMA CommitKeeps ==
  ASSUME BackupInv, CommitToLog
  PROVE  BackupInv'
  <1>1. /\ handle # Unopened /\ handle.content # Garbage /\ commits' = commits + 1
        /\ handle' = [handle EXCEPT !.content = commits + 1]
        /\ wal' = IF handle.linked THEN [of |-> handle.file, content |-> commits + 1] ELSE wal
        /\ UNCHANGED <<main, files, restoring, clock, replaced, halfway>>
    BY DEF CommitToLog
  <1>2. handle \in [file : Nat, content : Nat \cup {Garbage}, linked : BOOLEAN] /\ commits \in Nat
    BY <1>1 DEF BackupInv, BackupType
  <1>3. /\ handle' \in [file : Nat, content : Nat \cup {Garbage}, linked : BOOLEAN] /\ handle' # Unopened
        /\ handle'.file = handle.file /\ handle'.content = commits' /\ handle'.linked = handle.linked
        /\ commits' \in Nat
    BY <1>1, <1>2, NotOpen
  <1>4. Contents \subseteq Contents' /\ commits' \in Contents' /\ commits' \notin Contents /\ commits' # Garbage
    BY <1>1, <1>2, NoContent DEF Contents
  <1>5. /\ handle.linked = TRUE => wal' = [of |-> handle.file, content |-> commits'] /\ wal' # NoLog
        /\ handle.linked = FALSE => wal' = wal
    BY <1>1, <1>2, <1>3, NoContent
  <1>6. BackupType'
    <2>1. wal' \in [of : Nat, content : Nat] \cup {NoLog}
      <3>1. CASE handle.linked = TRUE
        BY <1>2, <1>3, <1>5, <3>1
      <3>2. CASE handle.linked = FALSE
        BY <1>5, <3>2 DEF BackupInv, BackupType
      <3> QED
        BY <1>2, <3>1, <3>2
    <2> QED
      BY <1>1, <1>3, <2>1 DEF BackupInv, BackupType
  <1>7. /\ handle.linked = TRUE /\ handle.file = main.id => Content' = commits'
        /\ handle.linked = FALSE => Content' = Content
    BY <1>1, <1>5 DEF Content
  <1>8. Dated'
    <2>1. wal' # NoLog => wal'.content \in Contents'
      BY <1>2, <1>4, <1>5 DEF BackupInv, Dated
    <2>2. restoring.from.content \in Contents \ {Garbage} => restoring.from.content \in Contents' \ {Garbage}
      BY <1>4
    <2> QED
      BY <1>1, <1>3, <1>4, <2>1, <2>2 DEF BackupInv, Dated
  <1>9. BeforeReplacement'
    <2> SUFFICES ASSUME restoring.at \in {"snapshot", "replace"}
                 PROVE  BeforeReplacement'
      BY <1>1 DEF BeforeReplacement
    <2>1. handle.linked = TRUE /\ handle.file = main.id /\ restoring.had \in Contents
      BY <1>1, RestoringIs DEF BackupInv, BeforeReplacement, Dated
    <2>2. Content' = commits' /\ commits' # restoring.had
      BY <1>4, <1>7, <2>1
    <2> QED
      BY <1>1, <1>3, <2>1, <2>2 DEF BeforeReplacement
  <1>10. InOnePiece'
    BY <1>1, <1>2, <1>3, <1>4, <1>7 DEF BackupInv, InOnePiece
  <1>11. restoring.at = "replace" => Content' # restoring.had
    <2>1. restoring.at = "replace" => handle.linked = TRUE /\ handle.file = main.id /\ restoring.had \in Contents
      BY <1>1, RestoringIs DEF BackupInv, BeforeReplacement, Dated
    <2> QED
      BY <1>4, <1>7, <2>1
  <1> QED
    BY <1>1, <1>6, <1>8, <1>9, <1>10, <1>11, ServerSteps DEF BackupInv

\* A checkpoint puts what the server sees into the main file, if that is still the one it has open.
LEMMA FlushIs ==
  ASSUME BackupInv, handle # Unopened, Flushed
  PROVE  /\ main' \in [id : Nat, content : Nat \cup {Garbage}, mtime : Nat] /\ clock' \in Nat /\ clock <= clock'
         /\ main'.id = main.id /\ main'.mtime <= clock'
         /\ handle.file = main.id => main'.content = handle.content
         /\ handle.file # main.id => main' = main
  <1>1. /\ main \in [id : Nat, content : Nat \cup {Garbage}, mtime : Nat] /\ clock \in Nat
        /\ handle \in [file : Nat, content : Nat \cup {Garbage}, linked : BOOLEAN] /\ main.mtime <= clock
    BY DEF BackupInv, BackupType, Dated
  <1>2. CASE handle.file = main.id /\ handle.content # main.content
    <2>1. clock' = clock + 1 /\ main' = [main EXCEPT !.content = handle.content, !.mtime = clock + 1]
      BY <1>2 DEF Flushed, Stamp
    <2> DEFINE time == clock + 1
    <2>2. time \in Nat /\ clock <= time
      BY <1>1
    <2> HIDE DEF time
    <2>3. main' = [main EXCEPT !.content = handle.content, !.mtime = time] /\ clock' = time
      BY <2>1 DEF time
    <2>4. main' \in [id : Nat, content : Nat \cup {Garbage}, mtime : Nat] /\ main'.id = main.id
          /\ main'.mtime = time /\ main'.content = handle.content
      BY <1>1, <2>2, <2>3
    <2> QED
      BY <1>2, <2>2, <2>3, <2>4
  <1>3. CASE ~(handle.file = main.id /\ handle.content # main.content)
    <2>1. UNCHANGED <<main, clock>>
      BY <1>3 DEF Flushed
    <2> QED
      BY <1>1, <1>3, <2>1
  <1> QED
    BY <1>2, <1>3

LEMMA CheckpointKeeps ==
  ASSUME BackupInv, Checkpoint \/ CloseDatabase
  PROVE  BackupInv'
  <1>1. /\ handle # Unopened /\ Flushed /\ handle' \in {handle, Unopened}
        /\ wal' = NoLog \/ (wal' = wal /\ handle.linked = FALSE)
        /\ UNCHANGED <<files, restoring, commits, replaced, halfway>>
    <2>1. handle # Unopened => handle.linked \in BOOLEAN
      BY DEF BackupInv, BackupType
    <2> QED
      BY <2>1 DEF Checkpoint, CloseDatabase
  <1>2. handle \in [file : Nat, content : Nat \cup {Garbage}, linked : BOOLEAN] /\ clock \in Nat
    BY <1>1 DEF BackupInv, BackupType
  <1>3. /\ main' \in [id : Nat, content : Nat \cup {Garbage}, mtime : Nat] /\ clock' \in Nat /\ clock <= clock'
        /\ main'.id = main.id /\ main'.mtime <= clock'
        /\ handle.file = main.id => main'.content = handle.content
        /\ handle.file # main.id => main' = main
    BY <1>1, FlushIs
  <1>4. Contents' = Contents
    BY <1>1 DEF Contents
  <1>5. BackupType'
    BY <1>1, <1>3 DEF BackupInv, BackupType
  <1>6. Dated'
    <2>1. main'.content \in Contents /\ main'.id <= clock'
      BY <1>1, <1>2, <1>3 DEF BackupInv, Dated, BackupType
    <2>2. \A f \in files : f.id <= clock' /\ f.mtime <= clock'
      BY <1>2, <1>3 DEF BackupInv, Dated, BackupType, BackupFiles
    <2>3. restoring # NotRestoring => restoring.snapshot <= clock' /\ restoring.from.mtime <= clock'
      BY <1>2, <1>3, RestoringIs DEF BackupInv, Dated, RestoreRuns, BackupFiles
    <2>4. handle.file <= clock'
      BY <1>1, <1>2, <1>3 DEF BackupInv, Dated
    <2> QED
      BY <1>1, <1>3, <1>4, <2>1, <2>2, <2>3, <2>4 DEF BackupInv, Dated
  <1>7. handle.file = main.id /\ handle.linked = TRUE => Content' = handle.content
    BY <1>1, <1>3 DEF Content
  <1>8. handle.file # main.id => Content' = main.content \/ (Content' = Content /\ handle.linked = FALSE)
    BY <1>1, <1>3 DEF Content
  <1>9. BeforeReplacement'
    <2> SUFFICES ASSUME restoring.at \in {"snapshot", "replace"}
                 PROVE  BeforeReplacement'
      BY <1>1 DEF BeforeReplacement
    <2>1. handle.file = main.id /\ handle.linked = TRUE /\ handle.content = Content
      BY <1>1 DEF BackupInv, BeforeReplacement
    <2>2. Content' = Content /\ wal' = NoLog /\ main'.content = Content
      BY <1>1, <1>3, <1>7, <2>1
    <2>3. restoring.bare = TRUE => Content = restoring.had \/ (Content = commits /\ Content # restoring.had)
      BY ContentIs DEF BackupInv, BeforeReplacement
    <2> QED
      BY <1>1, <1>3, <2>1, <2>2, <2>3 DEF BackupInv, BeforeReplacement
  <1>10. InOnePiece'
    <2> SUFFICES ASSUME halfway = FALSE
                 PROVE  InOnePiece'
      BY <1>1 DEF InOnePiece, BackupInv
    <2>1. main'.content # Garbage /\ handle.content # Garbage
      BY <1>1, <1>3 DEF BackupInv, InOnePiece
    <2>2. CASE restoring.at = "log"
      BY <1>1, <1>3, <2>1, <2>2 DEF BackupInv, InOnePiece
    <2>3. CASE restoring.at # "log"
      <3>1. CASE handle.file = main.id
        <4>1. handle.linked = TRUE
          BY <1>1, <2>3, <3>1 DEF BackupInv, InOnePiece
        <4>2. Content' = handle.content
          BY <1>7, <3>1, <4>1
        <4> QED
          BY <1>1, <1>3, <2>1, <2>3, <3>1, <4>1, <4>2 DEF InOnePiece
      <3>2. CASE handle.file # main.id
        <4>1. handle.linked = FALSE /\ Content # Garbage /\ main.content # Garbage
          BY <1>1, <2>3, <3>2 DEF BackupInv, InOnePiece
        <4>2. Content' # Garbage
          BY <1>8, <3>2, <4>1
        <4> QED
          BY <1>1, <1>3, <2>1, <2>3, <3>2, <4>1, <4>2 DEF InOnePiece
      <3> QED
        BY <3>1, <3>2
    <2> QED
      BY <2>2, <2>3
  <1>11. restoring.at = "replace" => Content' = Content
    BY <1>1, <1>7 DEF BackupInv, BeforeReplacement
  <1> QED
    BY <1>1, <1>5, <1>6, <1>9, <1>10, <1>11, ServerSteps DEF BackupInv

LEMMA DeathKeeps ==
  ASSUME BackupInv, ServerDies
  PROVE  BackupInv'
  <1>1. handle' = Unopened /\ UNCHANGED <<main, wal, files, restoring, commits, clock, replaced, halfway>>
    BY DEF ServerDies
  <1>2. Content' = Content /\ Contents' = Contents
    BY <1>1 DEF Content, Contents
  <1>3. BackupType' /\ Dated' /\ BeforeReplacement' /\ InOnePiece'
    BY <1>1, <1>2 DEF BackupInv, BackupType, Dated, BeforeReplacement, InOnePiece
  <1> QED
    BY <1>1, <1>2, <1>3, ServerSteps DEF BackupInv

\* The newest backup is never pruned.
LEMMA NewestIsKept ==
  ASSUME NEW all, NEW f \in all, NewerThan(f, all) = {}
  PROVE  f \in PrunedFiles(all)
  <1>1. Cardinality({}) = 0
    BY FS_EmptySet
  <1> QED
    BY <1>1, RetentionCount DEF PrunedFiles

LEMMA BackupKeeps ==
  ASSUME BackupInv, Backup
  PROVE  BackupInv'
  <1> DEFINE new == [id |-> clock + 1, label |-> "manual", content |-> handle.content, whole |-> TRUE,
                     mtime |-> clock + 1]
             all == files \cup {new}
  <1>1. /\ handle # Unopened /\ clock' = clock + 1 /\ replaced' = {}
        /\ UNCHANGED <<main, wal, restoring, commits, halfway>>
        /\ files' = all \/ files' = PrunedFiles(all)
        /\ handle' = handle \/ handle' = Unopened
    BY DEF Backup, Stamp
  <1>2. clock \in Nat /\ handle \in [file : Nat, content : Nat \cup {Garbage}, linked : BOOLEAN]
    BY <1>1 DEF BackupInv, BackupType
  <1>3. new \in BackupFiles /\ new.id = clock' /\ new.mtime = clock' /\ new.content = handle.content
        /\ new.whole = TRUE
    BY <1>1, <1>2 DEF BackupFiles
  <1>4. new \in files'
    <2>1. ASSUME NEW g \in all
          PROVE  ~(g.mtime > new.mtime \/ (g.mtime = new.mtime /\ g.id > new.id))
      <3>1. CASE g \in files
        <4>1. g.mtime \in Nat /\ g.mtime <= clock
          BY <3>1 DEF BackupInv, BackupType, Dated, BackupFiles
        <4> QED
          BY <1>1, <1>2, <1>3, <4>1
      <3>2. CASE g = new
        <4>1. g.mtime = clock' /\ g.id = clock' /\ clock' \in Nat
          BY <1>1, <1>2, <1>3, <3>2
        <4> QED
          BY <1>3, <4>1
      <3> QED
        BY <3>1, <3>2
    <2>2. NewerThan(new, all) = {}
      BY <2>1 DEF NewerThan
    <2> HIDE DEF new
    <2> QED
      BY <1>1, <2>2, NewestIsKept
  <1> HIDE DEF new
  <1>5. files' \subseteq all
    BY <1>1 DEF PrunedFiles
  <1>6. Content' = Content /\ Contents' = Contents /\ clock' \in Nat /\ clock <= clock'
    BY <1>1, <1>2 DEF Content, Contents
  <1>7. BackupType'
    <2>1. files' \subseteq BackupFiles
      BY <1>3, <1>5 DEF BackupInv, BackupType
    <2> QED
      BY <1>1, <1>6, <2>1 DEF BackupInv, BackupType
  <1>8. Dated'
    <2>1. ASSUME NEW f \in files' PROVE f.content \in Contents /\ f.id <= clock' /\ f.mtime <= clock'
      <3>1. CASE f = new
        BY <1>1, <1>3, <1>6, <3>1 DEF BackupInv, Dated
      <3>2. CASE f \in files
        BY <1>2, <1>6, <3>2 DEF BackupInv, BackupType, Dated, BackupFiles
      <3> QED
        BY <1>5, <3>1, <3>2
    <2>2. main.id <= clock' /\ main.mtime <= clock' /\ handle.file <= clock'
      BY <1>1, <1>2, <1>6 DEF BackupInv, BackupType, Dated
    <2>3. restoring # NotRestoring => restoring.snapshot <= clock' /\ restoring.from.mtime <= clock'
      BY <1>2, <1>6, RestoringIs DEF BackupInv, Dated, RestoreRuns, BackupFiles
    <2> QED
      BY <1>1, <1>6, <2>1, <2>2, <2>3 DEF BackupInv, Dated
  <1>9. BeforeReplacement'
    BY <1>1, <1>6 DEF BackupInv, BeforeReplacement
  <1>10. SnapshotGood'
    <2>1. ASSUME restoring.at = "snapshot", NEW f \in files', f.id = restoring.snapshot
          PROVE  f.whole = FALSE /\ (restoring.bare = TRUE => f.content = restoring.had)
      <3>1. restoring.snapshot <= clock /\ restoring.snapshot \in Nat
        BY <2>1, RestoringIs DEF BackupInv, Dated, RestoreRuns
      <3>2. f # new
        BY <1>1, <1>2, <1>3, <2>1, <3>1
      <3> QED
        BY <1>5, <2>1, <3>2 DEF BackupInv, SnapshotGood
    <2>2. ASSUME restoring.at = "replace", restoring.bare = TRUE, Content = restoring.had
          PROVE  \E f \in files' : f.whole = TRUE /\ f.content = restoring.had
      <3>1. new.content = restoring.had
        BY <1>1, <1>3, <2>2 DEF BackupInv, BeforeReplacement
      <3> QED
        BY <1>3, <1>4, <3>1
    <2> QED
      BY <1>1, <1>6, <2>1, <2>2 DEF SnapshotGood
  <1>11. InOnePiece'
    BY <1>1, <1>6 DEF BackupInv, InOnePiece
  <1>12. RestoreUndoable'
    BY <1>1 DEF RestoreUndoable
  <1> QED
    BY <1>1, <1>7, <1>8, <1>9, <1>10, <1>11, <1>12 DEF BackupInv

LEMMA BeginKeeps ==
  ASSUME BackupInv, NEW f \in files, BeginRestore(f)
  PROVE  BackupInv'
  <1>1. /\ handle = Unopened /\ restoring = NotRestoring /\ f.content # Garbage
        /\ files' = files \cup {TakeSnapshot} /\ clock' = clock + 1
        /\ restoring' = [at |-> "snapshot", from |-> f, had |-> Content, bare |-> wal = NoLog,
                         snapshot |-> clock + 1]
        /\ UNCHANGED <<main, wal, handle, commits, replaced, halfway>>
    BY DEF BeginRestore, Stamp
  <1>2. clock \in Nat /\ main \in [id : Nat, content : Nat \cup {Garbage}, mtime : Nat] /\ f \in BackupFiles
    BY DEF BackupInv, BackupType
  <1>3. Content' = Content /\ Contents' = Contents /\ clock' \in Nat /\ clock <= clock' /\ Content \in Contents
    BY <1>1, <1>2, ContentIs DEF BackupInv, Content, Contents
  <1>4. TakeSnapshot \in BackupFiles /\ TakeSnapshot.id = clock' /\ TakeSnapshot.whole = FALSE
        /\ TakeSnapshot.content = main.content /\ TakeSnapshot.mtime = clock'
    BY <1>1, <1>2 DEF TakeSnapshot, BackupFiles
  <1>5. Content \in Nat \cup {Garbage}
    BY <1>3 DEF Contents
  <1>6. restoring'.at = "snapshot" /\ restoring'.from = f /\ restoring'.had = Content
        /\ (restoring'.bare = TRUE => wal = NoLog) /\ restoring'.snapshot = clock'
        /\ restoring' \in RestoreRuns
    BY <1>1, <1>2, <1>3, <1>5 DEF RestoreRuns
  <1>7. BackupType'
    BY <1>1, <1>3, <1>4, <1>6 DEF BackupInv, BackupType
  <1>8. Dated'
    <2>1. ASSUME NEW g \in files' PROVE g.content \in Contents /\ g.id <= clock' /\ g.mtime <= clock'
      <3>1. CASE g = TakeSnapshot
        BY <1>3, <1>4, <3>1 DEF BackupInv, Dated
      <3>2. CASE g \in files
        BY <1>2, <1>3, <3>2 DEF BackupInv, BackupType, Dated, BackupFiles
      <3> QED
        BY <1>1, <3>1, <3>2
    <2>2. main.id <= clock' /\ main.mtime <= clock'
      BY <1>2, <1>3 DEF BackupInv, Dated
    <2>3. f.content \in Contents /\ f.mtime <= clock'
      BY <1>1, <2>1
    <2> QED
      BY <1>1, <1>3, <1>6, <2>1, <2>2, <2>3 DEF BackupInv, Dated
  <1>9. BeforeReplacement'
    BY <1>1, <1>3, <1>6, ContentIs DEF BackupInv, BeforeReplacement
  <1>10. SnapshotGood'
    <2>1. ASSUME NEW g \in files', g.id = clock'
          PROVE  g.whole = FALSE /\ (wal = NoLog => g.content = Content)
      <3>1. g \notin files
        BY <1>1, <1>2, <2>1 DEF BackupInv, BackupType, BackupFiles, Dated
      <3>2. g = TakeSnapshot
        BY <1>1, <3>1
      <3> QED
        BY <1>4, <3>2, ContentIs DEF BackupInv
    <2> QED
      BY <1>3, <1>6, <2>1 DEF SnapshotGood
  <1>11. InOnePiece'
    BY <1>1, <1>3, <1>6, RestoringIs DEF BackupInv, InOnePiece
  <1>12. RestoreUndoable'
    BY <1>1 DEF BackupInv, RestoreUndoable
  <1> QED
    BY <1>1, <1>7, <1>8, <1>9, <1>10, <1>11, <1>12 DEF BackupInv

LEMMA SnapshotKeeps ==
  ASSUME BackupInv, SnapshotDone
  PROVE  BackupInv'
  <1>0. restoring.at = "snapshot" /\ restoring' = [restoring EXCEPT !.at = "replace"]
        /\ UNCHANGED <<main, wal, handle, commits, clock, replaced, halfway>>
    BY DEF SnapshotDone
  <1>a. PICK f \in files : \E c \in {f.content, main.content, Garbage} :
          /\ f.id = restoring.snapshot /\ (f.content = main.content => c = main.content)
          /\ files' = (files \ {f}) \cup {[f EXCEPT !.whole = TRUE, !.content = c, !.mtime = main.mtime]}
    BY DEF SnapshotDone
  <1>1. PICK c \in {f.content, main.content, Garbage} :
          /\ f.id = restoring.snapshot /\ (f.content = main.content => c = main.content)
          /\ files' = (files \ {f}) \cup {[f EXCEPT !.whole = TRUE, !.content = c, !.mtime = main.mtime]}
    BY <1>a
  <1> DEFINE done == [f EXCEPT !.whole = TRUE, !.content = c, !.mtime = main.mtime]
  <1>2. f \in BackupFiles /\ c \in Nat \cup {Garbage} /\ c \in Contents /\ main.mtime \in Nat /\ main.mtime <= clock
    BY <1>0, <1>1 DEF BackupInv, BackupType, Dated, BackupFiles, Contents
  <1>3. /\ done \in BackupFiles /\ done.whole = TRUE /\ done.content = c /\ done.mtime = main.mtime
        /\ done.id = f.id
    BY <1>2 DEF BackupFiles
  <1>4. files' = (files \ {f}) \cup {done}
    BY <1>1
  <1> HIDE DEF done
  <1>5. Content' = Content /\ Contents' = Contents
    BY <1>0 DEF Content, Contents
  <1>6. restoring \in RestoreRuns
    BY <1>0, RestoringIs DEF BackupInv
  <1>7. /\ restoring' \in RestoreRuns /\ restoring'.at = "replace" /\ restoring'.from = restoring.from
        /\ restoring'.had = restoring.had /\ restoring'.bare = restoring.bare
        /\ restoring'.snapshot = restoring.snapshot
    BY <1>0, <1>6 DEF RestoreRuns
  <1>8. BackupType'
    BY <1>0, <1>3, <1>4, <1>7 DEF BackupInv, BackupType
  <1>9. Dated'
    <2>1. \A g \in files' : g.content \in Contents /\ g.id <= clock /\ g.mtime <= clock
      BY <1>1, <1>2, <1>3, <1>4 DEF BackupInv, Dated
    <2>2. restoring # NotRestoring
      BY <1>0, RestoringIs DEF BackupInv
    <2> QED
      BY <1>0, <1>5, <1>7, <2>1, <2>2 DEF BackupInv, Dated
  <1>10. BeforeReplacement'
    BY <1>0, <1>5, <1>7 DEF BackupInv, BeforeReplacement
  <1>11. SnapshotGood'
    <2>1. ASSUME restoring.bare = TRUE, Content = restoring.had
          PROVE  \E g \in files' : g.whole = TRUE /\ g.content = restoring.had
      <3>1. main.content = restoring.had
        BY <1>0, <2>1 DEF BackupInv, BeforeReplacement
      <3>2. f.content = restoring.had
        BY <1>0, <1>1, <2>1 DEF BackupInv, SnapshotGood
      <3> QED
        BY <1>1, <1>3, <1>4, <3>1, <3>2
    <2> QED
      BY <1>5, <1>7, <2>1 DEF SnapshotGood
  <1>12. InOnePiece'
    BY <1>0, <1>5, <1>7 DEF BackupInv, InOnePiece
  <1>13. RestoreUndoable'
    <2>1. f.whole = FALSE
      BY <1>0, <1>1 DEF BackupInv, SnapshotGood
    <2> QED
      BY <1>0, <1>4, <2>1 DEF BackupInv, RestoreUndoable
  <1> QED
    BY <1>0, <1>8, <1>9, <1>10, <1>11, <1>12, <1>13 DEF BackupInv

LEMMA ReplaceKeeps ==
  ASSUME BackupInv, Replace
  PROVE  BackupInv'
  <1>1. /\ restoring.at = "replace" /\ clock' = clock + 1
        /\ main' = [id |-> clock + 1, content |-> restoring.from.content, mtime |-> restoring.from.mtime]
        /\ replaced' = IF restoring.bare /\ Content = restoring.had THEN {restoring.had} ELSE {}
        /\ restoring' = [restoring EXCEPT !.at = "log"]
        /\ UNCHANGED <<wal, handle, files, commits, halfway>>
    BY DEF Replace, Stamp
  <1>2. restoring \in RestoreRuns /\ clock \in Nat /\ restoring # NotRestoring
    BY <1>1, RestoringIs DEF BackupInv, BackupType
  <1>3. /\ restoring' \in RestoreRuns /\ restoring'.at = "log" /\ restoring'.from = restoring.from
        /\ restoring'.had = restoring.had /\ restoring'.snapshot = restoring.snapshot
        /\ restoring'.bare = restoring.bare
    BY <1>1, <1>2 DEF RestoreRuns
  <1>4. /\ restoring.from \in BackupFiles /\ restoring.from.content \in Contents \ {Garbage}
        /\ restoring.from.mtime <= clock /\ restoring.bare \in BOOLEAN
        /\ restoring.snapshot <= clock /\ restoring.snapshot \in Nat
    BY <1>2 DEF BackupInv, Dated, RestoreRuns
  <1>5. /\ main' \in [id : Nat, content : Nat \cup {Garbage}, mtime : Nat] /\ main'.id = clock'
        /\ main'.content = restoring.from.content /\ main'.mtime = restoring.from.mtime
    BY <1>1, <1>2, <1>4 DEF BackupFiles
  <1>6. Contents' = Contents /\ clock' \in Nat /\ clock <= clock'
    BY <1>1, <1>2 DEF Contents
  <1>7. BackupType'
    BY <1>1, <1>3, <1>5, <1>6 DEF BackupInv, BackupType
  <1>8. Dated'
    <2>1. restoring.from.mtime <= clock' /\ restoring.snapshot <= clock'
      BY <1>2, <1>4, <1>6 DEF BackupFiles
    <2>2. handle # Unopened => handle.file <= clock'
      BY <1>2, <1>6 DEF BackupInv, BackupType, Dated
    <2>3. \A f \in files : f.id <= clock' /\ f.mtime <= clock'
      BY <1>2, <1>6 DEF BackupInv, BackupType, Dated, BackupFiles
    <2> QED
      BY <1>1, <1>2, <1>3, <1>4, <1>5, <1>6, <2>1, <2>2, <2>3 DEF BackupInv, Dated
  <1>9. BeforeReplacement' /\ SnapshotGood'
    BY <1>3 DEF BeforeReplacement, SnapshotGood
  <1>10. InOnePiece'
    <2>1. handle # Unopened => handle.file # main'.id
      BY <1>1, <1>2, <1>5 DEF BackupInv, BackupType, Dated
    <2> QED
      BY <1>1, <1>3, <1>4, <1>5, <2>1 DEF BackupInv, InOnePiece
  <1>11. RestoreUndoable'
    <2>1. CASE restoring.bare = TRUE /\ Content = restoring.had
      BY <1>1, <2>1 DEF BackupInv, SnapshotGood, RestoreUndoable
    <2>2. CASE ~(restoring.bare = TRUE /\ Content = restoring.had)
      BY <1>1, <1>4, <2>2 DEF RestoreUndoable
    <2> QED
      BY <2>1, <2>2
  <1> QED
    BY <1>1, <1>7, <1>8, <1>9, <1>10, <1>11 DEF BackupInv

LEMMA RestoreEnds ==
  ASSUME BackupInv, ReplaceFails \/ RemoveLog \/ RestoreKilled
  PROVE  BackupInv'
  <1>0. NotRestoring.at = "no"
    BY DEF NotRestoring
  <1>1. CASE ReplaceFails \/ RestoreKilled
    <2>1. /\ restoring' = NotRestoring /\ UNCHANGED <<main, wal, handle, files, commits, clock, replaced>>
          /\ halfway' \in BOOLEAN /\ (halfway' = FALSE => halfway = FALSE /\ restoring.at # "log")
      <3>1. CASE ReplaceFails
        BY <3>1 DEF ReplaceFails, BackupInv
      <3>2. CASE RestoreKilled
        BY <3>2 DEF RestoreKilled, BackupInv
      <3> QED
        BY <1>1, <3>1, <3>2
    <2>2. Content' = Content /\ Contents' = Contents
      BY <2>1 DEF Content, Contents
    <2>3. BackupType' /\ Dated'
      BY <2>1, <2>2 DEF BackupInv, BackupType, Dated
    <2>4. BeforeReplacement' /\ SnapshotGood'
      BY <1>0, <2>1 DEF BeforeReplacement, SnapshotGood
    <2>5. InOnePiece'
      BY <1>0, <2>1, <2>2 DEF BackupInv, InOnePiece
    <2>6. RestoreUndoable'
      BY <2>1 DEF BackupInv, RestoreUndoable
    <2> QED
      BY <2>1, <2>3, <2>4, <2>5, <2>6 DEF BackupInv
  <1>2. CASE RemoveLog
    <2>1. /\ restoring' = NotRestoring /\ wal' = NoLog /\ restoring.at = "log"
          /\ UNCHANGED <<main, files, commits, clock, replaced, halfway>>
          /\ handle = Unopened => handle' = Unopened
          /\ handle # Unopened => handle' = [handle EXCEPT !.linked = FALSE]
      BY <1>2 DEF RemoveLog
    <2>2. Content' = main.content /\ Contents' = Contents
      BY <2>1 DEF Content, Contents
    <2>3. handle # Unopened => /\ handle' \in [file : Nat, content : Nat \cup {Garbage}, linked : BOOLEAN]
                               /\ handle'.file = handle.file /\ handle'.content = handle.content
                               /\ handle'.linked = FALSE
      BY <2>1 DEF BackupInv, BackupType
    <2>4. BackupType' /\ Dated'
      BY <2>1, <2>2, <2>3 DEF BackupInv, BackupType, Dated
    <2>5. BeforeReplacement' /\ SnapshotGood'
      BY <1>0, <2>1 DEF BeforeReplacement, SnapshotGood
    <2>6. InOnePiece'
      BY <1>0, <2>1, <2>2, <2>3 DEF BackupInv, InOnePiece
    <2>7. RestoreUndoable'
      BY <2>1 DEF BackupInv, RestoreUndoable
    <2> QED
      BY <2>1, <2>4, <2>5, <2>6, <2>7 DEF BackupInv
  <1> QED
    BY <1>1, <1>2

LEMMA BackupInitRight == BackupInit => BackupInv
  <1> SUFFICES ASSUME BackupInit PROVE BackupInv
    OBVIOUS
  <1>1. /\ main = [id |-> 0, content |-> 0, mtime |-> 0] /\ wal = NoLog /\ commits = 0 /\ clock = 0
        /\ handle = [file |-> 0, content |-> 0, linked |-> TRUE] /\ files = {} /\ restoring = NotRestoring
        /\ replaced = {} /\ halfway = FALSE
    BY DEF BackupInit
  <1>2. NotRestoring.at = "no" /\ Content = 0 /\ 0 \in Contents /\ Garbage # 0
    BY <1>1, NoContent DEF NotRestoring, Content, Contents
  <1>3. BackupType
    BY <1>1 DEF BackupType
  <1>4. Dated
    BY <1>1, <1>2 DEF Dated
  <1> QED
    BY <1>1, <1>2, <1>3, <1>4
    DEF BackupInv, BeforeReplacement, SnapshotGood, InOnePiece, RestoreUndoable

LEMMA BackupStutters == BackupInv /\ UNCHANGED backupVars => BackupInv'
  BY DEF backupVars, BackupInv, BackupType, Dated, Contents, BeforeReplacement, SnapshotGood, InOnePiece,
         RestoreUndoable, Content

\* What a restore replaced can be restored, unless it was only in the log of a killed server or a
\* server has committed since the restore began, and until the next backup; and until it replaces
\* the database a restore leaves all that was committed, whoever opens the database meanwhile.  The
\* database can be read but between the replacement and the removal of the log, or once a restore
\* was killed or the database opened right there.
THEOREM RestoreSafeHolds == BackupSpec => []RestoreSafe
  <1>1. BackupInv /\ [BackupNext]_backupVars => BackupInv'
    BY OpenKeeps, CommitKeeps, CheckpointKeeps, DeathKeeps, BackupKeeps, BeginKeeps, SnapshotKeeps, ReplaceKeeps,
       RestoreEnds, BackupStutters DEF BackupNext
  <1>2. BackupInv => RestoreSafe
    BY RestoreSafeFollows
  <1> QED
    BY <1>1, <1>2, BackupInitRight, PTL DEF BackupSpec


-----------------------------------------------------------------------------
(* The wiki's pages.                                                       *)
PageRecords == [text : Nat, mtime : Nat]
Pages == PageRecords \cup {Gone}
CachedTimes == UNION {[D -> Nat \cup {Gone}] : D \in SUBSET Slugs}
ReadCalls == [op : {"read"}, page : Slugs, for : Slugs, at : {"rows", "check", "stat", "select"},
              text : Nat \cup {Gone}, indexed : BOOLEAN, lost : SUBSET Slugs, cached : CachedTimes]
WriteCalls == [op : {"write"}, page : Slugs, at : {"text", "stat", "commit"}, text : Nat \cup {Gone}]
DeleteCalls == [op : {"delete"}, page : Slugs, at : {"row"}]
Calls == {Ready} \cup ReadCalls \cup WriteCalls \cup DeleteCalls
Transactions == [is : {"none", "begun", "snapshot", "write"}, rows : [Slugs -> Pages]]

WikiType ==
    /\ pageFile \in [Slugs -> Pages] /\ pageRow \in [Slugs -> Pages]
    /\ wikiTxn \in [WikiCalls -> Transactions] /\ wikiCall \in [WikiCalls -> Calls]
    /\ wikiTime \in Nat /\ texts \in Nat
    /\ seenSince = [c \in WikiCalls |-> seenSince[c]]
    /\ stamped \in [Slugs -> SUBSET Nat] /\ blurred \subseteq Slugs

\* What kind of call is under way.
LEMMA CallKinds ==
  ASSUME WikiType, NEW c \in WikiCalls
  PROVE  /\ wikiCall[c].op = "read" => wikiCall[c] \in ReadCalls
         /\ wikiCall[c].op = "write" => wikiCall[c] \in WriteCalls
         /\ wikiCall[c].op = "delete" => wikiCall[c] \in DeleteCalls
         /\ wikiCall[c].op \in {"none", "read", "write", "delete"}
         /\ wikiCall[c].op = "none" => wikiCall[c] = Ready
  <1>1. wikiCall[c] \in {Ready} \cup ReadCalls \cup WriteCalls \cup DeleteCalls
    BY DEF WikiType, Calls
  <1> QED
    BY <1>1 DEF Ready, ReadCalls, WriteCalls, DeleteCalls

LEMMA TableIs ==
  ASSUME WikiType, NEW c \in WikiCalls
  PROVE  PageRows(c) \in [Slugs -> Pages] /\ wikiTxn[c] \in Transactions /\ wikiTxn[c].rows \in [Slugs -> Pages]
  <1>1. wikiTxn[c] \in Transactions
    BY DEF WikiType
  <1>2. wikiTxn[c].rows \in [Slugs -> Pages]
    BY <1>1 DEF Transactions
  <1> QED
    BY <1>1, <1>2 DEF PageRows, WikiType

LEMMA NothingOpen == Closed \in Transactions /\ \A p \in Slugs : Closed.rows[p] = Gone
  BY DEF Closed, NoPages, Transactions, Pages

-----------------------------------------------------------------------------
\* A version of the page p that the file or the table, as some thread sees it, has.
Known(p, r) == /\ r # Gone
               /\ r \in {pageFile[p], pageRow[p]} \/ \E c \in WikiCalls : r = wikiTxn[c].rows[p]

\* A time is that of one text.
TimesTell ==
    \A p \in Slugs :
        /\ \A r \in PageRecords : Known(p, r) => r.mtime \in stamped[p]
        /\ p \notin blurred => \A r, q \in PageRecords : Known(p, r) /\ Known(p, q) /\ r.mtime = q.mtime => r = q

\* Between reading a page and its time, the page stays what it is.
AtStat(c, p) == wikiCall[c].op \in {"read", "write"} /\ wikiCall[c].at = "stat" /\ wikiCall[c].page = p
TextsRight ==
    \A c \in WikiCalls, p \in Slugs :
        AtStat(c, p) => /\ wikiCall[c].text \in Nat
                        /\ p \notin blurred => pageFile[p] # Gone /\ wikiCall[c].text = pageFile[p].text

\* What a reader has put right, or need not: the row it sees says what its page has been since.
WasThere(c) == \E x \in seenSince[c] : x # Gone
RowSeen(c) == \/ TextOf(PageRows(c)[wikiCall[c].for]) \in seenSince[c]
              \/ Gone \in seenSince[c] /\ WasThere(c)
ReadRight(c) ==
    LET call == wikiCall[c]
        p == call.for
    IN call.op = "read" =>
        /\ TextOf(pageFile[p]) \in seenSince[c]
        /\ p \in DOMAIN call.cached /\ call.at # "select" =>
              /\ p \notin call.lost /\ ~AtStat(c, p) /\ WasThere(c)
              /\ call.at # "rows" => call.cached[p] = TimeOf(PageRows(c)[p]) \/ TextOf(PageRows(c)[p]) \in seenSince[c]
        /\ call.at = "rows" => call.lost = {} /\ (p \notin DOMAIN call.cached => Gone \in seenSince[c])
        /\ p \in call.lost => Gone \in seenSince[c]
        /\ AtStat(c, p) => call.text \in seenSince[c]
        /\ call.at = "select" \/ (call.at \in {"check", "stat"} /\ p \notin DOMAIN call.cached \cup call.lost
                                  /\ ~AtStat(c, p))
              => (p \notin blurred => RowSeen(c))

WikiInv == WikiType /\ TimesTell /\ TextsRight /\ \A c \in WikiCalls : ReadRight(c)

LEMMA TextOfPages == \A r \in Pages : /\ TextOf(r) \in Nat \cup {Gone} /\ TimeOf(r) \in Nat \cup {Gone}
                                      /\ r # Gone => TextOf(r) = r.text /\ TextOf(r) # Gone /\ TimeOf(r) = r.mtime
                                                     /\ TimeOf(r) # Gone
  BY GoneIsNoPage DEF Pages, PageRecords, TextOf, TimeOf

\* A page that the file or some thread has is known.
LEMMA KnownPages ==
  ASSUME WikiType, NEW p \in Slugs, NEW r \in PageRecords
  PROVE  /\ r \in {pageFile[p], pageRow[p]} => Known(p, r)
         /\ \A c \in WikiCalls : r \in {PageRows(c)[p], wikiTxn[c].rows[p]} => Known(p, r)
  BY GoneIsNoPage DEF Known, PageRecords, PageRows

\* A call that goes on reading while others change the page, its row or what they see.
LEMMA OthersRead ==
  ASSUME WikiInv, NEW c \in WikiCalls, wikiCall'[c] = wikiCall[c], wikiTxn'[c] = wikiTxn[c],
         wikiCall[c].op = "read" =>
            LET p == wikiCall[c].for IN
            /\ seenSince[c] \subseteq seenSince'[c]
            /\ TextOf(pageFile'[p]) \in seenSince'[c]
            /\ pageRow'[p] = pageRow[p] \/ TextOf(pageRow'[p]) \in seenSince'[c],
         blurred \subseteq blurred'
  PROVE  ReadRight(c)'
  <1>1. ReadRight(c)
    BY DEF WikiInv
  <1> SUFFICES ASSUME wikiCall[c].op = "read" PROVE ReadRight(c)'
    BY DEF ReadRight
  <1> DEFINE p == wikiCall[c].for
  <1>2. /\ seenSince[c] \subseteq seenSince'[c]
        /\ TextOf(pageFile'[p]) \in seenSince'[c]
        /\ pageRow'[p] = pageRow[p] \/ TextOf(pageRow'[p]) \in seenSince'[c]
    OBVIOUS
  <1>3. PageRows(c)'[p] = PageRows(c)[p] \/ TextOf(PageRows(c)'[p]) \in seenSince'[c]
    BY <1>2 DEF PageRows
  <1>4. WasThere(c) => WasThere(c)'
    BY <1>2 DEF WasThere
  <1>5. \A q : AtStat(c, q)' <=> AtStat(c, q)
    BY DEF AtStat
  <1>6. RowSeen(c) => RowSeen(c)'
    BY <1>2, <1>3, <1>4 DEF RowSeen, TextOf
  <1> QED
    BY <1>1, <1>2, <1>3, <1>4, <1>5, <1>6 DEF ReadRight, TextOf, TimeOf

\* A time that comes back, or a change between two accesses, blurs; otherwise a file is new.
LEMMA FileChanges ==
  ASSUME WikiInv, NEW s \in Slugs, NEW page \in Pages, FileIs(s, page), pageRow' = pageRow,
         wikiTime' \in Nat, texts' \in Nat, wikiCall' \in [WikiCalls -> Calls], wikiTxn' \in [WikiCalls -> Transactions],
         \A c \in WikiCalls : wikiTxn'[c].rows \in {wikiTxn[c].rows, pageRow},
         \A c \in WikiCalls : \/ wikiCall'[c] = wikiCall[c] /\ wikiTxn'[c] = wikiTxn[c]
                              \/ wikiCall'[c].op = "delete"
                              \/ wikiCall'[c].op = "write" /\ wikiCall'[c].at = "text"
  PROVE  WikiInv'
  <1>0. WikiType /\ TimesTell /\ TextsRight
    BY DEF WikiInv
  <1>1. /\ pageFile' = [pageFile EXCEPT ![s] = page]
        /\ stamped' = IF page = Gone THEN stamped ELSE [stamped EXCEPT ![s] = @ \cup {page.mtime}]
        /\ blurred' = IF Indexing(s) \/ (page # Gone /\ page.mtime \in stamped[s]) THEN blurred \cup {s} ELSE blurred
        /\ seenSince' = [c \in WikiCalls |->
                          IF ReadsPage(c, s) THEN seenSince[c] \cup {TextOf(page)} ELSE seenSince[c]]
    BY DEF FileIs
  <1>2. WikiType'
    <2>1. pageFile' \in [Slugs -> Pages]
      BY <1>0, <1>1 DEF WikiType
    <2>2. stamped' \in [Slugs -> SUBSET Nat] /\ blurred' \subseteq Slugs
      BY <1>0, <1>1 DEF WikiType, Pages, PageRecords
    <2>3. seenSince' = [c \in WikiCalls |-> seenSince'[c]]
      BY <1>1
    <2> QED
      BY <1>0, <2>1, <2>2, <2>3 DEF WikiType
  <1>3. ASSUME NEW p \in Slugs, NEW r \in PageRecords, Known(p, r)'
        PROVE  Known(p, r) \/ (p = s /\ r = page)
    <2>1. pageFile'[p] = IF p = s THEN page ELSE pageFile[p]
      BY <1>0, <1>1 DEF WikiType
    <2> QED
      BY <1>3, <2>1 DEF Known
  <1>4. TimesTell'
    <2>1. ASSUME NEW p \in Slugs, NEW r \in PageRecords, Known(p, r)'
          PROVE  r.mtime \in stamped'[p]
      <3>1. CASE Known(p, r)
        BY <1>0, <1>1, <3>1 DEF TimesTell, WikiType
      <3>2. CASE p = s /\ r = page
        BY <1>0, <1>1, <3>2, GoneIsNoPage DEF WikiType, PageRecords
      <3> QED
        BY <1>3, <2>1, <3>1, <3>2
    <2>2. ASSUME NEW p \in Slugs, p \notin blurred', NEW r \in PageRecords, NEW q \in PageRecords,
                 Known(p, r)', Known(p, q)', r.mtime = q.mtime
          PROVE  r = q
      <3>1. p \notin blurred /\ (p = s => page = Gone \/ page.mtime \notin stamped[s])
        BY <1>1, <2>2
      <3>2. Known(p, r) \/ (p = s /\ r = page)
        BY <1>3, <2>2
      <3>3. Known(p, q) \/ (p = s /\ q = page)
        BY <1>3, <2>2
      <3>4. page \in PageRecords => page # Gone
        BY GoneIsNoPage DEF PageRecords
      <3>5. \A v \in PageRecords : Known(p, v) => v.mtime \in stamped[p]
        BY <1>0 DEF TimesTell
      <3>6. Known(p, r) /\ Known(p, q) => r = q
        BY <1>0, <2>2, <3>1 DEF TimesTell
      <3> QED
        BY <2>2, <3>1, <3>2, <3>3, <3>4, <3>5, <3>6
    <2> QED
      BY <2>1, <2>2 DEF TimesTell
  <1>5. TextsRight'
    <2>0. ASSUME NEW c \in WikiCalls, NEW p \in Slugs, AtStat(c, p)'
          PROVE  wikiCall'[c] = wikiCall[c] /\ AtStat(c, p) /\ wikiCall'[c].text \in Nat
      BY <1>0, <2>0 DEF AtStat, TextsRight
    <2>1. ASSUME NEW c \in WikiCalls, NEW p \in Slugs, AtStat(c, p)', p \notin blurred'
          PROVE  pageFile'[p] # Gone /\ wikiCall'[c].text = pageFile'[p].text
      <3>1. wikiCall'[c] = wikiCall[c] /\ AtStat(c, p)
        BY <2>0, <2>1
      <3>2. p # s
        <4>1. p = s => Indexing(s)
          BY <3>1 DEF AtStat, Indexing
        <4> QED
          BY <1>1, <2>1, <4>1
      <3>3. p \notin blurred /\ pageFile'[p] = pageFile[p]
        BY <1>0, <1>1, <2>1, <3>2 DEF WikiType
      <3> QED
        BY <1>0, <3>1, <3>3 DEF TextsRight
    <2> QED
      BY <2>0, <2>1 DEF TextsRight
  <1>6. ASSUME NEW c \in WikiCalls PROVE ReadRight(c)'
    <2>1. CASE wikiCall'[c] = wikiCall[c] /\ wikiTxn'[c] = wikiTxn[c] /\ wikiCall[c].op = "read"
      <3>0. wikiCall[c].for \in Slugs
        BY <1>0, <2>1, CallKinds DEF ReadCalls
      <3>1. seenSince'[c] = seenSince[c] \cup (IF wikiCall[c].for = s THEN {TextOf(page)} ELSE {})
        BY <1>1, <2>1 DEF ReadsPage
      <3>2. TextOf(pageFile[wikiCall[c].for]) \in seenSince[c]
        BY <2>1 DEF WikiInv, ReadRight
      <3>3. pageFile'[wikiCall[c].for] = IF wikiCall[c].for = s THEN page ELSE pageFile[wikiCall[c].for]
        BY <1>0, <1>1, <3>0 DEF WikiType
      <3>4. TextOf(pageFile'[wikiCall[c].for]) \in seenSince'[c]
        BY <3>1, <3>2, <3>3
      <3> QED
        BY <1>1, <2>1, <3>1, <3>4, OthersRead
    <2>2. CASE wikiCall'[c].op # "read"
      BY <2>2 DEF ReadRight
    <2> QED
      BY <2>1, <2>2
  <1> QED
    BY <1>2, <1>4, <1>5, <1>6 DEF WikiInv

\* A call that goes on, with what it newly has, and what it writes or commits.
LEMMA CallGoesOn ==
  ASSUME WikiInv, NEW c \in WikiCalls, NEW call, To(c, call), call \in Calls,
         UNCHANGED <<pageFile, stamped, blurred, wikiTime, texts>>,
         pageRow' \in [Slugs -> Pages], seenSince' = [d \in WikiCalls |-> seenSince'[d]],
         wikiTxn' \in [WikiCalls -> Transactions],
         \A d \in WikiCalls : d # c => wikiTxn'[d] = wikiTxn[d] /\ seenSince[d] \subseteq seenSince'[d],
         \A d \in WikiCalls : d # c /\ wikiCall[d].op = "read" =>
            LET p == wikiCall[d].for IN pageRow'[p] = pageRow[p] \/ TextOf(pageRow'[p]) \in seenSince'[d],
         \A p \in Slugs, r \in PageRecords :
            r \in {pageRow'[p], wikiTxn'[c].rows[p]}
            => \E q \in PageRecords : Known(p, q) /\ q.mtime = r.mtime /\ (p \notin blurred => q = r),
         \A p \in Slugs : call.op \in {"read", "write"} /\ call.at = "stat" /\ call.page = p
            => call.text \in Nat /\ (p \notin blurred => pageFile[p] # Gone /\ call.text = pageFile[p].text),
         call.op = "read" => ReadRight(c)'
  PROVE  WikiInv'
  <1>0. WikiType /\ TimesTell /\ TextsRight
    BY DEF WikiInv
  <1>1. \A d \in WikiCalls : wikiCall'[d] = IF d = c THEN call ELSE wikiCall[d]
    BY <1>0 DEF To, WikiType
  <1>2. WikiType'
    BY <1>0 DEF To, WikiType
  <1>3. ASSUME NEW p \in Slugs, NEW r \in PageRecords, Known(p, r)'
        PROVE  \E q \in PageRecords : Known(p, q) /\ q.mtime = r.mtime /\ (p \notin blurred => q = r)
    <2>1. r \in {pageRow'[p], wikiTxn'[c].rows[p]} \/ Known(p, r)
      BY <1>3 DEF Known
    <2> QED
      BY <2>1
  <1>4. TimesTell'
    <2> SUFFICES ASSUME NEW p \in Slugs
                 PROVE  /\ \A r \in PageRecords : Known(p, r)' => r.mtime \in stamped[p]
                        /\ p \notin blurred => \A r, q \in PageRecords :
                              Known(p, r)' /\ Known(p, q)' /\ r.mtime = q.mtime => r = q
      BY DEF TimesTell
    <2> QED
      BY <1>0, <1>3 DEF TimesTell
  <1>5. TextsRight'
    BY <1>0, <1>1 DEF TextsRight, AtStat
  <1>6. ASSUME NEW d \in WikiCalls PROVE ReadRight(d)'
    <2>1. CASE d = c
      BY <1>1, <2>1 DEF ReadRight
    <2>2. CASE d # c
      <3>1. wikiCall[d].op = "read" => TextOf(pageFile[wikiCall[d].for]) \in seenSince[d]
        BY DEF WikiInv, ReadRight
      <3> QED
        BY <1>1, <2>2, <3>1, OthersRead
    <2> QED
      BY <2>1, <2>2
  <1> QED
    BY <1>2, <1>4, <1>5, <1>6 DEF WikiInv

\* A call that ends or goes on without reading; the table stays, and so does the transaction of
\* its thread, unless it is closed or its first read is that of the table.
LEMMA CallLeavesTable ==
  ASSUME WikiInv, NEW c \in WikiCalls, NEW call, To(c, call), call \in Calls,
         UNCHANGED <<pageFile, stamped, blurred, wikiTime, texts, pageRow>>,
         seenSince' = [d \in WikiCalls |-> seenSince'[d]], \A d \in WikiCalls : d # c => seenSince'[d] = seenSince[d],
         NEW txn \in Transactions, wikiTxn' = [wikiTxn EXCEPT ![c] = txn],
         txn.rows \in {wikiTxn[c].rows, pageRow, NoPages},
         \A p \in Slugs : call.op \in {"read", "write"} /\ call.at = "stat" /\ call.page = p
            => call.text \in Nat /\ (p \notin blurred => pageFile[p] # Gone /\ call.text = pageFile[p].text),
         call.op = "read" => ReadRight(c)'
  PROVE  WikiInv'
  <1>0. WikiType
    BY DEF WikiInv
  <1>1. wikiTxn' \in [WikiCalls -> Transactions] /\ wikiTxn'[c] = txn
        /\ \A d \in WikiCalls : d # c => wikiTxn'[d] = wikiTxn[d]
    BY <1>0 DEF WikiType
  <1>2. \A p \in Slugs, r \in PageRecords : r \in {pageRow'[p], wikiTxn'[c].rows[p]} => Known(p, r)
    BY <1>0, <1>1, KnownPages, GoneIsNoPage DEF NoPages, PageRecords
  <1> QED
    BY <1>0, <1>1, <1>2, CallGoesOn DEF WikiType

\* The transaction stays.
LEMMA TxnStays ==
  ASSUME WikiType, NEW c \in WikiCalls, wikiTxn' = wikiTxn
  PROVE  wikiTxn[c] \in Transactions /\ wikiTxn' = [wikiTxn EXCEPT ![c] = wikiTxn[c]]
  BY DEF WikiType

\* What a commit does to the table and to what the other readers may see.
LEMMA CommitTells ==
  ASSUME WikiType, NEW c \in WikiCalls, NEW rows \in [Slugs -> Pages], CommitPages(c, rows)
  PROVE  /\ pageRow' = rows /\ seenSince' = [d \in WikiCalls |-> seenSince'[d]]
         /\ wikiTxn' \in [WikiCalls -> Transactions] /\ wikiTxn'[c] = Closed
         /\ \A d \in WikiCalls : d # c => wikiTxn'[d] = wikiTxn[d] /\ seenSince[d] \subseteq seenSince'[d]
         /\ \A d \in WikiCalls : d # c /\ wikiCall[d].op = "read" =>
               LET p == wikiCall[d].for IN pageRow'[p] = pageRow[p] \/ TextOf(pageRow'[p]) \in seenSince'[d]
         /\ seenSince'[c] = seenSince[c]
  <1>1. /\ pageRow' = rows /\ wikiTxn' = [wikiTxn EXCEPT ![c] = Closed]
        /\ seenSince' = [d \in WikiCalls |-> seenSince[d] \cup
              {TextOf(rows[p]) : p \in {q \in Slugs : d # c /\ ReadsPage(d, q) /\ rows[q] # pageRow[q]}}]
    BY DEF CommitPages
  <1>2. wikiTxn' \in [WikiCalls -> Transactions] /\ wikiTxn'[c] = Closed
        /\ \A d \in WikiCalls : d # c => wikiTxn'[d] = wikiTxn[d]
    BY <1>1, NothingOpen DEF WikiType
  <1>3. ASSUME NEW d \in WikiCalls, d # c, wikiCall[d].op = "read"
        PROVE  LET p == wikiCall[d].for IN pageRow'[p] = pageRow[p] \/ TextOf(pageRow'[p]) \in seenSince'[d]
    <2>1. wikiCall[d].for \in Slugs /\ ReadsPage(d, wikiCall[d].for)
      BY <1>3, CallKinds DEF ReadCalls, ReadsPage
    <2> QED
      BY <1>1, <1>3, <2>1
  <1> QED
    BY <1>1, <1>2, <1>3

LEMMA ReadStarts ==
  ASSUME WikiInv, NEW c \in WikiCalls, NEW s \in Slugs, StartRead(c, s)
  PROVE  WikiInv'
  <1> DEFINE listed == [p \in {q \in Slugs : pageFile[q] # Gone} |-> Gone]
             call == [op |-> "read", page |-> s, for |-> s, at |-> "rows", text |-> Gone, indexed |-> FALSE,
                      lost |-> {}, cached |-> listed]
  <1>0. WikiType
    BY DEF WikiInv
  <1>1. /\ To(c, call) /\ seenSince' = [seenSince EXCEPT ![c] = {TextOf(pageFile[s])}]
        /\ UNCHANGED <<pageFile, pageRow, wikiTime, texts, stamped, blurred>> /\ wikiTxn' = wikiTxn
    BY DEF StartRead, UnchangedPageFiles
  <1>2. listed \in CachedTimes /\ (s \in DOMAIN listed <=> pageFile[s] # Gone)
    <2>1. listed \in [{q \in Slugs : pageFile[q] # Gone} -> Nat \cup {Gone}]
      OBVIOUS
    <2> QED
      BY <2>1 DEF CachedTimes
  <1> HIDE DEF listed
  <1>3. /\ call \in ReadCalls /\ call.op = "read" /\ call.at = "rows" /\ call.lost = {} /\ call.for = s
        /\ call.cached = listed
    BY <1>2 DEF ReadCalls
  <1> HIDE DEF call
  <1>4. wikiCall'[c] = call /\ seenSince'[c] = {TextOf(pageFile[s])}
        /\ seenSince' = [d \in WikiCalls |-> seenSince'[d]] /\ \A d \in WikiCalls : d # c => seenSince'[d] = seenSince[d]
    BY <1>0, <1>1 DEF To, WikiType
  <1>5. ReadRight(c)'
    <2>1. pageFile[s] # Gone => TextOf(pageFile[s]) # Gone
      BY <1>0, TextOfPages DEF WikiType
    <2>2. pageFile[s] = Gone => TextOf(pageFile[s]) = Gone
      BY DEF TextOf
    <2>3. s \in DOMAIN listed => WasThere(c)'
      BY <1>2, <1>4, <2>1 DEF WasThere
    <2>4. ~AtStat(c, s)'
      BY <1>3, <1>4 DEF AtStat
    <2>5. TextOf(pageFile[s])' = TextOf(pageFile[s])
      BY <1>1 DEF TextOf
    <2> QED
      BY <1>2, <1>3, <1>4, <2>2, <2>3, <2>4, <2>5 DEF ReadRight, TextOf
  <1>6. call \in Calls
    BY <1>3 DEF Calls
  <1> QED
    BY <1>0, <1>1, <1>3, <1>4, <1>5, <1>6, TxnStays, CallLeavesTable

\* A read that the thread makes may fix what it goes on reading.
LEMMA SelectFixes ==
  ASSUME WikiType, NEW c \in WikiCalls, Selects(c), pageRow' = pageRow
  PROVE  /\ wikiTxn'[c] \in Transactions /\ wikiTxn' = [wikiTxn EXCEPT ![c] = wikiTxn'[c]]
         /\ wikiTxn'[c].rows \in {wikiTxn[c].rows, pageRow} /\ PageRows(c)' = PageRows(c)
  <1>1. CASE wikiTxn[c].is = "begun"
    <2>1. wikiTxn' = [wikiTxn EXCEPT ![c] = [is |-> "snapshot", rows |-> pageRow]]
      BY <1>1 DEF Selects
    <2>2. wikiTxn'[c] = [is |-> "snapshot", rows |-> pageRow]
      BY <2>1 DEF WikiType
    <2>3. [is |-> "snapshot", rows |-> pageRow] \in Transactions
      BY DEF WikiType, Transactions
    <2>4. PageRows(c)' = pageRow /\ PageRows(c) = pageRow
      BY <1>1, <2>2 DEF PageRows
    <2>5. wikiTxn' = [wikiTxn EXCEPT ![c] = wikiTxn'[c]]
      BY <2>1, <2>2, Zenon
    <2>6. wikiTxn'[c].rows = pageRow /\ wikiTxn'[c] \in Transactions
      BY <2>2, <2>3
    <2> QED
      BY <2>4, <2>5, <2>6
  <1>2. CASE wikiTxn[c].is # "begun"
    BY <1>2 DEF Selects, WikiType, PageRows
  <1> QED
    BY <1>1, <1>2

LEMMA CachedRead ==
  ASSUME WikiInv, NEW c \in WikiCalls, ReadCached(c)
  PROVE  WikiInv'
  <1> DEFINE call == wikiCall[c]
             times == [p \in DOMAIN call.cached |-> TimeOf(PageRows(c)[p])]
             gone == {p \in Slugs \ DOMAIN call.cached : PageRows(c)[p] # Gone}
             goesOn == [call EXCEPT !.at = "check", !.cached = times, !.lost = gone]
  <1>0. WikiType
    BY DEF WikiInv
  <1>1. call \in ReadCalls /\ call.op = "read" /\ call.at = "rows"
    BY <1>0, CallKinds DEF ReadCached
  <1>2. To(c, goesOn) /\ Selects(c)
        /\ UNCHANGED <<pageRow, pageFile, wikiTime, texts, stamped, blurred, seenSince>>
    BY <1>1 DEF ReadCached, UnchangedWorld, UnchangedPageFiles, ReadCalls
  <1>3. call.for \in Slugs /\ DOMAIN call.cached \subseteq Slugs
    BY <1>1 DEF ReadCalls, CachedTimes
  <1>4. times \in CachedTimes /\ DOMAIN times = DOMAIN call.cached
    <2>1. \A p \in DOMAIN call.cached : TimeOf(PageRows(c)[p]) \in Nat \cup {Gone}
      BY <1>0, <1>3, TableIs, TextOfPages
    <2>2. times \in [DOMAIN call.cached -> Nat \cup {Gone}]
      BY <2>1
    <2> QED
      BY <1>3, <2>2 DEF CachedTimes
  <1>5. call.for \in DOMAIN call.cached => times[call.for] = TimeOf(PageRows(c)[call.for])
    OBVIOUS
  <1>6. call.for \in gone <=> call.for \notin DOMAIN call.cached /\ PageRows(c)[call.for] # Gone
    BY <1>3
  <1>7. gone \subseteq Slugs
    OBVIOUS
  <1> HIDE DEF times, gone
  <1>8. /\ goesOn \in ReadCalls /\ goesOn.op = "read" /\ goesOn.at = "check" /\ goesOn.for = call.for
        /\ goesOn.cached = times /\ goesOn.lost = gone
    BY <1>1, <1>4, <1>7 DEF ReadCalls
  <1> HIDE DEF goesOn
  <1>9. wikiCall'[c] = goesOn
    BY <1>0, <1>2 DEF To, WikiType
  <1>10. PageRows(c)' = PageRows(c) /\ wikiTxn'[c] \in Transactions /\ wikiTxn' = [wikiTxn EXCEPT ![c] = wikiTxn'[c]]
         /\ wikiTxn'[c].rows \in {wikiTxn[c].rows, pageRow}
    BY <1>0, <1>2, SelectFixes
  <1>11. ReadRight(c)'
    <2>1. /\ TextOf(pageFile[call.for]) \in seenSince[c]
          /\ call.for \in DOMAIN call.cached => WasThere(c)
          /\ call.for \notin DOMAIN call.cached => Gone \in seenSince[c]
      BY <1>1 DEF WikiInv, ReadRight
    <2>2. ~AtStat(c, call.for)' /\ (WasThere(c) => WasThere(c)')
      BY <1>2, <1>8, <1>9 DEF AtStat, WasThere
    <2>3. call.for \notin DOMAIN call.cached /\ call.for \notin gone => RowSeen(c)'
      BY <1>2, <1>6, <1>8, <1>9, <1>10, <2>1 DEF RowSeen, TextOf
    <2> QED
      BY <1>2, <1>4, <1>5, <1>6, <1>8, <1>9, <1>10, <2>1, <2>2, <2>3 DEF ReadRight, TextOf, TimeOf
  <1>12. goesOn \in Calls
    BY <1>8 DEF Calls
  <1>13. seenSince' = [d \in WikiCalls |-> seenSince'[d]]
    BY <1>0, <1>2 DEF WikiType
  <1> QED
    BY <1>2, <1>8, <1>10, <1>11, <1>12, <1>13, CallLeavesTable

LEMMA PageChecked ==
  ASSUME WikiInv, NEW c \in WikiCalls, CheckPage(c)
  PROVE  WikiInv'
  <1> DEFINE call == wikiCall[c]
             f == call.for
  <1>0. WikiType /\ TimesTell
    BY DEF WikiInv
  <1>1. call \in ReadCalls /\ call.op = "read" /\ call.at = "check"
    BY <1>0, CallKinds DEF CheckPage
  <1>2. PICK s \in DOMAIN call.cached :
          LET rest == [q \in DOMAIN call.cached \ {s} |-> call.cached[q]]
          IN To(c, IF pageFile[s] # Gone /\ PageOutOfDate(call.cached[s], pageFile[s])
                   THEN [call EXCEPT !.cached = rest, !.page = s, !.at = "stat", !.text = pageFile[s].text]
                   ELSE [call EXCEPT !.cached = rest])
    BY DEF CheckPage
  <1> DEFINE rest == [q \in DOMAIN call.cached \ {s} |-> call.cached[q]]
  <1>3. UNCHANGED <<pageRow, pageFile, wikiTime, texts, stamped, blurred, seenSince>> /\ wikiTxn' = wikiTxn
    BY DEF CheckPage, UnchangedWorld, UnchangedPageFiles
  <1>4. s \in Slugs /\ f \in Slugs /\ rest \in CachedTimes /\ DOMAIN rest = DOMAIN call.cached \ {s}
        /\ \A q \in DOMAIN rest : rest[q] = call.cached[q]
    <2>1. PICK D \in SUBSET Slugs : call.cached \in [D -> Nat \cup {Gone}]
      BY <1>1 DEF ReadCalls, CachedTimes
    <2>2. rest \in [D \ {s} -> Nat \cup {Gone}] /\ D \ {s} \in SUBSET Slugs
      BY <2>1
    <2> QED
      BY <1>1, <1>2, <2>1, <2>2 DEF ReadCalls, CachedTimes
  <1>5. ReadRight(c)
    BY DEF WikiInv
  <1> DEFINE read == [call EXCEPT !.cached = rest, !.page = s, !.at = "stat", !.text = pageFile[s].text]
             skip == [call EXCEPT !.cached = rest]
  <1>6. seenSince' = [d \in WikiCalls |-> seenSince'[d]] /\ \A d \in WikiCalls : d # c => seenSince'[d] = seenSince[d]
    BY <1>0, <1>3 DEF WikiType
  <1>7. To(c, IF pageFile[s] # Gone /\ PageOutOfDate(call.cached[s], pageFile[s]) THEN read ELSE skip)
    BY <1>2
  <1>8. PageRows(c)' = PageRows(c) /\ (WasThere(c) => WasThere(c)')
    BY <1>3 DEF PageRows, WasThere
  <1> HIDE DEF rest, call
  <1>9. CASE pageFile[s] # Gone /\ PageOutOfDate(call.cached[s], pageFile[s])
    <2>1. pageFile[s] \in PageRecords
      BY <1>0, <1>4, <1>9 DEF WikiType, Pages
    <2>2. /\ read \in ReadCalls /\ read.op = "read" /\ read.at = "stat" /\ read.page = s /\ read.for = f
          /\ read.text = pageFile[s].text /\ read.text \in Nat /\ read.cached = rest /\ read.lost = call.lost
      BY <1>1, <1>4, <2>1 DEF ReadCalls, PageRecords
    <2>3. To(c, read)
      BY <1>7, <1>9
    <2> HIDE DEF read
    <2>4. wikiCall'[c] = read /\ read \in Calls
      BY <1>0, <2>2, <2>3 DEF To, WikiType, Calls
    <2>5. ReadRight(c)'
      <3>1. ~AtStat(c, f)
        BY <1>1 DEF AtStat, call
      <3>2. AtStat(c, f)' <=> f = s
        BY <2>2, <2>4 DEF AtStat, call
      <3>3. CASE f # s
        <4>1. RowSeen(c) => RowSeen(c)'
          BY <1>3, <1>8, <2>2, <2>4 DEF RowSeen, TextOf, call
        <4> QED
          BY <1>1, <1>3, <1>4, <1>5, <1>8, <2>2, <2>4, <3>1, <3>2, <3>3, <4>1 DEF ReadRight, TextOf, TimeOf, call
      <3>4. CASE f = s
        <4>1. TextOf(pageFile[s]) = pageFile[s].text
          BY <1>9 DEF TextOf
        <4>2. /\ TextOf(pageFile[f]) \in seenSince[c] /\ f \notin call.lost
          BY <1>1, <1>2, <1>5, <3>4 DEF ReadRight, call
        <4> QED
          BY <1>3, <1>4, <2>2, <2>4, <3>2, <3>4, <4>1, <4>2 DEF ReadRight, TextOf, call
      <3> QED
        BY <3>3, <3>4
    <2> QED
      BY <1>0, <1>3, <1>6, <1>9, <2>2, <2>3, <2>4, <2>5, TxnStays, CallLeavesTable
  <1>10. CASE ~(pageFile[s] # Gone /\ PageOutOfDate(call.cached[s], pageFile[s]))
    <2>1. /\ skip \in ReadCalls /\ skip.op = "read" /\ skip.at = "check" /\ skip.for = f
          /\ skip.cached = rest /\ skip.lost = call.lost
      BY <1>1, <1>4 DEF ReadCalls
    <2>2. To(c, skip)
      BY <1>7, <1>10
    <2> HIDE DEF skip
    <2>3. wikiCall'[c] = skip /\ skip \in Calls
      BY <1>0, <2>1, <2>2 DEF To, WikiType, Calls
    <2>4. ASSUME s \notin blurred, f = s PROVE RowSeen(c)
      <3>1. /\ TextOf(pageFile[s]) \in seenSince[c] /\ WasThere(c)
            /\ call.cached[s] = TimeOf(PageRows(c)[s]) \/ TextOf(PageRows(c)[s]) \in seenSince[c]
        BY <1>1, <1>2, <1>5, <2>4 DEF ReadRight, call
      <3>2. CASE pageFile[s] = Gone
        BY <3>1, <3>2 DEF RowSeen, TextOf
      <3>3. CASE pageFile[s] # Gone /\ TextOf(PageRows(c)[s]) \in seenSince[c]
        BY <2>4, <3>3 DEF RowSeen, call
      <3>4. CASE pageFile[s] # Gone /\ call.cached[s] = TimeOf(PageRows(c)[s])
        <4>1. TimeOf(PageRows(c)[s]) # Gone /\ TimeOf(PageRows(c)[s]) = pageFile[s].mtime
          BY <1>10, <3>4 DEF PageOutOfDate
        <4>2. PageRows(c)[s] \in PageRecords /\ pageFile[s] \in PageRecords
          BY <1>0, <1>4, <3>4, <4>1, TableIs DEF WikiType, Pages, TimeOf
        <4>3. PageRows(c)[s].mtime = pageFile[s].mtime
          BY <4>1 DEF TimeOf
        <4>4. PageRows(c)[s] = pageFile[s]
          BY <1>0, <1>4, <2>4, <4>2, <4>3, KnownPages DEF TimesTell
        <4> QED
          BY <2>4, <3>1, <4>4 DEF RowSeen, call
      <3> QED
        BY <3>1, <3>2, <3>3, <3>4
    <2>5. ReadRight(c)'
      <3>1. ~AtStat(c, f) /\ ~AtStat(c, f)'
        BY <1>1, <2>1, <2>3 DEF AtStat, call
      <3>2. RowSeen(c) => RowSeen(c)'
        BY <1>3, <1>8, <2>1, <2>3 DEF RowSeen, WasThere, TextOf, call
      <3>3. CASE f # s
        BY <1>1, <1>3, <1>4, <1>5, <1>8, <2>1, <2>3, <3>1, <3>2, <3>3 DEF ReadRight, TextOf, TimeOf, call
      <3>4. CASE f = s
        <4>1. TextOf(pageFile[f]) \in seenSince[c] /\ f \notin call.lost
          BY <1>1, <1>2, <1>5, <3>4 DEF ReadRight, call
        <4> QED
          BY <1>3, <1>4, <2>1, <2>3, <2>4, <3>1, <3>2, <3>4, <4>1 DEF ReadRight, TextOf, call
      <3> QED
        BY <3>3, <3>4
    <2> QED
      BY <1>0, <1>3, <1>6, <2>1, <2>2, <2>3, <2>5, TxnStays, CallLeavesTable
  <1> QED
    BY <1>9, <1>10

\* The time of the file, then the row in the open transaction.
LEMMA PageUpserted ==
  ASSUME WikiInv, NEW c \in WikiCalls, NEW next, Upsert(c, next), wikiCall[c].at = "stat",
         \/ /\ wikiCall[c].op = "read"
            /\ next = [wikiCall[c] EXCEPT !.at = "check", !.indexed = TRUE, !.text = Gone, !.page = wikiCall[c].for]
         \/ wikiCall[c].op = "write" /\ next = [wikiCall[c] EXCEPT !.at = "commit"],
         UNCHANGED <<pageRow, pageFile, wikiTime, texts, stamped, blurred, seenSince>>
  PROVE  WikiInv'
  <1> DEFINE call == wikiCall[c]
             s == call.page
             row == [text |-> call.text, mtime |-> pageFile[s].mtime]
             rows == [PageRows(c) EXCEPT ![s] = row]
             txn == [is |-> "write", rows |-> rows]
  <1>0. WikiType /\ TimesTell /\ TextsRight
    BY DEF WikiInv
  <1>1. /\ call.op \in {"read", "write"} /\ call.at = "stat" /\ s \in Slugs
        /\ call.op = "read" => call \in ReadCalls
        /\ call.op = "write" => call \in WriteCalls
    BY <1>0, CallKinds DEF ReadCalls, WriteCalls
  <1>2. AtStat(c, s) /\ call.text \in Nat
        /\ (s \notin blurred => pageFile[s] # Gone /\ call.text = pageFile[s].text)
    BY <1>0, <1>1 DEF AtStat, TextsRight
  <1>3. ReadRight(c)
    BY DEF WikiInv
  <1>4. seenSince' = [d \in WikiCalls |-> seenSince'[d]] /\ \A d \in WikiCalls : d # c => seenSince'[d] = seenSince[d]
    BY <1>0 DEF WikiType
  <1>5. CASE pageFile[s] = Gone
    <2>1. To(c, Ready) /\ wikiTxn' = wikiTxn
      BY <1>5 DEF Upsert
    <2>2. Ready.op = "none" /\ Ready \in Calls
      BY DEF Ready, Calls
    <2> QED
      BY <1>0, <1>4, <2>1, <2>2, TxnStays, CallLeavesTable
  <1>6. CASE pageFile[s] # Gone
    <2>1. To(c, next) /\ wikiTxn' = [wikiTxn EXCEPT ![c] = txn]
      BY <1>6 DEF Upsert
    <2>2. pageFile[s] \in PageRecords /\ row \in PageRecords /\ row.mtime = pageFile[s].mtime
          /\ row.text = call.text
      BY <1>0, <1>1, <1>2, <1>6 DEF WikiType, Pages, PageRecords
    <2>3. s \notin blurred => row = pageFile[s]
      BY <1>2, <2>2 DEF PageRecords
    <2>4. rows \in [Slugs -> Pages] /\ \A p \in Slugs : rows[p] = IF p = s THEN row ELSE PageRows(c)[p]
      <3>1. PageRows(c) \in [Slugs -> Pages] /\ row \in Pages
        BY <1>0, <2>2, TableIs DEF Pages
      <3> HIDE DEF row
      <3> QED
        BY <1>1, <3>1
    <2> HIDE DEF row, rows
    <2>5. wikiTxn' \in [WikiCalls -> Transactions] /\ wikiTxn'[c].rows = rows /\ PageRows(c)' = rows
          /\ \A d \in WikiCalls : d # c => wikiTxn'[d] = wikiTxn[d]
      <3>1. txn \in Transactions
        BY <2>4 DEF Transactions
      <3> QED
        BY <1>0, <2>1, <3>1 DEF WikiType, PageRows
    <2>6. ASSUME NEW p \in Slugs, NEW r \in PageRecords, r \in {pageRow'[p], wikiTxn'[c].rows[p]}
          PROVE  \E q \in PageRecords : Known(p, q) /\ q.mtime = r.mtime /\ (p \notin blurred => q = r)
      <3>1. CASE p = s /\ r = row
        BY <1>0, <2>2, <2>3, <3>1, KnownPages
      <3>2. CASE ~(p = s /\ r = row)
        BY <1>0, <2>4, <2>5, <2>6, <3>2, KnownPages
      <3> QED
        BY <3>1, <3>2
    <2>7. wikiCall'[c] = next
      BY <1>0, <2>1 DEF To, WikiType
    <2>8. CASE call.op = "read"
      <3>1. /\ next \in ReadCalls /\ next.op = "read" /\ next.at = "check" /\ next.for = call.for
            /\ next.lost = call.lost /\ next.cached = call.cached
        BY <1>1, <2>8 DEF ReadCalls
      <3>2. ReadRight(c)'
        <4> DEFINE f == call.for
        <4>0. ~AtStat(c, f)' /\ (WasThere(c) => WasThere(c)')
          BY <2>7, <3>1 DEF AtStat, WasThere
        <4>1. CASE f # s
          <5>1. ~AtStat(c, f)
            BY <4>1 DEF AtStat
          <5>2. f \in Slugs /\ PageRows(c)'[f] = PageRows(c)[f]
            BY <1>1, <2>4, <2>5, <2>8, <4>1 DEF ReadCalls
          <5>3. RowSeen(c) => RowSeen(c)'
            BY <2>7, <3>1, <4>0, <5>2 DEF RowSeen, TextOf, WasThere
          <5> QED
            BY <1>1, <1>3, <2>7, <2>8, <3>1, <4>0, <5>1, <5>2, <5>3 DEF ReadRight, TextOf, TimeOf
        <4>2. CASE f = s
          <5>1. f \notin DOMAIN call.cached /\ call.text \in seenSince[c] /\ TextOf(pageFile[f]) \in seenSince[c]
                /\ (f \in call.lost => Gone \in seenSince[c])
            BY <1>1, <1>2, <1>3, <2>8, <4>2 DEF ReadRight
          <5>2. TextOf(PageRows(c)'[f]) = call.text
            <6>1. PageRows(c)'[f] = row /\ row # Gone
              BY <1>1, <2>2, <2>4, <2>5, <4>2, GoneIsNoPage DEF PageRecords
            <6> QED
              BY <2>2, <6>1 DEF TextOf
          <5>3. RowSeen(c)'
            BY <2>7, <3>1, <5>1, <5>2 DEF RowSeen, TextOf
          <5> QED
            BY <2>7, <3>1, <4>0, <5>1, <5>3 DEF ReadRight, TextOf
        <4> QED
          BY <4>1, <4>2
      <3>3. next \in Calls
        BY <3>1 DEF Calls
      <3> QED
        BY <1>0, <1>4, <2>1, <2>5, <2>6, <3>1, <3>2, <3>3, CallGoesOn DEF WikiType
    <2>9. CASE call.op = "write"
      <3>1. next \in Calls /\ next.op = "write" /\ next.at = "commit"
        BY <1>1, <2>9 DEF WriteCalls, Calls
      <3> QED
        BY <1>0, <1>4, <2>1, <2>5, <2>6, <3>1, CallGoesOn DEF WikiType
    <2> QED
      BY <1>1, <2>8, <2>9
  <1> QED
    BY <1>5, <1>6

LEMMA ReadEnds ==
  ASSUME WikiInv, NEW c \in WikiCalls, SelectPage(c)
  PROVE  WikiInv'
  <1>0. WikiType
    BY DEF WikiInv
  <1>1. /\ To(c, Ready) /\ seenSince' = [seenSince EXCEPT ![c] = {}]
        /\ UNCHANGED <<pageFile, pageRow, wikiTime, texts, stamped, blurred>> /\ wikiTxn' = wikiTxn
    BY DEF SelectPage, UnchangedPageFiles
  <1>2. seenSince' = [d \in WikiCalls |-> seenSince'[d]] /\ \A d \in WikiCalls : d # c => seenSince'[d] = seenSince[d]
    BY <1>0, <1>1 DEF WikiType
  <1>3. Ready.op = "none" /\ Ready \in Calls
    BY DEF Ready, Calls
  <1>4. wikiTxn[c] \in Transactions /\ wikiTxn' = [wikiTxn EXCEPT ![c] = wikiTxn[c]]
    BY <1>0, <1>1, TxnStays
  <1> QED
    BY <1>1, <1>2, <1>3, <1>4, CallLeavesTable

LEMMA PageReadBack ==
  ASSUME WikiInv, NEW c \in WikiCalls, ReadBack(c)
  PROVE  WikiInv'
  <1> DEFINE call == wikiCall[c]
             read == [call EXCEPT !.at = "stat", !.text = pageFile[call.page].text]
  <1>0. WikiType
    BY DEF WikiInv
  <1>1. call \in WriteCalls /\ call.op = "write" /\ call.at = "text"
    BY <1>0, CallKinds DEF ReadBack
  <1>2. /\ To(c, IF pageFile[call.page] = Gone THEN Ready ELSE read) /\ wikiTxn' = wikiTxn
        /\ UNCHANGED <<pageRow, pageFile, wikiTime, texts, stamped, blurred, seenSince>>
    BY DEF ReadBack, UnchangedWorld, UnchangedPageFiles
  <1>3. seenSince' = [d \in WikiCalls |-> seenSince'[d]] /\ \A d \in WikiCalls : d # c => seenSince'[d] = seenSince[d]
    BY <1>0, <1>2 DEF WikiType
  <1>4. CASE pageFile[call.page] = Gone
    <2>1. Ready.op = "none" /\ Ready \in Calls
      BY DEF Ready, Calls
    <2>2. To(c, Ready)
      BY <1>2, <1>4
    <2> QED
      BY <1>0, <1>2, <1>3, <2>1, <2>2, TxnStays, CallLeavesTable
  <1>5. CASE pageFile[call.page] # Gone
    <2>1. pageFile[call.page] \in PageRecords /\ pageFile[call.page].text \in Nat
      BY <1>0, <1>1, <1>5 DEF WriteCalls, WikiType, Pages, PageRecords
    <2>2. /\ read \in WriteCalls /\ read.op = "write" /\ read.page = call.page
          /\ read.text = pageFile[call.page].text
      BY <1>1, <2>1 DEF WriteCalls
    <2>3. To(c, read)
      BY <1>2, <1>5
    <2> HIDE DEF read, call
    <2>4. read \in Calls
      BY <2>2 DEF Calls
    <2> QED
      BY SMTT(30), <1>0, <1>2, <1>3, <1>5, <2>1, <2>2, <2>3, <2>4, TxnStays, CallLeavesTable
  <1> QED
    BY <1>4, <1>5

\* A call, or the thread after it, commits what it sees of the table, but for pages that go.
LEMMA RowCommitted ==
  ASSUME WikiInv, NEW c \in WikiCalls, NEW rows \in [Slugs -> Pages], CommitPages(c, rows), To(c, Ready),
         UnchangedPageFiles, \A p \in Slugs : rows[p] \in {Gone, PageRows(c)[p]}
  PROVE  WikiInv'
  <1>0. WikiType
    BY DEF WikiInv
  <1>1. \A p \in Slugs, r \in PageRecords : r \in {pageRow'[p], wikiTxn'[c].rows[p]} => Known(p, r)
    BY <1>0, CommitTells, KnownPages, NothingOpen, GoneIsNoPage DEF PageRecords
  <1>2. Ready.op = "none" /\ Ready \in Calls
    BY DEF Ready, Calls
  <1>3. UNCHANGED <<pageFile, stamped, blurred, wikiTime, texts>>
    BY DEF UnchangedPageFiles
  <1> QED
    BY <1>0, <1>1, <1>2, <1>3, CommitTells, CallGoesOn

\* When the list is done, what vanished or was indexed is committed; the rest had no need.
LEMMA ReconcileCommitted ==
  ASSUME WikiInv, NEW c \in WikiCalls, CommitReconcile(c)
  PROVE  WikiInv'
  <1> DEFINE call == wikiCall[c]
             f == call.for
             rows == [p \in Slugs |-> IF p \in call.lost THEN Gone ELSE PageRows(c)[p]]
             goesOn == [call EXCEPT !.at = "select"]
  <1>0. WikiType
    BY DEF WikiInv
  <1>1. call \in ReadCalls /\ call.op = "read" /\ call.at = "check" /\ DOMAIN call.cached = {} /\ f \in Slugs
    BY <1>0, CallKinds DEF CommitReconcile, ReadCalls
  <1>2. /\ To(c, goesOn) /\ UNCHANGED <<pageFile, wikiTime, texts, stamped, blurred>>
        /\ IF call.indexed \/ call.lost # {} THEN CommitPages(c, rows) ELSE UNCHANGED <<pageRow, wikiTxn, seenSince>>
    BY DEF CommitReconcile, UnchangedPageFiles
  <1>3. /\ goesOn \in ReadCalls /\ goesOn.op = "read" /\ goesOn.at = "select" /\ goesOn.for = f
        /\ goesOn.lost = call.lost /\ goesOn.cached = call.cached
    BY <1>1 DEF ReadCalls
  <1>4. rows \in [Slugs -> Pages] /\ \A p \in Slugs : rows[p] = IF p \in call.lost THEN Gone ELSE PageRows(c)[p]
    <2>1. PageRows(c) \in [Slugs -> Pages] /\ Gone \in Pages
      BY <1>0, TableIs DEF Pages
    <2> QED
      BY <2>1
  <1> HIDE DEF goesOn, rows
  <1>5. wikiCall'[c] = goesOn /\ goesOn \in Calls
    BY <1>0, <1>2, <1>3 DEF To, WikiType, Calls
  <1>6. /\ TextOf(pageFile[f]) \in seenSince[c]
        /\ f \in call.lost => Gone \in seenSince[c]
        /\ f \notin call.lost /\ f \notin blurred => RowSeen(c)
    <2>1. ~AtStat(c, f)
      BY <1>1 DEF AtStat
    <2> QED
      BY <1>1, <2>1 DEF WikiInv, ReadRight
  <1>7. ~AtStat(c, f)'
    BY <1>3, <1>5 DEF AtStat
  <1>8. CASE call.indexed \/ call.lost # {}
    <2>1. CommitPages(c, rows)
      BY <1>2, <1>8
    <2>2. pageRow' = rows /\ wikiTxn'[c] = Closed /\ seenSince'[c] = seenSince[c]
      BY <1>0, <1>4, <2>1, CommitTells
    <2>3. PageRows(c)' = rows
      BY <2>2 DEF PageRows, Closed
    <2>4. \A p \in Slugs, r \in PageRecords : r \in {pageRow'[p], wikiTxn'[c].rows[p]} => Known(p, r)
      BY <1>0, <1>4, <2>2, KnownPages, NothingOpen, GoneIsNoPage DEF PageRecords
    <2>5. f \notin blurred => RowSeen(c)'
      BY <1>1, <1>3, <1>4, <1>5, <1>6, <2>2, <2>3 DEF RowSeen, WasThere, TextOf
    <2>6. ReadRight(c)'
      BY <1>2, <1>3, <1>5, <1>6, <1>7, <2>2, <2>5 DEF ReadRight, TextOf
    <2>7. pageRow' \in [Slugs -> Pages]
      BY <1>4, <2>2
    <2> QED
      BY <1>0, <1>2, <1>3, <1>4, <1>5, <2>1, <2>4, <2>6, <2>7, CommitTells, CallGoesOn
  <1>9. CASE ~(call.indexed \/ call.lost # {})
    <2>1. UNCHANGED <<pageRow, seenSince>> /\ wikiTxn' = wikiTxn
      BY <1>2, <1>9
    <2>2. PageRows(c)' = PageRows(c)
      BY <2>1 DEF PageRows
    <2>3. f \notin blurred => RowSeen(c)'
      BY <1>3, <1>5, <1>6, <1>9, <2>1, <2>2 DEF RowSeen, WasThere, TextOf
    <2>4. ReadRight(c)'
      BY <1>2, <1>3, <1>5, <1>6, <1>7, <2>1, <2>3 DEF ReadRight, TextOf
    <2>5. seenSince' = [d \in WikiCalls |-> seenSince'[d]]
      BY <1>0, <2>1 DEF WikiType
    <2> QED
      BY <1>0, <1>2, <1>3, <1>5, <2>1, <2>4, <2>5, TxnStays, CallLeavesTable
  <1> QED
    BY <1>8, <1>9

\* A call that raises leaves its transaction; one that dies does not.
LEMMA CallFails ==
  ASSUME WikiInv, NEW c \in WikiCalls, WriteRefused(c) \/ WikiCallDies(c)
  PROVE  WikiInv'
  <1>0. WikiType
    BY DEF WikiInv
  <1>1. To(c, Ready) /\ UNCHANGED <<pageFile, pageRow, wikiTime, texts, stamped, blurred, seenSince>>
    BY DEF WikiCallDies, WriteRefused, UnchangedPageFiles
  <1>2. Ready.op = "none" /\ Ready \in Calls
    BY DEF Ready, Calls
  <1>3. seenSince' = [d \in WikiCalls |-> seenSince'[d]]
    BY <1>0, <1>1 DEF WikiType
  <1>4. \E txn \in Transactions : wikiTxn' = [wikiTxn EXCEPT ![c] = txn] /\ txn.rows \in {wikiTxn[c].rows, NoPages}
    <2>1. CASE WikiCallDies(c)
      BY <2>1, NothingOpen DEF WikiCallDies, Closed
    <2>2. CASE WriteRefused(c) /\ wikiTxn[c].is = "none"
      <3>1. wikiTxn[c] \in Transactions
        BY <1>0 DEF WikiType
      <3> DEFINE txn == [wikiTxn[c] EXCEPT !.is = "begun"]
      <3>2. txn \in Transactions /\ txn.rows = wikiTxn[c].rows
        BY <3>1 DEF Transactions
      <3>3. wikiTxn' = [wikiTxn EXCEPT ![c] = txn]
        BY <2>2 DEF WriteRefused
      <3> QED
        BY <3>2, <3>3
    <2>3. CASE WriteRefused(c) /\ wikiTxn[c].is # "none"
      BY <1>0, <2>3, TxnStays DEF WriteRefused
    <2> QED
      BY <2>1, <2>2, <2>3
  <1> QED
    BY <1>1, <1>2, <1>3, <1>4, CallLeavesTable

\* The transaction that a call has left on its thread ends.
LEMMA TxnEnded ==
  ASSUME WikiInv, NEW c \in WikiCalls, TxnEnds(c)
  PROVE  WikiInv'
  <1>0. WikiType
    BY DEF WikiInv
  <1>1. wikiCall[c] = Ready /\ wikiCall' = wikiCall /\ UnchangedPageFiles
    BY DEF TxnEnds
  <1>2. To(c, Ready)
    BY <1>0, <1>1 DEF To, WikiType
  <1>3. CASE wikiTxn[c].is = "write" /\ CommitPages(c, wikiTxn[c].rows)
    <2>1. wikiTxn[c].rows = PageRows(c) /\ PageRows(c) \in [Slugs -> Pages]
      BY <1>0, <1>3, TableIs DEF PageRows
    <2> QED
      BY <1>1, <1>2, <1>3, <2>1, RowCommitted
  <1>4. CASE wikiTxn' = [wikiTxn EXCEPT ![c] = Closed] /\ UNCHANGED <<pageRow, seenSince>>
    <2>1. Ready.op = "none" /\ Ready \in Calls /\ Closed.rows = NoPages
      BY DEF Ready, Calls, Closed
    <2>2. seenSince' = [d \in WikiCalls |-> seenSince'[d]]
      BY <1>0, <1>4 DEF WikiType
    <2>3. UNCHANGED <<pageFile, stamped, blurred, wikiTime, texts>>
      BY <1>1 DEF UnchangedPageFiles
    <2> QED
      BY <1>2, <1>4, <2>1, <2>2, <2>3, NothingOpen, CallLeavesTable
  <1> QED
    BY <1>3, <1>4 DEF TxnEnds

LEMMA NothingRead ==
  ASSUME WikiInv, UNCHANGED <<pageFile, pageRow, wikiTxn, wikiCall, seenSince, stamped, blurred, texts>>, wikiTime' \in Nat
  PROVE  WikiInv'
  <1>0. WikiType /\ TimesTell /\ TextsRight
    BY DEF WikiInv
  <1>1. WikiType'
    BY <1>0 DEF WikiType
  <1>2. TimesTell'
    BY <1>0 DEF TimesTell, Known
  <1>3. TextsRight'
    BY <1>0 DEF TextsRight, AtStat
  <1>4. ASSUME NEW c \in WikiCalls PROVE ReadRight(c)'
    BY DEF WikiInv, ReadRight, WasThere, RowSeen, PageRows, AtStat, TextOf, TimeOf
  <1> QED
    BY <1>1, <1>2, <1>3, <1>4 DEF WikiInv

LEMMA WikiInvStep == WikiInv /\ [WikiNext]_wikiVars => WikiInv'
  <1> SUFFICES ASSUME WikiInv, [WikiNext]_wikiVars PROVE WikiInv'
    OBVIOUS
  <1>0. WikiType
    BY DEF WikiInv
  <1>1. CASE WikiClock
    BY <1>0, <1>1, NothingRead DEF WikiClock, WikiType
  <1>2. ASSUME NEW s \in Slugs, Edited(s) PROVE WikiInv'
    <2>1. \A x, t \in Nat : [text |-> x, mtime |-> t] \in Pages
      BY DEF Pages, PageRecords
    <2>2. Gone \in Pages
      BY DEF Pages
    <2>3. texts + 1 \in Nat /\ wikiTime \in Nat /\ \A t \in 0..wikiTime : t \in Nat
      BY <1>0 DEF WikiType
    <2>4. texts' \in Nat /\ UNCHANGED <<pageRow, wikiTxn, wikiCall, wikiTime>>
      BY <1>0, <1>2 DEF Edited, NewText, WikiType
    <2>5. \/ FileIs(s, [text |-> texts + 1, mtime |-> wikiTime])
          \/ \E t \in 0..wikiTime : FileIs(s, [text |-> texts + 1, mtime |-> t])
          \/ FileIs(s, Gone)
      BY <1>2 DEF Edited
    <2>6. \E page \in Pages : FileIs(s, page)
      BY <2>1, <2>2, <2>3, <2>5
    <2> QED
      BY <1>0, <2>4, <2>6, FileChanges DEF WikiType
  <1>3. ASSUME NEW c \in WikiCalls, NEW s \in Slugs, StartRead(c, s) PROVE WikiInv'
    BY <1>3, ReadStarts
  <1>4. ASSUME NEW c \in WikiCalls, CheckPage(c) PROVE WikiInv'
    BY <1>4, PageChecked
  <1>5. ASSUME NEW c \in WikiCalls, StatPage(c) PROVE WikiInv'
    BY <1>5, PageUpserted DEF StatPage, UnchangedWorld, UnchangedPageFiles
  <1>6. ASSUME NEW c \in WikiCalls, CommitReconcile(c) PROVE WikiInv'
    BY <1>6, ReconcileCommitted
  <1>7. ASSUME NEW c \in WikiCalls, SelectPage(c) PROVE WikiInv'
    BY <1>7, ReadEnds
  <1>8. ASSUME NEW c \in WikiCalls, NEW s \in Slugs, write_page(c, s) PROVE WikiInv'
    <2> DEFINE page == [text |-> texts + 1, mtime |-> wikiTime]
               call == [op |-> "write", page |-> s, at |-> "text", text |-> Gone]
    <2>1. /\ FileIs(s, page) /\ To(c, call) /\ UNCHANGED <<pageRow, wikiTime>> /\ wikiTxn' = wikiTxn
          /\ texts' = texts + 1
      BY <1>8 DEF write_page, NewText
    <2>2. page \in Pages /\ texts' \in Nat
      BY <1>0, <2>1 DEF WikiType, Pages, PageRecords
    <2>3. call \in WriteCalls /\ call.op = "write" /\ call.at = "text"
      BY DEF WriteCalls
    <2> HIDE DEF page, call
    <2>4. wikiCall' \in [WikiCalls -> Calls]
          /\ \A d \in WikiCalls : wikiCall'[d] = IF d = c THEN call ELSE wikiCall[d]
      BY <1>0, <2>1, <2>3 DEF To, WikiType, Calls
    <2>5. wikiTime' \in Nat /\ wikiTxn' \in [WikiCalls -> Transactions]
      BY <1>0, <2>1 DEF WikiType
    <2> QED
      BY <2>1, <2>2, <2>3, <2>4, <2>5, FileChanges
  <1>9. ASSUME NEW c \in WikiCalls, ReadBack(c) PROVE WikiInv'
    BY <1>9, PageReadBack
  <1>10. ASSUME NEW c \in WikiCalls, StatWritten(c) PROVE WikiInv'
    BY <1>10, PageUpserted DEF StatWritten, UnchangedWorld, UnchangedPageFiles
  <1>11. ASSUME NEW c \in WikiCalls, CommitWritten(c) PROVE WikiInv'
    <2>1. PageRows(c) \in [Slugs -> Pages]
      BY <1>0, TableIs
    <2> QED
      BY <1>11, <2>1, RowCommitted DEF CommitWritten
  <1>12. ASSUME NEW c \in WikiCalls, NEW s \in Slugs, delete_page(c, s) PROVE WikiInv'
    <2> DEFINE call == [op |-> "delete", page |-> s, at |-> "row"]
    <2>1. /\ FileIs(s, Gone) /\ To(c, call) /\ UNCHANGED <<pageRow, wikiTime, texts>> /\ Selects(c)
      BY <1>12 DEF delete_page
    <2>2. Gone \in Pages /\ texts' \in Nat /\ wikiTime' \in Nat
      BY <1>0, <2>1 DEF WikiType, Pages
    <2>3. call \in DeleteCalls /\ call.op = "delete"
      BY DEF DeleteCalls
    <2> HIDE DEF call
    <2>4. wikiCall' \in [WikiCalls -> Calls]
          /\ \A d \in WikiCalls : wikiCall'[d] = IF d = c THEN call ELSE wikiCall[d]
      BY <1>0, <2>1, <2>3 DEF To, WikiType, Calls
    <2>5. /\ wikiTxn' \in [WikiCalls -> Transactions] /\ wikiTxn'[c].rows \in {wikiTxn[c].rows, pageRow}
          /\ \A d \in WikiCalls : d # c => wikiTxn'[d] = wikiTxn[d]
      <3>1. wikiTxn'[c] \in Transactions /\ wikiTxn' = [wikiTxn EXCEPT ![c] = wikiTxn'[c]]
            /\ wikiTxn'[c].rows \in {wikiTxn[c].rows, pageRow}
        BY <1>0, <2>1, SelectFixes
      <3> QED
        BY <1>0, <3>1 DEF WikiType
    <2> QED
      BY <2>1, <2>2, <2>3, <2>4, <2>5, FileChanges
  <1>13. ASSUME NEW c \in WikiCalls, DeleteRow(c) PROVE WikiInv'
    <2> DEFINE rows == [PageRows(c) EXCEPT ![wikiCall[c].page] = Gone]
    <2>1. rows \in [Slugs -> Pages] /\ \A p \in Slugs : rows[p] \in {Gone, PageRows(c)[p]}
      <3>1. PageRows(c) \in [Slugs -> Pages] /\ Gone \in Pages
        BY <1>0, TableIs DEF Pages
      <3> QED
        BY <3>1
    <2>2. CommitPages(c, rows) /\ To(c, Ready) /\ UnchangedPageFiles
      BY <1>13 DEF DeleteRow
    <2> HIDE DEF rows
    <2> QED
      BY <2>1, <2>2, RowCommitted
  <1>14. ASSUME NEW c \in WikiCalls, WriteRefused(c) \/ WikiCallDies(c) PROVE WikiInv'
    BY <1>14, CallFails
  <1>15. ASSUME NEW c \in WikiCalls, ReadCached(c) PROVE WikiInv'
    BY <1>15, CachedRead
  <1>16. ASSUME NEW c \in WikiCalls, TxnEnds(c) PROVE WikiInv'
    BY <1>16, TxnEnded
  <1>17. CASE UNCHANGED wikiVars
    BY <1>0, <1>17, NothingRead DEF wikiVars, WikiType
  <1> QED
    BY <1>1, <1>2, <1>3, <1>4, <1>5, <1>6, <1>7, <1>8, <1>9, <1>10, <1>11, <1>12, <1>13, <1>14, <1>15, <1>16, <1>17
    DEF WikiNext

LEMMA WikiInvInit == WikiInit => WikiInv
  <1> SUFFICES ASSUME WikiInit PROVE WikiInv
    OBVIOUS
  <1>1. WikiType
    BY NothingOpen DEF WikiInit, WikiType, Pages, NoPages, Calls
  <1>2. \A c \in WikiCalls : wikiCall[c].op = "none" /\ wikiTxn[c] = Closed
    BY DEF WikiInit, Ready
  <1>3. \A p \in Slugs : pageFile[p] = Gone /\ pageRow[p] = Gone
    BY DEF WikiInit, NoPages
  <1>4. \A p \in Slugs, r \in PageRecords : ~Known(p, r)
    BY <1>2, <1>3, NothingOpen DEF Known
  <1>5. TimesTell
    BY <1>4 DEF TimesTell
  <1> QED
    BY <1>1, <1>2, <1>5 DEF WikiInv, TextsRight, AtStat, ReadRight

\* A read of the wiki returns what the page's file was at some moment since the call began, or
\* what another call committed since (reconcile, _index_page, write_page, delete_page), for any
\* number of calls, pages, edits from outside, old files put back, calls that raise and leave
\* their transaction to the thread, and deaths, unless the file was written between two accesses
\* of one indexing, had two texts with one time, or went away while the call ran.
THEOREM ReadsAreFreshHolds == WikiSpec => []ReadsAreFresh
  <1>1. WikiInv => ReadsAreFresh
    <2> SUFFICES ASSUME WikiInv, NEW c \in WikiCalls, wikiCall[c].op = "read", wikiCall[c].at = "select",
                        wikiCall[c].for \notin blurred,
                        \/ Gone \notin seenSince[c]
                        \/ seenSince[c] = {Gone}
                 PROVE  TextOf(PageRows(c)[wikiCall[c].for]) \in seenSince[c]
      BY DEF ReadsAreFresh
    <2>1. RowSeen(c)
      BY DEF WikiInv, ReadRight
    <2> QED
      BY <2>1 DEF RowSeen, WasThere
  <1> QED
    BY <1>1, WikiInvInit, WikiInvStep, PTL DEF WikiSpec

-----------------------------------------------------------------------------
(* The vectors and the approximate index.                                  *)
\* A thread whose rows are in the table, and one whose rows have no record yet.
Writing(e) == e.at # "embed"
Unmarked(e) == Writing(e) /\ e.added # <<>>

VecShape ==
    /\ fresh \in Nat \ {0} /\ DOMAIN vec \subseteq 1..(fresh - 1)
    /\ \A k \in DOMAIN vec : vec[k].model \in Models
    /\ ann = [s \in Servers |-> ann[s]]
    /\ \A s \in Servers :
          ann[s] = [up |-> ann[s].up, model |-> ann[s].model, index |-> ann[s].index,
                    unsaved |-> ann[s].unsaved]

\* Servers that are up have one model.
OneConfiguration ==
    /\ \A s \in Running : ann[s].model \in Models
    /\ \A r, s \in Running : ann[r].model = ann[s].model

IsThread(e) ==
    /\ e = [by |-> e.by, plan |-> e.plan, at |-> e.at, removed |-> e.removed, added |-> e.added]
    /\ e.by \in Running /\ e.at \in {"embed", "index", "record"}
    /\ e.at = "embed" => DOMAIN e.plan \subseteq Notes /\ DOMAIN e.plan # {}
    /\ e.at = "record" => e.added # <<>>
ThreadShape == \A e \in embeds : IsThread(e)

\* The rows are of the model of the servers that are up, and of the recorded one, or a
\* thread has yet to record it.
ModelKnown ==
    ~unrecorded =>
       \A k \in DOMAIN vec :
          /\ \A s \in Running : vec[k].model = ann[s].model
          /\ vec[k].model = meta \/ \E e \in embeds : Unmarked(e)

\* Rows that do not contradict the table, and never will: their numbers are used up.
Agrees(rows) == \A k \in DOMAIN rows : k \in 1..(fresh - 1) /\ (k \in DOMAIN vec => rows[k] = vec[k])

ThreadAgrees(e) ==
    Writing(e) => /\ Agrees(e.added)
                  /\ \A k \in e.removed : k \in 1..(fresh - 1) /\ k \notin DOMAIN vec
ThreadsAgree == ~raced => \A e \in embeds : ThreadAgrees(e)

IndexesAgree ==
    ~raced /\ ~unrecorded =>
       /\ file \in {NoIndex, Torn} \/ Agrees(file)
       /\ \A s \in Running : ann[s].index = NoIndex \/ Agrees(ann[s].index)

\* While the recorded model is another one than that of the servers, there are no rows, or a
\* thread is about to record it: when the vectors are cleared no index has any.
EmptyUntilRecorded ==
    ~raced /\ ~unrecorded /\ meta # "none" /\ (\A e \in embeds : ~Unmarked(e)) =>
       \A r \in Running : ann[r].model # meta =>
          /\ DOMAIN vec = {}
          /\ file \in {NoIndex, Torn} \/ DOMAIN file = {}
          /\ \A s \in Running : ann[s].index = NoIndex \/ DOMAIN ann[s].index = {}

\* A row of the table is in the index of the server, or one of its threads will put it there.
HasRow(index, k) == k \in DOMAIN index /\ index[k] = vec[k]
ToCome(s, k) == \E e \in embeds : e.by = s /\ e.at = "index" /\ HasRow(e.added, k)
Complete ==
    ~raced => \A s \in Running : ann[s].index # NoIndex /\ s \notin misled =>
                 \A k \in DOMAIN vec : HasRow(ann[s].index, k) \/ ToCome(s, k)

VecInv ==
    /\ VecShape /\ OneConfiguration /\ ThreadShape /\ ModelKnown
    /\ ThreadsAgree /\ IndexesAgree /\ EmptyUntilRecorded /\ Complete

-----------------------------------------------------------------------------
(* The operators on rows.                                                  *)
LEMMA EmptyRows == DOMAIN <<>> = {}
  OBVIOUS

LEMMA RestrictedRows ==
  ASSUME NEW f, NEW S
  PROVE  /\ DOMAIN Restrict(f, S) = S
         /\ \A k \in S : Restrict(f, S)[k] = f[k]
  BY DEF Restrict

\* What an index holds after an update: the new rows, and what was not removed.
IsUpdate(rows, index, gone, new) ==
    /\ DOMAIN rows = DOMAIN new \cup (DOMAIN index \ gone)
    /\ \A k \in DOMAIN new : rows[k] = new[k]
    /\ \A k \in (DOMAIN index \ gone) \ DOMAIN new : rows[k] = index[k]
LEMMA UpdatedRows ==
  ASSUME NEW index, NEW gone, NEW new
  PROVE  IsUpdate(Updated(index, gone, new), index, gone, new)
  BY DEF Updated, IsUpdate

\* Rows are numbered on from the next free number, one for each memory of the plan.
LEMMA RowsOfPlan ==
  ASSUME VecShape, NEW e, DOMAIN e.plan \subseteq Notes
  PROVE  /\ Cardinality(DOMAIN e.plan) \in Nat
         /\ DOMAIN NewRows(e) = fresh..(fresh + Cardinality(DOMAIN e.plan) - 1)
         /\ Cardinality(DOMAIN NewRows(e)) = Cardinality(DOMAIN e.plan)
         /\ \A k \in DOMAIN NewRows(e) : NewRows(e)[k].model = ann[e.by].model
         /\ DOMAIN e.plan # {} => Cardinality(DOMAIN e.plan) # 0
  <1> DEFINE D == DOMAIN e.plan
             n == Cardinality(D)
  <1>1. IsFiniteSet(D)
    BY NotesAndModels, FS_Subset
  <1>2. n \in Nat /\ ExistsBijection(1..n, D)
    BY <1>1, FS_CardinalityType
  <1>3. PICK b \in [1..n -> D] : IsInjective(b)
    BY <1>2 DEF ExistsBijection, Bijection, Injection
  <1>4. SetToSeq(D) \in [1..n -> D]
    BY <1>3 DEF SetToSeq
  <1>5. Len(SetToSeq(D)) = n
    BY <1>2, <1>4
  <1>6. DOMAIN NewRows(e) = fresh..(fresh + n - 1)
    BY <1>5 DEF NewRows
  <1>7. Cardinality(DOMAIN NewRows(e)) = n
    <2>1. fresh \in Int /\ fresh + n - 1 \in Int /\ fresh - 1 <= fresh + n - 1
      BY <1>2 DEF VecShape
    <2>2. Cardinality(fresh..(fresh + n - 1)) = IF fresh > fresh + n - 1 THEN 0 ELSE (fresh + n - 1) - fresh + 1
      BY <2>1, FS_Interval
    <2> QED
      BY <1>2, <1>6, <2>2 DEF VecShape
  <1>8. \A k \in DOMAIN NewRows(e) : NewRows(e)[k].model = ann[e.by].model
    BY DEF NewRows
  <1>9. D # {} => n # 0
    BY <1>1, FS_EmptySet
  <1> QED
    BY <1>2, <1>6, <1>7, <1>8, <1>9

-----------------------------------------------------------------------------
(* Steps that do not clear the table: numbers are not given out twice.     *)
TableKept ==
    /\ fresh' \in Nat /\ fresh <= fresh'
    /\ \A k \in DOMAIN vec' : /\ k \in 1..(fresh' - 1)
                              /\ k < fresh => k \in DOMAIN vec /\ vec'[k] = vec[k]
AgreesNext(rows) ==
    \A k \in DOMAIN rows : k \in 1..(fresh' - 1) /\ (k \in DOMAIN vec' => rows[k] = vec'[k])
ThreadAgreesNext(e) ==
    Writing(e) => /\ AgreesNext(e.added)
                  /\ \A k \in e.removed : k \in 1..(fresh' - 1) /\ k \notin DOMAIN vec'

LEMMA RowsStillAgree ==
  ASSUME VecShape, TableKept, NEW rows, Agrees(rows)
  PROVE  AgreesNext(rows)
  BY DEF VecShape, TableKept, Agrees, AgreesNext

LEMMA ThreadStillAgrees ==
  ASSUME VecShape, TableKept, NEW e, ThreadAgrees(e)
  PROVE  ThreadAgreesNext(e)
  <1>1. Writing(e) => AgreesNext(e.added)
    BY RowsStillAgree DEF ThreadAgrees
  <1>2. Writing(e) => \A k \in e.removed : k \in 1..(fresh' - 1) /\ k \notin DOMAIN vec'
    BY DEF VecShape, TableKept, ThreadAgrees
  <1> QED
    BY <1>1, <1>2 DEF ThreadAgreesNext

LEMMA NoRowsAgree == ASSUME NEW rows, DOMAIN rows = {} PROVE AgreesNext(rows)
  BY DEF AgreesNext

\* The threads agree with the table if the new ones do.
LEMMA ThreadsKept ==
  ASSUME VecInv, TableKept, raced' = raced,
         ~raced => \A e \in embeds' : e \in embeds \/ ThreadAgreesNext(e)
  PROVE  ThreadsAgree'
  <1>1. ~raced => \A e \in embeds' : ThreadAgreesNext(e)
    BY ThreadStillAgrees DEF VecInv, ThreadsAgree
  <1> QED
    BY <1>1 DEF ThreadsAgree, ThreadAgrees, ThreadAgreesNext, Agrees, AgreesNext, Writing

\* The indexes agree with it if the one that has changed does.
LEMMA IndexesKept ==
  ASSUME VecInv, TableKept, raced' = raced, unrecorded' = unrecorded, Running' = Running,
         ~raced /\ ~unrecorded =>
            /\ file' \in {NoIndex, Torn, file} \/ AgreesNext(file')
            /\ \A s \in Running : \/ ann'[s].index \in {NoIndex, ann[s].index}
                                  \/ AgreesNext(ann'[s].index)
  PROVE  IndexesAgree'
  <1> SUFFICES ASSUME ~raced, ~unrecorded
               PROVE  /\ file' \in {NoIndex, Torn} \/ AgreesNext(file')
                      /\ \A s \in Running : ann'[s].index = NoIndex \/ AgreesNext(ann'[s].index)
    BY DEF IndexesAgree, Agrees, AgreesNext
  <1>1. file \in {NoIndex, Torn} \/ AgreesNext(file)
    BY RowsStillAgree DEF VecInv, IndexesAgree
  <1>2. \A s \in Running : ann[s].index = NoIndex \/ AgreesNext(ann[s].index)
    BY RowsStillAgree DEF VecInv, IndexesAgree
  <1> QED
    BY <1>1, <1>2

\* The indexes are not touched.
LEMMA IndexesUntouched ==
  ASSUME VecInv, TableKept, UNCHANGED <<ann, file, raced, unrecorded>>
  PROVE  IndexesAgree' /\ OneConfiguration' /\ Running' = Running
  <1>1. Running' = Running
    BY DEF Running
  <1>2. OneConfiguration'
    BY <1>1 DEF VecInv, OneConfiguration
  <1> QED
    BY <1>1, <1>2, IndexesKept

-----------------------------------------------------------------------------
(* What a server loads.                                                    *)
LEMMA LoadedAgrees ==
  ASSUME VecInv, ~raced, ~unrecorded, NEW s \in Running
  PROVE  Agrees(Loaded(s))
  <1>1. Agrees(vec)
    BY DEF VecInv, VecShape, Agrees
  <1>2. Trusted => Agrees(file)
    BY DEF VecInv, IndexesAgree, Trusted, Readable
  <1>3. ann[s].index # NoIndex => Agrees(ann[s].index)
    BY DEF VecInv, IndexesAgree
  <1> QED
    BY <1>1, <1>2, <1>3 DEF Loaded

LEMMA LoadedComplete ==
  ASSUME VecInv, ~raced, NEW s \in Running, s \notin misled, ~OutOfDate(s),
         NEW k \in DOMAIN vec
  PROVE  HasRow(Loaded(s), k) \/ ToCome(s, k)
  <1>1. CASE ann[s].index # NoIndex
    BY <1>1 DEF VecInv, Complete, Loaded
  <1>2. CASE ann[s].index = NoIndex /\ Trusted
    <2>1. file = vec
      BY <1>2 DEF OutOfDate, Trusted
    <2> QED
      BY <1>2, <2>1 DEF Loaded, HasRow
  <1>3. CASE ann[s].index = NoIndex /\ ~Trusted
    BY <1>3 DEF Loaded, HasRow
  <1> QED
    BY <1>1, <1>2, <1>3

\* Nothing is recorded for the model of the servers: nothing is loaded.
Blank ==
    /\ DOMAIN vec = {}
    /\ file \in {NoIndex, Torn} \/ DOMAIN file = {}
    /\ \A s \in Running : ann[s].index = NoIndex \/ DOMAIN ann[s].index = {}
LEMMA LoadedBlank ==
  ASSUME Blank, NEW s \in Running
  PROVE  DOMAIN Loaded(s) = {}
  BY DEF Blank, Loaded, Trusted, Readable

\* The index of s is now `index', and perhaps the file.
IndexSet(s, index) ==
    /\ ann' = [r \in Servers |-> ann'[r]]
    /\ \A r \in Servers :
          ann'[r] = [up |-> ann'[r].up, model |-> ann'[r].model, index |-> ann'[r].index,
                     unsaved |-> ann'[r].unsaved]
    /\ \A r \in Servers \ {s} : ann'[r] = ann[r]
    /\ ann'[s].up = ann[s].up /\ ann'[s].model = ann[s].model /\ ann'[s].index = index
    /\ file' \in {file, NoIndex, index}

LEMMA AnnSet ==
  ASSUME VecShape, NEW s \in Servers, NEW index, NEW n,
         ann' = [ann EXCEPT ![s].index = index, ![s].unsaved = n], file' \in {file, NoIndex, index}
  PROVE  IndexSet(s, index)
  <1>1. \A r \in Servers \ {s} : ann'[r] = ann[r]
    BY DEF VecShape
  <1>2. ann'[s] = [up |-> ann[s].up, model |-> ann[s].model, index |-> index, unsaved |-> n]
    <2>1. ann'[s] = [[ann[s] EXCEPT !.index = index] EXCEPT !.unsaved = n]
      BY DEF VecShape
    <2>2. ann[s] = [up |-> ann[s].up, model |-> ann[s].model, index |-> ann[s].index,
                    unsaved |-> ann[s].unsaved]
      BY DEF VecShape
    <2> QED
      BY <2>1, <2>2
  <1>3. ann' = [r \in Servers |-> ann'[r]]
    BY DEF VecShape
  <1> QED
    BY <1>1, <1>2, <1>3 DEF IndexSet, VecShape

LEMMA CountedSets ==
  ASSUME VecShape, NEW s \in Servers, NEW index, NEW changes, Counted(s, index, changes)
  PROVE  IndexSet(s, index)
  <1>1. PICK n : /\ ann' = [ann EXCEPT ![s].index = index, ![s].unsaved = n]
                 /\ file' \in {file, NoIndex, index}
    BY DEF Counted, TornGone
  <1> QED
    BY <1>1, AnnSet

LEMMA IndexSetKeeps ==
  ASSUME VecInv, NEW s \in Servers, NEW index, IndexSet(s, index)
  PROVE  Running' = Running /\ OneConfiguration' /\ \A r \in Servers : ann'[r].model = ann[r].model
  <1>1. \A r \in Servers : ann'[r].up = ann[r].up /\ ann'[r].model = ann[r].model
    BY DEF IndexSet
  <1>2. Running' = Running
    BY <1>1 DEF Running
  <1>3. OneConfiguration'
    <2>1. Running \subseteq Servers
      BY DEF Running
    <2> QED
      BY <1>1, <1>2, <2>1 DEF VecInv, OneConfiguration
  <1> QED
    BY <1>1, <1>2, <1>3

-----------------------------------------------------------------------------
(* The parts of the invariant, each over a step that does not clear.       *)
RowNext(rows, k) == k \in DOMAIN rows /\ rows[k] = vec'[k]
ToComeNext(s, k) == \E e \in embeds' : e.by = s /\ e.at = "index" /\ RowNext(e.added, k)
SameRow(k) == k \in DOMAIN vec /\ vec'[k] = vec[k]
UnmarkedNext == \E e \in embeds' : Unmarked(e)
UnmarkedKept == (\E e \in embeds : Unmarked(e)) => UnmarkedNext
SameServers == Running' = Running /\ \A s \in Servers : ann'[s].model = ann[s].model

LEMMA ModelKept ==
  ASSUME VecInv, SameServers, UNCHANGED <<meta, unrecorded>>, UnmarkedKept,
         \A k \in DOMAIN vec' :
            \/ SameRow(k)
            \/ UnmarkedNext /\ \A s \in Running : vec'[k].model = ann[s].model
  PROVE  ModelKnown'
  <1> SUFFICES ASSUME ~unrecorded, NEW k \in DOMAIN vec'
               PROVE  /\ \A s \in Running : vec'[k].model = ann'[s].model
                      /\ vec'[k].model = meta \/ UnmarkedNext
    BY DEF ModelKnown, SameServers, UnmarkedNext, Unmarked, Writing
  <1>0. Running \subseteq Servers
    BY DEF Running
  <1>1. CASE SameRow(k)
    <2>1. /\ \A s \in Running : vec[k].model = ann[s].model
          /\ vec[k].model = meta \/ \E e \in embeds : Unmarked(e)
      BY <1>1 DEF VecInv, ModelKnown, SameRow
    <2> QED
      BY <1>0, <1>1, <2>1 DEF SameRow, SameServers, UnmarkedKept
  <1>2. CASE UnmarkedNext /\ \A s \in Running : vec'[k].model = ann[s].model
    BY <1>0, <1>2 DEF SameServers
  <1> QED
    BY <1>1, <1>2

LEMMA EmptyKept ==
  ASSUME VecInv, SameServers, UNCHANGED <<meta, raced, unrecorded>>, UnmarkedKept,
         Blank /\ ~UnmarkedNext =>
            /\ DOMAIN vec' = {}
            /\ file' \in {NoIndex, Torn} \/ DOMAIN file' = {}
            /\ \A s \in Running : ann'[s].index = NoIndex \/ DOMAIN ann'[s].index = {}
  PROVE  EmptyUntilRecorded'
  <1> SUFFICES ASSUME ~raced, ~unrecorded, meta # "none", ~UnmarkedNext,
                      NEW r \in Running, ann'[r].model # meta
               PROVE  /\ DOMAIN vec' = {}
                      /\ file' \in {NoIndex, Torn} \/ DOMAIN file' = {}
                      /\ \A s \in Running : ann'[s].index = NoIndex \/ DOMAIN ann'[s].index = {}
    BY DEF EmptyUntilRecorded, SameServers, UnmarkedNext, Unmarked, Writing
  <1>1. \A e \in embeds : ~Unmarked(e)
    BY DEF UnmarkedKept
  <1>2. ann[r].model # meta
    BY DEF SameServers, Running
  <1>3. Blank
    BY <1>1, <1>2 DEF VecInv, EmptyUntilRecorded, Blank
  <1> QED
    BY <1>3

\* No index changes, and a row that appears is to come.
LEMMA CompleteKept ==
  ASSUME VecInv, UNCHANGED <<ann, raced>>, misled \subseteq misled',
         \A e \in embeds : e.at = "index" => e \in embeds',
         ~raced => \A s \in Running \ misled', k \in DOMAIN vec' : SameRow(k) \/ ToComeNext(s, k)
  PROVE  Complete'
  <1> SUFFICES ASSUME ~raced, NEW s \in Running, ann[s].index # NoIndex, s \notin misled',
                      NEW k \in DOMAIN vec'
               PROVE  RowNext(ann[s].index, k) \/ ToComeNext(s, k)
    BY DEF Complete, Running, HasRow, ToCome, RowNext, ToComeNext
  <1>1. CASE SameRow(k)
    <2>1. HasRow(ann[s].index, k) \/ ToCome(s, k)
      BY <1>1 DEF VecInv, Complete, SameRow
    <2>2. CASE HasRow(ann[s].index, k)
      BY <1>1, <2>2 DEF HasRow, RowNext, SameRow
    <2>3. CASE ToCome(s, k)
      BY <1>1, <2>3 DEF ToCome, ToComeNext, HasRow, RowNext, SameRow
    <2> QED
      BY <2>1, <2>2, <2>3
  <1> QED
    BY <1>1

\* One index is set.
LEMMA CompleteSet ==
  ASSUME VecInv, NEW s \in Servers, NEW index, IndexSet(s, index), raced' = raced,
         \A r \in Running \ {s} : r \notin misled' =>
            /\ r \notin misled /\ vec' = vec
            /\ \A e \in embeds : e.by = r => e \in embeds',
         ~raced /\ s \in Running /\ s \notin misled' =>
            \A k \in DOMAIN vec' : RowNext(index, k) \/ ToComeNext(s, k)
  PROVE  Complete'
  <1>0. Running' = Running
    BY IndexSetKeeps
  <1> SUFFICES ASSUME ~raced, NEW r \in Running, ann'[r].index # NoIndex, r \notin misled',
                      NEW k \in DOMAIN vec'
               PROVE  RowNext(ann'[r].index, k) \/ ToComeNext(r, k)
    BY <1>0 DEF Complete, HasRow, ToCome, RowNext, ToComeNext
  <1>1. CASE r = s
    BY <1>1 DEF IndexSet
  <1>2. CASE r # s
    <2>1. vec' = vec /\ r \notin misled /\ ann'[r] = ann[r]
      BY <1>2 DEF IndexSet, Running
    <2>2. HasRow(ann[r].index, k) \/ ToCome(r, k)
      BY <2>1 DEF VecInv, Complete
    <2>3. CASE HasRow(ann[r].index, k)
      BY <2>1, <2>3 DEF HasRow, RowNext
    <2>4. CASE ToCome(r, k)
      BY <1>2, <2>1, <2>4 DEF ToCome, ToComeNext, HasRow, RowNext
    <2> QED
      BY <2>2, <2>3, <2>4
  <1> QED
    BY <1>1, <1>2

\* A step that leaves the table or takes rows from it.
LEMMA FewerRows ==
  ASSUME VecShape, fresh' = fresh, DOMAIN vec' \subseteq DOMAIN vec,
         \A k \in DOMAIN vec' : vec'[k] = vec[k]
  PROVE  TableKept /\ \A k \in DOMAIN vec' : SameRow(k) /\ vec'[k].model \in Models
  BY DEF VecShape, TableKept, SameRow

\* What a thread becomes.
IsRecord(e) ==
    e = [by |-> e.by, plan |-> e.plan, at |-> e.at, removed |-> e.removed, added |-> e.added]
LEMMA RemoverMade ==
  ASSUME NEW e, IsRecord(e), NEW gone
  PROVE  [e EXCEPT !.at = "index", !.removed = gone]
           = [by |-> e.by, plan |-> e.plan, at |-> "index", removed |-> gone, added |-> e.added]
  <1>1. PICK f : f = [e EXCEPT !.at = "index"]
    OBVIOUS
  <1>2. f = [by |-> e.by, plan |-> e.plan, at |-> "index", removed |-> e.removed, added |-> e.added]
    BY <1>1 DEF IsRecord
  <1>3. [f EXCEPT !.removed = gone]
          = [by |-> e.by, plan |-> e.plan, at |-> "index", removed |-> gone, added |-> e.added]
    BY <1>2
  <1> QED
    BY <1>1, <1>3
LEMMA IndexerMade ==
  ASSUME NEW e, IsRecord(e), NEW gone, NEW new
  PROVE  [e EXCEPT !.at = "index", !.removed = gone, !.added = new]
           = [by |-> e.by, plan |-> e.plan, at |-> "index", removed |-> gone, added |-> new]
  <1>1. PICK f : f = [e EXCEPT !.at = "index", !.removed = gone]
    OBVIOUS
  <1>2. f = [by |-> e.by, plan |-> e.plan, at |-> "index", removed |-> gone, added |-> e.added]
    BY <1>1, RemoverMade
  <1>3. [f EXCEPT !.added = new]
          = [by |-> e.by, plan |-> e.plan, at |-> "index", removed |-> gone, added |-> new]
    BY <1>2
  <1> QED
    BY <1>1, <1>3
LEMMA RecorderMade ==
  ASSUME NEW e, IsRecord(e)
  PROVE  [e EXCEPT !.at = "record"]
           = [by |-> e.by, plan |-> e.plan, at |-> "record", removed |-> e.removed, added |-> e.added]
  BY DEF IsRecord

-----------------------------------------------------------------------------
(* The writes and the threads.                                             *)
LEMMA SaveTextKeeps ==
  ASSUME VecInv, NEW s \in Servers, NEW m \in Notes, SaveText(s, m)
  PROVE  VecInv'
  <1> DEFINE t == Embedding(s, [x \in {m} |-> edits + 1])
  <1>0. /\ UNCHANGED <<vec, fresh, meta, ann, file, unrecorded, raced, misled>>
        /\ embeds' = embeds \cup {t} /\ s \in Running
    BY DEF SaveText, Running
  <1>1. TableKept /\ \A k \in DOMAIN vec' : SameRow(k) /\ vec'[k].model \in Models
    BY <1>0, FewerRows DEF VecInv
  <1>2. IndexesAgree' /\ OneConfiguration' /\ Running' = Running
    BY <1>0, <1>1, IndexesUntouched
  <1>3. t.at = "embed" /\ IsThread(t)
    BY <1>0 DEF Embedding, IsThread
  <1> HIDE DEF t
  <1>4. ThreadShape'
    <2>1. \A e \in embeds' : IsThread(e)
      BY <1>0, <1>3 DEF VecInv, ThreadShape
    <2> QED
      BY <1>2, <2>1 DEF ThreadShape, IsThread
  <1>5. ThreadsAgree'
    BY <1>0, <1>1, <1>3, ThreadsKept DEF ThreadAgreesNext, Writing
  <1>6. SameServers /\ UnmarkedKept
    BY <1>0, <1>2 DEF SameServers, UnmarkedKept, UnmarkedNext
  <1>7. ModelKnown'
    BY <1>0, <1>1, <1>6, ModelKept
  <1>8. EmptyUntilRecorded'
    BY <1>0, <1>6, EmptyKept DEF Blank
  <1>9. Complete'
    BY <1>0, <1>1, CompleteKept
  <1>10. VecShape'
    BY <1>0 DEF VecInv, VecShape
  <1> QED
    BY <1>2, <1>4, <1>5, <1>7, <1>8, <1>9, <1>10 DEF VecInv

LEMMA DeleteNoteKeeps ==
  ASSUME VecInv, NEW s \in Servers, NEW m \in Notes, DeleteNote(s, m)
  PROVE  VecInv'
  <1> DEFINE rows == RowsOf(vec, {m})
             t == [Embedding(s, <<>>) EXCEPT !.at = "index", !.removed = rows]
  <1>0. /\ UNCHANGED <<fresh, meta, ann, file, unrecorded, raced>> /\ s \in Running
        /\ vec' = Restrict(vec, DOMAIN vec \ rows) /\ misled \subseteq misled'
        /\ embeds' = embeds \/ embeds' = embeds \cup {t}
    BY DEF DeleteNote, Running
  <1>1. DOMAIN vec' = DOMAIN vec \ rows /\ \A k \in DOMAIN vec' : vec'[k] = vec[k]
    BY <1>0, RestrictedRows
  <1>2. TableKept /\ \A k \in DOMAIN vec' : SameRow(k) /\ vec'[k].model \in Models
    BY <1>0, <1>1, FewerRows DEF VecInv
  <1>3. IndexesAgree' /\ OneConfiguration' /\ Running' = Running
    BY <1>0, <1>2, IndexesUntouched
  <1>4. t = [by |-> s, plan |-> <<>>, at |-> "index", removed |-> rows, added |-> <<>>]
    <2>1. PICK u : u = Embedding(s, <<>>)
      OBVIOUS
    <2>2. /\ u = [by |-> u.by, plan |-> u.plan, at |-> u.at, removed |-> u.removed, added |-> u.added]
          /\ u.by = s /\ u.plan = <<>> /\ u.added = <<>>
      BY <2>1 DEF Embedding
    <2> HIDE DEF rows
    <2>3. IsRecord(u)
      BY <2>2 DEF IsRecord
    <2>4. t = [u EXCEPT !.at = "index", !.removed = rows]
      BY <2>1
    <2> HIDE DEF t
    <2>5. t = [by |-> u.by, plan |-> u.plan, at |-> "index", removed |-> rows, added |-> u.added]
      BY <2>3, <2>4, RemoverMade
    <2> QED
      BY <2>2, <2>5
  <1>5. IsThread(t) /\ t.removed = rows /\ t.added = <<>>
    BY <1>0, <1>4 DEF IsThread
  <1>6. ThreadAgreesNext(t)
    <2>1. AgreesNext(t.added)
      BY <1>5, EmptyRows, NoRowsAgree
    <2>2. rows \subseteq DOMAIN vec
      BY DEF RowsOf
    <2>3. \A k \in t.removed : k \in 1..(fresh' - 1) /\ k \notin DOMAIN vec'
      BY <1>0, <1>1, <1>5, <2>2 DEF VecInv, VecShape
    <2> QED
      BY <2>1, <2>3 DEF ThreadAgreesNext
  <1> HIDE DEF t, rows
  <1>7. ThreadShape'
    <2>1. \A e \in embeds' : IsThread(e)
      BY <1>0, <1>5 DEF VecInv, ThreadShape
    <2> QED
      BY <1>3, <2>1 DEF ThreadShape, IsThread
  <1>8. ThreadsAgree'
    BY <1>0, <1>2, <1>6, ThreadsKept
  <1>9. SameServers /\ UnmarkedKept
    BY <1>0, <1>3 DEF SameServers, UnmarkedKept, UnmarkedNext
  <1>10. ModelKnown'
    BY <1>0, <1>2, <1>9, ModelKept
  <1>11. EmptyUntilRecorded'
    <2>1. Blank => DOMAIN vec' = {}
      BY <1>1 DEF Blank
    <2> QED
      BY <1>0, <1>9, <2>1, EmptyKept DEF Blank
  <1>12. Complete'
    BY <1>0, <1>2, CompleteKept
  <1>13. VecShape'
    BY <1>0, <1>1, <1>2 DEF VecInv, VecShape
  <1> QED
    BY <1>3, <1>7, <1>8, <1>10, <1>11, <1>12, <1>13 DEF VecInv

\* A reindex that takes rows away, or does not.
LEMMA ReindexKeeps ==
  ASSUME VecInv, NEW s \in Servers, Reindex(s)
  PROVE  VecInv'
  <1> DEFINE orphans == {k \in DOMAIN vec : text[vec[k].of] = 0}
             missing == {m \in Notes : text[m] # 0 /\ RowsOf(vec, {m}) = {}}
             t == Embedding(s, [m \in missing |-> text[m]])
             new == Updated(Loaded(s), orphans, <<>>)
  <1>0. /\ UNCHANGED <<fresh, meta, unrecorded, raced>> /\ s \in Running
        /\ vec' = Restrict(vec, DOMAIN vec \ orphans)
        /\ misled' = misled \cup (IF orphans = {} THEN {} ELSE Misled(s))
    BY DEF Reindex, Running
  <1>1. IF missing = {} THEN embeds' = embeds ELSE embeds' = embeds \cup {t}
    BY DEF Reindex
  <1>2. IF orphans = {} THEN UNCHANGED <<ann, file>> ELSE Counted(s, new, Cardinality(orphans))
    BY DEF Reindex
  <1>3. orphans = {} \/ IndexSet(s, new)
    BY <1>2, CountedSets DEF VecInv
  <1>4. DOMAIN vec' = DOMAIN vec \ orphans /\ \A k \in DOMAIN vec' : vec'[k] = vec[k]
    BY <1>0, RestrictedRows
  <1>5. missing # {} => IsThread(t) /\ t.at = "embed"
    BY <1>0 DEF IsThread, Embedding
  <1>6. /\ DOMAIN new = DOMAIN Loaded(s) \ orphans
        /\ \A k \in DOMAIN new : new[k] = Loaded(s)[k]
    <2> HIDE DEF orphans
    <2>1. IsUpdate(new, Loaded(s), orphans, <<>>)
      BY UpdatedRows
    <2> HIDE DEF new
    <2> QED
      BY <2>1, EmptyRows DEF IsUpdate
  <1> HIDE DEF t, new, orphans, missing
  <1>7. TableKept /\ \A k \in DOMAIN vec' : SameRow(k) /\ vec'[k].model \in Models
    BY <1>0, <1>4, FewerRows DEF VecInv
  <1>8. /\ OneConfiguration' /\ SameServers
        /\ ann' = [r \in Servers |-> ann'[r]]
        /\ \A r \in Servers :
              ann'[r] = [up |-> ann'[r].up, model |-> ann'[r].model, index |-> ann'[r].index,
                         unsaved |-> ann'[r].unsaved]
    <2>1. CASE orphans = {}
      <3>1. ann' = ann /\ file' = file
        BY <1>2, <2>1
      <3>2. OneConfiguration' /\ Running' = Running
        BY <1>0, <1>7, <3>1, IndexesUntouched
      <3> QED
        BY <3>1, <3>2 DEF VecInv, VecShape, SameServers
    <2>2. CASE IndexSet(s, new)
      BY <2>2, IndexSetKeeps DEF IndexSet, SameServers
    <2> QED
      BY <1>3, <2>1, <2>2
  <1>9. VecShape'
    BY <1>0, <1>4, <1>7, <1>8 DEF VecInv, VecShape
  <1>10. ThreadShape'
    <2>1. \A e \in embeds' : IsThread(e)
      BY <1>1, <1>5 DEF VecInv, ThreadShape
    <2> QED
      BY <1>8, <2>1 DEF ThreadShape, IsThread, SameServers
  <1>11. ThreadsAgree'
    <2>1. \A e \in embeds' : e \in embeds \/ ThreadAgreesNext(e)
      BY <1>1, <1>5 DEF ThreadAgreesNext, Writing
    <2> QED
      BY <1>0, <1>7, <2>1, ThreadsKept
  <1>12. UnmarkedKept /\ \A e \in embeds : e \in embeds'
    BY <1>1 DEF UnmarkedKept, UnmarkedNext
  <1>13. ModelKnown'
    BY <1>0, <1>7, <1>8, <1>12, ModelKept
  <1>14. IndexesAgree'
    <2>1. CASE orphans = {}
      BY <1>0, <1>2, <1>7, <2>1, IndexesUntouched
    <2>2. CASE IndexSet(s, new)
      <3>1. ~raced /\ ~unrecorded => AgreesNext(new)
        <4> SUFFICES ASSUME ~raced, ~unrecorded PROVE AgreesNext(new)
          OBVIOUS
        <4>1. AgreesNext(Loaded(s))
          BY <1>0, <1>7, LoadedAgrees, RowsStillAgree DEF VecInv
        <4> QED
          BY <1>6, <4>1 DEF AgreesNext
      <3>2. /\ file' \in {NoIndex, Torn, file} \/ file' = new
            /\ \A r \in Running : ann'[r].index \in {NoIndex, ann[r].index} \/ ann'[r].index = new
        BY <2>2 DEF IndexSet, Running
      <3>3. Running' = Running
        BY <1>8 DEF SameServers
      <3> QED
        BY <1>0, <1>7, <3>1, <3>2, <3>3, IndexesKept
    <2> QED
      BY <1>3, <2>1, <2>2
  <1>15. EmptyUntilRecorded'
    <2>1. Blank => DOMAIN vec' = {}
      BY <1>4 DEF Blank
    <2>2. CASE orphans = {}
      BY <1>0, <1>2, <1>8, <1>12, <2>1, <2>2, EmptyKept DEF Blank
    <2>3. CASE IndexSet(s, new)
      <3>1. Blank => DOMAIN new = {}
        BY <1>0, <1>6, LoadedBlank
      <3>2. Blank => /\ file' \in {NoIndex, Torn} \/ DOMAIN file' = {}
                     /\ \A r \in Running : ann'[r].index = NoIndex \/ DOMAIN ann'[r].index = {}
        BY <2>3, <3>1 DEF Blank, IndexSet, Running
      <3> QED
        BY <1>0, <1>8, <1>12, <2>1, <3>2, EmptyKept
    <2> QED
      BY <1>3, <2>2, <2>3
  <1>16. Complete'
    <2>1. CASE orphans = {}
      BY <1>0, <1>2, <1>7, <1>12, <2>1, CompleteKept
    <2>2. CASE orphans # {}
      <3>1. IndexSet(s, new) /\ misled' = misled \cup Misled(s)
        BY <1>0, <1>3, <2>2
      <3>2. \A r \in Running \ {s} : r \in misled'
        BY <3>1 DEF Misled, Running
      <3>3. ASSUME ~raced, s \notin misled', NEW k \in DOMAIN vec'
            PROVE  RowNext(new, k) \/ ToComeNext(s, k)
        <4>1. k \in DOMAIN vec /\ k \notin orphans /\ vec'[k] = vec[k]
          BY <1>4, <3>3
        <4>2. s \notin misled /\ ~OutOfDate(s)
          BY <3>1, <3>3 DEF Misled
        <4>3. HasRow(Loaded(s), k) \/ ToCome(s, k)
          BY <1>0, <3>3, <4>1, <4>2, LoadedComplete
        <4>4. HasRow(Loaded(s), k) => RowNext(new, k)
          BY <1>6, <4>1 DEF HasRow, RowNext
        <4>5. ToCome(s, k) => ToComeNext(s, k)
          BY <1>12, <4>1 DEF ToCome, ToComeNext, HasRow, RowNext
        <4> QED
          BY <4>3, <4>4, <4>5
      <3> QED
        BY <1>0, <3>1, <3>2, <3>3, CompleteSet
    <2> QED
      BY <2>1, <2>2
  <1> QED
    BY <1>8, <1>9, <1>10, <1>11, <1>13, <1>14, <1>15, <1>16 DEF VecInv

LEMMA StoreRowsKeeps ==
  ASSUME VecInv, NEW e \in embeds, StoreRows(e)
  PROVE  VecInv'
  <1> DEFINE old == RowsOf(vec, DOMAIN e.plan)
             new == NewRows(e)
             n == Cardinality(DOMAIN e.plan)
             t == [e EXCEPT !.at = "index", !.removed = old, !.added = new]
  <1>0. /\ UNCHANGED <<meta, ann, file, unrecorded, raced>>
        /\ e.at = "embed" /\ vec' = Updated(vec, old, new)
        /\ fresh' = fresh + Cardinality(DOMAIN new)
        /\ embeds' = (embeds \ {e}) \cup {t}
        /\ misled' = misled \cup (Servers \ {e.by})
    BY DEF StoreRows
  <1>1. IsThread(e) /\ e.by \in Running
    BY DEF VecInv, ThreadShape, IsThread
  <1>2. DOMAIN e.plan \subseteq Notes /\ DOMAIN e.plan # {}
    BY <1>0, <1>1 DEF IsThread
  <1>3. /\ n \in Nat \ {0} /\ DOMAIN new = fresh..(fresh + n - 1)
        /\ Cardinality(DOMAIN new) = n
        /\ \A k \in DOMAIN new : new[k].model = ann[e.by].model
    BY <1>2, RowsOfPlan DEF VecInv
  <1>4. t = [by |-> e.by, plan |-> e.plan, at |-> "index", removed |-> old, added |-> new]
    <2> HIDE DEF old, new, t
    <2>1. t = [e EXCEPT !.at = "index", !.removed = old, !.added = new]
      BY DEF t
    <2>2. IsRecord(e)
      BY <1>1 DEF IsThread, IsRecord
    <2> QED
      BY <2>1, <2>2, IndexerMade
  <1>5. t.by = e.by /\ t.at = "index" /\ t.removed = old /\ t.added = new
    BY <1>4
  <1>6. old \subseteq DOMAIN vec
    BY DEF RowsOf
  <1> HIDE DEF t, new, old, n
  <1>7. fresh \in Nat \ {0} /\ fresh' = fresh + n /\ DOMAIN vec \subseteq 1..(fresh - 1)
    BY <1>0, <1>3 DEF VecInv, VecShape
  <1>8. /\ DOMAIN vec' = DOMAIN new \cup (DOMAIN vec \ old)
        /\ \A k \in DOMAIN new : vec'[k] = new[k]
        /\ \A k \in (DOMAIN vec \ old) \ DOMAIN new : vec'[k] = vec[k]
    <2>1. IsUpdate(vec', vec, old, new)
      BY <1>0, UpdatedRows
    <2> QED
      BY <2>1 DEF IsUpdate
  <1>9. \A k \in DOMAIN vec' : SameRow(k) \/ (k \in DOMAIN new /\ vec'[k] = new[k])
    BY <1>8 DEF SameRow
  <1>10. \A k \in DOMAIN new : fresh <= k /\ k \in 1..(fresh' - 1)
    BY <1>3, <1>7
  <1>11. TableKept
    <2>1. \A k \in DOMAIN vec' : k \in 1..(fresh' - 1)
      BY <1>3, <1>7, <1>8, <1>10
    <2>2. \A k \in DOMAIN vec' : k < fresh => SameRow(k)
      BY <1>3, <1>7, <1>9, <1>10
    <2> QED
      BY <1>3, <1>7, <2>1, <2>2 DEF TableKept, SameRow
  <1>12. IndexesAgree' /\ OneConfiguration' /\ Running' = Running
    BY <1>0, <1>11, IndexesUntouched
  <1>13. t.added # <<>>
    BY <1>3, <1>5, <1>7, EmptyRows
  <1>14. IsThread(t)
    BY <1>1, <1>4, <1>13 DEF IsThread
  <1>15. ThreadAgreesNext(t)
    <2>1. AgreesNext(new)
      BY <1>8, <1>10 DEF AgreesNext
    <2>2. \A k \in old : k \in 1..(fresh' - 1) /\ k \notin DOMAIN vec'
      BY <1>3, <1>6, <1>7, <1>8, <1>10
    <2> QED
      BY <1>5, <2>1, <2>2 DEF ThreadAgreesNext
  <1>16. VecShape'
    <2>1. \A k \in DOMAIN vec' : vec'[k].model \in Models
      <3>1. ann[e.by].model \in Models
        BY <1>1 DEF VecInv, OneConfiguration
      <3> QED
        BY <1>3, <1>9, <3>1 DEF SameRow, VecInv, VecShape
    <2>2. fresh' \in Nat \ {0} /\ DOMAIN vec' \subseteq 1..(fresh' - 1)
      BY <1>3, <1>7, <1>11 DEF TableKept
    <2> QED
      BY <1>0, <2>1, <2>2 DEF VecInv, VecShape
  <1>17. ThreadShape'
    <2>1. \A x \in embeds' : IsThread(x)
      BY <1>0, <1>14 DEF VecInv, ThreadShape
    <2> QED
      BY <1>12, <2>1 DEF ThreadShape, IsThread
  <1>18. ThreadsAgree'
    BY <1>0, <1>11, <1>15, ThreadsKept
  <1>19. UnmarkedNext
    BY <1>0, <1>5, <1>13 DEF UnmarkedNext, Unmarked, Writing
  <1>20. SameServers /\ UnmarkedKept
    BY <1>0, <1>12, <1>19 DEF SameServers, UnmarkedKept
  <1>21. ModelKnown'
    <2>1. \A k \in DOMAIN new, s \in Running : new[k].model = ann[s].model
      BY <1>1, <1>3 DEF VecInv, OneConfiguration
    <2> QED
      BY <1>0, <1>9, <1>19, <1>20, <2>1, ModelKept
  <1>22. EmptyUntilRecorded'
    BY <1>0, <1>19, <1>20, EmptyKept
  <1>23. Complete'
    <2>1. \A x \in embeds : x.at = "index" => x \in embeds'
      BY <1>0
    <2>2. \A s \in Running \ misled' : s = e.by
      BY <1>0 DEF Running
    <2>3. \A k \in DOMAIN new : vec'[k] = new[k] => ToComeNext(e.by, k)
      BY <1>0, <1>5 DEF ToComeNext, RowNext
    <2>4. \A s \in Running \ misled', k \in DOMAIN vec' : SameRow(k) \/ ToComeNext(s, k)
      BY <1>9, <2>2, <2>3
    <2> QED
      BY <1>0, <2>1, <2>4, CompleteKept
  <1> QED
    BY <1>12, <1>16, <1>17, <1>18, <1>21, <1>22, <1>23 DEF VecInv

\* A thread that is at its beginning or at its end goes.
LEMMA ThreadGoes ==
  ASSUME VecInv, NEW e \in embeds, e.at # "index", embeds' = embeds \ {e},
         UNCHANGED <<vec, fresh, ann, file, unrecorded, raced, misled>>,
         UNCHANGED meta \/ (meta' = ann[e.by].model /\ e.at = "record"),
         e.at = "record" => meta' = ann[e.by].model
  PROVE  VecInv'
  <1>1. TableKept /\ \A k \in DOMAIN vec' : SameRow(k) /\ vec'[k].model \in Models
    BY FewerRows DEF VecInv
  <1>2. IndexesAgree' /\ OneConfiguration' /\ Running' = Running
    BY <1>1, IndexesUntouched
  <1>3. VecShape'
    BY DEF VecInv, VecShape
  <1>4. ThreadShape'
    <2>1. \A x \in embeds' : IsThread(x)
      BY DEF VecInv, ThreadShape
    <2> QED
      BY <1>2, <2>1 DEF ThreadShape, IsThread
  <1>5. ThreadsAgree'
    BY <1>1, ThreadsKept
  <1>6. Complete'
    BY <1>1, CompleteKept
  <1>7. SameServers
    BY <1>2 DEF SameServers
  <1>8. IsThread(e)
    BY DEF VecInv, ThreadShape
  <1>9. ModelKnown' /\ EmptyUntilRecorded'
    <2>1. CASE e.at = "record"
      <3>1. meta' = ann[e.by].model /\ e.by \in Running
        BY <1>8, <2>1 DEF IsThread
      <3>2. \A s \in Running : ann[s].model = meta'
        BY <3>1 DEF VecInv, OneConfiguration
      <3>3. \A s \in Running' : ann'[s].model = meta'
        BY <1>2, <3>2
      <3>4. ~unrecorded => \A k \in DOMAIN vec : \A s \in Running : vec[k].model = ann[s].model
        BY DEF VecInv, ModelKnown
      <3>5. ~unrecorded => \A k \in DOMAIN vec : vec[k].model = meta'
        BY <3>1, <3>4
      <3>6. ModelKnown'
        BY <1>2, <3>4, <3>5 DEF ModelKnown
      <3>7. EmptyUntilRecorded'
        BY <3>3 DEF EmptyUntilRecorded
      <3> QED
        BY <3>6, <3>7
    <2>2. CASE e.at = "embed"
      <3>1. UnmarkedKept
        BY <2>2 DEF UnmarkedKept, UnmarkedNext, Unmarked, Writing
      <3>2. meta' = meta
        BY <2>2
      <3>3. ModelKnown'
        BY <1>1, <1>7, <3>1, <3>2, ModelKept
      <3>4. EmptyUntilRecorded'
        BY <1>7, <3>1, <3>2, EmptyKept DEF Blank
      <3> QED
        BY <3>3, <3>4
    <2> QED
      BY <1>8, <2>1, <2>2 DEF IsThread
  <1> QED
    BY <1>2, <1>3, <1>4, <1>5, <1>6, <1>9 DEF VecInv

LEMMA EmbedFailsKeeps == ASSUME VecInv, NEW e \in embeds, EmbedFails(e) PROVE VecInv'
  BY ThreadGoes DEF EmbedFails
LEMMA RecordKeeps == ASSUME VecInv, NEW e \in embeds, Record(e) PROVE VecInv'
  BY ThreadGoes DEF Record

\* A server sets its index to rows that agree, from what it loads; the table stays.
LEMMA IndexingKeeps ==
  ASSUME VecInv, NEW s \in Running, NEW index, IndexSet(s, index),
         UNCHANGED <<vec, fresh, meta, unrecorded, raced>>, misled \subseteq misled',
         \A x \in embeds' : IsThread(x) /\ (~raced => x \in embeds \/ ThreadAgreesNext(x)),
         \A x \in embeds : x.by # s => x \in embeds',
         UnmarkedKept,
         ~raced /\ ~unrecorded => AgreesNext(index),
         Blank /\ ~UnmarkedNext => DOMAIN index = {},
         ~raced /\ s \notin misled' => \A k \in DOMAIN vec' : RowNext(index, k) \/ ToComeNext(s, k)
  PROVE  VecInv'
  <1>1. TableKept /\ \A k \in DOMAIN vec' : SameRow(k) /\ vec'[k].model \in Models
    BY FewerRows DEF VecInv
  <1>2. s \in Servers
    BY DEF Running
  <1>3. OneConfiguration' /\ SameServers
    BY <1>2, IndexSetKeeps DEF SameServers
  <1>4. VecShape'
    BY DEF VecInv, VecShape, IndexSet
  <1>5. ThreadShape'
    BY <1>3 DEF ThreadShape, IsThread, SameServers
  <1>6. ThreadsAgree'
    BY <1>1, ThreadsKept
  <1>7. /\ file' \in {NoIndex, Torn, file} \/ file' = index
        /\ \A r \in Running : ann'[r].index \in {NoIndex, ann[r].index} \/ ann'[r].index = index
    BY DEF IndexSet, Running
  <1>8. IndexesAgree'
    BY <1>1, <1>3, <1>7, IndexesKept DEF SameServers
  <1>9. ModelKnown'
    BY <1>1, <1>3, ModelKept
  <1>10. EmptyUntilRecorded'
    <2>1. Blank /\ ~UnmarkedNext =>
            /\ file' \in {NoIndex, Torn} \/ DOMAIN file' = {}
            /\ \A r \in Running : ann'[r].index = NoIndex \/ DOMAIN ann'[r].index = {}
      BY <1>7 DEF Blank
    <2> QED
      BY <1>3, <2>1, EmptyKept DEF Blank
  <1>11. Complete'
    BY <1>2, CompleteSet
  <1> QED
    BY <1>3, <1>4, <1>5, <1>6, <1>8, <1>9, <1>10, <1>11 DEF VecInv

LEMMA SearchVectorsKeeps ==
  ASSUME VecInv, NEW s \in Servers, SearchVectors(s)
  PROVE  VecInv'
  <1> DEFINE index == Loaded(s)
  <1>0. /\ s \in Running /\ UNCHANGED <<vec, fresh, meta, embeds, unrecorded, raced>>
        /\ ann' = [ann EXCEPT ![s].index = index, ![s].unsaved = 0]
        /\ file' \in {file, NoIndex}
        /\ misled' = misled \cup (IF OutOfDate(s) THEN {s} ELSE {})
    BY DEF SearchVectors, Running, TornGone
  <1>1. IndexSet(s, index)
    <2> HIDE DEF index
    <2> QED
      BY <1>0, AnnSet DEF VecInv
  <1>2. \A x \in embeds : IsThread(x)
    BY DEF VecInv, ThreadShape
  <1>3. UnmarkedKept
    BY <1>0 DEF UnmarkedKept, UnmarkedNext
  <1>4. ~raced /\ ~unrecorded => AgreesNext(index)
    <2> SUFFICES ASSUME ~raced, ~unrecorded PROVE AgreesNext(index)
      OBVIOUS
    <2>1. Agrees(index)
      BY <1>0, LoadedAgrees
    <2> QED
      BY <1>0, <2>1 DEF Agrees, AgreesNext
  <1>5. Blank => DOMAIN index = {}
    BY <1>0, LoadedBlank
  <1>6. ASSUME ~raced, s \notin misled', NEW k \in DOMAIN vec'
        PROVE  RowNext(index, k) \/ ToComeNext(s, k)
    <2>1. HasRow(index, k) \/ ToCome(s, k)
      BY <1>0, <1>6, LoadedComplete
    <2> QED
      BY <1>0, <2>1 DEF HasRow, ToCome, RowNext, ToComeNext
  <1> HIDE DEF index
  <1> QED
    BY <1>0, <1>1, <1>2, <1>3, <1>4, <1>5, <1>6, IndexingKeeps

LEMMA IndexRowsKeeps ==
  ASSUME VecInv, NEW e \in embeds, IndexRows(e)
  PROVE  VecInv'
  <1> DEFINE s == e.by
             index == Updated(Loaded(s), e.removed, e.added)
             t == [e EXCEPT !.at = "record"]
             changes == Cardinality(e.removed) + Cardinality(DOMAIN e.added)
  <1>0. /\ e.at = "index" /\ Counted(s, index, changes)
        /\ embeds' = (embeds \ {e}) \cup (IF e.added = <<>> THEN {} ELSE {t})
        /\ misled' = misled \cup (IF OutOfDate(s) THEN {s} ELSE {})
        /\ UNCHANGED <<vec, fresh, meta, unrecorded, raced>>
    BY DEF IndexRows
  <1>1. IsThread(e) /\ s \in Running /\ s \in Servers
    BY DEF VecInv, ThreadShape, IsThread, Running
  <1>2. IndexSet(s, index)
    <2> HIDE DEF index, changes, s
    <2> QED
      BY <1>0, <1>1, CountedSets DEF VecInv
  <1>3. IsUpdate(index, Loaded(s), e.removed, e.added)
    BY UpdatedRows
  <1>4. t = [by |-> e.by, plan |-> e.plan, at |-> "record", removed |-> e.removed, added |-> e.added]
    BY <1>1, RecorderMade DEF IsThread, IsRecord
  <1>5. t.by = s /\ t.at = "record" /\ t.removed = e.removed /\ t.added = e.added
    BY <1>4
  <1> HIDE DEF t, index, changes, s
  <1>6. e.added # <<>> => IsThread(t)
    BY <1>1, <1>4 DEF IsThread, s
  <1>7. ~raced => ThreadAgrees(e)
    BY DEF VecInv, ThreadsAgree
  <1>8. ~raced => /\ AgreesNext(e.added)
                  /\ \A k \in e.removed : k \in 1..(fresh' - 1) /\ k \notin DOMAIN vec'
    BY <1>0, <1>7 DEF ThreadAgrees, Writing, Agrees, AgreesNext
  <1>9. ~raced => ThreadAgreesNext(t)
    BY <1>5, <1>8 DEF ThreadAgreesNext
  <1>10. \A x \in embeds' : IsThread(x) /\ (~raced => x \in embeds \/ ThreadAgreesNext(x))
    <2>1. \A x \in embeds : IsThread(x)
      BY DEF VecInv, ThreadShape
    <2> QED
      BY <1>0, <1>6, <1>9, <2>1
  <1>11. \A x \in embeds : x # e => x \in embeds'
    BY <1>0
  <1>12. UnmarkedKept
    <2>1. Unmarked(e) => t \in embeds' /\ Unmarked(t)
      BY <1>0, <1>5 DEF Unmarked, Writing
    <2> QED
      BY <1>11, <2>1 DEF UnmarkedKept, UnmarkedNext
  <1>13. ~raced /\ ~unrecorded => AgreesNext(index)
    <2> SUFFICES ASSUME ~raced, ~unrecorded PROVE AgreesNext(index)
      OBVIOUS
    <2>1. Agrees(Loaded(s))
      BY <1>1, LoadedAgrees
    <2>2. AgreesNext(Loaded(s))
      BY <1>0, <2>1 DEF Agrees, AgreesNext
    <2> QED
      BY <1>3, <1>8, <2>2 DEF AgreesNext, IsUpdate
  <1>14. Blank /\ ~UnmarkedNext => DOMAIN index = {}
    <2> SUFFICES ASSUME Blank, ~UnmarkedNext PROVE DOMAIN index = {}
      OBVIOUS
    <2>1. ~Unmarked(e)
      BY <1>12 DEF UnmarkedKept
    <2>2. e.added = <<>>
      BY <1>0, <2>1 DEF Unmarked, Writing
    <2>3. DOMAIN e.added = {}
      BY <2>2, EmptyRows
    <2>4. DOMAIN Loaded(s) = {}
      BY <1>1, LoadedBlank
    <2> QED
      BY <1>3, <2>3, <2>4 DEF IsUpdate
  <1>15. ASSUME ~raced, s \notin misled', NEW k \in DOMAIN vec'
         PROVE  RowNext(index, k) \/ ToComeNext(s, k)
    <2>1. HasRow(Loaded(s), k) \/ ToCome(s, k)
      BY <1>0, <1>1, <1>15, LoadedComplete
    <2>2. CASE k \in DOMAIN e.added
      <3>1. e.added[k] = vec'[k]
        BY <1>8, <1>15, <2>2 DEF AgreesNext
      <3> QED
        BY <1>3, <2>2, <3>1 DEF RowNext, IsUpdate
    <2>3. CASE k \notin DOMAIN e.added /\ HasRow(Loaded(s), k)
      <3>1. k \notin e.removed
        BY <1>8, <1>15
      <3> QED
        BY <1>0, <1>3, <2>3, <3>1 DEF HasRow, RowNext, IsUpdate
    <2>4. CASE k \notin DOMAIN e.added /\ ToCome(s, k)
      <3>1. PICK x \in embeds : x.by = s /\ x.at = "index" /\ HasRow(x.added, k)
        BY <2>4 DEF ToCome
      <3>2. x \in embeds'
        BY <1>11, <2>4, <3>1 DEF HasRow
      <3> QED
        BY <1>0, <3>1, <3>2 DEF ToComeNext, HasRow, RowNext
    <2> QED
      BY <2>1, <2>2, <2>3, <2>4
  <1>16. \A x \in embeds : x.by # s => x \in embeds'
    BY <1>11 DEF s
  <1>17. misled \subseteq misled'
    BY <1>0
  <1> QED
    BY <1>0, <1>1, <1>2, <1>10, <1>12, <1>13, <1>14, <1>15, <1>16, <1>17, IndexingKeeps

-----------------------------------------------------------------------------
(* The processes.                                                          *)
IsServer(v) == v = [up |-> v.up, model |-> v.model, index |-> v.index, unsaved |-> v.unsaved]
Booted(v, isUp, model) == [v EXCEPT !.up = isUp, !.model = model]
LEMMA ServerStarts ==
  ASSUME NEW v, IsServer(v), NEW isUp, NEW model
  PROVE  Booted(v, isUp, model)
           = [up |-> isUp, model |-> model, index |-> v.index, unsaved |-> v.unsaved]
  <1>1. PICK w : w = [v EXCEPT !.up = isUp]
    OBVIOUS
  <1>2. w = [up |-> isUp, model |-> v.model, index |-> v.index, unsaved |-> v.unsaved]
    BY <1>1 DEF IsServer
  <1>3. [w EXCEPT !.model = model] = [up |-> w.up, model |-> model, index |-> w.index, unsaved |-> w.unsaved]
    BY <1>2
  <1>4. w.up = isUp /\ w.index = v.index /\ w.unsaved = v.unsaved
    BY <1>2
  <1> QED
    BY <1>1, <1>3, <1>4 DEF Booted
Reindexed(v, index, n) == [v EXCEPT !.index = index, !.unsaved = n]
LEMMA ServerIndexes ==
  ASSUME NEW v, IsServer(v), NEW index, NEW n
  PROVE  Reindexed(v, index, n) = [up |-> v.up, model |-> v.model, index |-> index, unsaved |-> n]
  <1>1. PICK w : w = [v EXCEPT !.index = index]
    OBVIOUS
  <1>2. w = [up |-> v.up, model |-> v.model, index |-> index, unsaved |-> v.unsaved]
    BY <1>1 DEF IsServer
  <1>3. [w EXCEPT !.unsaved = n] = [up |-> w.up, model |-> w.model, index |-> w.index, unsaved |-> n]
    BY <1>2
  <1>4. w.up = v.up /\ w.model = v.model /\ w.index = index
    BY <1>2
  <1> QED
    BY <1>1, <1>3, <1>4 DEF Reindexed

LEMMA StartServerKeeps ==
  ASSUME VecInv, NEW s \in Servers, NEW model \in Models, StartServer(s, model)
  PROVE  VecInv'
  <1> DEFINE servers == [ann EXCEPT ![s] = [Down EXCEPT !.up = TRUE, !.model = model]]
  <1>0. /\ ~ann[s].up /\ UNCHANGED <<meta, embeds, unrecorded>>
        /\ \A r \in Running : ann[r].model = model
        /\ IF Mismatch(model) THEN Cleared(s, servers)
           ELSE ann' = servers /\ misled' = misled \ {s} /\ UNCHANGED <<vec, fresh, file, raced>>
    BY DEF StartServer
  <1>1. /\ servers = [r \in Servers |-> servers[r]]
        /\ \A r \in Servers \ {s} : servers[r] = ann[r]
        /\ servers[s] = [up |-> TRUE, model |-> model, index |-> NoIndex, unsaved |-> 0]
    <2>1. PICK d : d = Down
      OBVIOUS
    <2>2. IsServer(d) /\ d.index = NoIndex /\ d.unsaved = 0
      BY <2>1 DEF Down, IsServer
    <2>3. Booted(d, TRUE, model)
            = [up |-> TRUE, model |-> model, index |-> NoIndex, unsaved |-> 0]
      BY <2>2, ServerStarts
    <2>4. servers = [ann EXCEPT ![s] = Booted(d, TRUE, model)]
      BY <2>1 DEF Booted
    <2> HIDE DEF servers
    <2>5. servers = [ann EXCEPT ![s] = [up |-> TRUE, model |-> model, index |-> NoIndex, unsaved |-> 0]]
      BY <2>3, <2>4
    <2> QED
      BY <2>5 DEF VecInv, VecShape
  <1> HIDE DEF servers
  <1>2. /\ ann' = [r \in Servers |-> ann'[r]]
        /\ \A r \in Servers \ {s} : ann'[r] = ann[r]
        /\ \E index, n : ann'[s] = [up |-> TRUE, model |-> model, index |-> index, unsaved |-> n]
        /\ ann'[s].index = IF Mismatch(model) THEN <<>> ELSE NoIndex
    <2>1. CASE ~Mismatch(model)
      BY <1>0, <1>1, <2>1
    <2>2. CASE Mismatch(model)
      <3>1. ann' = [servers EXCEPT ![s].index = <<>>, ![s].unsaved = 0]
        BY <1>0, <2>2 DEF Cleared
      <3>2. ann' = [r \in Servers |-> ann'[r]] /\ \A r \in Servers \ {s} : ann'[r] = ann[r]
        BY <1>1, <3>1
      <3>3. PICK v, rows : v = servers[s] /\ rows = <<>>
        OBVIOUS
      <3>4. IsServer(v) /\ v.up = TRUE /\ v.model = model
        BY <1>1, <3>3 DEF IsServer
      <3>5. ann'[s] = [up |-> TRUE, model |-> model, index |-> <<>>, unsaved |-> 0]
        <4>1. ann' = [servers EXCEPT ![s].index = rows, ![s].unsaved = 0]
          BY <3>1, <3>3
        <4>2. ann'[s] = [v EXCEPT !.index = rows, !.unsaved = 0]
          BY <1>1, <3>3, <4>1, SMTT(60)
        <4>3. ann'[s] = Reindexed(v, rows, 0)
          BY <4>2, Zenon DEF Reindexed
        <4>4. ann'[s] = [up |-> v.up, model |-> v.model, index |-> rows, unsaved |-> 0]
          BY <3>4, <4>3, ServerIndexes
        <4> QED
          BY <3>3, <3>4, <4>4, Zenon
      <3>6. ann'[s].index = <<>>
        BY <3>5
      <3> QED
        BY <2>2, <3>2, <3>5, <3>6
    <2> QED
      BY <2>1, <2>2
  <1>3. ann'[s].up /\ ann'[s].model = model
    BY <1>2
  <1>4. Running' = Running \cup {s} /\ s \notin Running /\ Running \subseteq Servers
    BY <1>0, <1>2, <1>3 DEF Running
  <1>5. \A r \in Running : ann'[r] = ann[r]
    BY <1>2, <1>4
  <1>6. \A r \in Running' : ann'[r].model = model
    BY <1>0, <1>3, <1>4, <1>5
  <1>7. OneConfiguration'
    BY <1>6 DEF OneConfiguration
  <1>8. \A r \in Servers :
           ann'[r] = [up |-> ann'[r].up, model |-> ann'[r].model, index |-> ann'[r].index,
                      unsaved |-> ann'[r].unsaved]
    BY <1>2 DEF VecInv, VecShape
  <1>9. ThreadShape'
    BY <1>0, <1>4 DEF VecInv, ThreadShape, IsThread
  <1>10. Running = {} => embeds = {}
    BY DEF VecInv, ThreadShape, IsThread
  <1>11. CASE ~Mismatch(model)
    <2>1. UNCHANGED <<vec, fresh, file, raced, meta, embeds, unrecorded>> /\ misled' = misled \ {s}
      BY <1>0, <1>11
    <2>2. VecShape'
      BY <1>2, <1>8, <2>1 DEF VecInv, VecShape
    <2>3. ThreadsAgree'
      BY <2>1 DEF VecInv, ThreadsAgree, ThreadAgrees, Agrees
    <2>4. IndexesAgree'
      BY <1>2, <1>4, <1>5, <1>11, <2>1 DEF VecInv, IndexesAgree, Agrees
    <2>5. EmptyUntilRecorded'
      BY <1>6, <1>11, <2>1 DEF EmptyUntilRecorded, Mismatch
    <2>6. Complete'
      <3> SUFFICES ASSUME ~raced, NEW r \in Running', ann'[r].index # NoIndex, r \notin misled',
                          NEW k \in DOMAIN vec
                   PROVE  HasRow(ann'[r].index, k) \/ ToCome(r, k)
        BY <2>1 DEF Complete, HasRow, ToCome
      <3>1. r # s
        BY <1>2, <1>11
      <3>2. r \in Running /\ ann'[r] = ann[r] /\ r \notin misled
        BY <1>4, <1>5, <2>1, <3>1
      <3> QED
        BY <3>2 DEF VecInv, Complete
    <2>7. ModelKnown'
      <3> SUFFICES ASSUME ~unrecorded, NEW k \in DOMAIN vec
                   PROVE  /\ vec[k].model = model
                          /\ vec[k].model = meta \/ \E e \in embeds : Unmarked(e)
        BY <1>6, <2>1 DEF ModelKnown
      <3>1. vec[k].model = meta \/ \E e \in embeds : Unmarked(e)
        BY DEF VecInv, ModelKnown
      <3>2. CASE Running = {}
        <4>1. vec[k].model = meta /\ vec[k].model \in Models
          BY <1>10, <3>1, <3>2 DEF VecInv, VecShape
        <4>2. meta # "none"
          BY <4>1, NotesAndModels
        <4> QED
          BY <1>11, <3>1, <4>1, <4>2 DEF Mismatch
      <3>3. CASE Running # {}
        <4>1. PICK r \in Running : TRUE
          BY <3>3
        <4>2. vec[k].model = ann[r].model
          BY DEF VecInv, ModelKnown
        <4> QED
          BY <1>0, <3>1, <4>2
      <3> QED
        BY <3>2, <3>3
    <2> QED
      BY <1>7, <1>9, <2>2, <2>3, <2>4, <2>5, <2>6, <2>7 DEF VecInv
  <1>12. CASE Mismatch(model)
    <2>1. /\ vec' = <<>> /\ fresh' = 1 /\ file' = NoIndex /\ UNCHANGED <<meta, embeds, unrecorded>>
          /\ raced' = (raced \/ \E e \in embeds : e.at # "embed")
      BY <1>0, <1>12 DEF Cleared
    <2>2. DOMAIN vec' = {}
      BY <2>1, EmptyRows
    <2>3. VecShape'
      BY <1>2, <1>8, <2>1, <2>2 DEF VecShape
    <2>4. ModelKnown' /\ Complete'
      BY <2>2 DEF ModelKnown, Complete
    <2>5. ThreadsAgree'
      BY <2>1 DEF ThreadsAgree, ThreadAgrees, Writing
    <2>6. ASSUME ~raced', ~unrecorded', NEW r \in Running'
          PROVE  ann'[r].index = NoIndex \/ DOMAIN ann'[r].index = {}
      <3>1. ~raced /\ ~unrecorded /\ \A e \in embeds : ~Unmarked(e)
        BY <2>1, <2>6 DEF Unmarked, Writing
      <3>2. CASE r = s
        BY <1>2, <1>12, <3>2, EmptyRows
      <3>3. CASE r \in Running
        <4>1. meta # "none" /\ ann[r].model # meta
          BY <1>0, <1>12, <3>3 DEF Mismatch
        <4>2. ann[r].index = NoIndex \/ DOMAIN ann[r].index = {}
          BY <3>1, <3>3, <4>1 DEF VecInv, EmptyUntilRecorded
        <4> QED
          BY <1>5, <3>3, <4>2
      <3> QED
        BY <1>4, <3>2, <3>3
    <2>7. IndexesAgree'
      BY <2>1, <2>6 DEF IndexesAgree, Agrees
    <2>8. EmptyUntilRecorded'
      BY <2>1, <2>2, <2>6 DEF EmptyUntilRecorded
    <2> QED
      BY <1>7, <1>9, <2>3, <2>4, <2>5, <2>7, <2>8 DEF VecInv
  <1> QED
    BY <1>11, <1>12

\* A server ends, and its threads with it.
LEMMA EndedKeeps ==
  ASSUME VecInv, NEW s \in Servers, Ended(s), s \in Running,
         file' \in {file, Torn} \/ (ann[s].index # NoIndex /\ file' = ann[s].index)
  PROVE  VecInv'
  <1>0. /\ ann' = [ann EXCEPT ![s] = Down] /\ embeds' = embeds \ Threads(s)
        /\ unrecorded' = (unrecorded \/ \E e \in Threads(s) : e.at # "embed" /\ e.added # <<>>)
        /\ UNCHANGED <<vec, fresh, meta, raced, misled>>
    BY DEF Ended
  <1>1. /\ ann' = [r \in Servers |-> ann'[r]]
        /\ \A r \in Servers \ {s} : ann'[r] = ann[r]
        /\ ann'[s] = [up |-> FALSE, model |-> "none", index |-> NoIndex, unsaved |-> 0]
    BY <1>0 DEF VecInv, VecShape, Down
  <1>2. Running' = Running \ {s} /\ Running \subseteq Servers
    BY <1>1 DEF Running
  <1>3. \A r \in Running' : r \in Running /\ r # s /\ ann'[r] = ann[r]
    BY <1>1, <1>2
  <1>4. \A e \in embeds' : e \in embeds /\ e.by # s
    BY <1>0 DEF Threads
  <1>5. \A e \in embeds : e.by # s => e \in embeds'
    BY <1>0 DEF Threads
  <1>6. ~unrecorded' => ~unrecorded /\ \A e \in embeds : Unmarked(e) => e \in embeds'
    BY <1>0 DEF Unmarked, Writing, Threads
  <1>7. VecShape'
    <2>1. \A r \in Servers :
             ann'[r] = [up |-> ann'[r].up, model |-> ann'[r].model, index |-> ann'[r].index,
                        unsaved |-> ann'[r].unsaved]
      BY <1>1 DEF VecInv, VecShape
    <2> QED
      BY <1>0, <1>1, <2>1 DEF VecInv, VecShape
  <1>8. OneConfiguration'
    BY <1>3 DEF VecInv, OneConfiguration
  <1>9. ThreadShape'
    BY <1>2, <1>4 DEF VecInv, ThreadShape, IsThread
  <1>10. ModelKnown'
    <2> SUFFICES ASSUME ~unrecorded', NEW k \in DOMAIN vec
                 PROVE  /\ \A r \in Running' : vec[k].model = ann'[r].model
                        /\ vec[k].model = meta \/ \E e \in embeds' : Unmarked(e)
      BY <1>0 DEF ModelKnown, Unmarked, Writing
    <2>1. /\ \A r \in Running : vec[k].model = ann[r].model
          /\ vec[k].model = meta \/ \E e \in embeds : Unmarked(e)
      BY <1>6 DEF VecInv, ModelKnown
    <2>2. \A r \in Running' : vec[k].model = ann'[r].model
      BY <1>3, <2>1
    <2> QED
      BY <1>6, <2>1, <2>2
  <1>11. ThreadsAgree'
    BY <1>0, <1>4 DEF VecInv, ThreadsAgree, ThreadAgrees, Agrees
  <1>12. IndexesAgree'
    <2> SUFFICES ASSUME ~raced, ~unrecorded'
                 PROVE  /\ file' \in {NoIndex, Torn} \/ Agrees(file)' 
                        /\ \A r \in Running' : ann'[r].index = NoIndex \/ Agrees(ann[r].index)'
      BY <1>0 DEF IndexesAgree
    <2>1. /\ file \in {NoIndex, Torn} \/ Agrees(file)
          /\ \A r \in Running : ann[r].index = NoIndex \/ Agrees(ann[r].index)
      BY <1>6 DEF VecInv, IndexesAgree
    <2>2. file' \in {NoIndex, Torn} \/ Agrees(file)'
      BY <1>0, <2>1 DEF Agrees
    <2>3. \A r \in Running' : ann'[r].index = NoIndex \/ Agrees(ann[r].index)'
      BY <1>0, <1>3, <2>1 DEF Agrees
    <2> QED
      BY <2>2, <2>3
  <1>13. EmptyUntilRecorded'
    <2> SUFFICES ASSUME ~raced, ~unrecorded', meta # "none", \A e \in embeds' : ~Unmarked(e),
                        NEW r \in Running', ann'[r].model # meta
                 PROVE  /\ DOMAIN vec = {}
                        /\ file' \in {NoIndex, Torn} \/ DOMAIN file' = {}
                        /\ \A q \in Running' : ann'[q].index = NoIndex \/ DOMAIN ann'[q].index = {}
      BY <1>0 DEF EmptyUntilRecorded, Unmarked, Writing
    <2>1. ~unrecorded /\ (\A e \in embeds : ~Unmarked(e)) /\ r \in Running /\ ann[r].model # meta
      BY <1>3, <1>6
    <2>2. /\ DOMAIN vec = {} /\ (file \in {NoIndex, Torn} \/ DOMAIN file = {})
          /\ \A q \in Running : ann[q].index = NoIndex \/ DOMAIN ann[q].index = {}
      BY <2>1 DEF VecInv, EmptyUntilRecorded
    <2>3. file' \in {NoIndex, Torn} \/ DOMAIN file' = {}
      BY <2>2
    <2> QED
      BY <1>3, <2>2, <2>3
  <1>14. Complete'
    <2> SUFFICES ASSUME ~raced, NEW r \in Running', ann'[r].index # NoIndex, r \notin misled,
                        NEW k \in DOMAIN vec
                 PROVE  HasRow(ann'[r].index, k) \/ \E e \in embeds' : e.by = r /\ e.at = "index" /\ HasRow(e.added, k)
      BY <1>0 DEF Complete, HasRow, ToCome
    <2>1. HasRow(ann[r].index, k) \/ ToCome(r, k)
      BY <1>3 DEF VecInv, Complete
    <2>2. ToCome(r, k) => \E e \in embeds' : e.by = r /\ e.at = "index" /\ HasRow(e.added, k)
      BY <1>3, <1>5 DEF ToCome
    <2> QED
      BY <1>3, <2>1, <2>2
  <1> QED
    BY <1>7, <1>8, <1>9, <1>10, <1>11, <1>12, <1>13, <1>14 DEF VecInv

LEMMA StopsKeep ==
  ASSUME VecInv, NEW s \in Servers, StopServer(s) \/ CrashServer(s)
  PROVE  VecInv'
  <1>1. Ended(s) /\ s \in Running
    BY DEF StopServer, CrashServer, Running
  <1>2. file' \in {file, Torn} \/ (ann[s].index # NoIndex /\ file' = ann[s].index)
    BY DEF StopServer, CrashServer
  <1> QED
    BY <1>1, <1>2, EndedKeeps

LEMMA VecInvInit == VecInit => VecInv
  <1> SUFFICES ASSUME VecInit PROVE VecInv
    OBVIOUS
  <1>1. vec = <<>> /\ DOMAIN vec = {} /\ fresh = 1 /\ embeds = {} /\ file = NoIndex
    BY EmptyRows DEF VecInit
  <1>2. ann = [s \in Servers |-> Down]
    BY DEF VecInit
  <1>3. Running = {}
    BY <1>2 DEF Running, Down
  <1>4. VecShape
    <2>1. \A s \in Servers : IsServer(ann[s])
      BY <1>2 DEF Down, IsServer
    <2>2. ann = [s \in Servers |-> ann[s]]
      BY <1>2
    <2> QED
      BY <1>1, <2>1, <2>2 DEF VecShape, IsServer
  <1> QED
    BY <1>1, <1>3, <1>4 DEF VecInv, OneConfiguration, ThreadShape, ModelKnown, ThreadsAgree,
       IndexesAgree, EmptyUntilRecorded, Complete

LEMMA VecInvNext == VecInv /\ [VecNext]_vecVars => VecInv'
  <1> SUFFICES ASSUME VecInv, [VecNext]_vecVars PROVE VecInv'
    OBVIOUS
  <1>1. CASE UNCHANGED vecVars
    <2>1. UNCHANGED <<vec, fresh, meta, ann, file, embeds, unrecorded, raced, misled>>
      BY <1>1 DEF vecVars
    <2>2. VecShape' /\ OneConfiguration' /\ ThreadShape' /\ ModelKnown'
      BY <2>1 DEF VecInv, VecShape, OneConfiguration, ThreadShape, IsThread, ModelKnown, Running,
         Unmarked, Writing
    <2>3. ThreadsAgree' /\ IndexesAgree'
      BY <2>1 DEF VecInv, ThreadsAgree, ThreadAgrees, Agrees, IndexesAgree, Running, Writing
    <2>4. EmptyUntilRecorded' /\ Complete'
      BY <2>1 DEF VecInv, EmptyUntilRecorded, Complete, HasRow, ToCome, Running, Unmarked, Writing
    <2> QED
      BY <2>2, <2>3, <2>4 DEF VecInv
  <1>2. ASSUME NEW s \in Servers, NEW m \in Notes, SaveText(s, m) \/ DeleteNote(s, m) PROVE VecInv'
    BY <1>2, SaveTextKeeps, DeleteNoteKeeps
  <1>3. ASSUME NEW s \in Servers, Reindex(s) \/ SearchVectors(s) PROVE VecInv'
    BY <1>3, ReindexKeeps, SearchVectorsKeeps
  <1>4. ASSUME NEW s \in Servers, NEW model \in Models, StartServer(s, model) PROVE VecInv'
    BY <1>4, StartServerKeeps
  <1>5. ASSUME NEW s \in Servers, StopServer(s) \/ CrashServer(s) PROVE VecInv'
    BY <1>5, StopsKeep
  <1>6. ASSUME NEW e \in embeds, StoreRows(e) \/ EmbedFails(e) \/ IndexRows(e) \/ Record(e)
        PROVE  VecInv'
    BY <1>6, StoreRowsKeeps, EmbedFailsKeeps, IndexRowsKeeps, RecordKeeps
  <1> QED
    BY <1>1, <1>2, <1>3, <1>4, <1>5, <1>6 DEF VecNext

(* Whatever is edited and deleted, and whenever servers with their threads *)
(* start, stop and crash: outside of the gaps the property names, a search *)
(* by meaning compares vectors of one model, takes no hit for another      *)
(* memory and finds every row of the table.                                *)
THEOREM SearchesTrueHolds == VecSpec => []SearchesTrue
  <1>1. VecInv => SearchesTrue
    <2> SUFFICES ASSUME VecInv PROVE SearchesTrue
      OBVIOUS
    <2>1. OneModel
      BY DEF VecInv, ModelKnown, OneModel
    <2>2. HitsAreRight
      BY DEF VecInv, IndexesAgree, Agrees, HitsAreRight
    <2>3. AllFindable
      BY DEF VecInv, Complete, ToCome, HasRow, Threads, AllFindable
    <2> QED
      BY <2>1, <2>2, <2>3 DEF SearchesTrue
  <1> QED
    BY <1>1, VecInvInit, VecInvNext, PTL DEF VecSpec

-----------------------------------------------------------------------------
(* Induction over the naturals, in the form of a set that is closed: the   *)
(* order of the naturals is well-founded, hence the least number outside   *)
(* of it would have a predecessor inside.                                  *)
LEMMA SetInduction ==
  ASSUME NEW T, 0 \in T, \A n \in Nat : n \in T => n + 1 \in T
  PROVE  \A n \in Nat : n \in T
  <1> DEFINE L == {ss \in Nat \X Nat : ss[1] < ss[2]}
             U == {n \in Nat : n \notin T}
  <1>1. IsWellFoundedOn(L, Nat)
    BY NatLessThanWellFounded DEF OpToRel
  <1>2. SUFFICES ASSUME U # {} PROVE FALSE
    OBVIOUS
  <1>3. U \subseteq Nat
    OBVIOUS
  <1>4. PICK x \in U : \A y \in U : ~(<<y, x>> \in L)
    BY <1>1, <1>2, <1>3, WFMin
  <1>5. \A y \in U : ~(y < x)
    BY <1>3, <1>4
  <1>6. x \in Nat /\ x \notin T
    OBVIOUS
  <1>7. x # 0
    BY <1>6
  <1>8. x - 1 \in Nat /\ x - 1 < x /\ (x - 1) + 1 = x
    BY <1>6, <1>7
  <1>9. x - 1 \in T
    BY <1>5, <1>8
  <1> QED
    BY <1>6, <1>8, <1>9

HasGreatest(S) == \E x \in S : \A y \in S : y <= x

\* A finite set of numbers has a greatest.
LEMMA GreatestExists ==
  ASSUME NEW S \in SUBSET Nat, IsFiniteSet(S), S # {}
  PROVE  HasGreatest(S)
  <1> DEFINE T == {n \in Nat : \A R \in SUBSET S : Cardinality(R) = n /\ R # {} => HasGreatest(R)}
  <1>1. \A R \in SUBSET S : IsFiniteSet(R) /\ Cardinality(R) \in Nat
    BY FS_Subset, FS_CardinalityType
  <1>2. 0 \in T
    BY <1>1, FS_EmptySet
  <1>3. ASSUME NEW n \in Nat, n \in T PROVE n + 1 \in T
    <2> SUFFICES ASSUME NEW R \in SUBSET S, Cardinality(R) = n + 1, R # {} PROVE HasGreatest(R)
      BY <1>3
    <2>1. PICK c \in R : TRUE
      OBVIOUS
    <2>2. R \ {c} \in SUBSET S /\ Cardinality(R \ {c}) = n
      <3>1. IsFiniteSet(R)
        BY <1>1
      <3>2. Cardinality(R \ {c}) = Cardinality(R) - 1
        BY <2>1, <3>1, FS_RemoveElement
      <3> QED
        BY <3>2
    <2>3. CASE R \ {c} = {}
      <3>1. R = {c} /\ c \in Nat
        BY <2>3
      <3> QED
        BY <3>1 DEF HasGreatest
    <2>4. CASE R \ {c} # {}
      <3>1. HasGreatest(R \ {c})
        BY <1>3, <2>2, <2>4
      <3>2. PICK x \in R \ {c} : \A y \in R \ {c} : y <= x
        BY <3>1 DEF HasGreatest
      <3>3. x \in Nat /\ c \in Nat /\ \A y \in R : y \in Nat
        OBVIOUS
      <3>4. CASE c <= x
        BY <3>2, <3>4 DEF HasGreatest
      <3>5. CASE x <= c
        <4>1. \A y \in R : y <= c
          BY <3>2, <3>3, <3>5
        <4> QED
          BY <4>1 DEF HasGreatest
      <3> QED
        BY <3>3, <3>4, <3>5
    <2> QED
      BY <2>3, <2>4
  <1>4. \A n \in Nat : n \in T
    <2> HIDE DEF T
    <2> QED
      BY <1>2, <1>3, SetInduction
  <1>5. Cardinality(S) \in T
    BY <1>1, <1>4
  <1> QED
    BY <1>5

-----------------------------------------------------------------------------
(* The verdict of a check.  Counts per category add up to the count of all *)
(* records, so that equal counts of every category leave no room for a     *)
(* record on one side only, unless there is one on the other side too.     *)
Kept(f, D) == {r \in SyncedRows : f[r] \in D}

LEMMA KeptSplit ==
  ASSUME NEW f, NEW E, NEW c \in E
  PROVE  /\ Cardinality(Kept(f, E)) = Cardinality(Kept(f, E \ {c})) + Cardinality(Kept(f, {c}))
         /\ Cardinality(Kept(f, E)) \in Nat /\ Cardinality(Kept(f, E \ {c})) \in Nat /\ Cardinality(Kept(f, {c})) \in Nat
  <1> DEFINE A == Kept(f, E \ {c})
             B == Kept(f, {c})
  <1>1. A \in SUBSET SyncedRows /\ B \in SUBSET SyncedRows /\ A \cup B = Kept(f, E) /\ A \cap B = {}
    BY DEF Kept
  <1> HIDE DEF A, B
  <1>2. IsFiniteSet(A) /\ IsFiniteSet(B) /\ Cardinality(A) \in Nat /\ Cardinality(B) \in Nat
    BY <1>1, RowsAndCategories, FS_Subset, FS_CardinalityType
  <1>3. Cardinality(A \cup B) = Cardinality(A) + Cardinality(B) - Cardinality(A \cap B)
    BY <1>2, FS_Union
  <1>4. Cardinality(A \cap B) = 0
    BY <1>1, FS_EmptySet
  <1>5. /\ Cardinality(Kept(f, E)) = Cardinality(A) + Cardinality(B) /\ Cardinality(Kept(f, E)) \in Nat
        /\ Cardinality(A) \in Nat /\ Cardinality(B) \in Nat
    BY <1>1, <1>2, <1>3, <1>4
  <1> QED
    BY <1>5 DEF A, B

LEMMA CountsAdd ==
  ASSUME NEW f, NEW g, NEW D \in SUBSET Categories,
         \A c \in D : Cardinality(Kept(f, {c})) <= Cardinality(Kept(g, {c}))
  PROVE  Cardinality(Kept(f, D)) <= Cardinality(Kept(g, D))
  <1> DEFINE T == {n \in Nat : \A E \in SUBSET D : Cardinality(E) = n => Cardinality(Kept(f, E)) <= Cardinality(Kept(g, E))}
  <1>1. \A E \in SUBSET D : IsFiniteSet(E) /\ Cardinality(E) \in Nat
    BY RowsAndCategories, FS_Subset, FS_CardinalityType
  <1>2. 0 \in T
    <2> SUFFICES ASSUME NEW E \in SUBSET D, Cardinality(E) = 0
                 PROVE  Cardinality(Kept(f, E)) <= Cardinality(Kept(g, E))
      OBVIOUS
    <2>1. E = {}
      BY <1>1, FS_EmptySet
    <2>2. Kept(f, E) = {} /\ Kept(g, E) = {}
      BY <2>1 DEF Kept
    <2> QED
      BY <2>2, FS_EmptySet
  <1>3. ASSUME NEW n \in Nat, n \in T PROVE n + 1 \in T
    <2> SUFFICES ASSUME NEW E \in SUBSET D, Cardinality(E) = n + 1
                 PROVE  Cardinality(Kept(f, E)) <= Cardinality(Kept(g, E))
      BY <1>3
    <2>1. E # {}
      BY FS_EmptySet
    <2>2. PICK c \in E : TRUE
      BY <2>1
    <2>3. E \ {c} \in SUBSET D /\ Cardinality(E \ {c}) = n
      <3>1. IsFiniteSet(E)
        BY <1>1
      <3>2. Cardinality(E \ {c}) = Cardinality(E) - 1
        BY <2>2, <3>1, FS_RemoveElement
      <3> QED
        BY <3>2
    <2>4. Cardinality(Kept(f, E \ {c})) <= Cardinality(Kept(g, E \ {c}))
      BY <1>3, <2>3
    <2>5. Cardinality(Kept(f, {c})) <= Cardinality(Kept(g, {c}))
      OBVIOUS
    <2>6. /\ Cardinality(Kept(f, E)) = Cardinality(Kept(f, E \ {c})) + Cardinality(Kept(f, {c}))
          /\ Cardinality(Kept(f, E \ {c})) \in Nat /\ Cardinality(Kept(f, {c})) \in Nat
      BY <2>2, KeptSplit
    <2>7. /\ Cardinality(Kept(g, E)) = Cardinality(Kept(g, E \ {c})) + Cardinality(Kept(g, {c}))
          /\ Cardinality(Kept(g, E \ {c})) \in Nat /\ Cardinality(Kept(g, {c})) \in Nat
      BY <2>2, KeptSplit
    <2> QED
      BY <2>4, <2>5, <2>6, <2>7
  <1>4. \A n \in Nat : n \in T
    <2> HIDE DEF T
    <2> QED
      BY <1>2, <1>3, SetInduction
  <1>5. Cardinality(D) \in T
    BY <1>1, <1>4
  <1> QED
    BY <1>5

HubCategory == [r \in SyncedRows |-> IF hubRecord[r] = NoRecord THEN NoRecord ELSE hubRecord[r].category]
HubHas == Kept(HubCategory, Categories)
LocalHas == Kept(localRecord, Categories)
Past(r) == hubRecord[r] # NoRecord /\ ~hubRecord[r].own /\ hubRecord[r].seq > cursor
Differ == \E c \in Categories : HubCount(c) # LocalCount(c)

VerdictShape ==
    /\ hubRecord = [r \in SyncedRows |-> hubRecord[r]] /\ localRecord = [r \in SyncedRows |-> localRecord[r]]
    /\ \A r \in SyncedRows : /\ hubRecord[r] = NoRecord \/ hubRecord[r] \in [category : Categories, seq : Nat, own : BOOLEAN]
                             /\ localRecord[r] \in Categories \cup {NoRecord}
    /\ outgoing \subseteq SyncedRows /\ cursor \in Nat /\ hubSeq \in Nat
    /\ quietChecks \in Nat /\ pulledNow \in BOOLEAN
\* What the node has was pulled or is pushed, and it has what it has pushed.
BothWays ==
    \A r \in SyncedRows :
        /\ r \in outgoing \/ (hubRecord[r] # NoRecord /\ hubRecord[r].own) => localRecord[r] # NoRecord
        /\ localRecord[r] # NoRecord => r \in outgoing \/ hubRecord[r] # NoRecord
\* While nothing is written the baseline is the cursor of the judgement before, and what a
\* pull has left no pull will bring.
StillSo ==
    quietChecks # 0 => /\ Differ => baseline = cursor
                       /\ pulledNow => \A r \in SyncedRows : ~Past(r)
VerdictInv == VerdictShape /\ BothWays /\ StillSo

LEMMA VerdictFirst ==
  ASSUME VerdictInit
  PROVE  VerdictInv
  <1>1. PICK held \in SUBSET SyncedRows, c \in Categories :
          /\ hubRecord = [r \in SyncedRows |-> IF r \in held THEN [category |-> c, seq |-> 1, own |-> FALSE] ELSE NoRecord]
          /\ localRecord \in {[r \in SyncedRows |-> IF r \in had THEN c ELSE NoRecord] : had \in SUBSET held}
    BY DEF VerdictInit
  <1>2. PICK had \in SUBSET held : localRecord = [r \in SyncedRows |-> IF r \in had THEN c ELSE NoRecord]
    BY <1>1
  <1>3. PICK u : u = [category |-> c, seq |-> 1, own |-> FALSE]
    OBVIOUS
  <1>4. u \in [category : Categories, seq : Nat, own : BOOLEAN] /\ u.own = FALSE /\ u # NoRecord
    <2>1. u \in [category : Categories, seq : Nat, own : BOOLEAN]
      BY <1>3
    <2>2. u.own = FALSE
      BY <1>3
    <2> QED
      BY <2>1, <2>2, RowsAndCategories
  <1>5. outgoing = {} /\ cursor \in Nat /\ hubSeq \in Nat /\ quietChecks = 0 /\ pulledNow = FALSE
    BY DEF VerdictInit
  <1>6. VerdictShape
    BY <1>1, <1>2, <1>3, <1>4, <1>5 DEF VerdictShape
  <1>7. BothWays
    BY <1>1, <1>2, <1>3, <1>4, <1>5, RowsAndCategories DEF BothWays
  <1> QED
    BY <1>5, <1>6, <1>7 DEF VerdictInv, StillSo

\* A step that writes.
LEMMA Restarts ==
  ASSUME VerdictShape', BothWays', quietChecks' = 0
  PROVE  VerdictInv'
  BY DEF VerdictInv, StillSo

LEMMA PullKeeps ==
  ASSUME VerdictInv, PullAll
  PROVE  VerdictInv'
  <1> DEFINE got == {r \in SyncedRows : hubRecord[r] # NoRecord /\ ~hubRecord[r].own /\ hubRecord[r].seq > cursor}
  <1>1. /\ localRecord' = [r \in SyncedRows |-> IF r \in got \ outgoing THEN hubRecord[r].category ELSE localRecord[r]]
        /\ cursor' = IF got = {} THEN cursor
                     ELSE CHOOSE s \in {hubRecord[r].seq : r \in got} : \A r \in got : hubRecord[r].seq <= s
        /\ pulledNow' = TRUE /\ quietChecks' = IF got = {} THEN quietChecks ELSE 0
        /\ UNCHANGED <<hubRecord, outgoing, hubSeq, baseline>>
    BY DEF PullAll, UnchangedCheck
  <1>2. CASE got = {}
    <2>1. localRecord' = localRecord /\ cursor' = cursor /\ quietChecks' = quietChecks
      BY <1>1, <1>2 DEF VerdictInv, VerdictShape
    <2>2. \A r \in SyncedRows : ~Past(r)
      BY <1>2 DEF Past
    <2>3. VerdictShape' /\ BothWays'
      BY <1>1, <2>1 DEF VerdictInv, VerdictShape, BothWays
    <2>4. (Differ' <=> Differ) /\ \A r \in SyncedRows : ~Past(r)'
      <3>1. UNCHANGED <<hubRecord, localRecord, cursor>>
        BY <1>1, <2>1
      <3>2. Differ' <=> Differ
        BY <3>1 DEF Differ, HubCount, LocalCount
      <3>3. \A r \in SyncedRows : ~Past(r)'
        BY <2>2, <3>1 DEF Past
      <3> QED
        BY <3>2, <3>3
    <2> QED
      BY <1>1, <2>1, <2>3, <2>4 DEF VerdictInv, StillSo
  <1>3. CASE got # {}
    <2>1. quietChecks' = 0
      BY <1>1, <1>3
    <2>2. cursor' \in Nat
      <3> DEFINE S == {hubRecord[r].seq : r \in got}
      <3>1. got \in SUBSET SyncedRows /\ \A r \in got : hubRecord[r].seq \in Nat
        BY DEF VerdictInv, VerdictShape
      <3>2. S \in SUBSET Nat /\ S # {}
        BY <1>3, <3>1
      <3>3. IsFiniteSet(S)
        <4>1. IsFiniteSet(got)
          BY <3>1, RowsAndCategories, FS_Subset
        <4> HIDE DEF got
        <4>2. [r \in got |-> hubRecord[r].seq] \in Surjection(got, S)
          BY DEF Surjection
        <4> HIDE DEF S
        <4> QED
          BY <4>1, <4>2, FS_Surjection
      <3>4. HasGreatest(S)
        BY <3>2, <3>3, GreatestExists
      <3>5. \E s \in S : \A r \in got : hubRecord[r].seq <= s
        BY <3>4 DEF HasGreatest
      <3>6. (CHOOSE s \in S : \A r \in got : hubRecord[r].seq <= s) \in S
        BY <3>5
      <3> QED
        BY <1>1, <1>3, <3>2, <3>6
    <2>3. VerdictShape'
      BY <1>1, <2>1, <2>2 DEF VerdictInv, VerdictShape
    <2>4. \A r \in SyncedRows : localRecord[r] # NoRecord => localRecord'[r] # NoRecord
      BY <1>1, RowsAndCategories DEF VerdictInv, VerdictShape
    <2>5. \A r \in SyncedRows : localRecord'[r] # NoRecord => localRecord[r] # NoRecord \/ hubRecord[r] # NoRecord
      BY <1>1
    <2>6. BothWays'
      BY <1>1, <2>4, <2>5 DEF VerdictInv, BothWays
    <2> QED
      BY <2>1, <2>3, <2>6, Restarts
  <1> QED
    BY <1>2, <1>3

LEMMA JudgeKeeps ==
  ASSUME VerdictInv, Judge_drift
  PROVE  VerdictInv'
  <1>1. /\ UNCHANGED <<hubRecord, localRecord, outgoing, hubSeq, cursor>>
        /\ pulledNow' = FALSE
        /\ baseline' = IF Drifts # {} THEN cursor ELSE baseline
        /\ quietChecks' = IF pulledNow /\ asked = [c \in Categories |-> HubCount(c)] THEN quietChecks + 1 ELSE 0
    BY DEF Judge_drift
  <1>2. VerdictShape' /\ BothWays'
    <2>1. quietChecks' \in Nat /\ pulledNow' \in BOOLEAN
      <3> HIDE DEF HubCount
      <3>1. quietChecks + 1 \in Nat
        BY DEF VerdictInv, VerdictShape
      <3>2. quietChecks' = quietChecks + 1 \/ quietChecks' = 0
        BY <1>1
      <3> QED
        BY <1>1, <3>1, <3>2
    <2>2. VerdictShape'
      BY <1>1, <2>1 DEF VerdictInv, VerdictShape
    <2> QED
      BY <1>1, <2>2 DEF VerdictInv, BothWays
  <1>3. CASE asked = [c \in Categories |-> HubCount(c)]
    <2>1. \A c \in Categories : HubCount(c) \in Nat /\ LocalCount(c) \in Nat
      <3> SUFFICES ASSUME NEW c \in Categories PROVE HubCount(c) \in Nat /\ LocalCount(c) \in Nat
        OBVIOUS
      <3>1. /\ {r \in SyncedRows : hubRecord[r] # NoRecord /\ hubRecord[r].category = c} \in SUBSET SyncedRows
            /\ {r \in SyncedRows : localRecord[r] = c} \in SUBSET SyncedRows
        OBVIOUS
      <3> QED
        BY <3>1, RowsAndCategories, FS_Subset, FS_CardinalityType DEF HubCount, LocalCount
    <2>2. Differ => Drifts # {}
      BY <1>3, <2>1 DEF Differ, Drifts, Drift
    <2>3. Differ' <=> Differ
      BY <1>1 DEF Differ, HubCount, LocalCount
    <2> QED
      BY <1>1, <1>2, <2>2, <2>3 DEF VerdictInv, StillSo
  <1>4. CASE asked # [c \in Categories |-> HubCount(c)]
    BY <1>1, <1>2, <1>4, Restarts
  <1> QED
    BY <1>3, <1>4

LEMMA VerdictStep ==
  ASSUME VerdictInv, [VerdictNext]_verdictVars
  PROVE  VerdictInv'
  <1>1. CASE UNCHANGED verdictVars \/ VerdictTick \/ AskHub \/ QuickCheck \/ NoAnswer
    <2>1. UNCHANGED <<hubRecord, localRecord, outgoing, hubSeq, cursor, baseline, pulledNow, quietChecks>>
      BY <1>1 DEF verdictVars, VerdictTick, AskHub, QuickCheck, NoAnswer, UnchangedCheck
    <2>2. VerdictShape' /\ BothWays'
      BY <2>1 DEF VerdictInv, VerdictShape, BothWays
    <2>3. StillSo'
      BY <2>1 DEF VerdictInv, StillSo, Differ, HubCount, LocalCount, Past
    <2> QED
      BY <2>2, <2>3 DEF VerdictInv
  <1>2. ASSUME NEW r \in SyncedRows, NEW c \in Categories, LocalWrite(r, c) PROVE VerdictInv'
    <2>1. /\ localRecord' = [localRecord EXCEPT ![r] = c] /\ outgoing' = outgoing \cup {r} /\ quietChecks' = 0
          /\ UNCHANGED <<hubRecord, hubSeq, cursor, pulledNow>>
      BY <1>2 DEF LocalWrite, Writes
    <2>2. VerdictShape'
      BY <2>1 DEF VerdictInv, VerdictShape
    <2>3. BothWays'
      BY <2>1, RowsAndCategories DEF VerdictInv, VerdictShape, BothWays
    <2> QED
      BY <2>1, <2>2, <2>3, Restarts
  <1>3. ASSUME NEW r \in SyncedRows, NEW c \in Categories, OtherWrite(r, c) PROVE VerdictInv'
    <2>1. PICK u : u = [category |-> c, seq |-> hubSeq + 1, own |-> FALSE]
      OBVIOUS
    <2>2. /\ hubRecord' = [hubRecord EXCEPT ![r] = u] /\ hubSeq' = hubSeq + 1 /\ quietChecks' = 0
          /\ UNCHANGED <<localRecord, outgoing, cursor, pulledNow>>
      BY <1>3, <2>1 DEF OtherWrite, Writes
    <2>3. u \in [category : Categories, seq : Nat, own : BOOLEAN] /\ u.own = FALSE /\ u # NoRecord
      <3>1. u \in [category : Categories, seq : Nat, own : BOOLEAN]
        BY <2>1 DEF VerdictInv, VerdictShape
      <3>2. u.own = FALSE
        BY <2>1
      <3> QED
        BY <3>1, <3>2, RowsAndCategories
    <2>4. VerdictShape'
      BY <2>2, <2>3 DEF VerdictInv, VerdictShape
    <2>5. BothWays'
      BY <2>2, <2>3 DEF VerdictInv, VerdictShape, BothWays
    <2> QED
      BY <2>2, <2>4, <2>5, Restarts
  <1>4. ASSUME NEW r \in SyncedRows, PushOne(r) PROVE VerdictInv'
    <2>1. PICK u : u = [category |-> localRecord[r], seq |-> hubSeq + 1, own |-> TRUE]
      OBVIOUS
    <2>2. /\ r \in outgoing /\ outgoing' = outgoing \ {r}
          /\ hubRecord' = [hubRecord EXCEPT ![r] = u] /\ hubSeq' = hubSeq + 1 /\ quietChecks' = 0
          /\ UNCHANGED <<localRecord, cursor, pulledNow>>
      BY <1>4, <2>1 DEF PushOne
    <2>3. localRecord[r] # NoRecord /\ localRecord[r] \in Categories
      BY <2>2 DEF VerdictInv, VerdictShape, BothWays
    <2>4. u \in [category : Categories, seq : Nat, own : BOOLEAN] /\ u # NoRecord
      <3>1. u \in [category : Categories, seq : Nat, own : BOOLEAN]
        BY <2>1, <2>3 DEF VerdictInv, VerdictShape
      <3> QED
        BY <3>1, RowsAndCategories
    <2>5. VerdictShape'
      BY <2>2, <2>4 DEF VerdictInv, VerdictShape
    <2>6. BothWays'
      BY <2>2, <2>3, <2>4 DEF VerdictInv, VerdictShape, BothWays
    <2> QED
      BY <2>2, <2>5, <2>6, Restarts
  <1> QED
    BY <1>1, <1>2, <1>3, <1>4, PullKeeps, JudgeKeeps DEF VerdictNext

\* The second of two judgements that nothing was written between.
LEMMA JudgedRight ==
  ASSUME VerdictInv, Judge_drift, quietChecks = 1, quietChecks' = 2
  PROVE  /\ Holed /\ outgoing = {} => verdict' \in {"fault", "node-ahead"}
         /\ verdict' = "fault" => Holed \/ Stale
  <1> DEFINE hub == HubCategory
  <1>1. /\ pulledNow /\ asked = [c \in Categories |-> HubCount(c)] /\ verdict' = Judgement
    BY DEF Judge_drift
  <1>2. ASSUME NEW c \in Categories
        PROVE  /\ Drift(c) = Cardinality(Kept(hub, {c})) - Cardinality(Kept(localRecord, {c}))
               /\ Cardinality(Kept(hub, {c})) \in Nat /\ Cardinality(Kept(localRecord, {c})) \in Nat
               /\ HubCount(c) = Cardinality(Kept(hub, {c})) /\ LocalCount(c) = Cardinality(Kept(localRecord, {c}))
    <2>1. {r \in SyncedRows : hubRecord[r] # NoRecord /\ hubRecord[r].category = c} = Kept(hub, {c})
      BY RowsAndCategories DEF Kept, HubCategory
    <2>2. {r \in SyncedRows : localRecord[r] = c} = Kept(localRecord, {c})
      BY DEF Kept
    <2>3. Kept(hub, {c}) \in SUBSET SyncedRows /\ Kept(localRecord, {c}) \in SUBSET SyncedRows
      BY DEF Kept
    <2>4. Cardinality(Kept(hub, {c})) \in Nat /\ Cardinality(Kept(localRecord, {c})) \in Nat
      BY <2>3, RowsAndCategories, FS_Subset, FS_CardinalityType
    <2> QED
      BY <1>1, <2>1, <2>2, <2>4 DEF Drift, HubCount, LocalCount
  <1>3. /\ \A r \in SyncedRows : r \in HubHas <=> hubRecord[r] # NoRecord
        /\ \A r \in SyncedRows : r \in LocalHas <=> localRecord[r] # NoRecord
        /\ HubHas \subseteq SyncedRows /\ LocalHas \subseteq SyncedRows
    BY RowsAndCategories DEF HubHas, LocalHas, Kept, HubCategory, VerdictInv, VerdictShape
  <1>4. /\ IsFiniteSet(HubHas) /\ IsFiniteSet(LocalHas)
        /\ Cardinality(HubHas) \in Nat /\ Cardinality(LocalHas) \in Nat
    BY <1>3, RowsAndCategories, FS_Subset, FS_CardinalityType
  <1>5. Differ => baseline = cursor
    BY DEF VerdictInv, StillSo
  <1>6. Drifts # {} => Differ
    <2> SUFFICES ASSUME Drifts # {} PROVE Differ
      OBVIOUS
    <2>1. PICK c \in Categories : Drift(c) # 0
      BY DEF Drifts
    <2>2. Cardinality(Kept(hub, {c})) # Cardinality(Kept(localRecord, {c}))
      BY <1>2, <2>1
    <2> QED
      BY <1>2, <2>2 DEF Differ
  <1>7. ASSUME Holed, outgoing = {} PROVE verdict' \in {"fault", "node-ahead"}
    <2>1. PICK h \in SyncedRows : hubRecord[h] # NoRecord /\ localRecord[h] = NoRecord
      BY <1>7 DEF Holed, Hole
    <2>2. LocalHas \subseteq HubHas \ {h} /\ h \in HubHas
      BY <1>3, <1>7, <2>1 DEF VerdictInv, BothWays
    <2>3. Cardinality(LocalHas) < Cardinality(HubHas)
      <3>1. IsFiniteSet(HubHas \ {h}) /\ Cardinality(HubHas \ {h}) = Cardinality(HubHas) - 1
        BY <1>4, <2>2, FS_RemoveElement
      <3>2. Cardinality(LocalHas) <= Cardinality(HubHas \ {h})
        BY <2>2, <3>1, FS_Subset
      <3> QED
        BY <1>4, <3>1, <3>2
    <2>4. Drifts # {}
      <3> SUFFICES ASSUME Drifts = {} PROVE FALSE
        OBVIOUS
      <3>1. \A c \in Categories : Cardinality(Kept(hub, {c})) <= Cardinality(Kept(localRecord, {c}))
        BY <1>2 DEF Drifts
      <3>2. Cardinality(Kept(hub, Categories)) <= Cardinality(Kept(localRecord, Categories))
        BY <3>1, CountsAdd
      <3> QED
        BY <1>4, <2>3, <3>2 DEF HubHas, LocalHas
    <2>5. Stalled
      BY <1>5, <1>6, <2>4 DEF Stalled
    <2> QED
      BY <1>1, <2>4, <2>5 DEF Judgement
  <1>8. ASSUME verdict' = "fault", ~Holed, ~Stale PROVE FALSE
    <2>1. (\A c \in Categories : ~(Drift(c) < 0)) /\ Drifts # {}
      BY <1>1, <1>8 DEF Judgement
    <2>2. PICK c \in Categories : Drift(c) # 0
      BY <2>1 DEF Drifts
    <2>3. HubHas \subseteq LocalHas
      <3> SUFFICES ASSUME NEW r \in SyncedRows, hubRecord[r] # NoRecord PROVE localRecord[r] # NoRecord
        BY <1>3
      <3>1. ~Past(r)
        BY <1>1 DEF VerdictInv, StillSo
      <3>2. CASE hubRecord[r].own
        BY <3>2 DEF VerdictInv, BothWays
      <3>3. CASE ~hubRecord[r].own
        <4>1. hubRecord[r].seq \in Nat /\ cursor \in Nat
          BY DEF VerdictInv, VerdictShape
        <4>2. hubRecord[r].seq <= cursor
          BY <3>1, <3>3, <4>1 DEF Past
        <4> QED
          BY <1>8, <3>3, <4>2 DEF Holed, Hole
      <3> QED
        BY <3>2, <3>3
    <2>4. Cardinality(HubHas) <= Cardinality(LocalHas)
      BY <1>4, <2>3, FS_Subset
    <2>5. \A d \in Categories \ {c} : Cardinality(Kept(localRecord, {d})) <= Cardinality(Kept(hub, {d}))
      BY <1>2, <2>1
    <2>6. Cardinality(Kept(localRecord, Categories \ {c})) <= Cardinality(Kept(hub, Categories \ {c}))
      <3>1. Categories \ {c} \in SUBSET Categories
        OBVIOUS
      <3> QED
        BY <2>5, <3>1, CountsAdd
    <2>7. Cardinality(Kept(localRecord, {c})) < Cardinality(Kept(hub, {c}))
      BY <1>2, <2>1, <2>2
    <2>8. /\ Cardinality(HubHas) = Cardinality(Kept(hub, Categories \ {c})) + Cardinality(Kept(hub, {c}))
          /\ Cardinality(Kept(hub, Categories \ {c})) \in Nat
      BY KeptSplit DEF HubHas
    <2>9. /\ Cardinality(LocalHas) = Cardinality(Kept(localRecord, Categories \ {c})) + Cardinality(Kept(localRecord, {c}))
          /\ Cardinality(Kept(localRecord, Categories \ {c})) \in Nat
      BY KeptSplit DEF LocalHas
    <2> QED
      BY <1>2, <1>4, <2>4, <2>6, <2>7, <2>8, <2>9
  <1> QED
    BY <1>7, <1>8

\* The second of two checks with nothing written between reports what the node will never get,
\* and calls only that a fault, or pulls that are old: for any records and categories.
THEOREM FaultsAreHolesHolds == VerdictSpec => FaultsAreHoles
  <1>1. VerdictInit => VerdictInv
    BY VerdictFirst
  <1>2. VerdictInv /\ [VerdictNext]_verdictVars => VerdictInv'
    BY VerdictStep
  <1>3. VerdictInv /\ [VerdictNext]_verdictVars
          => [quietChecks = 1 /\ quietChecks' = 2
              => /\ Holed /\ outgoing = {} => verdict' \in {"fault", "node-ahead"}
                 /\ verdict' = "fault" => Holed \/ Stale]_verdictVars
    <2> SUFFICES ASSUME VerdictInv, VerdictNext, quietChecks = 1, quietChecks' = 2
                 PROVE  /\ Holed /\ outgoing = {} => verdict' \in {"fault", "node-ahead"}
                        /\ verdict' = "fault" => Holed \/ Stale
      OBVIOUS
    <2>1. Judge_drift
      BY DEF VerdictNext, PullAll, VerdictTick, AskHub, QuickCheck, NoAnswer, PushOne, LocalWrite, OtherWrite, Writes
    <2> QED
      BY <2>1, JudgedRight
  <1> QED
    BY <1>1, <1>2, <1>3, PTL DEF VerdictSpec, FaultsAreHoles

-----------------------------------------------------------------------------
(* Sequences, of which a search is made.                                   *)
\* A sequence of members of T, none of them twice.
Distinct(s, T) == s \in Seq(T) /\ \A i, j \in 1..Len(s) : s[i] = s[j] => i = j

\* The beginning of a sequence.
LEMMA FirstOfIs ==
  ASSUME NEW T, NEW s \in Seq(T), NEW n \in Nat
  PROVE  /\ FirstOf(s, n) \in Seq(T)
         /\ Len(FirstOf(s, n)) = IF Len(s) < n THEN Len(s) ELSE n
         /\ \A i \in 1..Len(FirstOf(s, n)) : i \in 1..Len(s) /\ FirstOf(s, n)[i] = s[i]
         /\ IdsOf(FirstOf(s, n)) \subseteq IdsOf(s)
         /\ Len(s) <= n => IdsOf(FirstOf(s, n)) = IdsOf(s)
  <1> DEFINE k == IF Len(s) < n THEN Len(s) ELSE n
             t == FirstOf(s, n)
  <1>1. s \in Seq(T) /\ Len(s) \in Nat /\ k \in 0..Len(s)
    OBVIOUS
  <1>2. \A i \in 1..k : s[i] \in T
    BY <1>1
  <1>3. t = SubSeq(s, 1, k)
    BY DEF FirstOf
  <1> HIDE DEF t
  <1>4. t \in Seq(T) /\ Len(t) = k /\ \A i \in 1..k : t[i] = s[i]
    <2> HIDE DEF k
    <2>1. k \in Int /\ 1 \in Int /\ (1 <= k => k - 1 + 1 = k) /\ k - 1 + 1 = k
      BY <1>1
    <2>2. /\ SubSeq(s, 1, k) \in Seq(T)
          /\ Len(SubSeq(s, 1, k)) = IF 1 <= k THEN k - 1 + 1 ELSE 0
          /\ \A i \in 1..k - 1 + 1 : SubSeq(s, 1, k)[i] = s[1 + i - 1]
      BY <1>2, <2>1, SubSeqProperties
    <2> QED
      BY <1>1, <1>3, <2>1, <2>2
  <1>5. \A i \in 1..Len(t) : i \in 1..Len(s) /\ t[i] = s[i]
    BY <1>1, <1>4
  <1>6. IdsOf(t) \subseteq IdsOf(s)
    BY <1>5 DEF IdsOf
  <1>7. ASSUME Len(s) <= n PROVE IdsOf(t) = IdsOf(s)
    <2>1. k = Len(s)
      BY <1>1, <1>7
    <2> HIDE DEF k
    <2> QED
      BY <1>4, <2>1 DEF IdsOf
  <1> QED
    BY <1>4, <1>5, <1>6, <1>7 DEF t

LEMMA FirstOfHas ==
  ASSUME NEW T, NEW s, Distinct(s, T), NEW n \in Nat
  PROVE  /\ Distinct(FirstOf(s, n), T) /\ IdsOf(FirstOf(s, n)) \subseteq IdsOf(s)
         /\ Len(FirstOf(s, n)) = IF Len(s) < n THEN Len(s) ELSE n
         /\ Len(s) <= n => IdsOf(FirstOf(s, n)) = IdsOf(s)
  <1>1. s \in Seq(T) /\ \A i, j \in 1..Len(s) : s[i] = s[j] => i = j
    BY DEF Distinct
  <1>2. Distinct(FirstOf(s, n), T)
    BY <1>1, FirstOfIs DEF Distinct
  <1> QED
    BY <1>1, <1>2, FirstOfIs

KeptStep(s, I, n, kept) ==
    kept = [i \in 0..n |-> IF i = 0 THEN <<>> ELSE IF i \in I THEN Append(kept[i - 1], s[i]) ELSE kept[i - 1]]

\* The recursive function of Picked exists.
LEMMA KeptExists ==
  ASSUME NEW s, NEW I
  PROVE  \A n \in Nat : \E kept : KeptStep(s, I, n, kept)
  <1> DEFINE T == {n \in Nat : \E kept : KeptStep(s, I, n, kept)}
  <1>1. 0 \in T
    <2>1. KeptStep(s, I, 0, [i \in 0..0 |-> <<>>])
      BY DEF KeptStep
    <2> QED
      BY <2>1
  <1>2. ASSUME NEW n \in Nat, n \in T PROVE n + 1 \in T
    <2>1. PICK k : KeptStep(s, I, n, k)
      BY <1>2
    <2> DEFINE last == IF n + 1 \in I THEN Append(k[n], s[n + 1]) ELSE k[n]
               more == [i \in 0..n + 1 |-> IF i = n + 1 THEN last ELSE k[i]]
    <2>2. \A i \in 0..n + 1 : i # n + 1 => i \in 0..n
      OBVIOUS
    <2>3. more[n + 1] = last /\ \A i \in 0..n : more[i] = k[i]
      OBVIOUS
    <2>4. \A i \in 0..n : k[i] = IF i = 0 THEN <<>> ELSE IF i \in I THEN Append(k[i - 1], s[i]) ELSE k[i - 1]
      BY <2>1 DEF KeptStep
    <2>5. \A i \in 0..n : i # 0 => i - 1 \in 0..n
      OBVIOUS
    <2>6. \A i \in 0..n + 1 :
             more[i] = IF i = 0 THEN <<>> ELSE IF i \in I THEN Append(more[i - 1], s[i]) ELSE more[i - 1]
      <3> HIDE DEF more
      <3>1. (n + 1) - 1 = n /\ n \in 0..n /\ n + 1 # 0
        OBVIOUS
      <3>2. more[n + 1] = IF n + 1 \in I THEN Append(more[n], s[n + 1]) ELSE more[n]
        BY <2>3, <3>1
      <3> QED
        BY <2>2, <2>3, <2>4, <2>5, <3>1, <3>2
    <2>7. KeptStep(s, I, n + 1, more)
      <3>1. more = [i \in 0..n + 1 |-> more[i]]
        OBVIOUS
      <3> HIDE DEF more
      <3> QED
        BY <2>6, <3>1 DEF KeptStep
    <2> QED
      BY <2>7
  <1>3. \A n \in Nat : n \in T
    <2> HIDE DEF T
    <2> QED
      BY <1>1, <1>2, SetInduction
  <1> QED
    BY <1>3

LEMMA PickedDef ==
  ASSUME NEW s, NEW I, NEW k, KeptStep(s, I, Len(s), k)
  PROVE  \E kept : KeptStep(s, I, Len(s), kept) /\ Picked(s, I) = kept[Len(s)]
  BY DEF Picked, KeptStep

\* Picked keeps what is at the places, each member once if it is at one of them only.
LEMMA PickedHas ==
  ASSUME NEW T, NEW s \in Seq(T), NEW I, I \subseteq 1..Len(s), \A i, j \in I : s[i] = s[j] => i = j
  PROVE  Distinct(Picked(s, I), T) /\ IdsOf(Picked(s, I)) = {s[i] : i \in I}
  <1>1. Len(s) \in Nat /\ \A i \in 1..Len(s) : s[i] \in T
    OBVIOUS
  <1>2. PICK k : KeptStep(s, I, Len(s), k) /\ Picked(s, I) = k[Len(s)]
    <2>1. \E k : KeptStep(s, I, Len(s), k)
      BY <1>1, KeptExists
    <2> QED
      BY <2>1, PickedDef
  <1> DEFINE Upto(n) == {s[i] : i \in I \cap 1..n}
             Good == {n \in Nat : n <= Len(s) => Distinct(k[n], T) /\ IdsOf(k[n]) = Upto(n)}
  <1>3. 0 \in Good
    <2>1. k[0] = <<>>
      BY <1>1, <1>2 DEF KeptStep
    <2>2. Distinct(<<>>, T) /\ IdsOf(<<>>) = {} /\ Upto(0) = {}
      BY DEF Distinct, IdsOf
    <2> QED
      BY <2>1, <2>2
  <1>4. ASSUME NEW n \in Nat, n \in Good PROVE n + 1 \in Good
    <2> SUFFICES ASSUME n + 1 <= Len(s)
                 PROVE  Distinct(k[n + 1], T) /\ IdsOf(k[n + 1]) = Upto(n + 1)
      OBVIOUS
    <2>1. Distinct(k[n], T) /\ IdsOf(k[n]) = Upto(n)
      BY <1>1, <1>4
    <2>2. k[n + 1] = IF n + 1 \in I THEN Append(k[n], s[n + 1]) ELSE k[n]
      <3>1. n + 1 \in 0..Len(s) /\ n + 1 # 0 /\ (n + 1) - 1 = n
        BY <1>1
      <3> QED
        BY <1>2, <3>1 DEF KeptStep
    <2>3. \A i \in 1..n + 1 : i \in 1..n \/ i = n + 1
      OBVIOUS
    <2>4. CASE n + 1 \notin I
      <3>1. I \cap 1..n + 1 = I \cap 1..n
        BY <2>3, <2>4
      <3> QED
        BY <2>1, <2>2, <2>4, <3>1
    <2>5. CASE n + 1 \in I
      <3>1. s[n + 1] \in T /\ s[n + 1] \notin Upto(n)
        <4>1. n + 1 \in 1..Len(s) /\ \A i \in 1..n : i # n + 1
          BY <1>1
        <4> QED
          BY <1>1, <2>5, <4>1
      <3>2. Upto(n + 1) = Upto(n) \cup {s[n + 1]}
        <4>1. I \cap 1..n + 1 = (I \cap 1..n) \cup {n + 1}
          BY <2>3, <2>5
        <4> QED
          BY <4>1
      <3> DEFINE t == k[n]
                 u == k[n + 1]
      <3>3. t \in Seq(T) /\ Len(t) \in Nat /\ u = Append(t, s[n + 1]) /\ IdsOf(t) = Upto(n)
        BY <2>1, <2>2, <2>5 DEF Distinct
      <3>4. \A i, j \in 1..Len(t) : t[i] = t[j] => i = j
        BY <2>1 DEF Distinct
      <3> HIDE DEF t, u, Upto
      <3>5. /\ u \in Seq(T) /\ Len(u) = Len(t) + 1 /\ u[Len(t) + 1] = s[n + 1]
            /\ \A i \in 1..Len(t) : u[i] = t[i]
        BY <3>1, <3>3, AppendProperties
      <3>6. \A i \in 1..Len(t) : t[i] # s[n + 1]
        BY <3>1, <3>3 DEF IdsOf
      <3>7. \A i \in 1..Len(u) : i \in 1..Len(t) \/ i = Len(t) + 1
        BY <3>3, <3>5
      <3>8. Distinct(u, T)
        BY <3>4, <3>5, <3>6, <3>7 DEF Distinct
      <3>9. IdsOf(u) = IdsOf(t) \cup {s[n + 1]}
        <4>1. \A i \in 1..Len(t) : i \in 1..Len(u)
          BY <3>3, <3>5
        <4>2. Len(t) + 1 \in 1..Len(u)
          BY <3>3, <3>5
        <4> QED
          BY <3>5, <3>7, <4>1, <4>2 DEF IdsOf
      <3>10. Distinct(k[n + 1], T) /\ IdsOf(k[n + 1]) = IdsOf(t) \cup {s[n + 1]}
        BY <3>8, <3>9 DEF u
      <3> QED
        BY <3>2, <3>3, <3>10
    <2> QED
      BY <2>4, <2>5
  <1>5. Len(s) \in Good
    <2>1. \A n \in Nat : n \in Good
      <3> HIDE DEF Good
      <3> QED
        BY <1>3, <1>4, SetInduction
    <2> QED
      BY <1>1, <2>1
  <1>6. Upto(Len(s)) = {s[i] : i \in I}
    <2>1. I \cap 1..Len(s) = I
      OBVIOUS
    <2> QED
      BY <2>1
  <1>7. Distinct(k[Len(s)], T) /\ IdsOf(k[Len(s)]) = Upto(Len(s))
    BY <1>1, <1>5
  <1> HIDE DEF Upto
  <1> QED
    BY <1>2, <1>6, <1>7

\* Only keeps what is in the set, and no member twice that the sequence has not.
LEMMA OnlyHas ==
  ASSUME NEW T, NEW s, Distinct(s, T), NEW S
  PROVE  Distinct(Only(s, S), T) /\ IdsOf(Only(s, S)) = IdsOf(s) \cap S
  <1> DEFINE I == {i \in 1..Len(s) : s[i] \in S}
  <1>1. s \in Seq(T) /\ I \subseteq 1..Len(s) /\ \A i, j \in I : s[i] = s[j] => i = j
    BY DEF Distinct
  <1>2. {s[i] : i \in I} = IdsOf(s) \cap S
    BY DEF IdsOf
  <1> HIDE DEF I
  <1>3. Distinct(Picked(s, I), T) /\ IdsOf(Picked(s, I)) = {s[i] : i \in I}
    BY <1>1, PickedHas
  <1> QED
    BY <1>2, <1>3 DEF Only, I

\* A place where a member is met first.
LEMMA FirstPlace ==
  ASSUME NEW T, NEW s \in Seq(T), NEW n \in 1..Len(s)
  PROVE  \E i \in FirstPlaces(s) : s[i] = s[n]
  <1> DEFINE Later == {i \in Nat : \A j \in 1..Len(s) : j <= i /\ s[j] = s[n] => \E f \in FirstPlaces(s) : s[f] = s[n]}
  <1>1. Len(s) \in Nat
    OBVIOUS
  <1>2. 0 \in Later
    OBVIOUS
  <1>3. ASSUME NEW i \in Nat, i \in Later PROVE i + 1 \in Later
    <2> SUFFICES ASSUME NEW j \in 1..Len(s), j <= i + 1, s[j] = s[n]
                 PROVE  \E f \in FirstPlaces(s) : s[f] = s[n]
      OBVIOUS
    <2>1. CASE \E e \in 1..j - 1 : s[e] = s[j]
      <3>1. PICK e \in 1..j - 1 : s[e] = s[j]
        BY <2>1
      <3>2. e \in 1..Len(s) /\ e <= i
        BY <1>1
      <3> QED
        BY <1>3, <3>1, <3>2
    <2>2. CASE \A e \in 1..j - 1 : s[e] # s[j]
      BY <2>2 DEF FirstPlaces
    <2> QED
      BY <2>1, <2>2
  <1>4. \A i \in Nat : i \in Later
    <2> HIDE DEF Later
    <2> QED
      BY <1>2, <1>3, SetInduction
  <1> QED
    BY <1>1, <1>4

\* Chunks become memories, each once.
LEMMA BestHas ==
  ASSUME NEW T, NEW s \in Seq(T)
  PROVE  Distinct(Best(s), T) /\ IdsOf(Best(s)) = IdsOf(s)
  <1>1. FirstPlaces(s) \subseteq 1..Len(s) /\ Len(s) \in Nat
    BY DEF FirstPlaces
  <1>2. \A i, j \in FirstPlaces(s) : s[i] = s[j] => i = j
    <2> SUFFICES ASSUME NEW i \in FirstPlaces(s), NEW j \in FirstPlaces(s), s[i] = s[j], i # j PROVE FALSE
      OBVIOUS
    <2>1. i \in 1..j - 1 \/ j \in 1..i - 1
      BY <1>1
    <2> QED
      BY <2>1 DEF FirstPlaces
  <1>3. Distinct(Best(s), T) /\ IdsOf(Best(s)) = {s[i] : i \in FirstPlaces(s)}
    BY <1>1, <1>2, PickedHas DEF Best
  <1>4. {s[i] : i \in FirstPlaces(s)} = IdsOf(s)
    BY <1>1, FirstPlace DEF IdsOf
  <1> QED
    BY <1>3, <1>4

\* A sequence without repetition has as many members as places.
LEMMA IdsCounted ==
  ASSUME NEW T, NEW s, Distinct(s, T)
  PROVE  IsFiniteSet(IdsOf(s)) /\ Cardinality(IdsOf(s)) = Len(s) /\ IdsOf(s) \subseteq T
  <1> DEFINE f == [i \in 1..Len(s) |-> s[i]]
  <1>1. Len(s) \in Nat
    BY DEF Distinct
  <1>2. f \in Bijection(1..Len(s), IdsOf(s))
    BY DEF Distinct, IdsOf, Bijection, Injection, IsInjective, Surjection
  <1>3. ExistsBijection(1..Len(s), IdsOf(s))
    BY <1>2 DEF ExistsBijection
  <1>4. IsFiniteSet(1..Len(s))
    BY <1>1, FS_Interval
  <1> QED
    BY <1>1, <1>3, <1>4, FS_Bijection, FS_CountingElements DEF Distinct, IdsOf

\* In a finite set that is ordered, every place is taken.
LEMMA PlacesTaken ==
  ASSUME NEW F, IsFiniteSet(F), NEW L,
         \A x \in F : <<x, x>> \notin L,
         \A x, y, z \in F : <<x, y>> \in L /\ <<y, z>> \in L => <<x, z>> \in L,
         \A x, y \in F : x # y => <<x, y>> \in L \/ <<y, x>> \in L
  PROVE  \A i \in 1..Cardinality(F) : \E m \in F : Cardinality({x \in F : <<x, m>> \in L}) = i - 1
  <1> DEFINE less(m) == {x \in F : <<x, m>> \in L}
             N == Cardinality(F)
             f == [m \in F |-> Cardinality(less(m))]
  <1>1. N \in Nat
    BY FS_CardinalityType
  <1>2. \A m \in F : IsFiniteSet(less(m)) /\ Cardinality(less(m)) \in Nat
    <2>1. \A m \in F : less(m) \in SUBSET F
      OBVIOUS
    <2>2. \A m \in F : IsFiniteSet(less(m))
      BY <2>1, FS_Subset
    <2> QED
      BY <2>2, FS_CardinalityType
  <1>3. ASSUME NEW m \in F PROVE Cardinality(less(m)) <= N - 1
    <2>1. IsFiniteSet(F \ {m}) /\ Cardinality(F \ {m}) = N - 1
      BY FS_RemoveElement
    <2>2. less(m) \in SUBSET (F \ {m})
      OBVIOUS
    <2> HIDE DEF less
    <2>3. Cardinality(less(m)) <= Cardinality(F \ {m})
      BY <2>1, <2>2, FS_Subset
    <2> QED
      BY <2>1, <2>3
  <1>4. ASSUME NEW m \in F, NEW n \in F, <<m, n>> \in L PROVE Cardinality(less(m)) < Cardinality(less(n))
    <2>1. m \notin less(m) /\ less(m) \cup {m} \in SUBSET less(n)
      BY <1>4
    <2>2. IsFiniteSet(less(m)) /\ IsFiniteSet(less(n)) /\ Cardinality(less(m)) \in Nat /\ Cardinality(less(n)) \in Nat
      BY <1>2
    <2> HIDE DEF less
    <2>3. Cardinality(less(m) \cup {m}) = Cardinality(less(m)) + 1
      BY <2>1, <2>2, FS_AddElement
    <2>4. Cardinality(less(m) \cup {m}) <= Cardinality(less(n))
      BY <2>1, <2>2, FS_Subset
    <2> QED
      BY <2>2, <2>3, <2>4
  <1> HIDE DEF less
  <1>5. f \in [F -> 0..(N - 1)]
    <2>1. \A m \in F : Cardinality(less(m)) \in 0..(N - 1)
      BY <1>1, <1>2, <1>3
    <2> QED
      BY <2>1
  <1>6. \A m, n \in F : f[m] = f[n] => m = n
    <2>1. \A m, n \in F : <<m, n>> \in L => f[m] < f[n]
      BY <1>4
    <2>2. \A m \in F : f[m] \in Nat
      BY <1>2
    <2> HIDE DEF f
    <2>3. \A m, n \in F : <<m, n>> \in L => f[m] # f[n]
      BY <2>1, <2>2
    <2> QED
      BY <2>3
  <1>7. f \in Injection(F, 0..(N - 1))
    BY <1>5, <1>6 DEF Injection, IsInjective
  <1>8. IsFiniteSet(0..(N - 1)) /\ Cardinality(0..(N - 1)) = N
    <2>1. 0 \in Int /\ N - 1 \in Int
      BY <1>1
    <2>2. IsFiniteSet(0..(N - 1)) /\ Cardinality(0..(N - 1)) = IF 0 > N - 1 THEN 0 ELSE N - 1 - 0 + 1
      BY <2>1, FS_Interval
    <2> QED
      BY <1>1, <2>2
  <1>9. f \in Surjection(F, 0..(N - 1))
    <2> HIDE DEF f, N
    <2>1. Cardinality(F) = Cardinality(0..(N - 1)) <=> f \in Surjection(F, 0..(N - 1))
      BY <1>7, <1>8, FS_Injection
    <2> QED
      BY <1>8, <2>1 DEF N
  <1>10. \A i \in 1..N : \E m \in F : f[m] = i - 1
    <2>1. \A i \in 1..N : i - 1 \in 0..(N - 1)
      BY <1>1
    <2> HIDE DEF f
    <2> QED
      BY <1>9, <2>1 DEF Surjection
  <1> QED
    BY <1>10 DEF less

\* Where a sequence has a member.
LEMMA PositionIs ==
  ASSUME NEW s, NEW m \in IdsOf(s)
  PROVE  Position(s, m) \in 1..Len(s) /\ s[Position(s, m)] = m
  <1>1. \E i \in 1..Len(s) : s[i] = m
    BY DEF IdsOf
  <1> QED
    BY <1>1 DEF Position

Found(kw, sem) == IdsOf(kw) \cup IdsOf(sem)

\* Of the memories found no two are seen in one place, and those of the keyword tier come first.
LEMMA SeenIs ==
  ASSUME NEW T, NEW kw, NEW sem, Distinct(kw, T), Distinct(sem, T)
  PROVE  /\ \A m \in Found(kw, sem) : Seen(kw, sem, m) \in Nat
         /\ \A m, n \in Found(kw, sem) : Seen(kw, sem, m) = Seen(kw, sem, n) => m = n
  <1>1. Len(kw) \in Nat /\ Len(sem) \in Nat
    BY DEF Distinct
  <1>2. \A m \in IdsOf(kw) : Seen(kw, sem, m) \in 1..Len(kw) /\ kw[Seen(kw, sem, m)] = m
    BY PositionIs DEF Seen
  <1>3. \A m \in Found(kw, sem) \ IdsOf(kw) :
           Position(sem, m) \in 1..Len(sem) /\ sem[Position(sem, m)] = m /\ Seen(kw, sem, m) = Len(kw) + Position(sem, m)
    BY PositionIs DEF Seen, Found
  <1>4. \A m \in Found(kw, sem) : Seen(kw, sem, m) \in Nat
    BY <1>1, <1>2, <1>3
  <1>5. ASSUME NEW m \in Found(kw, sem), NEW n \in Found(kw, sem), Seen(kw, sem, m) = Seen(kw, sem, n) PROVE m = n
    <2>1. CASE m \in IdsOf(kw) /\ n \in IdsOf(kw)
      BY <1>2, <1>5, <2>1
    <2>2. CASE m \notin IdsOf(kw) /\ n \notin IdsOf(kw)
      <3>1. Position(sem, m) = Position(sem, n)
        <4>1. /\ Position(sem, m) \in 1..Len(sem) /\ Seen(kw, sem, m) = Len(kw) + Position(sem, m)
              /\ Position(sem, n) \in 1..Len(sem) /\ Seen(kw, sem, n) = Len(kw) + Position(sem, n)
          BY <1>3, <2>2
        <4>2. Len(kw) + Position(sem, m) = Len(kw) + Position(sem, n)
          BY <1>5, <4>1
        <4>3. \A i, j \in 1..Len(sem) : Len(kw) + i = Len(kw) + j => i = j
          BY <1>1
        <4> QED
          BY <4>1, <4>2, <4>3
      <3> QED
        BY <1>3, <2>2, <3>1
    <2>3. \A x \in Found(kw, sem) \ IdsOf(kw), y \in IdsOf(kw) : Seen(kw, sem, y) # Seen(kw, sem, x)
      BY <1>1, <1>2, <1>3
    <2> QED
      BY <1>5, <2>1, <2>2, <2>3
  <1> QED
    BY <1>4, <1>5

\* What ranking makes of the memories found: all of them, each once.
LEMMA RankedHas ==
  ASSUME NEW T, NEW q, Distinct(q.kw, T), Distinct(q.sem, T),
         \A m \in Found(q.kw, q.sem) : q.score[m] \in Int
  PROVE  Distinct(Ranked(q), T) /\ IdsOf(Ranked(q)) = Found(q.kw, q.sem)
  <1> DEFINE F == Found(q.kw, q.sem)
             N == Cardinality(F)
             L == {e \in F \X F : Before(q, e[1], e[2])}
             at(i, m) == Cardinality({x \in F : Before(q, x, m)}) = i - 1
             r == Ranked(q)
  <1>1. IsFiniteSet(F) /\ N \in Nat /\ F \subseteq T
    <2>1. IsFiniteSet(IdsOf(q.kw)) /\ IsFiniteSet(IdsOf(q.sem)) /\ IdsOf(q.kw) \subseteq T /\ IdsOf(q.sem) \subseteq T
      BY IdsCounted
    <2>2. IsFiniteSet(F)
      BY <2>1, FS_Union DEF Found
    <2> QED
      BY <2>1, <2>2, FS_CardinalityType DEF Found
  <1>2. /\ \A m \in F : Seen(q.kw, q.sem, m) \in Nat
        /\ \A m, n \in F : Seen(q.kw, q.sem, m) = Seen(q.kw, q.sem, n) => m = n
    BY SeenIs
  <1>3. /\ \A x \in F : ~Before(q, x, x)
        /\ \A x, y, z \in F : Before(q, x, y) /\ Before(q, y, z) => Before(q, x, z)
        /\ \A x, y \in F : x # y => Before(q, x, y) \/ Before(q, y, x)
    <2> HIDE DEF F
    <2>1. \A m \in F : q.score[m] \in Int
      BY DEF F
    <2> QED
      BY <1>2, <2>1 DEF Before
  <1>4. \A i \in 1..N : \E m \in F : at(i, m)
    <2>1. \A x, y \in F : <<x, y>> \in L <=> Before(q, x, y)
      OBVIOUS
    <2>2. \A m \in F : {x \in F : <<x, m>> \in L} = {x \in F : Before(q, x, m)}
      BY <2>1
    <2> HIDE DEF L, F
    <2>3. \A i \in 1..Cardinality(F) : \E m \in F : Cardinality({x \in F : <<x, m>> \in L}) = i - 1
      BY <1>1, <1>3, <2>1, PlacesTaken
    <2> QED
      BY <2>2, <2>3
  <1>5. r = [i \in 1..N |-> CHOOSE m \in F : at(i, m)]
    BY DEF Ranked, Found
  <1> HIDE DEF r
  <1>6. \A i \in 1..N : r[i] \in F /\ at(i, r[i])
    <2> HIDE DEF F, N, at
    <2> QED
      BY <1>4, <1>5
  <1> HIDE DEF F
  <1>7. \A i, j \in 1..N : r[i] = r[j] => i = j
    <2> SUFFICES ASSUME NEW i \in 1..N, NEW j \in 1..N, r[i] = r[j] PROVE i = j
      OBVIOUS
    <2>1. i - 1 = j - 1
      BY <1>6
    <2> QED
      BY <1>1, <2>1
  <1>8. r \in [1..N -> F]
    <2> HIDE DEF N, at
    <2> QED
      BY <1>5, <1>6
  <1>9. r \in Seq(T) /\ Len(r) = N
    <2>1. r \in [1..N -> T]
      BY <1>1, <1>8
    <2> HIDE DEF N
    <2> QED
      BY <1>1, <2>1
  <1>10. Distinct(r, T)
    BY <1>7, <1>9 DEF Distinct
  <1>11. r \in Surjection(1..N, F)
    <2>1. r \in Injection(1..N, F)
      BY <1>7, <1>8 DEF Injection, IsInjective
    <2>2. Cardinality(1..N) = N
      BY <1>1, FS_Interval
    <2> HIDE DEF N
    <2>3. Cardinality(1..N) = Cardinality(F) <=> r \in Surjection(1..N, F)
      BY <1>1, <2>1, FS_Injection
    <2> QED
      BY <2>2, <2>3 DEF N
  <1>12. IdsOf(r) = F
    BY <1>9, <1>11 DEF Surjection, IdsOf
  <1> QED
    BY <1>10, <1>12 DEF r, F

\* The token budget cuts off an end.
LEMMA TrimmedHas ==
  ASSUME NEW T, NEW s, Distinct(s, T), NEW budget
  PROVE  IdsOf(Trimmed(s, budget)) \subseteq IdsOf(s) /\ (budget = 0 => Trimmed(s, budget) = s)
  <1> SUFFICES ASSUME budget # 0, s # <<>> PROVE IdsOf(Trimmed(s, budget)) \subseteq IdsOf(s)
    BY DEF Trimmed
  <1> DEFINE fits == {n \in 1..Len(s) : \A i \in 2..n : SizeOf(FirstOf(s, i)) <= budget}
             best == CHOOSE n \in fits : \A k \in fits : k <= n
  <1>1. Len(s) \in Nat /\ Len(s) # 0
    BY DEF Distinct
  <1>2. 1 \in fits
    BY <1>1
  <1>3. IsFiniteSet(fits) /\ fits \in SUBSET Nat
    <2>1. IsFiniteSet(1..Len(s))
      BY <1>1, FS_Interval
    <2>2. fits \in SUBSET (1..Len(s))
      OBVIOUS
    <2>3. IsFiniteSet(fits)
      BY <2>1, <2>2, FS_Subset
    <2> QED
      BY <1>1, <2>2, <2>3
  <1>4. Trimmed(s, budget) = FirstOf(s, best)
    BY DEF Trimmed
  <1> HIDE DEF fits
  <1>5. HasGreatest(fits)
    BY <1>2, <1>3, GreatestExists
  <1>6. best \in fits
    BY <1>5 DEF HasGreatest
  <1> HIDE DEF best
  <1>7. best \in Nat
    BY <1>3, <1>6
  <1> QED
    BY <1>4, <1>7, FirstOfHas

-----------------------------------------------------------------------------
(* The fusion.                                                             *)
\* A share falls with the rank.
LEMMA ShareFalls ==
  \A i, j \in Nat : Share(i) \in Nat /\ (i <= j => Share(j) <= Share(i))
  BY DEF Share

\* Where a tier has not found a memory, it is behind those found.
LEMMA RankInIs ==
  ASSUME NEW T, NEW s, Distinct(s, T), NEW m
  PROVE  /\ RankIn(s, m) \in Nat
         /\ m \in IdsOf(s) => RankIn(s, m) = Position(s, m) /\ RankIn(s, m) \in 1..Len(s) /\ s[RankIn(s, m)] = m
         /\ m \notin IdsOf(s) => RankIn(s, m) = Len(s) + 1
  <1>1. Len(s) \in Nat
    BY DEF Distinct
  <1>2. CASE m \in IdsOf(s)
    BY <1>1, <1>2, PositionIs DEF RankIn
  <1>3. CASE m \notin IdsOf(s)
    BY <1>1, <1>3 DEF RankIn
  <1> QED
    BY <1>2, <1>3

Values == [Remembrances -> Int]

\* Of two memories of which the first has the greater value, or is seen first, it has the better rank.
LEMMA RankByOrder ==
  ASSUME NEW kw, NEW sem, Distinct(kw, Remembrances), Distinct(sem, Remembrances), NEW value \in Values,
         NEW a \in Found(kw, sem), NEW b \in Found(kw, sem)
  PROVE  /\ RankBy(kw, sem, value, a) \in Nat
         /\ value[a] >= value[b] /\ Seen(kw, sem, a) <= Seen(kw, sem, b)
            => RankBy(kw, sem, value, a) <= RankBy(kw, sem, value, b)
  <1> DEFINE F == Found(kw, sem)
             ahead(m) == {x \in F : \/ value[x] > value[m]
                                    \/ (value[x] = value[m] /\ Seen(kw, sem, x) < Seen(kw, sem, m))}
  <1>1. \A m : RankBy(kw, sem, value, m) = 1 + Cardinality(ahead(m))
    BY DEF RankBy, Found
  <1>2. IsFiniteSet(F) /\ F \subseteq Remembrances
    <2>1. /\ IsFiniteSet(IdsOf(kw)) /\ IsFiniteSet(IdsOf(sem))
          /\ IdsOf(kw) \subseteq Remembrances /\ IdsOf(sem) \subseteq Remembrances
      BY IdsCounted
    <2> QED
      BY <2>1, FS_Union DEF Found
  <1>3. \A m \in F : IsFiniteSet(ahead(m)) /\ Cardinality(ahead(m)) \in Nat
    <2>1. \A m \in F : ahead(m) \in SUBSET F
      OBVIOUS
    <2> HIDE DEF ahead, F
    <2>2. \A m \in F : IsFiniteSet(ahead(m))
      BY <1>2, <2>1, FS_Subset
    <2> QED
      BY <2>2, FS_CardinalityType
  <1>4. ASSUME value[a] >= value[b], Seen(kw, sem, a) <= Seen(kw, sem, b) PROVE ahead(a) \in SUBSET ahead(b)
    <2>1. \A x \in F : value[x] \in Int /\ Seen(kw, sem, x) \in Nat
      BY <1>2, SeenIs DEF Values
    <2> HIDE DEF F
    <2>2. a \in F /\ b \in F
      BY DEF F
    <2> QED
      BY <1>4, <2>1, <2>2
  <1> HIDE DEF ahead
  <1>5. ASSUME value[a] >= value[b], Seen(kw, sem, a) <= Seen(kw, sem, b)
        PROVE  Cardinality(ahead(a)) <= Cardinality(ahead(b))
    BY <1>3, <1>4, <1>5, FS_Subset
  <1> QED
    BY <1>1, <1>3, <1>5

\* What the text index thinks of a match falls with its place.
TextValue(kw) == [x \in Remembrances |-> IF x \in IdsOf(kw) THEN -Position(kw, x) ELSE -(Len(kw) + 1)]

\* A memory at least as good as another in every signal has at least its score, and is seen no later.
LEMMA ScoreOrder ==
  ASSUME NEW kw, NEW sem, Distinct(kw, Remembrances), Distinct(sem, Remembrances),
         NEW vital \in Values, Created \in Values, NEW strategy,
         NEW a \in Found(kw, sem), NEW b \in Found(kw, sem)
  PROVE  /\ Score(kw, sem, vital, strategy, a) \in Nat
         /\ /\ RankIn(kw, a) <= RankIn(kw, b) /\ RankIn(sem, a) <= RankIn(sem, b)
            /\ Created[a] >= Created[b] /\ vital[a] >= vital[b]
            => /\ Seen(kw, sem, a) <= Seen(kw, sem, b)
               /\ Score(kw, sem, vital, strategy, a) >= Score(kw, sem, vital, strategy, b)
  <1>1. Len(kw) \in Nat /\ Len(sem) \in Nat
    BY DEF Distinct
  <1>2. a \in Remembrances /\ b \in Remembrances
    <2>1. IdsOf(kw) \subseteq Remembrances /\ IdsOf(sem) \subseteq Remembrances
      BY IdsCounted
    <2> QED
      BY <2>1 DEF Found
  <1>3. TextValue(kw) \in Values /\ \A x \in Remembrances : TextValue(kw)[x] = -RankIn(kw, x)
    <2>1. \A x \in Remembrances : RankIn(kw, x) \in Nat
      BY RankInIs
    <2>2. \A x \in Remembrances : TextValue(kw)[x] = -RankIn(kw, x)
      BY DEF TextValue, RankIn
    <2>3. \A x \in Remembrances : TextValue(kw)[x] \in Int
      BY <2>1, <2>2
    <2>4. TextValue(kw) = [x \in Remembrances |-> TextValue(kw)[x]]
      BY DEF TextValue
    <2> QED
      BY <2>2, <2>3, <2>4 DEF Values
  <1> DEFINE ranks(m) == <<RankIn(kw, m), RankIn(sem, m), RankBy(kw, sem, Created, m),
                           RankBy(kw, sem, vital, m), RankBy(kw, sem, TextValue(kw), m)>>
             w == Weights(strategy)
             score(m) == w[1] * Share(ranks(m)[1]) + w[2] * Share(ranks(m)[2]) + w[3] * Share(ranks(m)[3])
                         + 2 * Share(ranks(m)[4]) + 2 * Share(ranks(m)[5])
  <1>4. \A m : Score(kw, sem, vital, strategy, m) = score(m)
    BY DEF Score, TextValue
  <1>5. \A i \in 1..5 : ranks(a)[i] \in Nat /\ ranks(b)[i] \in Nat
    <2>1. RankIn(kw, a) \in Nat /\ RankIn(sem, a) \in Nat /\ RankIn(kw, b) \in Nat /\ RankIn(sem, b) \in Nat
      BY RankInIs
    <2>2. \A value \in Values : RankBy(kw, sem, value, a) \in Nat /\ RankBy(kw, sem, value, b) \in Nat
      BY RankByOrder
    <2>3. /\ RankBy(kw, sem, Created, a) \in Nat /\ RankBy(kw, sem, Created, b) \in Nat
          /\ RankBy(kw, sem, vital, a) \in Nat /\ RankBy(kw, sem, vital, b) \in Nat
          /\ RankBy(kw, sem, TextValue(kw), a) \in Nat /\ RankBy(kw, sem, TextValue(kw), b) \in Nat
      BY <1>3, <2>2
    <2> QED
      BY <2>1, <2>3
  <1>6. w[1] \in {1, 2, 3} /\ w[2] \in {1, 2, 3} /\ w[3] \in {2, 3}
    <2>1. CASE strategy = "keyword_favored"
      BY <2>1 DEF Weights
    <2>2. CASE strategy = "semantic_favored"
      BY <2>2 DEF Weights
    <2>3. CASE strategy = "temporal"
      BY <2>3 DEF Weights
    <2>4. CASE strategy \notin {"keyword_favored", "semantic_favored", "temporal"}
      <3>1. Weights(strategy) = <<2, 2, 2>>
        BY <2>4 DEF Weights
      <3> QED
        BY <3>1
    <2> QED
      BY <2>1, <2>2, <2>3, <2>4
  <1> HIDE DEF w
  <1>7. \A m \in {a, b} : score(m) \in Nat
    <2> HIDE DEF ranks
    <2>1. \A m \in {a, b} : \A i \in 1..5 : Share(ranks(m)[i]) \in Nat
      BY <1>5, ShareFalls
    <2>2. \A m \in {a, b} : /\ Share(ranks(m)[1]) \in Nat /\ Share(ranks(m)[2]) \in Nat /\ Share(ranks(m)[3]) \in Nat
                            /\ Share(ranks(m)[4]) \in Nat /\ Share(ranks(m)[5]) \in Nat
      BY <2>1
    <2> QED
      BY <1>6, <2>2
  <1>8. ASSUME RankIn(kw, a) <= RankIn(kw, b), RankIn(sem, a) <= RankIn(sem, b),
               Created[a] >= Created[b], vital[a] >= vital[b]
        PROVE  Seen(kw, sem, a) <= Seen(kw, sem, b) /\ score(a) >= score(b)
    <2>1. Seen(kw, sem, a) <= Seen(kw, sem, b)
      <3>1. CASE a \in IdsOf(kw) /\ b \in IdsOf(kw)
        BY <1>8, <3>1 DEF Seen, RankIn
      <3>2. CASE a \in IdsOf(kw) /\ b \notin IdsOf(kw)
        <4>1. b \in IdsOf(sem)
          BY <3>2 DEF Found
        <4>2. Position(kw, a) \in 1..Len(kw) /\ Position(sem, b) \in 1..Len(sem)
          BY <3>2, <4>1, PositionIs
        <4> QED
          BY <1>1, <3>2, <4>2 DEF Seen
      <3>3. CASE a \notin IdsOf(kw) /\ b \in IdsOf(kw)
        <4>1. RankIn(kw, a) = Len(kw) + 1 /\ RankIn(kw, b) \in 1..Len(kw)
          BY <3>3, RankInIs
        <4> QED
          BY <1>1, <1>8, <4>1
      <3>4. CASE a \notin IdsOf(kw) /\ b \notin IdsOf(kw)
        <4>1. a \in IdsOf(sem) /\ b \in IdsOf(sem)
          BY <3>4 DEF Found
        <4>2. Position(sem, a) \in 1..Len(sem) /\ Position(sem, b) \in 1..Len(sem)
          BY <4>1, PositionIs
        <4>3. Position(sem, a) <= Position(sem, b)
          BY <1>8, <4>1 DEF RankIn
        <4>4. Seen(kw, sem, a) = Len(kw) + Position(sem, a) /\ Seen(kw, sem, b) = Len(kw) + Position(sem, b)
          BY <3>4 DEF Seen
        <4>5. \A i, j \in 1..Len(sem) : i <= j => Len(kw) + i <= Len(kw) + j
          BY <1>1
        <4> QED
          BY <4>2, <4>3, <4>4, <4>5
      <3> QED
        BY <3>1, <3>2, <3>3, <3>4
    <2>2. TextValue(kw)[a] >= TextValue(kw)[b]
      <3>1. RankIn(kw, a) \in Nat /\ RankIn(kw, b) \in Nat
        BY RankInIs
      <3> QED
        BY <1>2, <1>3, <1>8, <3>1
    <2>3. /\ RankBy(kw, sem, Created, a) <= RankBy(kw, sem, Created, b)
          /\ RankBy(kw, sem, vital, a) <= RankBy(kw, sem, vital, b)
          /\ RankBy(kw, sem, TextValue(kw), a) <= RankBy(kw, sem, TextValue(kw), b)
      BY <1>3, <1>8, <2>1, <2>2, RankByOrder
    <2>4. \A i \in 1..5 : ranks(a)[i] <= ranks(b)[i]
      BY <1>8, <2>3
    <2> HIDE DEF ranks
    <2>5. \A i \in 1..5 : Share(ranks(b)[i]) <= Share(ranks(a)[i])
      BY <1>5, <2>4, ShareFalls
    <2>6. \A i \in 1..5 : Share(ranks(a)[i]) \in Nat /\ Share(ranks(b)[i]) \in Nat
      BY <1>5, ShareFalls
    <2>7. score(a) >= score(b)
      <3> DEFINE A(i) == Share(ranks(a)[i])
                 B(i) == Share(ranks(b)[i])
      <3>1. /\ A(1) \in Nat /\ A(2) \in Nat /\ A(3) \in Nat /\ A(4) \in Nat /\ A(5) \in Nat
            /\ B(1) \in Nat /\ B(2) \in Nat /\ B(3) \in Nat /\ B(4) \in Nat /\ B(5) \in Nat
            /\ B(1) <= A(1) /\ B(2) <= A(2) /\ B(3) <= A(3) /\ B(4) <= A(4) /\ B(5) <= A(5)
        BY <2>5, <2>6
      <3>2. /\ w[1] * B(1) <= w[1] * A(1) /\ w[1] * A(1) \in Nat /\ w[1] * B(1) \in Nat
            /\ w[2] * B(2) <= w[2] * A(2) /\ w[2] * A(2) \in Nat /\ w[2] * B(2) \in Nat
            /\ w[3] * B(3) <= w[3] * A(3) /\ w[3] * A(3) \in Nat /\ w[3] * B(3) \in Nat
        <4> HIDE DEF A, B
        <4>1. \A x, y \in Nat, v \in {1, 2, 3} : x <= y => v * x <= v * y /\ v * x \in Nat /\ v * y \in Nat
          OBVIOUS
        <4>2. w[3] \in {1, 2, 3}
          BY <1>6
        <4> QED
          BY <1>6, <3>1, <4>1, <4>2
      <3>3. score(a) = w[1] * A(1) + w[2] * A(2) + w[3] * A(3) + 2 * A(4) + 2 * A(5)
            /\ score(b) = w[1] * B(1) + w[2] * B(2) + w[3] * B(3) + 2 * B(4) + 2 * B(5)
        OBVIOUS
      <3> HIDE DEF A, B, score
      <3> QED
        BY <3>1, <3>2, <3>3
    <2> QED
      BY <2>1, <2>7
  <1> HIDE DEF score
  <1> QED
    BY <1>4, <1>7, <1>8

-----------------------------------------------------------------------------
(* What the tiers leave out.                                               *)
\* A set is what it has in common with another and what it has not.
LEMMA SplitCount ==
  ASSUME NEW S, IsFiniteSet(S), NEW P
  PROVE  /\ Cardinality(S) = Cardinality(S \cap P) + Cardinality(S \ P)
         /\ Cardinality(S \cap P) \in Nat /\ Cardinality(S \ P) \in Nat /\ Cardinality(S) \in Nat
  <1>1. (S \cap P) \in SUBSET S /\ (S \ P) \in SUBSET S
    OBVIOUS
  <1>2. IsFiniteSet(S \cap P) /\ IsFiniteSet(S \ P)
    BY <1>1, FS_Subset
  <1>3. S = (S \cap P) \cup (S \ P) /\ (S \cap P) \cap (S \ P) = {}
    OBVIOUS
  <1>4. Cardinality((S \cap P) \cup (S \ P)) =
           Cardinality(S \cap P) + Cardinality(S \ P) - Cardinality((S \cap P) \cap (S \ P))
    BY <1>2, FS_Union
  <1>5. Cardinality((S \cap P) \cap (S \ P)) = 0
    BY <1>3, FS_EmptySet
  <1>6. Cardinality(S \cap P) \in Nat /\ Cardinality(S \ P) \in Nat /\ Cardinality(S) \in Nat
    BY <1>2, FS_CardinalityType
  <1>7. Cardinality(S) = Cardinality((S \cap P) \cup (S \ P))
    BY <1>3
  <1> QED
    BY <1>4, <1>5, <1>6, <1>7

\* How many of a sequence may be dormant.
Excess == ResultLimit * (OverFetch - 1)
Crowded(order, visible, awake) == Cardinality((IdsOf(order) \cap visible) \ awake) > Excess
\* A tier brings all that may be shown, or as many as are shown, or too many are dormant.
TierRight(tier, order, visible, awake) ==
    \/ IdsOf(order) \cap visible \cap awake \subseteq IdsOf(tier)
    \/ Len(tier) >= ResultLimit
    \/ Crowded(order, visible, awake)

\* Chunks that bring no memory to show, or one that an earlier chunk has brought.
Wasted(chunks, live) == {i \in 1..Len(chunks) : chunks[i] \notin live \/ i \notin FirstPlaces(chunks)}
ManyWasted(chunks, live, limit) == Cardinality(Wasted(chunks, live)) > limit * Fanout - ResultLimit

\* A limit in proportion to the excess, or of rows of which none is dropped afterwards.
EnoughFetched(limit, awake) ==
    /\ limit \in Nat /\ limit >= ResultLimit
    /\ limit = ResultLimit * OverFetch \/ Remembrances \subseteq awake

LEMMA ExcessIs ==
  /\ Excess \in Nat /\ ResultLimit * OverFetch = ResultLimit + Excess /\ ResultLimit * OverFetch >= ResultLimit
  /\ \A limit \in Nat : limit * Fanout \in Nat
  <1>1. ResultLimit \in Nat /\ OverFetch - 1 \in Nat /\ OverFetch \in Nat /\ Fanout \in Nat
    BY TiersAssumption
  <1>2. \A i, j \in Nat : i * j \in Nat
    OBVIOUS
  <1>3. \A i \in Nat, j \in Int : i * j - i = i * (j - 1)
    OBVIOUS
  <1>4. Excess \in Nat
    BY <1>1, <1>2 DEF Excess
  <1>5. ResultLimit * OverFetch - ResultLimit = Excess /\ ResultLimit * OverFetch \in Nat
    BY <1>1, <1>2, <1>3 DEF Excess
  <1> QED
    BY <1>1, <1>2, <1>4, <1>5

\* A tier that has its matches in order, filtered, cut and then without the dormant ones.
LEMMA FilteredTier ==
  ASSUME NEW order, Distinct(order, Remembrances), NEW visible, NEW awake, NEW limit, EnoughFetched(limit, awake)
  PROVE  /\ Distinct(Only(FirstOf(Only(order, visible), limit), awake), Remembrances)
         /\ IdsOf(Only(FirstOf(Only(order, visible), limit), awake)) \subseteq IdsOf(order) \cap visible \cap awake
         /\ TierRight(Only(FirstOf(Only(order, visible), limit), awake), order, visible, awake)
  <1> DEFINE seen == Only(order, visible)
             cut == FirstOf(seen, limit)
             tier == Only(cut, awake)
             sleeping == (IdsOf(order) \cap visible) \ awake
  <1>1. Distinct(seen, Remembrances) /\ IdsOf(seen) = IdsOf(order) \cap visible
    BY OnlyHas
  <1>2. limit \in Nat
    BY DEF EnoughFetched
  <1> HIDE DEF seen
  <1>3. /\ Distinct(cut, Remembrances) /\ IdsOf(cut) \subseteq IdsOf(seen)
        /\ Len(cut) = IF Len(seen) < limit THEN Len(seen) ELSE limit
        /\ Len(seen) <= limit => IdsOf(cut) = IdsOf(seen)
    BY <1>1, <1>2, FirstOfHas
  <1> HIDE DEF cut
  <1>4. Distinct(tier, Remembrances) /\ IdsOf(tier) = IdsOf(cut) \cap awake
    BY <1>3, OnlyHas
  <1> HIDE DEF tier
  <1>5. TierRight(tier, order, visible, awake)
    <2>1. CASE Len(seen) <= limit
      <3>1. IdsOf(tier) = IdsOf(order) \cap visible \cap awake
        BY <1>1, <1>3, <1>4, <2>1
      <3> QED
        BY <3>1 DEF TierRight
    <2>2. CASE ~(Len(seen) <= limit)
      <3>1. Len(cut) = limit
        <4>1. Len(seen) \in Nat
          BY <1>1 DEF Distinct
        <4> QED
          BY <1>2, <1>3, <2>2, <4>1
      <3>2. IsFiniteSet(IdsOf(cut)) /\ Cardinality(IdsOf(cut)) = limit /\ IdsOf(cut) \subseteq Remembrances
        BY <1>3, <3>1, IdsCounted
      <3>3. Cardinality(IdsOf(tier)) = Len(tier) /\ IsFiniteSet(IdsOf(order)) /\ Len(tier) \in Nat
        <4>1. Cardinality(IdsOf(tier)) = Len(tier) /\ IsFiniteSet(IdsOf(order))
          BY <1>4, IdsCounted
        <4> QED
          BY <1>4, <4>1 DEF Distinct
      <3>4. CASE Remembrances \subseteq awake
        <4>1. IdsOf(tier) = IdsOf(cut)
          BY <1>4, <3>2, <3>4
        <4>2. Len(tier) = limit
          BY <3>2, <3>3, <4>1
        <4> QED
          BY <4>2 DEF TierRight, EnoughFetched
      <3>5. CASE limit = ResultLimit * OverFetch
        <4>1. /\ limit = Cardinality(IdsOf(cut) \cap awake) + Cardinality(IdsOf(cut) \ awake)
              /\ Cardinality(IdsOf(cut) \cap awake) \in Nat /\ Cardinality(IdsOf(cut) \ awake) \in Nat
          BY <3>2, SplitCount
        <4>2. IsFiniteSet(sleeping) /\ Cardinality(sleeping) \in Nat
          <5>1. sleeping \in SUBSET IdsOf(order)
            OBVIOUS
          <5>2. IsFiniteSet(sleeping)
            BY <3>3, <5>1, FS_Subset
          <5> QED
            BY <5>2, FS_CardinalityType
        <4>3. Cardinality(IdsOf(cut) \ awake) <= Cardinality(sleeping)
          <5>1. (IdsOf(cut) \ awake) \in SUBSET sleeping
            BY <1>1, <1>3
          <5> HIDE DEF sleeping
          <5> QED
            BY <4>2, <5>1, FS_Subset
        <4> HIDE DEF sleeping
        <4>4. limit = ResultLimit + Excess /\ Excess \in Nat /\ ResultLimit \in Nat
          BY <3>5, ExcessIs, TiersAssumption
        <4>5. Len(tier) + Cardinality(IdsOf(cut) \ awake) = limit
          BY <1>4, <3>3, <4>1
        <4>6. Len(tier) >= ResultLimit \/ Cardinality(sleeping) > Excess
          BY <3>3, <4>1, <4>2, <4>3, <4>4, <4>5
        <4> QED
          BY <4>6 DEF TierRight, Crowded, sleeping
      <3> QED
        BY <3>4, <3>5 DEF EnoughFetched
    <2> QED
      BY <2>1, <2>2
  <1>6. IdsOf(tier) \subseteq IdsOf(order) \cap visible \cap awake
    BY <1>1, <1>3, <1>4
  <1> QED
    BY <1>4, <1>5, <1>6 DEF tier, cut, seen

\* The tier of vectors, which takes the nearest chunks before all of that.
LEMMA NearestTier ==
  ASSUME NEW chunks \in Seq(Remembrances), NEW visible, NEW awake, NEW limit, EnoughFetched(limit, awake)
  PROVE  LET tier == Only(FirstOf(Only(Best(FirstOf(chunks, limit * Fanout)), visible), limit), awake)
         IN  /\ Distinct(tier, Remembrances)
             /\ IdsOf(tier) \subseteq IdsOf(chunks) \cap visible \cap awake
             /\ TierRight(tier, chunks, visible, awake) \/ ManyWasted(chunks, visible \cap awake, limit)
  <1> DEFINE most == limit * Fanout
             near == FirstOf(chunks, most)
             best == Best(near)
             tier == Only(FirstOf(Only(best, visible), limit), awake)
             live == visible \cap awake
  <1>1. limit \in Nat /\ ResultLimit \in Nat /\ most \in Nat /\ Excess \in Nat
    BY TiersAssumption, ExcessIs DEF EnoughFetched
  <1>2. Len(chunks) \in Nat
    OBVIOUS
  <1> HIDE DEF most
  <1>3. /\ near \in Seq(Remembrances) /\ IdsOf(near) \subseteq IdsOf(chunks)
        /\ Len(near) = IF Len(chunks) < most THEN Len(chunks) ELSE most
        /\ \A i \in 1..Len(near) : i \in 1..Len(chunks) /\ near[i] = chunks[i]
        /\ Len(chunks) <= most => IdsOf(near) = IdsOf(chunks)
    BY <1>1, FirstOfIs
  <1> HIDE DEF near
  <1>4. Distinct(best, Remembrances) /\ IdsOf(best) = IdsOf(near)
    BY <1>3, BestHas
  <1> HIDE DEF best
  <1>5. /\ Distinct(tier, Remembrances) /\ IdsOf(tier) \subseteq IdsOf(near) \cap visible \cap awake
        /\ TierRight(tier, best, visible, awake)
    BY <1>4, FilteredTier
  <1>6. IsFiniteSet(IdsOf(tier)) /\ Cardinality(IdsOf(tier)) = Len(tier) /\ Len(tier) \in Nat
    BY <1>5, IdsCounted DEF Distinct
  <1> HIDE DEF tier
  <1>7. ASSUME Crowded(best, visible, awake) PROVE TierRight(tier, chunks, visible, awake)
    <2> DEFINE fewer == (IdsOf(best) \cap visible) \ awake
               sleeping == (IdsOf(chunks) \cap visible) \ awake
    <2>1. IsFiniteSet(IdsOf(chunks))
      <3>1. Distinct(Best(chunks), Remembrances) /\ IdsOf(Best(chunks)) = IdsOf(chunks)
        BY BestHas
      <3> QED
        BY <3>1, IdsCounted
    <2>2. sleeping \in SUBSET IdsOf(chunks) /\ fewer \in SUBSET sleeping
      BY <1>3, <1>4
    <2>3. Cardinality(fewer) > Excess
      BY <1>7 DEF Crowded
    <2>4. Cardinality(sleeping) > Excess => Crowded(chunks, visible, awake)
      BY DEF Crowded
    <2> HIDE DEF fewer, sleeping
    <2>5. IsFiniteSet(sleeping)
      BY <2>1, <2>2, FS_Subset
    <2>6. IsFiniteSet(fewer) /\ Cardinality(fewer) <= Cardinality(sleeping)
      BY <2>2, <2>5, FS_Subset
    <2>7. Cardinality(fewer) \in Nat /\ Cardinality(sleeping) \in Nat
      BY <2>5, <2>6, FS_CardinalityType
    <2> QED
      BY <1>1, <2>3, <2>4, <2>6, <2>7 DEF TierRight
  <1>8. ASSUME IdsOf(near) \cap live \subseteq IdsOf(tier), Len(chunks) > most, Len(tier) < ResultLimit
        PROVE  ManyWasted(chunks, live, limit)
    <2> DEFINE bring == {i \in 1..most : near[i] \in live /\ i \in FirstPlaces(near)}
               idle == 1..most \ bring
               of == [i \in bring |-> near[i]]
    <2>1. Len(near) = most
      BY <1>1, <1>2, <1>3, <1>8
    <2>2. IsFiniteSet(1..most) /\ Cardinality(1..most) = most
      BY <1>1, FS_Interval
    <2>3. IsFiniteSet(bring) /\ IsFiniteSet(idle) /\ bring \in SUBSET 1..most
      <3>1. bring \in SUBSET 1..most /\ idle \in SUBSET 1..most
        OBVIOUS
      <3> HIDE DEF bring, idle
      <3> QED
        BY <2>2, <3>1, FS_Subset
    <2>4. \A i \in bring : near[i] \in IdsOf(tier)
      BY <1>8, <2>1 DEF IdsOf
    <2>5. \A i, j \in bring : near[i] = near[j] => i = j
      <3> SUFFICES ASSUME NEW i \in bring, NEW j \in bring, near[i] = near[j], i # j PROVE FALSE
        OBVIOUS
      <3>1. i \in 1..j - 1 \/ j \in 1..i - 1
        BY <1>1
      <3> QED
        BY <3>1 DEF FirstPlaces
    <2>6. of \in Injection(bring, IdsOf(tier))
      <3> HIDE DEF bring
      <3> QED
        BY <2>4, <2>5 DEF Injection, IsInjective
    <2>7. Wasted(chunks, live) \in SUBSET 1..Len(chunks) /\ idle \in SUBSET Wasted(chunks, live)
      <3>1. ASSUME NEW i \in idle, near[i] \in live PROVE i \notin FirstPlaces(chunks)
        <4>1. i \in 1..Len(near) /\ i \notin FirstPlaces(near)
          BY <2>1, <3>1
        <4>2. PICK j \in 1..i - 1 : near[j] = near[i]
          BY <4>1 DEF FirstPlaces
        <4>3. j \in 1..Len(near)
          BY <1>1, <2>1, <4>1
        <4> QED
          BY <1>3, <4>1, <4>2, <4>3 DEF FirstPlaces
      <3>2. \A i \in idle : i \in 1..Len(chunks) /\ near[i] = chunks[i]
        BY <1>3, <2>1
      <3> HIDE DEF idle, live
      <3> QED
        BY <3>1, <3>2 DEF Wasted
    <2> HIDE DEF bring, idle, of, live
    <2>8. Cardinality(bring) <= Len(tier)
      BY <1>6, <2>3, <2>6, FS_Injection
    <2>9. Cardinality(bring) \in Nat /\ Cardinality(idle) \in Nat /\ most = Cardinality(bring) + Cardinality(idle)
      <3>1. 1..most \cap bring = bring
        BY <2>3
      <3> QED
        BY <2>2, <3>1, SplitCount DEF idle
    <2>10. IsFiniteSet(Wasted(chunks, live)) /\ Cardinality(Wasted(chunks, live)) \in Nat
      <3>1. IsFiniteSet(1..Len(chunks))
        BY <1>2, FS_Interval
      <3>2. IsFiniteSet(Wasted(chunks, live))
        BY <2>7, <3>1, FS_Subset
      <3> QED
        BY <3>2, FS_CardinalityType
    <2>11. Cardinality(idle) <= Cardinality(Wasted(chunks, live))
      BY <2>7, <2>10, FS_Subset
    <2>12. Cardinality(Wasted(chunks, live)) > most - ResultLimit
      BY <1>1, <1>6, <1>8, <2>8, <2>9, <2>10, <2>11
    <2> QED
      BY <2>12 DEF ManyWasted, most, live
  <1>9. TierRight(tier, chunks, visible, awake) \/ ManyWasted(chunks, live, limit)
    <2>1. CASE Len(tier) >= ResultLimit
      BY <2>1 DEF TierRight
    <2>2. CASE IdsOf(best) \cap visible \cap awake \subseteq IdsOf(tier) /\ Len(chunks) <= most
      BY <1>3, <1>4, <2>2 DEF TierRight
    <2>3. CASE IdsOf(best) \cap visible \cap awake \subseteq IdsOf(tier) /\ Len(tier) < ResultLimit /\ Len(chunks) > most
      BY <1>4, <1>8, <2>3
    <2> QED
      BY <1>1, <1>2, <1>5, <1>6, <1>7, <2>1, <2>2, <2>3 DEF TierRight
  <1> QED
    BY <1>3, <1>5, <1>9 DEF tier, best, near, most

-----------------------------------------------------------------------------
(* Recall.                                                                 *)
Remembered == [count : Nat, last : Int, weight : Int, liked : {-1, 0, 1}, hidden : BOOLEAN, sensitive : BOOLEAN]
RecallTable == [Remembrances -> Remembered]
Allowed(memory, opt) == ~memory.hidden /\ (opt \/ ~memory.sensitive)
VitalityAt(memory, day) == memory.weight + Gain(memory.count) - DailyLoss(memory.count) * (day - memory.last)

\* A search after the keyword tier.
KeywordRight(q) ==
    /\ q.opt \in BOOLEAN /\ q.dormantToo \in BOOLEAN /\ q.then \in RecallTable
    /\ Distinct(q.order, Remembrances) /\ Distinct(q.kw, Remembrances)
    /\ \E limit : /\ EnoughFetched(limit, {m \in Remembrances : q.dormantToo})
                  /\ q.kw = FirstOf(Only(q.order, {m \in Remembrances : Allowed(q.then[m], q.opt)}), limit)

\* What a search may show, and what it takes for awake.
VisibleTo(q) == {m \in Remembrances : Allowed(q.after[m], q.opt)}
AwakeFor(q) == {m \in Remembrances : q.dormantToo \/ ~Dormant(q.vital[m])}

\* One after the fusion.
FusedRight(q, today) ==
    /\ q.opt \in BOOLEAN /\ q.dormantToo \in BOOLEAN
    /\ q.then \in RecallTable /\ q.after \in RecallTable /\ q.vital \in Values
    /\ Distinct(q.order, Remembrances) /\ q.chunks \in Seq(Remembrances)
    /\ Distinct(q.kw, Remembrances) /\ Distinct(q.sem, Remembrances)
    /\ \A m \in IdsOf(q.kw) : Allowed(q.then[m], q.opt)
    /\ \A m \in IdsOf(q.sem) : Allowed(q.after[m], q.opt)
    /\ \E strategy :
         q.score = [m \in Remembrances |-> IF m \in Found(q.kw, q.sem)
                                           THEN Adjusted(Score(q.kw, q.sem, q.vital, strategy, m), q.after[m].liked) ELSE 0]
    /\ q.then = q.after
       => /\ \E day \in Nat : day <= today /\ \A m \in Remembrances : q.vital[m] = VitalityAt(q.after[m], day)
          /\ TierRight(q.kw, q.order, VisibleTo(q), AwakeFor(q))
          /\ \/ TierRight(q.sem, q.chunks, VisibleTo(q), AwakeFor(q))
             \/ ManyWasted(q.chunks, VisibleTo(q) \cap AwakeFor(q), FetchLimit(q.dormantToo))

QueryRight == query # NoSearch => /\ query.at \in {"keyword", "fused"}
                                  /\ query.at = "keyword" => KeywordRight(query)
                                  /\ query.at = "fused" => FusedRight(query, recallDay)

\* A thread has read counts.
CountsRight ==
    \A t \in counting : \E ids, read : /\ t = [ids |-> ids, read |-> read]
                                       /\ read # NoSearch => \A m \in ids \cap Remembrances : read[m] \in Nat

RecallShape == recall \in RecallTable /\ recallDay \in Nat /\ CountsRight
RecallInv == RecallShape /\ QueryRight

\* The vitality is a number, which falls from day to day.
LEMMA VitalityFalls ==
  ASSUME NEW memory \in Remembered, NEW day \in Nat, NEW later \in Nat, day <= later
  PROVE  /\ VitalityAt(memory, day) \in Int /\ VitalityAt(memory, later) \in Int
         /\ VitalityAt(memory, later) <= VitalityAt(memory, day)
  <1>1. memory.weight \in Int /\ memory.last \in Int /\ memory.count \in Nat
    BY DEF Remembered
  <1>2. Gain(memory.count) \in Int /\ DailyLoss(memory.count) \in {10, 20}
    BY <1>1 DEF Gain, DailyLoss
  <1>3. CASE DailyLoss(memory.count) = 10
    BY <1>1, <1>2, <1>3 DEF VitalityAt
  <1>4. CASE DailyLoss(memory.count) = 20
    BY <1>1, <1>2, <1>4 DEF VitalityAt
  <1> QED
    BY <1>2, <1>3, <1>4

\* The vitality of today.
LEMMA VitalityToday ==
  ASSUME RecallShape
  PROVE  /\ \A m \in Remembrances : Vitality(m) = VitalityAt(recall[m], recallDay) /\ Vitality(m) \in Int
         /\ \A memory \in Remembered : VitalityOf(memory) = VitalityAt(memory, recallDay) /\ VitalityOf(memory) \in Int
  <1>1. \A m \in Remembrances : Vitality(m) = VitalityAt(recall[m], recallDay)
    BY DEF Vitality, VitalityOf, VitalityAt
  <1>2. \A m \in Remembrances : recall[m] \in Remembered
    BY DEF RecallShape, RecallTable
  <1>3. recallDay \in Nat /\ recallDay <= recallDay
    BY DEF RecallShape
  <1>4. \A memory \in Remembered : VitalityOf(memory) = VitalityAt(memory, recallDay)
    BY DEF VitalityOf, VitalityAt
  <1> QED
    BY <1>1, <1>2, <1>3, <1>4, VitalityFalls

\* The scores are numbers, and a memory that is as good as another and better in a signal comes first.
LEMMA DominantComesFirst ==
  ASSUME NEW q, NEW today, FusedRight(q, today)
  PROVE  /\ \A m \in Found(q.kw, q.sem) : q.score[m] \in Int
         /\ q.then = q.after => \A a, b \in Found(q.kw, q.sem) : AsGood(q, a, b) /\ ~AsGood(q, b, a) => Before(q, a, b)
  <1>1. /\ q.then \in RecallTable /\ q.after \in RecallTable /\ q.vital \in Values
        /\ Distinct(q.kw, Remembrances) /\ Distinct(q.sem, Remembrances)
    BY DEF FusedRight
  <1>2. PICK strategy :
         q.score = [m \in Remembrances |-> IF m \in Found(q.kw, q.sem)
                                           THEN Adjusted(Score(q.kw, q.sem, q.vital, strategy, m), q.after[m].liked) ELSE 0]
    BY DEF FusedRight
  <1> DEFINE F == Found(q.kw, q.sem)
             raw(m) == Score(q.kw, q.sem, q.vital, strategy, m)
             liked(m) == q.after[m].liked
  <1>3. F \subseteq Remembrances
    <2>1. IdsOf(q.kw) \subseteq Remembrances /\ IdsOf(q.sem) \subseteq Remembrances
      BY <1>1, IdsCounted
    <2> QED
      BY <2>1 DEF Found
  <1>4. \A m \in F : q.score[m] = raw(m) * (10 + 4 * liked(m))
    <2> HIDE DEF F
    <2>1. \A m \in F : m \in Remembrances /\ m \in Found(q.kw, q.sem)
      BY <1>3 DEF F
    <2> QED
      BY <1>2, <2>1 DEF Adjusted
  <1>5. \A m \in F : liked(m) \in {-1, 0, 1}
    BY <1>1, <1>3 DEF RecallTable, Remembered
  <1>6. Created \in Values
    BY TiersAssumption DEF Values
  <1>7. \A m \in F : raw(m) \in Nat
    BY <1>1, <1>6, ScoreOrder
  <1>8. ASSUME NEW a \in F, NEW b \in F, liked(a) = liked(b), raw(a) >= raw(b)
        PROVE  q.score[a] \in Int /\ q.score[b] \in Int /\ q.score[a] >= q.score[b]
    <2> HIDE DEF F, raw, liked
    <2>1. \A i, j \in Nat, k \in {-1, 0, 1} :
             /\ i * (10 + 4 * k) \in Int /\ j * (10 + 4 * k) \in Int
             /\ i >= j => i * (10 + 4 * k) >= j * (10 + 4 * k)
      OBVIOUS
    <2> QED
      BY <1>4, <1>5, <1>7, <1>8, <2>1
  <1>9. \A m \in F : q.score[m] \in Int
    <2> HIDE DEF F, raw, liked
    <2>1. \A m \in F : raw(m) >= raw(m)
      BY <1>7
    <2> QED
      BY <1>8, <2>1
  <1>10. ASSUME q.then = q.after, NEW a \in F, NEW b \in F, AsGood(q, a, b), ~AsGood(q, b, a) PROVE Before(q, a, b)
    <2>1. /\ RankIn(q.kw, a) <= RankIn(q.kw, b) /\ RankIn(q.sem, a) <= RankIn(q.sem, b)
          /\ Created[a] >= Created[b] /\ q.vital[a] >= q.vital[b] /\ q.then[a].liked = q.then[b].liked
      BY <1>10 DEF AsGood, RankIn
    <2>2. liked(a) = liked(b)
      BY <1>1, <1>10, <2>1
    <2>3. Seen(q.kw, q.sem, a) <= Seen(q.kw, q.sem, b) /\ raw(a) >= raw(b)
      BY <1>1, <1>6, <2>1, ScoreOrder
    <2>4. q.score[a] \in Int /\ q.score[b] \in Int /\ q.score[a] >= q.score[b]
      BY <1>8, <2>2, <2>3
    <2>5. a # b
      BY <1>10
    <2>6. /\ Seen(q.kw, q.sem, a) \in Nat /\ Seen(q.kw, q.sem, b) \in Nat
          /\ Seen(q.kw, q.sem, a) # Seen(q.kw, q.sem, b)
      BY <1>1, <2>5, SeenIs
    <2> HIDE DEF F, raw, liked
    <2> QED
      BY <2>3, <2>4, <2>6 DEF Before
  <1> QED
    BY <1>9, <1>10

\* What a search shows is what it has found, or as many as it may, when no budget cuts it short.
LEMMA ShownHas ==
  ASSUME NEW q, NEW today, FusedRight(q, today)
  PROVE  LET shown == Trimmed(FirstOf(Ranked(q), ResultLimit), q.budget)
         IN  /\ IdsOf(shown) \subseteq Found(q.kw, q.sem)
             /\ q.budget = 0 => \/ Len(shown) = ResultLimit
                                \/ /\ IdsOf(shown) = Found(q.kw, q.sem)
                                   /\ Len(q.kw) < ResultLimit /\ Len(q.sem) < ResultLimit
  <1> DEFINE r == Ranked(q)
             cut == FirstOf(r, ResultLimit)
             shown == Trimmed(cut, q.budget)
  <1>1. Distinct(q.kw, Remembrances) /\ Distinct(q.sem, Remembrances)
    BY DEF FusedRight
  <1>2. \A m \in Found(q.kw, q.sem) : q.score[m] \in Int
    BY DominantComesFirst
  <1>3. Distinct(r, Remembrances) /\ IdsOf(r) = Found(q.kw, q.sem)
    BY <1>1, <1>2, RankedHas
  <1>4. ResultLimit \in Nat
    BY TiersAssumption
  <1> HIDE DEF r
  <1>5. /\ Distinct(cut, Remembrances) /\ IdsOf(cut) \subseteq IdsOf(r)
        /\ Len(cut) = IF Len(r) < ResultLimit THEN Len(r) ELSE ResultLimit
        /\ Len(r) <= ResultLimit => IdsOf(cut) = IdsOf(r)
    BY <1>3, <1>4, FirstOfHas
  <1> HIDE DEF cut
  <1>6. IdsOf(shown) \subseteq IdsOf(cut) /\ (q.budget = 0 => shown = cut)
    BY <1>5, TrimmedHas
  <1> HIDE DEF shown
  <1>7. Len(r) \in Nat /\ Len(q.kw) \in Nat /\ Len(q.sem) \in Nat
    BY <1>1, <1>3 DEF Distinct
  <1>8. Len(q.kw) <= Len(r) /\ Len(q.sem) <= Len(r)
    <2>1. /\ IsFiniteSet(IdsOf(r)) /\ Cardinality(IdsOf(r)) = Len(r)
          /\ Cardinality(IdsOf(q.kw)) = Len(q.kw) /\ Cardinality(IdsOf(q.sem)) = Len(q.sem)
      BY <1>1, <1>3, IdsCounted
    <2>2. IdsOf(q.kw) \in SUBSET IdsOf(r) /\ IdsOf(q.sem) \in SUBSET IdsOf(r)
      BY <1>3 DEF Found
    <2>3. Cardinality(IdsOf(q.kw)) <= Cardinality(IdsOf(r)) /\ Cardinality(IdsOf(q.sem)) <= Cardinality(IdsOf(r))
      BY <2>1, <2>2, FS_Subset
    <2> QED
      BY <2>1, <2>3
  <1>9. Len(cut) = ResultLimit \/ (IdsOf(cut) = IdsOf(r) /\ Len(q.kw) < ResultLimit /\ Len(q.sem) < ResultLimit)
    BY <1>4, <1>5, <1>7, <1>8
  <1> QED
    BY <1>3, <1>5, <1>6, <1>9 DEF shown, cut, r

\* A search under way is not touched, and days go by.
LEMMA QueryStays ==
  ASSUME QueryRight, UNCHANGED query, recallDay \in Nat, recallDay' \in Nat, recallDay <= recallDay'
  PROVE  QueryRight'
  <1>1. ASSUME NEW q, FusedRight(q, recallDay) PROVE FusedRight(q, recallDay')
    <2>1. \A day \in Nat : day <= recallDay => day <= recallDay'
      OBVIOUS
    <2> QED
      BY <1>1, <2>1 DEF FusedRight
  <1>2. PICK q : q = query
    OBVIOUS
  <1>3. query' = q
    BY <1>2
  <1> QED
    BY <1>1, <1>2, <1>3 DEF QueryRight

\* The limit is raised where rows may be dropped.
LEMMA FetchLimitEnough ==
  ASSUME NEW dormantToo \in BOOLEAN
  PROVE  EnoughFetched(FetchLimit(dormantToo), {m \in Remembrances : dormantToo})
  <1>1. CASE dormantToo
    <2>1. FetchLimit(dormantToo) = ResultLimit /\ Remembrances \subseteq {m \in Remembrances : dormantToo}
      BY <1>1 DEF FetchLimit
    <2> QED
      BY <2>1, TiersAssumption DEF EnoughFetched
  <1>2. CASE ~dormantToo
    <2>1. FetchLimit(dormantToo) = ResultLimit * OverFetch
      BY <1>2 DEF FetchLimit
    <2>2. ResultLimit * OverFetch \in Nat /\ ResultLimit * OverFetch >= ResultLimit
      <3>1. Excess \in Nat /\ ResultLimit \in Nat
        BY ExcessIs, TiersAssumption
      <3> QED
        BY <3>1, ExcessIs
    <2> QED
      BY <2>1, <2>2 DEF EnoughFetched
  <1> QED
    BY <1>1, <1>2

\* What a search reads first.
LEMMA KeywordStep ==
  ASSUME RecallInv, NEW order \in Orders, NEW strategy \in Strategies, NEW opt \in OptIns,
         NEW dormantToo \in BOOLEAN, NEW budget, BeginSearch(order, strategy, opt, dormantToo, budget)
  PROVE  QueryRight'
  <1> DEFINE limit == FetchLimit(dormantToo)
             visible == {m \in Remembrances : Allowed(recall[m], opt)}
             kw == FirstOf(Only(order, visible), limit)
             q == [at |-> "keyword", order |-> order, kw |-> kw,
                   strategy |-> strategy, opt |-> opt, dormantToo |-> dormantToo, budget |-> budget, then |-> recall]
  <1>1. opt \in BOOLEAN /\ Distinct(order, Remembrances)
    BY TiersAssumption DEF Distinct
  <1>2. EnoughFetched(limit, {m \in Remembrances : dormantToo})
    BY FetchLimitEnough
  <1>3. limit \in Nat
    BY <1>2 DEF EnoughFetched
  <1>4. Distinct(kw, Remembrances)
    <2>1. Distinct(Only(order, visible), Remembrances)
      BY <1>1, OnlyHas
    <2> HIDE DEF visible, limit
    <2> QED
      BY <1>3, <2>1, FirstOfHas
  <1>5. recall \in RecallTable
    BY DEF RecallInv, RecallShape
  <1>6. Shown(opt) = visible
    BY DEF Shown, MayShow, Allowed
  <1>7. query' = q
    <2>1. Keyword(order, opt, dormantToo) = kw
      BY <1>6 DEF Keyword
    <2> QED
      BY <2>1 DEF BeginSearch
  <1>8. KeywordRight(q)
    <2> HIDE DEF limit
    <2>1. q.kw = FirstOf(Only(q.order, {m \in Remembrances : Allowed(q.then[m], q.opt)}), limit)
      OBVIOUS
    <2>2. /\ q.opt = opt /\ q.dormantToo = dormantToo /\ q.then = recall /\ q.order = order
          /\ q.kw = kw /\ q.at = "keyword"
      OBVIOUS
    <2> HIDE DEF kw, q
    <2> QED
      BY <1>1, <1>2, <1>4, <1>5, <2>1, <2>2 DEF KeywordRight
  <1>9. q.at = "keyword"
    OBVIOUS
  <1> HIDE DEF q
  <1> QED
    BY <1>7, <1>8, <1>9 DEF QueryRight

\* What it makes of both tiers.
LEMMA FuseStep ==
  ASSUME RecallInv, NEW chunks \in ChunkOrders, Fuse(chunks)
  PROVE  QueryRight'
  <1> PICK was : was = query
    OBVIOUS
  <1> PICK table : table = recall
    OBVIOUS
  <1> DEFINE d == was.dormantToo
             had == [m \in Remembrances |-> VitalityOf(was.then[m])]
             now == [m \in Remembrances |-> Vitality(m)]
             limit == FetchLimit(d)
             before == {m \in Remembrances : Allowed(was.then[m], was.opt)}
             visible == {m \in Remembrances : Allowed(table[m], was.opt)}
             lively == Awake(had, d)
             awake == Awake(now, d)
             kw == Only(was.kw, lively)
             sem == Only(FirstOf(Only(Best(FirstOf(chunks, limit * Fanout)), visible), limit), awake)
             vital == [m \in Remembrances |-> IF m \in IdsOf(kw) THEN had[m] ELSE now[m]]
             score == [m \in Remembrances |-> IF m \in IdsOf(kw) \cup IdsOf(sem)
                                              THEN Adjusted(Score(kw, sem, vital, was.strategy, m), table[m].liked) ELSE 0]
             calm == was.then = table
  <1>1. KeywordRight(was)
    BY DEF RecallInv, QueryRight, Fuse
  <1>2. /\ was.opt \in BOOLEAN /\ d \in BOOLEAN /\ was.then \in RecallTable
        /\ Distinct(was.order, Remembrances) /\ chunks \in Seq(Remembrances)
    BY <1>1, TiersAssumption DEF KeywordRight
  <1>3. /\ table \in RecallTable
        /\ now \in Values /\ \A m \in Remembrances : now[m] = VitalityAt(table[m], recallDay)
        /\ had \in Values /\ \A m \in Remembrances : had[m] = VitalityAt(was.then[m], recallDay)
    <2>1. table \in RecallTable /\ RecallShape
      BY DEF RecallInv, RecallShape
    <2>2. \A m \in Remembrances : was.then[m] \in Remembered
      BY <1>2 DEF RecallTable
    <2> QED
      BY <2>1, <2>2, VitalityToday DEF Values
  <1>4. visible = Shown(was.opt)
    BY DEF Shown, MayShow, Allowed
  <1>5. EnoughFetched(limit, {m \in Remembrances : d})
    BY <1>2, FetchLimitEnough
  <1>6. {m \in Remembrances : d} \subseteq lively /\ {m \in Remembrances : d} \subseteq awake
    BY DEF Awake
  <1>7. PICK first : /\ EnoughFetched(first, {m \in Remembrances : d})
                     /\ was.kw = FirstOf(Only(was.order, before), first)
    BY <1>1 DEF KeywordRight
  <1>8. EnoughFetched(limit, awake) /\ EnoughFetched(first, lively)
    BY <1>5, <1>6, <1>7 DEF EnoughFetched
  <1>9. /\ Distinct(kw, Remembrances) /\ IdsOf(kw) \subseteq IdsOf(was.order) \cap before \cap lively
        /\ TierRight(kw, was.order, before, lively)
    <2> HIDE DEF before, lively, limit
    <2> QED
      BY <1>2, <1>7, <1>8, FilteredTier
  <1>10. /\ Distinct(sem, Remembrances) /\ IdsOf(sem) \subseteq IdsOf(chunks) \cap visible \cap awake
         /\ TierRight(sem, chunks, visible, awake) \/ ManyWasted(chunks, visible \cap awake, limit)
    <2> HIDE DEF visible, awake, limit
    <2> QED
      BY <1>2, <1>8, NearestTier
  <1>11. vital \in Values
    <2> HIDE DEF kw, had, now
    <2> QED
      BY <1>3 DEF Values
  <1> DEFINE f == [at |-> "fused", order |-> was.order, chunks |-> chunks, kw |-> kw, sem |-> sem, vital |-> vital,
                   score |-> score, opt |-> was.opt, dormantToo |-> d,
                   budget |-> was.budget, then |-> was.then, after |-> table]
  <1>12. query' = f
    <2>1. Semantic(chunks, was.opt, d) = FirstOf(Only(Best(FirstOf(chunks, limit * Fanout)), visible), limit)
      BY <1>4 DEF Semantic
    <2> HIDE DEF limit, visible
    <2> QED
      BY <2>1 DEF Fuse
  <1>13. ASSUME calm
         PROVE  vital = now /\ before = visible /\ lively = awake
    <2>1. had = now
      BY <1>13 DEF Vitality
    <2> HIDE DEF had, now
    <2>2. vital = now
      BY <1>3, <2>1 DEF Values
    <2> QED
      BY <1>13, <2>1, <2>2
  <1>14. awake = {m \in Remembrances : d \/ ~Dormant(now[m])}
    BY DEF Awake
  <1>15. score = [m \in Remembrances |-> IF m \in Found(kw, sem)
                                         THEN Adjusted(Score(kw, sem, vital, was.strategy, m), table[m].liked) ELSE 0]
    BY DEF Found
  <1>16. /\ f.opt = was.opt /\ f.dormantToo = d /\ f.then = was.then /\ f.after = table /\ f.vital = vital
         /\ f.order = was.order /\ f.chunks = chunks /\ f.kw = kw /\ f.sem = sem /\ f.score = score
         /\ f.at = "fused"
    OBVIOUS
  <1>17. VisibleTo(f) = visible /\ AwakeFor(f) = {m \in Remembrances : d \/ ~Dormant(vital[m])}
    BY <1>16 DEF VisibleTo, AwakeFor
  <1>18. \A m \in IdsOf(kw) : Allowed(was.then[m], was.opt)
    BY <1>9
  <1>19. \A m \in IdsOf(sem) : Allowed(table[m], was.opt)
    BY <1>10
  <1>20. recallDay \in Nat /\ recallDay <= recallDay /\ recallDay' = recallDay
    BY DEF RecallInv, RecallShape, Fuse
  <1> HIDE DEF f, score, vital, sem, kw, awake, lively, visible, before, limit, now, had
  <1>21. calm => /\ \A m \in Remembrances : vital[m] = VitalityAt(table[m], recallDay)
                 /\ TierRight(kw, was.order, VisibleTo(f), AwakeFor(f))
                 /\ \/ TierRight(sem, chunks, VisibleTo(f), AwakeFor(f))
                    \/ ManyWasted(chunks, VisibleTo(f) \cap AwakeFor(f), FetchLimit(d))
    BY <1>3, <1>9, <1>10, <1>13, <1>14, <1>17 DEF limit
  <1>22. FusedRight(f, recallDay)
    <2>1. f.then = f.after
          =>        /\ \E day \in Nat : day <= recallDay /\ \A m \in Remembrances : f.vital[m] = VitalityAt(f.after[m], day)
                    /\ TierRight(f.kw, f.order, VisibleTo(f), AwakeFor(f))
                    /\ \/ TierRight(f.sem, f.chunks, VisibleTo(f), AwakeFor(f))
                       \/ ManyWasted(f.chunks, VisibleTo(f) \cap AwakeFor(f), FetchLimit(f.dormantToo))
      BY <1>16, <1>20, <1>21
    <2>2. \E strategy :
             f.score = [m \in Remembrances |-> IF m \in Found(f.kw, f.sem)
                          THEN Adjusted(Score(f.kw, f.sem, f.vital, strategy, m), f.after[m].liked) ELSE 0]
      BY <1>15, <1>16
    <2>3. /\ f.opt \in BOOLEAN /\ f.dormantToo \in BOOLEAN
          /\ f.then \in RecallTable /\ f.after \in RecallTable /\ f.vital \in Values
          /\ Distinct(f.order, Remembrances) /\ f.chunks \in Seq(Remembrances)
          /\ Distinct(f.kw, Remembrances) /\ Distinct(f.sem, Remembrances)
      BY <1>2, <1>3, <1>9, <1>10, <1>11, <1>16
    <2>4. /\ \A m \in IdsOf(f.kw) : Allowed(f.then[m], f.opt)
          /\ \A m \in IdsOf(f.sem) : Allowed(f.after[m], f.opt)
      BY <1>16, <1>18, <1>19
    <2> QED
      BY <2>1, <2>2, <2>3, <2>4 DEF FusedRight
  <1> QED
    BY <1>12, <1>16, <1>20, <1>22 DEF QueryRight

\* A row with another value.
LEMMA RowsChanged ==
  ASSUME NEW table \in RecallTable, NEW m \in Remembrances, NEW row \in Remembered
  PROVE  [table EXCEPT ![m] = row] \in RecallTable
  BY DEF RecallTable

LEMMA FieldsChanged ==
  ASSUME NEW row \in Remembered
  PROVE  /\ \A w \in Int : [row EXCEPT !.weight = w] \in Remembered
         /\ \A l \in {-1, 0, 1} : [row EXCEPT !.liked = l] \in Remembered
         /\ \A h \in BOOLEAN : [row EXCEPT !.hidden = h] \in Remembered
         /\ \A h \in BOOLEAN : [row EXCEPT !.sensitive = h] \in Remembered
         /\ \A n \in Nat, d \in Int : [row EXCEPT !.count = n, !.last = d] \in Remembered
  BY DEF Remembered

\* A thread more, which has read nothing yet.
LEMMA CountingMore ==
  ASSUME CountsRight, NEW shown, counting' = Counting(shown)
  PROVE  CountsRight'
  <1> SUFFICES ASSUME NEW t \in counting'
               PROVE  \E ids, read : /\ t = [ids |-> ids, read |-> read]
                                     /\ read # NoSearch => \A m \in ids \cap Remembrances : read[m] \in Nat
    BY DEF CountsRight
  <1>1. t \in counting \/ t = [ids |-> IdsOf(shown), read |-> NoSearch]
    BY DEF Counting
  <1> QED
    BY <1>1 DEF CountsRight

LEMMA RecallStart == RecallInit => RecallInv
  <1> SUFFICES ASSUME RecallInit PROVE RecallInv
    OBVIOUS
  <1>1. recall \in RecallTable
    <2> DEFINE early == [count : {0}, last : {-2, 0}, weight : {0}, liked : {0}, hidden : {FALSE}, sensitive : {FALSE}]
    <2>1. early \subseteq Remembered
      <3>1. {0} \subseteq Nat /\ {-2, 0} \subseteq Int /\ {0} \subseteq Int /\ {0} \subseteq {-1, 0, 1} /\ {FALSE} \subseteq BOOLEAN
        OBVIOUS
      <3>2. \A A, B, C, D, E, G, H, I, J, K : A \subseteq D /\ B \subseteq E /\ C \subseteq G /\ H \subseteq I /\ J \subseteq K
               => [count : A, last : B, weight : C, liked : H, hidden : J, sensitive : J]
                  \subseteq [count : D, last : E, weight : G, liked : I, hidden : K, sensitive : K]
        OBVIOUS
      <3> QED
        BY <3>1, <3>2 DEF Remembered
    <2>2. recall \in [Remembrances -> early]
      BY DEF RecallInit
    <2> HIDE DEF early
    <2> QED
      BY <2>1, <2>2 DEF RecallTable
  <1> QED
    BY <1>1 DEF RecallInit, RecallInv, RecallShape, CountsRight, QueryRight

LEMMA RecallKept == RecallInv /\ [RecallNext]_recallVars => RecallInv'
  <1> SUFFICES ASSUME RecallInv, [RecallNext]_recallVars PROVE RecallInv'
    OBVIOUS
  <1>1. recall \in RecallTable /\ recallDay \in Nat /\ CountsRight /\ QueryRight
    BY DEF RecallInv, RecallShape
  <1>2. recallDay <= recallDay
    BY <1>1
  <1>3. \A m \in Remembrances : recall[m] \in Remembered
    BY <1>1 DEF RecallTable
  <1>4. ASSUME NEW order \in Orders, NEW strategy \in Strategies, NEW opt \in OptIns, NEW dormantToo \in BOOLEAN,
               NEW budget \in {0, Budget}, BeginSearch(order, strategy, opt, dormantToo, budget)
        PROVE  RecallInv'
    <2>1. QueryRight'
      BY <1>4, KeywordStep
    <2>2. recall' = recall /\ recallDay' = recallDay /\ counting' = counting
      BY <1>4 DEF BeginSearch
    <2> QED
      BY <1>1, <2>1, <2>2 DEF RecallInv, RecallShape, CountsRight
  <1>5. ASSUME NEW chunks \in ChunkOrders, Fuse(chunks) PROVE RecallInv'
    <2>1. QueryRight'
      BY <1>5, FuseStep
    <2>2. recall' = recall /\ recallDay' = recallDay /\ counting' = counting
      BY <1>5 DEF Fuse
    <2> QED
      BY <1>1, <2>1, <2>2 DEF RecallInv, RecallShape, CountsRight
  <1>6. ASSUME NEW order \in Orders, NEW opt \in OptIns, NEW dormantToo \in BOOLEAN,
               AnswerStructured(order, opt, dormantToo)
        PROVE  RecallInv'
    <2>1. CountsRight'
      BY <1>1, <1>6, CountingMore DEF AnswerStructured
    <2>2. recall' = recall /\ recallDay' = recallDay /\ query' = query
      BY <1>6 DEF AnswerStructured
    <2>3. QueryRight'
      BY <1>1, <1>2, <2>2, QueryStays
    <2> QED
      BY <1>1, <2>1, <2>2, <2>3 DEF RecallInv, RecallShape
  <1>7. CASE Answer
    <2>1. CountsRight'
      BY <1>1, <1>7, CountingMore DEF Answer
    <2>2. recall' = recall /\ recallDay' = recallDay /\ query' = NoSearch
      BY <1>7 DEF Answer
    <2> QED
      BY <1>1, <2>1, <2>2 DEF RecallInv, RecallShape, QueryRight
  <1>8. ASSUME NEW t \in counting, ReadCounts(t) PROVE RecallInv'
    <2>1. recall' = recall /\ recallDay' = recallDay /\ query' = query
      BY <1>8 DEF ReadCounts
    <2>2. QueryRight'
      BY <1>1, <1>2, <2>1, QueryStays
    <2>3. PICK ids, read : t = [ids |-> ids, read |-> read]
      BY <1>1 DEF CountsRight
    <2> DEFINE counts == [m \in ids |-> recall[m].count]
    <2>4. counting' = (counting \ {t}) \cup {[ids |-> ids, read |-> counts]}
      BY <1>8, <2>3 DEF ReadCounts
    <2>5. \A m \in ids \cap Remembrances : counts[m] \in Nat
      BY <1>3 DEF Remembered
    <2> HIDE DEF counts
    <2>6. CountsRight'
      <3> SUFFICES ASSUME NEW u \in counting'
                   PROVE  \E idsOf, had : /\ u = [ids |-> idsOf, read |-> had]
                                          /\ had # NoSearch => \A m \in idsOf \cap Remembrances : had[m] \in Nat
        BY DEF CountsRight
      <3>1. u \in counting \/ u = [ids |-> ids, read |-> counts]
        BY <2>4
      <3> QED
        BY <1>1, <2>5, <3>1 DEF CountsRight
    <2> QED
      BY <1>1, <2>1, <2>2, <2>6 DEF RecallInv, RecallShape
  <1>9. ASSUME NEW t \in counting, WriteCounts(t) PROVE RecallInv'
    <2>1. recallDay' = recallDay /\ query' = query /\ counting' = counting \ {t}
      BY <1>9 DEF WriteCounts
    <2>2. QueryRight'
      BY <1>1, <1>2, <2>1, QueryStays
    <2>3. CountsRight'
      BY <1>1, <2>1 DEF CountsRight
    <2>4. PICK ids, read : /\ t = [ids |-> ids, read |-> read]
                           /\ read # NoSearch => \A m \in ids \cap Remembrances : read[m] \in Nat
      BY <1>1 DEF CountsRight
    <2>5. /\ read # NoSearch
          /\ recall' = [m \in Remembrances |-> IF m \in ids THEN [recall[m] EXCEPT !.count = read[m] + 1, !.last = recallDay]
                                               ELSE recall[m]]
      BY <1>9, <2>4 DEF WriteCounts
    <2>6. ASSUME NEW m \in Remembrances, m \in ids
          PROVE  [recall[m] EXCEPT !.count = read[m] + 1, !.last = recallDay] \in Remembered
      <3>1. read[m] + 1 \in Nat /\ recallDay \in Int
        <4>1. read # NoSearch
          BY <2>5
        <4>2. \A x \in ids \cap Remembrances : read[x] \in Nat
          BY <2>4, <4>1
        <4>3. read[m] \in Nat
          BY <2>6, <4>2
        <4> QED
          BY <1>1, <4>3
      <3> QED
        BY <1>3, <3>1, FieldsChanged
    <2>7. recall' \in RecallTable
      BY <1>3, <2>5, <2>6 DEF RecallTable
    <2> QED
      BY <1>1, <2>1, <2>2, <2>3, <2>7 DEF RecallInv, RecallShape
  <1>10. ASSUME Rest, recall' \in RecallTable PROVE RecallInv'
    <2>1. recallDay' = recallDay /\ query' = query /\ counting' = counting
      BY <1>10 DEF Rest
    <2>2. QueryRight'
      BY <1>1, <1>2, <2>1, QueryStays
    <2> QED
      BY <1>1, <1>10, <2>1, <2>2 DEF RecallInv, RecallShape, CountsRight
  <1>11. ASSUME NEW m \in Remembrances, Hide(m) PROVE RecallInv'
    <2>1. [recall[m] EXCEPT !.hidden = TRUE] \in Remembered
      BY <1>3, FieldsChanged
    <2>2. recall' = [recall EXCEPT ![m] = [recall[m] EXCEPT !.hidden = TRUE]]
      BY <1>11 DEF Hide
    <2> QED
      BY <1>1, <1>10, <1>11, <2>1, <2>2, RowsChanged DEF Hide
  <1>12. ASSUME NEW m \in Remembrances, MarkSensitive(m) PROVE RecallInv'
    <2>1. (~recall[m].sensitive) \in BOOLEAN
      OBVIOUS
    <2>2. [recall[m] EXCEPT !.sensitive = ~recall[m].sensitive] \in Remembered
      BY <1>3, <2>1, FieldsChanged
    <2>3. recall' = [recall EXCEPT ![m] = [recall[m] EXCEPT !.sensitive = ~recall[m].sensitive]]
      BY <1>12 DEF MarkSensitive
    <2> DEFINE row == [recall[m] EXCEPT !.sensitive = ~recall[m].sensitive]
    <2>5. recall' \in RecallTable
      <3>1. row \in Remembered /\ recall' = [recall EXCEPT ![m] = row]
        BY <2>2, <2>3
      <3> HIDE DEF row
      <3> QED
        BY <1>1, <3>1, RowsChanged
    <2>6. Rest
      BY <1>12 DEF MarkSensitive
    <2> QED
      BY <1>10, <2>5, <2>6
  <1>13. ASSUME NEW m \in Remembrances, NEW helpful \in BOOLEAN, Feedback(m, helpful) PROVE RecallInv'
    <2> DEFINE w == recall[m].weight
               new == IF helpful THEN (IF w + 1 > MaxWeight THEN MaxWeight ELSE w + 1)
                      ELSE (IF w - 2 < MinWeight THEN MinWeight ELSE w - 2)
    <2>1. w \in Int
      BY <1>3 DEF Remembered
    <2>2. new \in Int
      <3> HIDE DEF w
      <3> QED
        BY <2>1 DEF MaxWeight, MinWeight
    <2>3. recall' = [recall EXCEPT ![m] = [recall[m] EXCEPT !.weight = new]]
      BY <1>13 DEF Feedback
    <2> HIDE DEF new
    <2>4. [recall[m] EXCEPT !.weight = new] \in Remembered
      BY <1>3, <2>2, FieldsChanged
    <2> DEFINE row == [recall[m] EXCEPT !.weight = new]
    <2>5. recall' \in RecallTable
      <3>1. row \in Remembered /\ recall' = [recall EXCEPT ![m] = row]
        BY <2>3, <2>4
      <3> HIDE DEF row
      <3> QED
        BY <1>1, <3>1, RowsChanged
    <2>6. Rest
      BY <1>13 DEF Feedback
    <2> QED
      BY <1>10, <2>5, <2>6
  <1>14. ASSUME NEW m \in Remembrances, NEW helpful \in BOOLEAN, FeedbackForQuery(m, helpful) PROVE RecallInv'
    <2> DEFINE l == recall[m].liked
               new == IF helpful THEN (IF l = 1 THEN 1 ELSE l + 1) ELSE (IF l = -1 THEN -1 ELSE l - 1)
    <2>1. l \in {-1, 0, 1}
      BY <1>3 DEF Remembered
    <2>2. new \in {-1, 0, 1}
      <3> HIDE DEF l
      <3> QED
        BY <2>1
    <2>3. recall' = [recall EXCEPT ![m] = [recall[m] EXCEPT !.liked = new]]
      BY <1>14 DEF FeedbackForQuery
    <2> HIDE DEF new
    <2>4. [recall[m] EXCEPT !.liked = new] \in Remembered
      BY <1>3, <2>2, FieldsChanged
    <2> DEFINE row == [recall[m] EXCEPT !.liked = new]
    <2>5. recall' \in RecallTable
      <3>1. row \in Remembered /\ recall' = [recall EXCEPT ![m] = row]
        BY <2>3, <2>4
      <3> HIDE DEF row
      <3> QED
        BY <1>1, <3>1, RowsChanged
    <2>6. Rest
      BY <1>14 DEF FeedbackForQuery
    <2> QED
      BY <1>10, <2>5, <2>6
  <1>15. CASE RecallDay
    <2>1. recall' = recall /\ recallDay' = recallDay + 1 /\ query' = query /\ counting' = counting
      BY <1>15 DEF RecallDay
    <2>2. recallDay' \in Nat /\ recallDay <= recallDay'
      BY <1>1, <2>1
    <2>3. QueryRight'
      BY <1>1, <2>1, <2>2, QueryStays
    <2> QED
      BY <1>1, <2>1, <2>2, <2>3 DEF RecallInv, RecallShape, CountsRight
  <1>16. CASE UNCHANGED recallVars
    <2>1. recall' = recall /\ recallDay' = recallDay /\ query' = query /\ counting' = counting
      BY <1>16 DEF recallVars
    <2>2. QueryRight'
      BY <1>1, <1>2, <2>1, QueryStays
    <2> QED
      BY <1>1, <2>1, <2>2 DEF RecallInv, RecallShape, CountsRight
  <1> QED
    BY <1>4, <1>5, <1>6, <1>7, <1>8, <1>9, <1>11, <1>12, <1>13, <1>14, <1>15, <1>16 DEF RecallNext

LEMMA RecallAlways == RecallSpec => []RecallInv
  BY RecallStart, RecallKept, PTL DEF RecallSpec

\* The fusion of the ranks, ties included, respects a memory that is at least as good as another in
\* every signal and better in one (rank_rrf, apply_feedback_adjustment): for any memories, tiers,
\* vitalities and feedback.
THEOREM DominantFirstHolds == RecallSpec => []DominantFirst
  <1>1. RecallInv => DominantFirst
    <2> SUFFICES ASSUME RecallInv, query # NoSearch, query.at = "fused", query.then = query.after
                 PROVE  DominantFirst
      BY DEF DominantFirst
    <2>1. PICK q : q = query
      OBVIOUS
    <2>2. FusedRight(q, recallDay)
      BY <2>1 DEF RecallInv, QueryRight
    <2>3. \A a, b \in Found(q.kw, q.sem) : AsGood(q, a, b) /\ ~AsGood(q, b, a) => Before(q, a, b)
      BY <2>1, <2>2, DominantComesFirst
    <2> QED
      BY <2>1, <2>3 DEF DominantFirst, Found
  <1> QED
    BY <1>1, RecallAlways, PTL

\* A search that was fused ends with its answer.
LEMMA OnlyAnswers ==
  ASSUME [RecallNext]_recallVars, Answers
  PROVE  Answer
  <1>1. query # NoSearch /\ query.at = "fused" /\ query' # query
    BY DEF Answers
  <1>2. ~UNCHANGED recallVars
    BY <1>1 DEF recallVars
  <1>3. ASSUME NEW order, NEW strategy, NEW opt, NEW dormantToo, NEW budget
        PROVE  ~BeginSearch(order, strategy, opt, dormantToo, budget)
    BY <1>1 DEF BeginSearch
  <1>4. ASSUME NEW order PROVE ~Fuse(order)
    BY <1>1 DEF Fuse
  <1>5. ASSUME NEW order, NEW opt, NEW dormantToo PROVE ~AnswerStructured(order, opt, dormantToo)
    BY <1>1 DEF AnswerStructured
  <1>6. ASSUME NEW t PROVE ~ReadCounts(t) /\ ~WriteCounts(t)
    BY <1>1 DEF ReadCounts, WriteCounts
  <1>7. ~Rest /\ ~RecallDay
    BY <1>1 DEF Rest, RecallDay
  <1>8. ASSUME NEW m PROVE ~Hide(m) /\ ~MarkSensitive(m)
    BY <1>7 DEF Hide, MarkSensitive
  <1>9. ASSUME NEW m, NEW helpful PROVE ~Feedback(m, helpful) /\ ~FeedbackForQuery(m, helpful)
    BY <1>7 DEF Feedback, FeedbackForQuery
  <1> QED
    BY <1>2, <1>3, <1>4, <1>5, <1>6, <1>7, <1>8, <1>9 DEF RecallNext

\* The answer holds nothing that neither tier saw fit to show.
LEMMA HiddenStep ==
  ASSUME RecallInv, [RecallNext]_recallVars, Answers
  PROVE  \A m \in IdsOf(answer'.shown) \cup answer'.more :
            MayShow(m, query.opt) \/ query.then[m] # recall[m] \/ query.after[m] # recall[m]
  <1>1. PICK q : q = query
    OBVIOUS
  <1>2. FusedRight(q, recallDay)
    BY <1>1 DEF RecallInv, QueryRight, Answers
  <1> DEFINE shown == Trimmed(FirstOf(Ranked(q), ResultLimit), q.budget)
             more == Expansion(IdsOf(shown), q.opt)
  <1>3. answer' = [shown |-> shown, more |-> more]
    BY <1>1, OnlyAnswers DEF Answer
  <1>4. IdsOf(shown) \subseteq Found(q.kw, q.sem)
    BY <1>2, ShownHas
  <1>5. \A m \in more : MayShow(m, q.opt)
    BY DEF Expansion, ViaEntities, ViaNeighbors, ViaCoRetrieval
  <1>6. \A m \in Found(q.kw, q.sem) : Allowed(q.then[m], q.opt) \/ Allowed(q.after[m], q.opt)
    BY <1>2 DEF FusedRight, Found
  <1> HIDE DEF shown, more
  <1>7. \A m \in IdsOf(shown) : MayShow(m, q.opt) \/ q.then[m] # recall[m] \/ q.after[m] # recall[m]
    BY <1>4, <1>6 DEF MayShow, Allowed
  <1>8. answer'.shown = shown /\ answer'.more = more
    BY <1>3
  <1> QED
    BY <1>1, <1>5, <1>7, <1>8

\* Nor does it lack a live memory that it had room for, when not too much is in the way.
LEMMA CrowdedStep ==
  ASSUME RecallInv, [RecallNext]_recallVars, Answers, query.then = recall, query.after = recall, query.budget = 0,
         ~DormantInTheWay(query.order), ~DormantInTheWay(query.chunks), ~ChunksInTheWay(query.chunks)
  PROVE  \/ Len(answer'.shown) = ResultLimit
         \/ \A m \in IdsOf(query.order) \cup IdsOf(query.chunks) : LiveMatch(m) => m \in IdsOf(answer'.shown)
  <1>1. PICK q : q = query
    OBVIOUS
  <1>2. FusedRight(q, recallDay)
    BY <1>1 DEF RecallInv, QueryRight, Answers
  <1> DEFINE shown == Trimmed(FirstOf(Ranked(q), ResultLimit), q.budget)
             visible == VisibleTo(q)
             awake == AwakeFor(q)
             live == visible \cap awake
  <1>3. answer'.shown = shown
    BY <1>1, OnlyAnswers DEF Answer
  <1>4. /\ IdsOf(shown) \subseteq Found(q.kw, q.sem)
        /\ \/ Len(shown) = ResultLimit
           \/ /\ IdsOf(shown) = Found(q.kw, q.sem)
              /\ Len(q.kw) < ResultLimit /\ Len(q.sem) < ResultLimit
    BY <1>1, <1>2, ShownHas
  <1> HIDE DEF shown
  <1>5. /\ q.after = recall /\ TierRight(q.kw, q.order, visible, awake)
        /\ TierRight(q.sem, q.chunks, visible, awake) \/ ManyWasted(q.chunks, live, FetchLimit(q.dormantToo))
        /\ \E day \in Nat : day <= recallDay /\ \A m \in Remembrances : q.vital[m] = VitalityAt(q.after[m], day)
    BY <1>1, <1>2 DEF FusedRight
  <1>6. /\ Distinct(q.order, Remembrances) /\ q.chunks \in Seq(Remembrances)
        /\ Distinct(q.kw, Remembrances) /\ Distinct(q.sem, Remembrances)
    BY <1>2 DEF FusedRight
  <1>7. ASSUME NEW m \in Remembrances
        PROVE  /\ MayShow(m, query.opt) <=> m \in visible
               /\ ~Sleeps(m) => m \in awake
    <2>1. PICK day \in Nat : day <= recallDay /\ q.vital[m] = VitalityAt(recall[m], day)
      BY <1>5
    <2>2. recall[m] \in Remembered /\ recallDay \in Nat
      BY DEF RecallInv, RecallShape, RecallTable
    <2>3. Vitality(m) \in Int /\ q.vital[m] \in Int /\ Vitality(m) <= q.vital[m]
      <3>1. Vitality(m) = VitalityAt(recall[m], recallDay)
        BY DEF Vitality, VitalityOf, VitalityAt
      <3> QED
        BY <2>1, <2>2, <3>1, VitalityFalls
    <2>4. Dormant(q.vital[m]) => Dormant(Vitality(m))
      BY <2>3 DEF Dormant, Floor
    <2>5. MayShow(m, query.opt) <=> m \in visible
      BY <1>1, <1>5 DEF MayShow, Allowed, VisibleTo
    <2> QED
      BY <1>1, <2>4, <2>5 DEF Sleeps, AwakeFor
  <1> HIDE DEF visible, awake
  <1>8. ASSUME NEW order \in Seq(Remembrances), ~DormantInTheWay(order) PROVE ~Crowded(order, visible, awake)
    <2> DEFINE asleep == {m \in IdsOf(order) : MayShow(m, query.opt) /\ Sleeps(m)}
               fewer == (IdsOf(order) \cap visible) \ awake
    <2>1. IdsOf(order) \subseteq Remembrances /\ IsFiniteSet(IdsOf(order))
      <3>1. Distinct(Best(order), Remembrances) /\ IdsOf(Best(order)) = IdsOf(order)
        BY BestHas
      <3> QED
        BY <3>1, IdsCounted
    <2>2. asleep \in SUBSET IdsOf(order) /\ fewer \in SUBSET asleep
      BY <1>7, <2>1
    <2>3. ~(Cardinality(asleep) > Excess)
      BY <1>8 DEF DormantInTheWay, Excess
    <2>4. Crowded(order, visible, awake) <=> Cardinality(fewer) > Excess
      BY DEF Crowded
    <2> HIDE DEF asleep, fewer
    <2>5. IsFiniteSet(asleep)
      BY <2>1, <2>2, FS_Subset
    <2>6. IsFiniteSet(fewer) /\ Cardinality(fewer) <= Cardinality(asleep)
      BY <2>2, <2>5, FS_Subset
    <2>7. Cardinality(fewer) \in Nat /\ Cardinality(asleep) \in Nat /\ Excess \in Nat
      BY <2>5, <2>6, FS_CardinalityType, ExcessIs
    <2> QED
      BY <2>3, <2>4, <2>6, <2>7
  <1>9. ~Crowded(q.order, visible, awake) /\ ~Crowded(q.chunks, visible, awake)
    BY <1>1, <1>6, <1>8 DEF Distinct
  <1>10. ~ManyWasted(q.chunks, live, FetchLimit(q.dormantToo))
    <2> DEFINE fewer == Wasted(q.chunks, live)
               wasted == WastedPlaces(q.chunks)
               room == FetchLimit(q.dormantToo) * Fanout - ResultLimit
    <2>1. \A i \in 1..Len(q.chunks) : q.chunks[i] \in Remembrances
      BY <1>6
    <2>2. fewer \in SUBSET wasted /\ wasted \in SUBSET 1..Len(q.chunks)
      BY <1>7, <2>1 DEF Wasted, WastedPlaces, LiveMatch
    <2>3. ~(Cardinality(wasted) > room)
      BY <1>1 DEF ChunksInTheWay
    <2>4. ManyWasted(q.chunks, live, FetchLimit(q.dormantToo)) <=> Cardinality(fewer) > room
      BY DEF ManyWasted
    <2>5. room \in Int
      <3>1. q.dormantToo \in BOOLEAN
        BY <1>2 DEF FusedRight
      <3>2. FetchLimit(q.dormantToo) \in Nat
        BY <3>1, FetchLimitEnough DEF EnoughFetched
      <3> QED
        BY <3>2, ExcessIs, TiersAssumption
    <2> HIDE DEF fewer, wasted, room
    <2>6. IsFiniteSet(wasted)
      <3>1. IsFiniteSet(1..Len(q.chunks))
        <4>1. Len(q.chunks) \in Nat
          BY <1>6
        <4> QED
          BY <4>1, FS_Interval
      <3> QED
        BY <2>2, <3>1, FS_Subset
    <2>7. IsFiniteSet(fewer) /\ Cardinality(fewer) <= Cardinality(wasted)
      BY <2>2, <2>6, FS_Subset
    <2>8. Cardinality(fewer) \in Nat /\ Cardinality(wasted) \in Nat
      BY <2>6, <2>7, FS_CardinalityType
    <2> QED
      BY <2>3, <2>4, <2>5, <2>7, <2>8
  <1>11. ASSUME Len(shown) # ResultLimit, NEW m \in IdsOf(q.order) \cup IdsOf(q.chunks), LiveMatch(m)
         PROVE  m \in IdsOf(shown)
    <2>1. m \in Remembrances
      <3>1. IdsOf(q.order) \subseteq Remembrances
        BY <1>6, IdsCounted
      <3>2. IdsOf(q.chunks) \subseteq Remembrances
        BY <1>6 DEF IdsOf
      <3> QED
        BY <3>1, <3>2
    <2>2. m \in visible /\ m \in awake
      BY <1>7, <1>11, <2>1 DEF LiveMatch
    <2>3. IdsOf(shown) = Found(q.kw, q.sem) /\ Len(q.kw) < ResultLimit /\ Len(q.sem) < ResultLimit
      BY <1>4, <1>11
    <2>4. ~(Len(q.kw) >= ResultLimit) /\ ~(Len(q.sem) >= ResultLimit)
      <3>1. Len(q.kw) \in Nat /\ Len(q.sem) \in Nat /\ ResultLimit \in Nat
        BY <1>6, TiersAssumption DEF Distinct
      <3> QED
        BY <2>3, <3>1
    <2>5. /\ IdsOf(q.order) \cap visible \cap awake \subseteq IdsOf(q.kw)
          /\ IdsOf(q.chunks) \cap visible \cap awake \subseteq IdsOf(q.sem)
      BY <1>5, <1>9, <1>10, <2>4 DEF TierRight
    <2> QED
      BY <2>2, <2>3, <2>5 DEF Found
  <1> QED
    BY <1>1, <1>3, <1>11

\* A search shows nothing sensitive or hidden without the opt-in, unless it became so after a tier
\* was read (memory_search, _expand_results), and every live match, or as many as asked for,
\* unless more dormant memories, or more chunks of long and unshown ones, are in the way than it
\* fetches in excess (_semantic_search): for any memories, chunks, limits and orders.
THEOREM AnswersRightHolds == RecallSpec => AnswersRight
  <1>1. RecallInv /\ [RecallNext]_recallVars
        => [Answers => \A m \in IdsOf(answer'.shown) \cup answer'.more :
              MayShow(m, query.opt) \/ query.then[m] # recall[m] \/ query.after[m] # recall[m]]_recallVars
    BY HiddenStep
  <1>2. RecallInv /\ [RecallNext]_recallVars
        => [/\ Answers /\ query.then = recall /\ query.after = recall /\ query.budget = 0
            /\ ~DormantInTheWay(query.order) /\ ~DormantInTheWay(query.chunks) /\ ~ChunksInTheWay(query.chunks)
            => \/ Len(answer'.shown) = ResultLimit
               \/ \A m \in IdsOf(query.order) \cup IdsOf(query.chunks) : LiveMatch(m) => m \in IdsOf(answer'.shown)]_recallVars
    BY CrowdedStep
  <1>3. RecallSpec => NothingHiddenShown
    BY <1>1, RecallAlways, PTL DEF RecallSpec, NothingHiddenShown
  <1>4. RecallSpec => LiveNotCrowdedOut
    BY <1>2, RecallAlways, PTL DEF RecallSpec, LiveNotCrowdedOut
  <1> QED
    BY <1>3, <1>4 DEF AnswersRight
=============================================================================
