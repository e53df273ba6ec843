---------------------------- MODULE ServiceProofs ----------------------------
(***************************************************************************)
(* Proofs about the services of the server: the wiki's compile loop, for   *)
(* any memories and batch sizes; self-update, for any number of updates,   *)
(* commits and faults; the single-instance guard, for any processes; the   *)
(* end of a lifespan, for any services and order of stopping; the          *)
(* credential files, for any clients, keys, tools and processes; the rate  *)
(* limiter, for any addresses, limits and handlers; the periodic jobs, for *)
(* any number of servers.                                                  *)
(***************************************************************************)
EXTENDS WikiCompile, SelfUpdate, ServerStart, ServerStop, Auth, Gate, PeriodicJobs,
        SequenceTheorems, FiniteSetTheorems, TLAPS

-----------------------------------------------------------------------------
(* The compile loop.  A mark moves the watermark to the latest creation    *)
(* time of its batch, and no memory's creation time ever changes.          *)

Source == [created : Nat, live : BOOLEAN, sensitive : BOOLEAN]

MarkedBehind ==
    /\ compileTime \in Nat /\ watermark \in Nat
    /\ source \in [DOMAIN source -> Source]
    /\ marked \subseteq DOMAIN source
    /\ \A m \in marked : source[m].created <= watermark

LEMMA BehindInit == CompileInit => MarkedBehind
  BY DEF CompileInit, MarkedBehind

LEMMA BehindStep == MarkedBehind /\ [CompileNext]_compileVars => MarkedBehind'
  <1> SUFFICES ASSUME MarkedBehind, [CompileNext]_compileVars PROVE MarkedBehind'
    OBVIOUS
  <1> USE DEF MarkedBehind, Source, UnchangedCompile
  <1>1. CASE CompileTick
    BY <1>1 DEF CompileTick
  <1>2. CASE Brief
    BY <1>2 DEF Brief
  <1>3. CASE MarkIntegrated
    <2>1. PICK b \in Batches :
             /\ \E m \in b : /\ \A n \in b : source[n].created <= source[m].created
                             /\ watermark' = source[m].created
             /\ marked' = marked \cup b
      BY <1>3 DEF MarkIntegrated
    <2>2. PICK m \in b : /\ \A n \in b : source[n].created <= source[m].created
                         /\ watermark' = source[m].created
      BY <2>1
    <2>3. \A n \in b : n \in DOMAIN source /\ source[n].created > watermark
      BY DEF Batches, PendingAt
    <2>4. source' = source /\ compileTime' = compileTime
      BY <1>3 DEF MarkIntegrated
    <2>5. \A n \in DOMAIN source : source[n].created \in Nat
      OBVIOUS
    <2> QED
      BY <2>1, <2>2, <2>3, <2>4, <2>5
  <1>4. ASSUME NEW m \in Sources, Added(m) PROVE MarkedBehind'
    BY <1>4 DEF Added
  <1>5. ASSUME NEW m \in Sources, SourceChanged(m) PROVE MarkedBehind'
    <2>1. m \in DOMAIN source /\ source[m] \in Source
      BY <1>5 DEF SourceChanged
    <2>2. PICK r \in Source : r.created = source[m].created /\ source' = [source EXCEPT ![m] = r]
      <3>1. CASE source' = [source EXCEPT ![m].live = ~@]
        BY <2>1, <3>1, [source[m] EXCEPT !.live = ~@] \in Source
      <3>2. CASE source' = [source EXCEPT ![m].sensitive = ~@]
        BY <2>1, <3>2, [source[m] EXCEPT !.sensitive = ~@] \in Source
      <3> QED
        BY <1>5, <3>1, <3>2 DEF SourceChanged
    <2> QED
      BY <1>5, <2>1, <2>2 DEF SourceChanged
  <1>6. CASE UNCHANGED compileVars
    BY <1>6 DEF compileVars
  <1> QED
    BY <1>1, <1>2, <1>3, <1>4, <1>5, <1>6 DEF CompileNext

\* "so they are not re-served next time" (remind_me_wiki_compile): what a mark counted as
\* integrated never becomes pending again, for any memories, batch sizes and changes.
THEOREM NotServedAgainHolds == CompileSpec => []NotServedAgain
  <1>1. MarkedBehind => NotServedAgain
    BY DEF MarkedBehind, NotServedAgain, PendingAt, Source
  <1> QED
    BY <1>1, BehindInit, BehindStep, PTL DEF CompileSpec

-----------------------------------------------------------------------------
(* Self-update.  The lock of the checkout belongs to the one update that   *)
(* is under way.  Until it reports, the package is the commit it found;    *)
(* but for the time between pull and reinstall, that is the tree's.        *)

USE NobodyAssumption

Ended == {"new", "lock", "refused", "failed", "rolled back", "ahead", "updated"}

Record == [at : Began \cup Ended, forced : BOOLEAN, previous : Nat, found : Nat, late : BOOLEAN,
           alone : BOOLEAN]

UpdateType ==
    /\ repoLock \in Updates \cup {Nobody}
    /\ edited \in BOOLEAN /\ divergent \in BOOLEAN
    /\ update \in [Updates -> Record]
    /\ origin \in Nat /\ tree \in Nat
    /\ destroyed \subseteq Updates
    /\ orphans \subseteq Updates \X Children

\* Who is at work holds the lock.
LockHeld == \A u \in Updates : update[u].at \in Began <=> repoLock = u

\* An update that found no child of another one at work has none beside it.
Alone == \A u \in Updates : update[u].at \in Began /\ update[u].alone => orphans = {}

\* What the package is, unless an update ended in a declared divergence.
PackageKnown ==
    ~divergent =>
        /\ orphans = {}
        /\ repoLock = Nobody => package = tree
        /\ \A u \in Updates : /\ update[u].at \in {"check", "pull", "report"} => package = tree
                              /\ update[u].at \in {"check", "pull", "install", "rollback"}
                                    => package = update[u].found

\* Changes that were there before an unforced update began stopped it.
EditsSeen ==
    /\ \A u \in Updates : update[u].at \in {"pull", "install", "rollback"} /\ edited /\ ~update[u].late
                             => update[u].forced
    /\ \A o \in orphans : o[2] = "rollback" /\ edited /\ ~update[o[1]].late => update[o[1]].forced
    /\ \A o \in orphans : update[o[1]].at \in Ended \ {"new", "lock"}
    /\ \A u \in destroyed : update[u].at \in Ended \ {"new", "lock"} /\ update[u].forced

UpdateInv == UpdateType /\ LockHeld /\ Alone /\ PackageKnown /\ EditsSeen

LEMMA UpdateInvInit == UpdateInit => UpdateInv
  <1> SUFFICES ASSUME UpdateInit PROVE UpdateInv
    OBVIOUS
  <1> USE DEF UpdateInit, Began, Children, Ended
  <1>1. UpdateType
    BY DEF UpdateType, Record
  <1>2. LockHeld /\ Alone
    BY DEF LockHeld, Alone
  <1>3. PackageKnown /\ EditsSeen
    BY DEF PackageKnown, EditsSeen
  <1> QED
    BY <1>1, <1>2, <1>3 DEF UpdateInv

\* An update goes on: nothing else of it changes, and nothing of the others.
LEMMA GoesOn ==
  ASSUME UpdateType, NEW u \in Updates, NEW to \in Began \cup Ended, Goes(u, to)
  PROVE  /\ update' \in [Updates -> Record]
         /\ update'[u].at = to
         /\ \A v \in Updates : /\ update'[v].forced = update[v].forced
                               /\ update'[v].previous = update[v].previous
                               /\ update'[v].found = update[v].found
                               /\ update'[v].late = update[v].late
                               /\ update'[v].alone = update[v].alone
                               /\ v # u => update'[v].at = update[v].at
  <1> DEFINE r == [update[u] EXCEPT !.at = to]
  <1>1. update[u] \in Record
    BY DEF UpdateType
  <1>2. r \in Record
    BY <1>1 DEF Record
  <1>3. /\ r.at = to /\ r.forced = update[u].forced /\ r.previous = update[u].previous
        /\ r.found = update[u].found /\ r.late = update[u].late /\ r.alone = update[u].alone
    BY <1>1 DEF Record
  <1>4. update' = [update EXCEPT ![u] = r]
    BY DEF Goes, UpdateType
  <1> HIDE DEF r
  <1>5. update' \in [Updates -> Record] /\ update'[u] = r
    BY <1>2, <1>4 DEF UpdateType
  <1>6. \A v \in Updates : v # u => update'[v] = update[v]
    BY <1>4 DEF UpdateType
  <1> QED
    BY <1>3, <1>5, <1>6

\* A step that ends an update keeps the invariant if it leaves the package in step or declares
\* the divergence, as it must when a child goes on, and discards changes only if forced.
LEMMA EndsWell ==
  ASSUME UpdateInv, NEW u \in Updates, update[u].at \in Began, NEW o \in Ended \ {"new", "lock"}, Leave(u, o),
         ~divergent' => package' = tree' /\ orphans' = {},
         \/ destroyed' = destroyed
         \/ destroyed' = destroyed \cup {u} /\ update[u].forced,
         orphans' \subseteq Updates \X Children,
         \A x \in orphans' : \/ x \in orphans
                             \/ /\ x[1] = u
                                /\ x[2] = "rollback" /\ edited' /\ ~update[u].late => update[u].forced,
         edited' \in BOOLEAN, edited' => edited, divergent' \in BOOLEAN, origin' \in Nat, tree' \in Nat
  PROVE  UpdateInv'
  <1>1. repoLock = u /\ \A v \in Updates : v # u => update[v].at \notin Began
    BY DEF UpdateInv, LockHeld
  <1>2. /\ update' \in [Updates -> Record] /\ update'[u].at = o
        /\ \A v \in Updates : v # u => update'[v].at = update[v].at
        /\ \A v \in Updates : update'[v].forced = update[v].forced /\ update'[v].late = update[v].late
    BY GoesOn DEF UpdateInv, Leave
  <1>3. repoLock' = Nobody
    BY <1>1 DEF Leave
  <1>4. \A v \in Updates : update'[v].at \notin Began
    BY <1>1, <1>2 DEF Began, Children, Ended
  <1>5. UpdateType'
    BY <1>2, <1>3 DEF UpdateInv, UpdateType
  <1>6. LockHeld' /\ Alone'
    BY <1>3, <1>4 DEF LockHeld, Alone
  <1>7. PackageKnown'
    BY <1>4 DEF PackageKnown, Began, Children
  <1>8. \A v \in destroyed : v \in Updates /\ v # u /\ update[v].at \in Ended \ {"new", "lock"} /\ update[v].forced
    BY DEF UpdateInv, UpdateType, EditsSeen, Began, Children, Ended
  <1>9. ASSUME NEW v \in destroyed' PROVE update'[v].at \in Ended \ {"new", "lock"} /\ update'[v].forced
    <2>1. CASE v \in destroyed
      BY <1>2, <1>8, <2>1
    <2>2. CASE v \notin destroyed
      <3>1. v = u /\ update[u].forced
        BY <2>2
      <3> QED
        BY <1>2, <3>1
    <2> QED
      BY <2>1, <2>2
  <1>10. ASSUME NEW x \in orphans'
         PROVE  /\ x[2] = "rollback" /\ edited' /\ ~update'[x[1]].late => update'[x[1]].forced
                /\ update'[x[1]].at \in Ended \ {"new", "lock"}
    <2>1. x[1] \in Updates
      OBVIOUS
    <2>2. CASE x \in orphans
      <3>1. /\ x[2] = "rollback" /\ edited /\ ~update[x[1]].late => update[x[1]].forced
            /\ update[x[1]].at \in Ended \ {"new", "lock"}
        BY <2>2 DEF UpdateInv, EditsSeen
      <3>2. x[1] = u \/ update'[x[1]].at = update[x[1]].at
        BY <1>2, <2>1
      <3> QED
        BY <1>2, <2>1, <3>1, <3>2
    <2>3. CASE x[1] = u /\ (x[2] = "rollback" /\ edited' /\ ~update[u].late => update[u].forced)
      BY <1>2, <2>3
    <2> QED
      BY <2>2, <2>3
  <1>11. EditsSeen'
    BY <1>4, <1>9, <1>10 DEF EditsSeen, Began, Children
  <1> QED
    BY <1>5, <1>6, <1>7, <1>11 DEF UpdateInv

\* A step that takes an update further keeps it if the package is what it must be there.
LEMMA GoesWell ==
  ASSUME UpdateInv, NEW u \in Updates, update[u].at \in Began, NEW to \in Began, Goes(u, to),
         UNCHANGED <<repoLock, origin, edited, orphans, destroyed>>, tree' \in Nat, divergent' \in BOOLEAN,
         ~divergent' => orphans = {},
         ~divergent' /\ to \in {"check", "pull", "report"} => package' = tree',
         ~divergent' /\ to \in {"check", "pull", "install", "rollback"} => package' = update[u].found,
         to \in {"pull", "install", "rollback"} /\ edited /\ ~update[u].late => update[u].forced
  PROVE  UpdateInv'
  <1>1. repoLock = u /\ u # Nobody /\ \A v \in Updates : v # u => update[v].at \notin Began
    BY DEF UpdateInv, LockHeld
  <1>2. /\ update' \in [Updates -> Record] /\ update'[u].at = to
        /\ \A v \in Updates : /\ update'[v].forced = update[v].forced
                              /\ update'[v].found = update[v].found
                              /\ update'[v].late = update[v].late
                              /\ update'[v].alone = update[v].alone
                              /\ v # u => update'[v].at = update[v].at
    BY GoesOn DEF UpdateInv
  <1>3. \A v \in Updates : v # u => update'[v].at \notin Began
    BY <1>1, <1>2
  <1>4. UpdateType'
    BY <1>2 DEF UpdateInv, UpdateType
  <1>5. LockHeld'
    BY <1>1, <1>2, <1>3 DEF LockHeld
  <1>a. Alone'
    BY <1>2, <1>3 DEF Alone, UpdateInv
  <1>6. PackageKnown'
    BY <1>1, <1>2, <1>3 DEF PackageKnown, Began, Children
  <1>7. \A v \in destroyed : v \in Updates /\ v # u /\ update[v].at \in Ended \ {"new", "lock"} /\ update[v].forced
    BY DEF UpdateInv, UpdateType, EditsSeen, Began, Children, Ended
  <1>8. \A x \in orphans : x[1] \in Updates /\ x[1] # u /\ update[x[1]].at \in Ended \ {"new", "lock"}
                           /\ (x[2] = "rollback" /\ edited /\ ~update[x[1]].late => update[x[1]].forced)
    BY DEF UpdateInv, UpdateType, EditsSeen, Began, Children, Ended
  <1>9. EditsSeen'
    BY <1>2, <1>3, <1>7, <1>8 DEF EditsSeen, Began, Children
  <1> QED
    BY <1>4, <1>5, <1>6, <1>a, <1>9 DEF UpdateInv

LEMMA UpdateInvStep == UpdateInv /\ [UpdateNext]_updateVars => UpdateInv'
  <1> SUFFICES ASSUME UpdateInv, [UpdateNext]_updateVars PROVE UpdateInv'
    OBVIOUS
  <1> USE DEF UnchangedRepo, UnchangedUpdateHistory
  <1>0. UpdateType /\ LockHeld /\ Alone /\ PackageKnown /\ EditsSeen
    BY DEF UpdateInv
  <1>1. CASE Pushed_upstream
    <2>1. /\ origin' \in Nat
          /\ UNCHANGED <<tree, package, edited, repoLock, update, orphans, divergent, destroyed>>
      BY <1>0, <1>1 DEF Pushed_upstream, UpdateType
    <2>2. UpdateType' /\ LockHeld' /\ Alone'
      BY <1>0, <2>1 DEF UpdateType, LockHeld, Alone
    <2>3. PackageKnown' /\ EditsSeen'
      BY <1>0, <2>1 DEF PackageKnown, EditsSeen
    <2> QED
      BY <2>2, <2>3 DEF UpdateInv
  <1>2. CASE EditTree
    <2>1. /\ update' \in [Updates -> Record]
          /\ \A v \in Updates : /\ update'[v].at = update[v].at
                                /\ update'[v].forced = update[v].forced
                                /\ update'[v].found = update[v].found
                                /\ update'[v].late = (update[v].late \/ update[v].at \notin {"new", "lock"})
                                /\ update'[v].alone = update[v].alone
      <3>1. \A v \in Updates : update[v] \in Record
        BY <1>0 DEF UpdateType
      <3>2. ASSUME NEW v \in Updates
            PROVE  LET r == [update[v] EXCEPT !.late = @ \/ update[v].at \notin {"new", "lock"}] IN
                     /\ r \in Record /\ r.at = update[v].at /\ r.forced = update[v].forced
                     /\ r.found = update[v].found /\ r.alone = update[v].alone
                     /\ r.late = (update[v].late \/ update[v].at \notin {"new", "lock"})
        <4> DEFINE late == update[v].late \/ update[v].at \notin {"new", "lock"}
        <4>1. late \in BOOLEAN
          BY <3>1 DEF Record
        <4> HIDE DEF late
        <4>2. LET r == [update[v] EXCEPT !.late = late] IN
                /\ r \in Record /\ r.at = update[v].at /\ r.forced = update[v].forced
                /\ r.found = update[v].found /\ r.late = late /\ r.alone = update[v].alone
          BY <3>1, <4>1 DEF Record
        <4> QED
          BY <4>2 DEF late
      <3>3. update' = [v \in Updates |-> [update[v] EXCEPT !.late = @ \/ update[v].at \notin {"new", "lock"}]]
        BY <1>2 DEF EditTree
      <3> QED
        BY <3>2, <3>3
    <2>2. UpdateType' /\ LockHeld' /\ Alone'
      BY <1>0, <1>2, <2>1 DEF EditTree, UpdateType, LockHeld, Alone
    <2>3. PackageKnown'
      BY <1>0, <1>2, <2>1 DEF EditTree, PackageKnown
    <2>4. EditsSeen'
      <3>1. destroyed' = destroyed /\ destroyed \subseteq Updates
        BY <1>0, <1>2 DEF EditTree, UpdateType
      <3>2. \A v \in Updates : update'[v].at \in {"pull", "install", "rollback"} => update'[v].late
        BY <2>1 DEF Began, Children
      <3>3. \A o \in orphans : /\ update'[o[1]].late
                               /\ update'[o[1]].at \in Ended \ {"new", "lock"}
        BY <1>0, <2>1 DEF EditsSeen, UpdateType
      <3>4. orphans' = orphans
        BY <1>2 DEF EditTree
      <3>5. \A v \in destroyed : update'[v].at \in Ended \ {"new", "lock"} /\ update'[v].forced
        BY <1>0, <2>1 DEF EditsSeen, UpdateType
      <3> QED
        BY <3>1, <3>2, <3>3, <3>4, <3>5 DEF EditsSeen
    <2> QED
      BY <2>2, <2>3, <2>4 DEF UpdateInv
  <1>3. ASSUME NEW u \in Updates, NEW forced \in BOOLEAN, NotePrevious(u, forced) PROVE UpdateInv'
    <2>0. PICK previous \in {tree, Unknown} :
             update' = [update EXCEPT ![u] = [at |-> "lock", forced |-> forced, previous |-> previous,
                                              found |-> tree, late |-> FALSE, alone |-> TRUE]]
      BY <1>3 DEF NotePrevious
    <2> DEFINE r == [at |-> "lock", forced |-> forced, previous |-> previous, found |-> tree,
                     late |-> FALSE, alone |-> TRUE]
    <2>a. previous \in Nat /\ tree \in Nat
      BY <1>0 DEF UpdateType, Unknown
    <2>1. r \in Record /\ r.at = "lock"
      BY <2>a DEF Record, Ended
    <2>2. update' = [update EXCEPT ![u] = r]
      BY <2>0
    <2> HIDE DEF r
    <2>3. /\ update' \in [Updates -> Record] /\ update'[u].at = "lock"
          /\ \A v \in Updates : v # u => update'[v] = update[v]
      BY <1>0, <2>1, <2>2 DEF UpdateType
    <2>4. update[u].at = "new" /\ UNCHANGED <<origin, tree, package, edited, repoLock, orphans, divergent, destroyed>>
      BY <1>3 DEF NotePrevious
    <2>5. UpdateType' /\ LockHeld' /\ Alone'
      BY <1>0, <2>3, <2>4 DEF UpdateType, LockHeld, Alone, Began, Children
    <2>6. PackageKnown'
      BY <1>0, <2>3, <2>4 DEF PackageKnown
    <2>7. EditsSeen'
      BY <1>0, <2>3, <2>4 DEF EditsSeen, UpdateType
    <2> QED
      BY <2>5, <2>6, <2>7 DEF UpdateInv
  <1>4. ASSUME NEW u \in Updates, LockRepo(u) PROVE UpdateInv'
    <2>1. CASE repoLock = Nobody
      <3> DEFINE r == [update[u] EXCEPT !.at = "check", !.found = tree, !.alone = (orphans = {})]
      <3>1. update[u] \in Record /\ tree \in Nat
        BY <1>0 DEF UpdateType
      <3>2. r \in Record /\ r.at = "check" /\ r.found = tree /\ (r.alone => orphans = {})
        BY <3>1 DEF Record, Began, Children
      <3>3. update' = [update EXCEPT ![u] = r]
        BY <1>0, <1>4, <2>1 DEF LockRepo, Locked, UpdateType
      <3> HIDE DEF r
      <3>4. /\ update' \in [Updates -> Record] /\ update'[u].at = "check" /\ update'[u].found = tree
            /\ (update'[u].alone => orphans = {})
            /\ \A v \in Updates : v # u => update'[v] = update[v]
        BY <1>0, <3>2, <3>3 DEF UpdateType
      <3>5. /\ update[u].at = "lock" /\ repoLock' = u
            /\ UNCHANGED <<origin, tree, package, edited, orphans, divergent, destroyed>>
        BY <1>4, <2>1 DEF LockRepo, Locked
      <3>6. \A v \in Updates : update[v].at \notin Began
        BY <1>0, <2>1 DEF LockHeld
      <3>7. UpdateType'
        BY <1>0, <3>4, <3>5 DEF UpdateType
      <3>8. LockHeld'
        BY <3>4, <3>5, <3>6 DEF LockHeld, Began, Children
      <3>9. PackageKnown'
        BY <1>0, <2>1, <3>4, <3>5, <3>6 DEF PackageKnown, Began, Children
      <3>10. EditsSeen'
        BY <1>0, <3>4, <3>5 DEF EditsSeen, UpdateType
      <3>11. Alone'
        BY <3>4, <3>5, <3>6 DEF Alone
      <3> QED
        BY <3>7, <3>8, <3>9, <3>10, <3>11 DEF UpdateInv
    <2>2. CASE repoLock # Nobody
      <3>1. /\ update[u].at = "lock" /\ Goes(u, "refused")
            /\ UNCHANGED <<origin, tree, package, edited, repoLock, orphans, divergent, destroyed>>
        BY <1>4, <2>2 DEF LockRepo, Locked
      <3>2. /\ update' \in [Updates -> Record] /\ update'[u].at = "refused"
            /\ \A v \in Updates : /\ update'[v].forced = update[v].forced
                                  /\ update'[v].found = update[v].found
                                  /\ update'[v].late = update[v].late
                                  /\ update'[v].alone = update[v].alone
                                  /\ v # u => update'[v].at = update[v].at
        BY <1>0, <3>1, GoesOn DEF Ended
      <3>3. UpdateType' /\ LockHeld' /\ Alone'
        BY <1>0, <3>1, <3>2 DEF UpdateType, LockHeld, Alone, Began, Children
      <3>4. PackageKnown'
        BY <1>0, <3>1, <3>2 DEF PackageKnown
      <3>5. EditsSeen'
        BY <1>0, <3>1, <3>2 DEF EditsSeen, UpdateType
      <3> QED
        BY <3>3, <3>4, <3>5 DEF UpdateInv
    <2> QED
      BY <2>1, <2>2
  <1>5. ASSUME NEW u \in Updates, CheckTree(u) PROVE UpdateInv'
    <2>1. CASE Leave(u, "refused")
      BY <1>0, <1>5, <2>1, EndsWell DEF CheckTree, UpdateType, LockHeld, PackageKnown, Began, Children, Ended
    <2>2. CASE AcceptsTree(u) /\ Goes(u, "pull") /\ UNCHANGED repoLock
      BY <1>0, <1>5, <2>2, GoesWell DEF CheckTree, AcceptsTree, UpdateType, PackageKnown, Began, Children
    <2> QED
      BY <1>5, <2>1, <2>2 DEF CheckTree
  <1>6. ASSUME NEW u \in Updates, PullTree(u) PROVE UpdateInv'
    <2>1. CASE Leave(u, "failed") /\ UNCHANGED tree
      BY <1>0, <1>6, <2>1, EndsWell DEF PullTree, UpdateType, PackageKnown, Began, Children, Ended
    <2>2. CASE tree' = origin /\ Goes(u, "install") /\ UNCHANGED repoLock
      BY <1>0, <1>6, <2>2, GoesWell DEF PullTree, UpdateType, PackageKnown, EditsSeen, Began, Children
    <2> QED
      BY <1>6, <2>1, <2>2 DEF PullTree
  <1>7. ASSUME NEW u \in Updates, PullTimesOut(u) PROVE UpdateInv'
    <2>1. /\ update[u].at = "pull" /\ orphans' = orphans \cup {<<u, "pull">>} /\ divergent' = TRUE
          /\ Leave(u, "failed") /\ UNCHANGED <<origin, tree, package, edited, destroyed>>
      BY <1>7 DEF PullTimesOut
    <2>2. orphans' \subseteq Updates \X Children /\ \A x \in orphans' : x \in orphans \/ x = <<u, "pull">>
      BY <1>0, <2>1 DEF UpdateType, Children
    <2>3. "failed" \in Ended \ {"new", "lock"} /\ update[u].at \in Began
      BY <2>1 DEF Ended, Began, Children
    <2> QED
      BY <1>0, <2>1, <2>2, <2>3, EndsWell DEF UpdateType
  <1>8. ASSUME NEW u \in Updates, Reinstall(u) PROVE UpdateInv'
    <2>0. update[u].at = "install" /\ UNCHANGED <<origin, tree, edited, orphans, destroyed>>
      BY <1>8 DEF Reinstall
    <2>1. CASE package' = tree /\ Goes(u, "report") /\ divergent' = (divergent /\ ~update[u].alone) /\ UNCHANGED repoLock
      <3>1. update[u].alone \in BOOLEAN /\ divergent' \in BOOLEAN
        BY <1>0, <2>1 DEF UpdateType, Record
      <3>2. ~divergent' => orphans = {}
        BY <1>0, <2>0, <2>1 DEF Alone, PackageKnown, Began, Children
      <3> QED
        BY <1>0, <2>0, <2>1, <3>1, <3>2, GoesWell DEF UpdateType, Began, Children
    <2>2. CASE Goes(u, "rollback") /\ UNCHANGED repoLock /\ divergent' = (divergent \/ package' # package)
      <3>1. divergent' \in BOOLEAN /\ (~divergent' => ~divergent /\ package' = package)
        BY <1>0, <2>2 DEF UpdateType
      <3> QED
        BY <1>0, <2>0, <2>2, <3>1, GoesWell DEF UpdateType, PackageKnown, EditsSeen, Began, Children
    <2>3. CASE Leave(u, "failed") /\ divergent' = TRUE
      BY <1>0, <2>0, <2>3, EndsWell DEF UpdateType, Began, Children, Ended
    <2> QED
      BY <1>8, <2>1, <2>2, <2>3 DEF Reinstall
  <1>9. ASSUME NEW u \in Updates, Rollback(u) PROVE UpdateInv'
    <2>1. /\ update[u].at = "rollback" /\ Leave(u, "rolled back") /\ tree' = update[u].previous /\ edited' = FALSE
          /\ destroyed' = IF edited /\ ~update[u].late THEN destroyed \cup {u} ELSE destroyed
          /\ divergent' = (divergent \/ update[u].previous # update[u].found)
          /\ UNCHANGED <<origin, package, orphans>>
      BY <1>9 DEF Rollback, Reset
    <2>2. edited /\ ~update[u].late => update[u].forced
      BY <1>0, <2>1 DEF EditsSeen
    <2>3. ~divergent' => package' = tree' /\ orphans' = {}
      BY <1>0, <2>1 DEF PackageKnown
    <2>4. divergent' \in BOOLEAN /\ tree' \in Nat /\ origin' \in Nat /\ orphans' \subseteq Updates \X Children
      BY <1>0, <2>1 DEF UpdateType, Record
    <2> QED
      BY <1>0, <2>1, <2>2, <2>3, <2>4, EndsWell DEF Began, Children, Ended
  <1>10. ASSUME NEW u \in Updates, RollbackFails(u) PROVE UpdateInv'
    BY <1>0, <1>10, EndsWell DEF RollbackFails, UpdateType, Began, Children, Ended
  <1>11. ASSUME NEW u \in Updates, Report(u) PROVE UpdateInv'
    BY <1>0, <1>11, EndsWell DEF Report, UpdateType, PackageKnown, Began, Children, Ended
  <1>12. ASSUME NEW u \in Updates, UpdateKilled(u) PROVE UpdateInv'
    <2>0. /\ update[u].at \in Began /\ Leave(u, "failed") /\ UNCHANGED <<origin, tree, package, edited, destroyed>>
      BY <1>12 DEF UpdateKilled
    <2>1. CASE update[u].at \in Children /\ orphans' = orphans \cup {<<u, update[u].at>>} /\ divergent' = TRUE
      <3>1. edited /\ ~update[u].late => update[u].forced
        BY <1>0, <2>1 DEF EditsSeen, Children
      <3>2. \A x \in orphans' : x \in orphans \/ x = <<u, update[u].at>>
        BY <2>1
      <3>3. orphans' \subseteq Updates \X Children
        BY <1>0, <2>1 DEF UpdateType
      <3>4. "failed" \in Ended \ {"new", "lock"}
        BY DEF Ended
      <3> QED
        BY <1>0, <2>0, <2>1, <3>1, <3>2, <3>3, <3>4, EndsWell DEF UpdateType
    <2>2. CASE update[u].at \notin Children /\ UNCHANGED <<orphans, divergent>>
      BY <1>0, <2>0, <2>2, EndsWell DEF UpdateType, LockHeld, PackageKnown, Began, Children, Ended
    <2> QED
      BY <1>12, <2>1, <2>2 DEF UpdateKilled
  <1>14. ASSUME NEW o \in orphans, OrphanEnds(o) PROVE UpdateInv'
    <2> DEFINE u == o[1]
    <2>1. /\ orphans' = orphans \ {o} /\ UNCHANGED <<origin, repoLock, update, divergent>>
          /\ u \in Updates /\ divergent
      BY <1>0, <1>14 DEF OrphanEnds, UpdateType, PackageKnown
    <2>2. \/ UNCHANGED <<tree, edited, destroyed>>
          \/ tree' \in tree..origin /\ UNCHANGED <<edited, destroyed>>
          \/ /\ o[2] = "rollback" /\ tree' = update[u].previous /\ edited' = FALSE
             /\ destroyed' = IF edited /\ ~update[u].late THEN destroyed \cup {u} ELSE destroyed
      BY <1>14 DEF OrphanEnds, Reset
    <2>a. tree \in Nat /\ origin \in Nat /\ update[u].previous \in Nat /\ edited \in BOOLEAN
      BY <1>0, <2>1 DEF UpdateType, Record
    <2>b. \A x \in tree..origin : x \in Nat
      BY <2>a
    <2>c. tree' \in Nat
      BY <2>2, <2>a, <2>b
    <2>d. edited' = edited \/ edited' = FALSE
      BY <2>2
    <2>3. tree' \in Nat /\ edited' \in BOOLEAN /\ (edited' => edited)
      <3>1. CASE edited' = edited
        BY <2>a, <2>c, <3>1
      <3>2. CASE edited' = FALSE
        BY <2>c, <3>2
      <3> QED
        BY <2>d, <3>1, <3>2
    <2>4. \A v \in destroyed' : v \in Updates /\ update[v].at \in Ended \ {"new", "lock"} /\ update[v].forced
      BY <1>0, <2>1, <2>2 DEF UpdateType, EditsSeen
    <2>5. UpdateType' /\ LockHeld' /\ Alone'
      BY <1>0, <2>1, <2>3, <2>4 DEF UpdateType, LockHeld, Alone
    <2>6. PackageKnown'
      BY <2>1 DEF PackageKnown
    <2>7. EditsSeen'
      BY <1>0, <2>1, <2>3, <2>4 DEF EditsSeen
    <2> QED
      BY <2>5, <2>6, <2>7 DEF UpdateInv
  <1>13. CASE UNCHANGED updateVars
    BY <1>0, <1>13 DEF updateVars, UpdateInv, UpdateType, LockHeld, Alone, PackageKnown, EditsSeen
  <1> QED
    BY <1>1, <1>2, <1>3, <1>4, <1>5, <1>6, <1>7, <1>8, <1>9, <1>10, <1>11, <1>12, <1>13, <1>14
    DEF UpdateNext

\* An update, however it ends, leaves a checkout that is installed unless it declares the
\* divergence, and discards no changes made before it began unless it was forced; for any
\* number of updates at once, commits, edits and faults.
THEOREM UpdatesSafeHolds == UpdateSpec => []UpdatesSafe
  <1>1. UpdateInv => UpdatesSafe
    BY DEF UpdateInv, UpdateType, PackageKnown, EditsSeen, UpdatesSafe, InStep, EditsSafe
  <1> QED
    BY <1>1, UpdateInvInit, UpdateInvStep, PTL DEF UpdateSpec

-----------------------------------------------------------------------------
(* The single instance.                                                    *)
PidFiles == {NoServer} \cup [pid : Runs \cup {NoServer}]
StartSteps == {"new", "judge", "write", "fill", "handlers", "serving", "stopping", "refused", "restoring", "ended"}

StartType == /\ pidFile \in PidFiles /\ seenPid \in [Runs -> PidFiles]
             /\ step \in [Runs -> StartSteps] /\ holds \subseteq Runs /\ met \in BOOLEAN

\* A process between two steps on the file is alone between them.
OneAmid == \A p, q \in Runs : Amid(p) /\ Amid(q) => p = q

\* What the file says of a server that has written it, and what a process knows
\* that is between two steps.
FileRight ==
    \A p \in Runs :
        /\ step[p] \in {"handlers", "serving"} => pidFile = [pid |-> p]
        /\ step[p] = "judge" => seenPid[p] = pidFile /\ pidFile # NoServer
        /\ step[p] = "fill" => p \in holds
        /\ step[p] \in {"write", "fill", "handlers", "stopping"} => \A q \in Runs : step[q] # "serving"

StartInv == StartType /\ (~met => OneAmid /\ FileRight)

LEMMA StartInvInit == StartInit => StartInv
  BY DEF StartInit, StartInv, StartType, PidFiles, StartSteps, OneAmid, FileRight, Amid

\* One turn of a run, with what it does to the file.
LEMMA TurnRight ==
  ASSUME StartInv, NEW p \in Runs, NEW to \in StartSteps, Turns(p, to),
         pidFile' \in PidFiles, seenPid' \in [Runs -> PidFiles], holds' \subseteq Runs,
         \A q \in Runs : q # p => seenPid'[q] = seenPid[q],
         ~met' => /\ pidFile' = pidFile \/ \A q \in Runs : q # p => step[q] # "serving"
                  /\ to \in {"handlers", "serving"} => pidFile' = [pid |-> p]
                  /\ to = "judge" => seenPid'[p] = pidFile' /\ pidFile' # NoServer
                  /\ to = "fill" => p \in holds'
                  /\ to \in {"write", "fill", "handlers", "serving", "stopping"} =>
                        \A q \in Runs : q # p => step[q] # "serving"
  PROVE  StartInv'
  <1>1. step' = [step EXCEPT ![p] = to] /\ met' = (met \/ \E q \in Runs \ {p} : Amid(q))
    BY DEF Turns
  <1>2. StartType'
    BY <1>1 DEF StartInv, StartType
  <1>3. ASSUME ~met' PROVE OneAmid' /\ FileRight'
    <2>1. ~met /\ \A q \in Runs : q # p => ~Amid(q)
      BY <1>1, <1>3
    <2>2. \A q \in Runs : step'[q] = IF q = p THEN to ELSE step[q]
      BY <1>1 DEF StartInv, StartType
    <2>3. OneAmid'
      BY <2>1, <2>2 DEF OneAmid, Amid
    <2>4. \A q \in Runs : q # p =>
            step[q] \notin {"judge", "write", "fill", "handlers", "stopping"}
      BY <2>1 DEF Amid
    <2>5. \A q \in Runs : q # p /\ step[q] = "serving" => pidFile = [pid |-> q]
      BY <2>1 DEF StartInv, FileRight
    <2> QED
      BY <1>3, <2>2, <2>3, <2>4, <2>5 DEF FileRight
  <1> QED
    BY <1>2, <1>3 DEF StartInv

\* Nobody serves when the file that was read names nobody alive.
LEMMA NobodyServes ==
  ASSUME StartInv, ~met, NEW p \in Runs, step[p] = "judge", ~Lives(seenPid[p].pid)
  PROVE  \A q \in Runs : step[q] # "serving"
  <1> SUFFICES ASSUME NEW q \in Runs, step[q] = "serving" PROVE FALSE
    OBVIOUS
  <1>1. pidFile = [pid |-> q] /\ seenPid[p] = pidFile
    BY DEF StartInv, FileRight
  <1>2. seenPid[p].pid = q
    BY <1>1
  <1>3. q # NoServer /\ Alive(q)
    BY NoServerIsNone DEF Alive, Runs
  <1> QED
    BY <1>2, <1>3 DEF Lives

\* What is proved of every step: who serves does so alone, and nobody restores beside a server.
ServingApart == /\ \A p, q \in Starts : IsServing(p)' /\ IsServing(q)' => p = q
                /\ \A r \in Restores : ~Restoring(r) /\ Restoring(r)' => \A p \in Starts : ~IsServing(p)

LEMMA StartStep == ASSUME StartInv, [StartNext]_startVars PROVE StartInv'
  <1>0. StartType /\ (~met => OneAmid /\ FileRight)
    BY DEF StartInv
  <1> USE DEF StartSteps
  <1>1. ASSUME NEW p \in Runs, ReadPid(p) PROVE StartInv'
    <2> DEFINE to == IF pidFile = NoServer THEN IF p \in Starts THEN "write" ELSE "restoring" ELSE "judge"
    <2>1. /\ Turns(p, to) /\ UNCHANGED <<pidFile, holds>> /\ seenPid' = [seenPid EXCEPT ![p] = pidFile]
      BY <1>1 DEF ReadPid, FileKept
    <2>2. to \in StartSteps
      OBVIOUS
    <2>3. ~met' => ~met
      BY <2>1 DEF Turns
    <2>4. ~met' /\ to = "write" => \A q \in Runs : step[q] # "serving"
      BY <1>0, <2>3, NoServerIsNone DEF FileRight, Runs
    <2>5. to \in {"write", "restoring", "judge"} /\ (to = "judge" => pidFile # NoServer)
      OBVIOUS
    <2> HIDE DEF to
    <2> QED
      BY <1>0, <2>1, <2>2, <2>4, <2>5, TurnRight DEF StartType
  <1>2. ASSUME NEW p \in Runs, Judge(p) PROVE StartInv'
    <2>1. CASE Lives(seenPid[p].pid)
      BY <1>0, <1>2, <2>1, TurnRight DEF Judge, FileKept, StartType
    <2>2. CASE ~Lives(seenPid[p].pid)
      <3> DEFINE to == IF p \in Starts THEN "write" ELSE "restoring"
      <3>1. Turns(p, to) /\ pidFile' = NoServer /\ holds' = {} /\ seenPid' = seenPid /\ step[p] = "judge"
        BY <1>2, <2>2 DEF Judge, Unlinked
      <3>2. to \in {"write", "restoring"} /\ (~met' => ~met)
        BY <3>1 DEF Turns
      <3>3. ~met' => \A q \in Runs : step[q] # "serving"
        BY <2>2, <3>1, <3>2, NobodyServes
      <3> HIDE DEF to
      <3> QED
        BY <1>0, <3>1, <3>2, <3>3, TurnRight DEF StartType, PidFiles
    <2> QED
      BY <2>1, <2>2
  <1>3. ASSUME NEW p \in Runs, Truncate(p) PROVE StartInv'
    <2>1. /\ Turns(p, "fill") /\ pidFile' = [pid |-> NoServer] /\ holds' = holds \cup {p} /\ seenPid' = seenPid
          /\ step[p] = "write"
      BY <1>3 DEF Truncate
    <2>2. ~met' => \A q \in Runs : step[q] # "serving"
      BY <1>0, <2>1 DEF Turns, FileRight
    <2> QED
      BY <1>0, <2>1, <2>2, TurnRight DEF StartType, PidFiles
  <1>4. ASSUME NEW p \in Runs, FillIn(p) PROVE StartInv'
    <2>1. /\ Turns(p, "handlers") /\ pidFile' = (IF p \in holds THEN [pid |-> p] ELSE pidFile)
          /\ holds' = holds \ {p} /\ seenPid' = seenPid /\ step[p] = "fill"
      BY <1>4 DEF FillIn
    <2>2. ~met' => p \in holds /\ \A q \in Runs : step[q] # "serving"
      BY <1>0, <2>1 DEF Turns, FileRight
    <2>3. pidFile' \in PidFiles
      BY <1>0, <2>1 DEF StartType, PidFiles
    <2> QED
      BY <1>0, <2>1, <2>2, <2>3, TurnRight DEF StartType
  <1>5. ASSUME NEW p \in Runs, Registers(p) PROVE StartInv'
    <2>1. Turns(p, "serving") /\ UNCHANGED <<pidFile, holds, seenPid>> /\ step[p] = "handlers"
      BY <1>5 DEF Registers, FileKept
    <2>2. ~met' => pidFile = [pid |-> p] /\ \A q \in Runs : step[q] # "serving"
      BY <1>0, <2>1 DEF Turns, FileRight
    <2> QED
      BY <1>0, <2>1, <2>2, TurnRight DEF StartType
  <1>6. ASSUME NEW p \in Runs, Signalled(p) PROVE StartInv'
    <2>1. Turns(p, "stopping") /\ pidFile' = NoServer /\ holds' = {} /\ seenPid' = seenPid /\ step[p] = "serving"
      BY <1>6 DEF Signalled, Unlinked
    <2>2. ~met' => \A q \in Runs : q # p => step[q] # "serving"
      <3>1. \A q \in Runs : [pid |-> p] = [pid |-> q] => p = q
        OBVIOUS
      <3> QED
        BY ZenonT(60), <1>0, <2>1, <3>1 DEF Turns, FileRight
    <2> QED
      BY <1>0, <2>1, <2>2, TurnRight DEF StartType, PidFiles
  <1>7. ASSUME NEW p \in Runs, AtExit(p) PROVE StartInv'
    <2>1. Turns(p, "ended") /\ pidFile' = NoServer /\ holds' = {} /\ seenPid' = seenPid /\ step[p] = "stopping"
      BY <1>7 DEF AtExit, Unlinked
    <2>2. ~met' => \A q \in Runs : step[q] # "serving"
      BY <1>0, <2>1 DEF Turns, FileRight
    <2> QED
      BY <1>0, <2>1, <2>2, TurnRight DEF StartType, PidFiles
  <1>8. ASSUME NEW p \in Runs, RestoreEnds(p) PROVE StartInv'
    BY <1>0, <1>8, TurnRight DEF RestoreEnds, FileKept, StartType
  <1>9. ASSUME NEW p \in Runs, Killed(p) PROVE StartInv'
    <2>1. /\ step' = [step EXCEPT ![p] = "ended"] /\ holds' = holds \ {p} /\ UNCHANGED <<pidFile, seenPid, met>>
      BY <1>9 DEF Killed
    <2>2. StartType'
      BY <1>0, <2>1 DEF StartType
    <2>3. \A q \in Runs : step'[q] = IF q = p THEN "ended" ELSE step[q]
      BY <1>0, <2>1 DEF StartType
    <2>4. ~met' => OneAmid'
      BY <1>0, <2>1, <2>3 DEF OneAmid, Amid
    <2>5. ~met' => FileRight'
      BY <1>0, <2>1, <2>3 DEF FileRight
    <2> QED
      BY <2>2, <2>4, <2>5 DEF StartInv
  <1>10. CASE UNCHANGED startVars
    BY <1>10 DEF startVars, StartInv, StartType, OneAmid, FileRight, Amid
  <1> QED
    BY <1>1, <1>2, <1>3, <1>4, <1>5, <1>6, <1>7, <1>8, <1>9, <1>10 DEF StartNext

LEMMA StartsAlone == ASSUME StartInv, StartInv', [StartNext]_startVars, ~met' PROVE ServingApart
  <1>0. Starts \subseteq Runs /\ Restores \subseteq Runs
    BY DEF Runs
  <1>1. ASSUME NEW p \in Starts, NEW q \in Starts, IsServing(p)', IsServing(q)' PROVE p = q
    <2>1. OneAmid' /\ FileRight'
      BY DEF StartInv
    <2>2. [pid |-> p] = [pid |-> q] => p = q
      OBVIOUS
    <2> QED
      BY <1>0, <1>1, <2>1, <2>2 DEF IsServing, OneAmid, FileRight, Amid
  <1>2. ASSUME NEW r \in Restores, ~Restoring(r), Restoring(r)' PROVE \A p \in Starts : ~IsServing(p)
    <2>0. r \in Runs /\ StartType
      BY <1>0 DEF StartInv
    <2>1. step'[r] = "restoring" /\ step[r] # "restoring"
      BY <1>2 DEF Restoring
    <2>2. PICK p \in Runs : \/ ReadPid(p) \/ Judge(p) \/ Truncate(p) \/ FillIn(p) \/ Registers(p)
                            \/ Signalled(p) \/ AtExit(p) \/ RestoreEnds(p) \/ Killed(p)
      BY <2>1 DEF StartNext, startVars
    <2>3. p = r /\ (ReadPid(r) \/ Judge(r))
      BY <2>0, <2>1, <2>2 DEF ReadPid, Judge, Truncate, FillIn, Registers, Signalled, AtExit, RestoreEnds, Killed,
                              Turns, StartType
    <2>4. ~met /\ \A q \in Runs : q # r => ~Amid(q)
      BY <2>3 DEF ReadPid, Judge, Turns
    <2>5. step[r] \in {"new", "judge"}
      BY <2>3 DEF ReadPid, Judge
    <2>6. \A q \in Runs : step[q] # "serving"
      <3>1. CASE ReadPid(r)
        <4>1. pidFile = NoServer
          BY <2>0, <2>1, <3>1 DEF ReadPid, Turns, StartType
        <4> QED
          BY <2>4, <4>1, NoServerIsNone DEF StartInv, FileRight, Runs
      <3>2. CASE Judge(r)
        <4>1. ~Lives(seenPid[r].pid) /\ step[r] = "judge"
          BY <2>0, <2>1, <3>2 DEF Judge, Turns, StartType
        <4> QED
          BY <2>0, <2>4, <4>1, NobodyServes
      <3> QED
        BY <2>3, <3>1, <3>2
    <2> QED
      BY <1>0, <2>4, <2>5, <2>6 DEF IsServing, Amid
  <1> QED
    BY <1>1, <1>2 DEF ServingApart

\* _acquire_mcp_lock, "Refuse to start a second MCP server process against the same DB", and
\* "--restore: The server must not be running": for any number of starts and restores, killed
\* at any step, one server serves at a time, and none when a restore begins, unless two
\* processes were between two steps on the pid file at the same time.
THEOREM ServesAloneHolds == StartSpec => ServesAlone
  <1>1. StartInv /\ [StartNext]_startVars => StartInv' /\ [~met' => ServingApart]_startVars
    BY StartStep, StartsAlone
  <1>2. StartInv /\ [StartNext]_startVars => StartInv' /\
          [~met' => /\ \A p, q \in Starts : IsServing(p)' /\ IsServing(q)' => p = q
                    /\ \A r \in Restores : ~Restoring(r) /\ Restoring(r)' => \A p \in Starts : ~IsServing(p)
          ]_startVars
    BY <1>1 DEF ServingApart
  <1> QED
    BY <1>2, StartInvInit, PTL DEF StartSpec, ServesAlone

-----------------------------------------------------------------------------
(* The end of a lifespan.                                                  *)
StopType ==
    /\ lifespan \in 0..MaxLifespans /\ toStop \in Seq(Services) /\ phase \in {"off", "serving", "stop", "join"}
    /\ current \in [Services -> 0..MaxLifespans]
    /\ threadStage \in [AllThreads -> {"none", "wait", "work", "gone"}]
    /\ opened \in [AllThreads -> Nat] /\ inHandler \subseteq HttpServers \X Nat /\ generation \in Nat

\* The service s is still to be stopped, or to be joined.
Listed(s, i) == \E k \in i..Len(toStop) : toStop[k] = s
ToGo(s) == phase = "serving" \/ (phase = "stop" /\ Listed(s, 1)) \/ (phase = "join" /\ Listed(s, 2))
ToJoin(s) == phase = "serving" \/ (phase \in {"stop", "join"} /\ Listed(s, 1))

Orderly ==
    /\ \A i, j \in 1..Len(toStop) : toStop[i] = toStop[j] => i = j
    /\ phase # "off" => lifespan > 0
    /\ phase = "join" => toStop # <<>>
    /\ \A s \in Services : ToGo(s) => current[s] = lifespan

ThreadsEnd ==
    /\ phase = "join" /\ toStop[1] \in HttpServers => threadStage[<<toStop[1], lifespan>>] = "gone"
    /\ \A t \in AllThreads : Goes_on(t) => t[2] <= lifespan /\ (t \in abandoned \/ (t[2] = lifespan /\ ToJoin(t[1])))
    /\ \A t \in AllThreads :
          t[1] \in Watchers /\ t[2] <= lifespan => t \in stopped \/ (t[2] = lifespan /\ ToGo(t[1]))
    /\ \A t \in abandoned : t[1] \notin HttpServers
    /\ \A t \in AllThreads : threadStage[t] = "work" => opened[t] = generation \/ t \in abandoned

StopInv == StopType /\ Orderly /\ ThreadsEnd /\ ClosedLast

LEMMA ThreadsAre ==
  /\ \A t \in AllThreads : t[1] \in Services /\ t[2] \in 1..MaxLifespans /\ t = <<t[1], t[2]>>
  /\ \A s \in Services, l \in 1..MaxLifespans : <<s, l>> \in AllThreads
  BY DEF AllThreads

LEMMA TailIs ==
  ASSUME NEW S, NEW q \in Seq(S), q # <<>>
  PROVE  /\ Len(q) \in Nat /\ Len(q) >= 1 /\ Head(q) = q[1] /\ q[1] \in S /\ Tail(q) \in Seq(S)
         /\ Len(Tail(q)) = Len(q) - 1 /\ \A i \in 1..Len(Tail(q)) : Tail(q)[i] = q[i + 1]
  OBVIOUS

\* The list goes on: what was to be stopped or joined but the first still is.
LEMMA ListShrinks ==
  ASSUME toStop \in Seq(Services), toStop # <<>>, toStop' = Tail(toStop)
  PROVE  /\ toStop' \in Seq(Services)
         /\ \A s : Listed(s, 1)' <=> Listed(s, 2)
         /\ \A s : Listed(s, 1) <=> s = toStop[1] \/ Listed(s, 2)
         /\ (\A i, j \in 1..Len(toStop) : toStop[i] = toStop[j] => i = j)
               => /\ \A i, j \in 1..Len(toStop') : toStop'[i] = toStop'[j] => i = j
                  /\ ~Listed(toStop[1], 2)
  <1>1. /\ Len(toStop) \in Nat /\ Len(toStop) >= 1 /\ Tail(toStop) \in Seq(Services)
        /\ Len(Tail(toStop)) = Len(toStop) - 1 /\ \A i \in 1..Len(Tail(toStop)) : Tail(toStop)[i] = toStop[i + 1]
    BY TailIs
  <1>2. ASSUME NEW s PROVE Listed(s, 1)' <=> Listed(s, 2)
    <2>1. Listed(s, 1)' => Listed(s, 2)
      <3> SUFFICES ASSUME NEW k \in 1..Len(toStop'), toStop'[k] = s PROVE Listed(s, 2)
        BY DEF Listed
      <3>1. k + 1 \in 2..Len(toStop) /\ toStop[k + 1] = s
        BY <1>1
      <3> QED
        BY <3>1 DEF Listed
    <2>2. Listed(s, 2) => Listed(s, 1)'
      <3> SUFFICES ASSUME NEW k \in 2..Len(toStop), toStop[k] = s PROVE \E i \in 1..Len(toStop') : toStop'[i] = s
        BY DEF Listed
      <3>1. k - 1 \in 1..Len(toStop') /\ (k - 1) + 1 = k
        BY <1>1
      <3>2. toStop'[k - 1] = s
        BY <1>1, <3>1
      <3> QED
        BY <3>1, <3>2
    <2> QED
      BY <2>1, <2>2
  <1>3. \A s : Listed(s, 1) <=> s = toStop[1] \/ Listed(s, 2)
    BY <1>1 DEF Listed
  <1>4. ASSUME \A i, j \in 1..Len(toStop) : toStop[i] = toStop[j] => i = j
        PROVE  /\ \A i, j \in 1..Len(toStop') : toStop'[i] = toStop'[j] => i = j
               /\ ~Listed(toStop[1], 2)
    <2>1. ASSUME NEW i \in 1..Len(toStop'), NEW j \in 1..Len(toStop'), toStop'[i] = toStop'[j] PROVE i = j
      <3>1. i + 1 \in 1..Len(toStop) /\ j + 1 \in 1..Len(toStop) /\ toStop[i + 1] = toStop[j + 1]
        BY <1>1, <2>1
      <3>2. i + 1 = j + 1
        BY <1>4, <3>1
      <3> QED
        BY <1>1, <3>2
    <2>2. ~Listed(toStop[1], 2)
      BY <1>1, <1>4 DEF Listed
    <2> QED
      BY <2>1, <2>2
  <1> QED
    BY <1>1, <1>2, <1>3, <1>4

LEMMA StopInvInit == StopInit => StopInv
  <1> SUFFICES ASSUME StopInit PROVE StopInv
    OBVIOUS
  <1>1. StopType
    BY LifespansAssumption DEF StopInit, StopType
  <1>2. Orderly
    BY DEF StopInit, Orderly, ToGo
  <1>3. \A t \in AllThreads : threadStage[t] = "none" /\ ~(t[2] <= lifespan)
    BY ThreadsAre, LifespansAssumption DEF StopInit
  <1>4. ThreadsEnd
    BY <1>3 DEF StopInit, ThreadsEnd, Goes_on
  <1>5. ClosedLast
    BY DEF StopInit, ClosedLast
  <1> QED
    BY <1>1, <1>2, <1>4, <1>5 DEF StopInv

LEMMA StopEnter == ASSUME StopInv, EnterLifespan PROVE StopInv'
  <1>0. StopType /\ Orderly /\ ThreadsEnd /\ ClosedLast
    BY DEF StopInv
  <1> DEFINE next == lifespan + 1
             began == {<<s, next>> : s \in Services}
  <1>1. /\ phase = "off" /\ lifespan' = next /\ phase' = "serving" /\ next \in 1..MaxLifespans
        /\ threadStage' = [t \in AllThreads |-> IF t \in began THEN "wait" ELSE threadStage[t]]
        /\ current' = [s \in Services |-> next]
        /\ stopped' = stopped \ {EventOf(t) : t \in began}
        /\ UNCHANGED <<toStop, opened, inHandler, generation, abandoned, misused>>
    <2>1. phase = "off" /\ lifespan < MaxLifespans /\ lifespan' = next /\ phase' = "serving"
      BY DEF EnterLifespan
    <2>2. next \in 1..MaxLifespans
      BY <1>0, <2>1, LifespansAssumption DEF StopType
    <2>3. /\ threadStage' = [t \in AllThreads |-> IF t \in began THEN "wait" ELSE threadStage[t]]
          /\ current' = [s \in Services |-> next]
          /\ stopped' = stopped \ {EventOf(t) : t \in began}
          /\ UNCHANGED <<toStop, opened, inHandler, generation, abandoned, misused>>
      BY DEF EnterLifespan
    <2> HIDE DEF next, began
    <2> QED
      BY <2>1, <2>2, <2>3
  <1>2. StopType'
    BY <1>0, <1>1, LifespansAssumption DEF StopType
  <1>3. Orderly'
    BY <1>0, <1>1, LifespansAssumption DEF Orderly
  <1>4. \A t \in AllThreads : /\ t \in began <=> t[2] = next
                              /\ t[2] <= next /\ t[2] # next => t[2] <= lifespan
    BY <1>0, ThreadsAre DEF StopType
  <1>5. \A t \in AllThreads : t[1] \in Watchers /\ t[2] # next => (t \in stopped => t \in stopped')
    <2> SUFFICES ASSUME NEW t \in AllThreads, NEW s \in Services, t[2] # next, t = EventOf(<<s, next>>) PROVE FALSE
      BY <1>1
    <2>1. t = <<s, next>> \/ t = <<s, 0>>
      BY DEF EventOf
    <2> QED
      BY <2>1, ThreadsAre
  <1> HIDE DEF began
  <1>6. ThreadsEnd'
    <2>1. \A t \in AllThreads : Goes_on(t)' => t[2] = next \/ (t \in abandoned /\ t[2] <= lifespan)
      BY <1>0, <1>1, <1>4 DEF ThreadsEnd, Goes_on, ToJoin
    <2>2. \A t \in AllThreads : t[1] \in Watchers /\ t[2] <= next => t \in stopped' \/ t[2] = next
      BY <1>0, <1>1, <1>4, <1>5 DEF ThreadsEnd, ToGo
    <2>3. \A t \in AllThreads : threadStage'[t] = "work" => opened[t] = generation \/ t \in abandoned
      BY <1>0, <1>1 DEF ThreadsEnd
    <2>4. \A t \in AllThreads : t[2] \in Nat /\ lifespan \in Nat /\ (t[2] <= lifespan => t[2] <= next)
      BY <1>0, ThreadsAre DEF StopType
    <2>5. \A t \in AllThreads : Goes_on(t)' => t[2] <= next
      BY <2>1, <2>4
    <2> QED
      BY <1>0, <1>1, <2>1, <2>2, <2>3, <2>5 DEF ThreadsEnd, ToJoin, ToGo
  <1> QED
    BY <1>0, <1>1, <1>2, <1>3, <1>6 DEF StopInv, ClosedLast

LEMMA StopLeave == ASSUME StopInv, LeaveLifespan PROVE StopInv'
  <1>0. StopType /\ Orderly /\ ThreadsEnd /\ ClosedLast
    BY DEF StopInv
  <1>1. /\ phase = "serving" /\ phase' = "stop" /\ toStop' = StopOrder
        /\ UNCHANGED <<lifespan, stopped, current, threadStage, opened, inHandler, generation, abandoned, misused>>
    BY DEF LeaveLifespan
  <1>2. \A s \in Services : Listed(s, 1)'
    BY <1>1, StopsEach DEF Listed
  <1>3. StopType'
    BY <1>0, <1>1, StopsEach DEF StopType
  <1>4. Orderly'
    BY <1>0, <1>1, StopsEach DEF Orderly, ToGo
  <1>5. ThreadsEnd'
    BY <1>0, <1>1, <1>2, ThreadsAre DEF ThreadsEnd, Goes_on, ToGo, ToJoin
  <1> QED
    BY <1>0, <1>1, <1>3, <1>4, <1>5 DEF StopInv, ClosedLast

LEMMA StopOne == ASSUME StopInv, StopService PROVE StopInv'
  <1>0. StopType /\ Orderly /\ ThreadsEnd /\ ClosedLast
    BY DEF StopInv
  <1> DEFINE s == toStop[1]
             t == <<s, lifespan>>
  <1>1. /\ phase = "stop" /\ toStop # <<>> /\ s \in Services /\ Head(toStop) = s /\ Listed(s, 1)
    <2>1. phase = "stop" /\ toStop # <<>>
      BY DEF StopService
    <2>2. Len(toStop) \in Nat /\ Len(toStop) >= 1 /\ Head(toStop) = s /\ s \in Services
      BY <1>0, <2>1, TailIs DEF StopType
    <2> QED
      BY <2>1, <2>2 DEF Listed
  <1>2. current[s] = lifespan /\ lifespan \in 1..MaxLifespans
    BY <1>0, <1>1, LifespansAssumption DEF Orderly, ToGo, StopType
  <1>3. /\ phase' = "join" /\ stopped' = stopped \cup {EventOf(t)} /\ current' = [current EXCEPT ![s] = 0]
        /\ threadStage' = IF s \in HttpServers THEN [threadStage EXCEPT ![t] = "gone"] ELSE threadStage
        /\ UNCHANGED <<lifespan, toStop, opened, inHandler, generation, abandoned, misused>>
    BY <1>1, <1>2 DEF StopService
  <1>4. t \in AllThreads
    BY <1>1, <1>2, ThreadsAre
  <1>5. StopType'
    <2> HIDE DEF s, t
    <2>1. current' \in [Services -> 0..MaxLifespans]
      <3>1. current \in [Services -> 0..MaxLifespans] /\ 0 \in 0..MaxLifespans
        BY <1>0, LifespansAssumption DEF StopType
      <3>2. current' = [current EXCEPT ![s] = 0]
        BY <1>3
      <3> QED
        BY <3>1, <3>2
    <2>2. threadStage' \in [AllThreads -> {"none", "wait", "work", "gone"}]
      BY <1>0, <1>3 DEF StopType
    <2> QED
      BY <1>0, <1>3, <2>1, <2>2 DEF StopType
  <1>6. \A x : Listed(x, 1) <=> x = s \/ Listed(x, 2)
    <2>1. Len(toStop) \in Nat /\ Len(toStop) >= 1
      BY <1>0, <1>1, TailIs DEF StopType
    <2> QED
      BY <2>1 DEF Listed
  <1>7. ~Listed(s, 2)
    <2>1. Len(toStop) \in Nat /\ Len(toStop) >= 1
      BY <1>0, <1>1, TailIs DEF StopType
    <2> QED
      BY <1>0, <2>1 DEF Listed, Orderly
  <1>8. \A x, i : Listed(x, i)' <=> Listed(x, i)
    BY <1>3 DEF Listed
  <1>9. Orderly'
    <2>1. ASSUME NEW x \in Services, ToGo(x)' PROVE current'[x] = lifespan'
      <3>1. Listed(x, 2) /\ x # s
        BY <1>3, <1>7, <1>8, <2>1 DEF ToGo
      <3>2. ToGo(x)
        BY <1>1, <1>6, <3>1 DEF ToGo
      <3> QED
        BY <1>0, <1>3, <2>1, <3>1, <3>2 DEF Orderly, StopType
    <2> QED
      BY <1>0, <1>1, <1>2, <1>3, <2>1 DEF Orderly
  <1>10. ThreadsEnd'
    <2>1. \A u \in AllThreads : threadStage'[u] = threadStage[u] \/ (u = t /\ threadStage'[u] = "gone")
      BY <1>0, <1>3 DEF StopType
    <2>2. s \in HttpServers => threadStage'[t] = "gone"
      BY <1>0, <1>3, <1>4 DEF StopType
    <2>3. \A u \in AllThreads : Goes_on(u)' => Goes_on(u)
      BY <2>1 DEF Goes_on
    <2>4. \A u \in AllThreads : u[1] = s /\ u[2] = lifespan /\ s \in Watchers => u \in stopped'
      BY <1>3, ThreadsAre DEF EventOf
    <2>5. \A x : ToJoin(x) => ToJoin(x)'
      BY <1>1, <1>3, <1>8 DEF ToJoin
    <2>6. \A x : ToGo(x) => x = s \/ ToGo(x)'
      BY <1>1, <1>3, <1>6, <1>8 DEF ToGo
    <2> HIDE DEF t
    <2>7. \A u \in AllThreads : u[1] \in Watchers /\ u[2] <= lifespan => u \in stopped' \/ (u[2] = lifespan /\ ToGo(u[1])')
      BY <1>0, <1>3, <2>4, <2>6 DEF ThreadsEnd
    <2>8. \A u \in AllThreads : threadStage'[u] = "work" => opened[u] = generation \/ u \in abandoned
      BY <1>0, <2>1 DEF ThreadsEnd
    <2>9. \A u \in AllThreads : Goes_on(u)' => u[2] <= lifespan /\ (u \in abandoned \/ (u[2] = lifespan /\ ToJoin(u[1])'))
      BY <1>0, <2>3, <2>5 DEF ThreadsEnd
    <2>10. toStop'[1] \in HttpServers => threadStage'[<<toStop'[1], lifespan'>>] = "gone"
      BY <1>3, <2>2 DEF t
    <2> QED
      BY <1>0, <1>3, <2>7, <2>8, <2>9, <2>10 DEF ThreadsEnd
  <1> QED
    BY <1>0, <1>3, <1>5, <1>9, <1>10 DEF StopInv, ClosedLast

\* The join of a service has ended, or was given up.
LEMMA StopNextOne ==
  ASSUME StopInv, phase = "join", NextService,
         UNCHANGED <<lifespan, stopped, current, threadStage, opened, inHandler, generation, misused>>,
         \/ threadStage[<<toStop[1], lifespan>>] = "gone" /\ abandoned' = abandoned
         \/ threadStage[<<toStop[1], lifespan>>] # "gone" /\ abandoned' = abandoned \cup {<<toStop[1], lifespan>>}
  PROVE  StopInv'
  <1>0. StopType /\ Orderly /\ ThreadsEnd /\ ClosedLast
    BY DEF StopInv
  <1>1. phase' = "stop" /\ toStop' = Tail(toStop) /\ toStop # <<>>
    BY <1>0 DEF NextService, Orderly
  <1>2. /\ toStop' \in Seq(Services)
        /\ \A s : Listed(s, 1)' <=> Listed(s, 2)
        /\ \A s : Listed(s, 1) <=> s = toStop[1] \/ Listed(s, 2)
        /\ \A i, j \in 1..Len(toStop') : toStop'[i] = toStop'[j] => i = j
    BY <1>0, <1>1, ListShrinks DEF StopType, Orderly
  <1>3. StopType'
    BY <1>0, <1>1, <1>2 DEF StopType
  <1>4. \A s : ToGo(s)' <=> ToGo(s)
    BY <1>1, <1>2 DEF ToGo
  <1>5. Orderly'
    BY <1>0, <1>1, <1>2, <1>4 DEF Orderly
  <1>6. \A s : ToJoin(s) => s = toStop[1] \/ ToJoin(s)'
    BY <1>1, <1>2 DEF ToJoin
  <1>7. \A u \in AllThreads : u[1] = toStop[1] /\ u[2] = lifespan => u = <<toStop[1], lifespan>>
    BY ThreadsAre
  <1>8. \A u \in AllThreads : Goes_on(u) => u[2] <= lifespan /\ (u \in abandoned' \/ (u[2] = lifespan /\ ToJoin(u[1])'))
    BY <1>0, <1>6, <1>7 DEF ThreadsEnd, Goes_on
  <1>9. \A u \in abandoned' : u[1] \notin HttpServers
    BY <1>0 DEF ThreadsEnd
  <1>10. abandoned \subseteq abandoned'
    OBVIOUS
  <1>11. ThreadsEnd'
    BY <1>0, <1>1, <1>4, <1>8, <1>9, <1>10 DEF ThreadsEnd, Goes_on
  <1> QED
    BY <1>0, <1>3, <1>5, <1>10, <1>11 DEF StopInv, ClosedLast

LEMMA StopClose == ASSUME StopInv, CloseDb PROVE StopInv'
  <1>0. StopType /\ Orderly /\ ThreadsEnd /\ ClosedLast
    BY DEF StopInv
  <1>1. /\ phase = "stop" /\ toStop = <<>> /\ phase' = "off" /\ generation' = generation + 1
        /\ UNCHANGED <<lifespan, toStop, stopped, current, threadStage, opened, inHandler, abandoned, misused>>
    BY DEF CloseDb
  <1>2. StopType'
    BY <1>0, <1>1 DEF StopType
  <1>3. Orderly'
    BY <1>0, <1>1 DEF Orderly, ToGo
  <1>4. \A s : ~ToJoin(s) /\ ~ToGo(s)
    BY <1>1 DEF ToJoin, ToGo, Listed
  <1>5. \A u \in AllThreads : threadStage[u] = "work" => u \in abandoned
    BY <1>0, <1>4 DEF ThreadsEnd, Goes_on
  <1>6. ThreadsEnd'
    BY <1>0, <1>1, <1>4, <1>5 DEF ThreadsEnd, Goes_on
  <1> QED
    BY <1>0, <1>1, <1>2, <1>3, <1>6 DEF StopInv, ClosedLast

\* What the threads do leaves the lifespan alone.
LEMMA ThreadsTurn ==
  ASSUME StopInv, UnchangedLifespan, StopType',
         \A u \in AllThreads : threadStage'[u] = threadStage[u] \/ (Goes_on(u) /\ threadStage'[u] # "none"),
         \A u \in AllThreads : threadStage'[u] = "work" => opened'[u] = generation \/ u \in abandoned,
         \A u \in misused' : u \in misused \/ u[1] \in HttpServers \/ u \in abandoned
  PROVE  StopInv'
  <1>0. StopType /\ Orderly /\ ThreadsEnd /\ ClosedLast
    BY DEF StopInv
  <1>1. UNCHANGED <<lifespan, toStop, phase, stopped, current, generation, abandoned>>
    BY DEF UnchangedLifespan
  <1>2. Orderly'
    BY <1>0, <1>1 DEF Orderly, ToGo, Listed
  <1>3. \A u \in AllThreads : Goes_on(u)' => Goes_on(u)
    BY DEF Goes_on
  <1>4. phase = "join" /\ toStop[1] \in HttpServers => threadStage'[<<toStop[1], lifespan>>] = "gone"
    <2> SUFFICES ASSUME phase = "join", toStop[1] \in HttpServers
                 PROVE  threadStage'[<<toStop[1], lifespan>>] = "gone"
      OBVIOUS
    <2>1. lifespan \in 1..MaxLifespans /\ toStop[1] \in Services
      BY <1>0, LifespansAssumption, TailIs DEF StopType, Orderly
    <2>2. <<toStop[1], lifespan>> \in AllThreads
      BY <2>1, ThreadsAre
    <2> QED
      BY <1>0, <2>2 DEF ThreadsEnd, Goes_on
  <1>5. \A s : (ToGo(s)' <=> ToGo(s)) /\ (ToJoin(s)' <=> ToJoin(s))
    BY <1>1 DEF ToGo, ToJoin, Listed
  <1>6. ThreadsEnd'
    BY <1>0, <1>1, <1>3, <1>4, <1>5 DEF ThreadsEnd
  <1> QED
    BY <1>0, <1>1, <1>2, <1>6 DEF StopInv, ClosedLast

LEMMA StopStep == StopInv /\ [StopNext]_stopVars => StopInv'
  <1> SUFFICES ASSUME StopInv, [StopNext]_stopVars PROVE StopInv'
    OBVIOUS
  <1>0. StopType /\ Orderly /\ ThreadsEnd /\ ClosedLast
    BY DEF StopInv
  <1>1. CASE EnterLifespan
    BY <1>1, StopEnter
  <1>2. CASE LeaveLifespan
    BY <1>2, StopLeave
  <1>3. CASE StopService
    BY <1>3, StopOne
  <1>4. phase = "join" => Head(toStop) = toStop[1]
    BY <1>0, TailIs DEF StopType, Orderly
  <1>5. CASE Joined
    BY <1>4, <1>5, StopNextOne DEF Joined, Exited
  <1>6. CASE JoinTimesOut
    BY <1>4, <1>6, StopNextOne DEF JoinTimesOut, Exited
  <1>7. CASE CloseDb
    BY <1>7, StopClose
  <1>8. ASSUME NEW t \in AllThreads, LoopTurns(t) PROVE StopInv'
    <2>1. /\ UnchangedLifespan /\ UNCHANGED <<inHandler, misused>> /\ threadStage[t] = "wait"
          /\ \/ threadStage' = [threadStage EXCEPT ![t] = "gone"] /\ UNCHANGED opened
             \/ threadStage' = [threadStage EXCEPT ![t] = "work"] /\ opened' = [opened EXCEPT ![t] = generation]
      BY <1>8 DEF LoopTurns
    <2>2. StopType'
      BY <1>0, <2>1 DEF StopType, UnchangedLifespan
    <2>3. \A u \in AllThreads : threadStage'[u] = "work" => opened'[u] = generation \/ u \in abandoned
      BY <1>0, <2>1 DEF StopType, ThreadsEnd
    <2>4. \A u \in AllThreads : threadStage'[u] = threadStage[u] \/ (Goes_on(u) /\ threadStage'[u] # "none")
      BY <1>0, <2>1 DEF StopType, Goes_on
    <2> QED
      BY <2>1, <2>2, <2>3, <2>4, ThreadsTurn
  <1>9. ASSUME NEW t \in AllThreads, LoopWrites(t) PROVE StopInv'
    <2>1. /\ UnchangedLifespan /\ UNCHANGED <<opened, inHandler>> /\ threadStage[t] = "work"
          /\ threadStage' = [threadStage EXCEPT ![t] = "wait"]
          /\ misused' = IF opened[t] # generation THEN misused \cup {t} ELSE misused
      BY <1>9 DEF LoopWrites
    <2>2. StopType'
      BY <1>0, <2>1 DEF StopType, UnchangedLifespan
    <2>3. \A u \in AllThreads : threadStage'[u] = "work" => opened'[u] = generation \/ u \in abandoned
      BY <1>0, <2>1 DEF StopType, ThreadsEnd
    <2>4. \A u \in AllThreads : threadStage'[u] = threadStage[u] \/ (Goes_on(u) /\ threadStage'[u] # "none")
      BY <1>0, <2>1 DEF StopType, Goes_on
    <2>5. \A u \in misused' : u \in misused \/ u \in abandoned
      BY <1>0, <2>1 DEF ThreadsEnd
    <2> QED
      BY <2>1, <2>2, <2>3, <2>4, <2>5, ThreadsTurn
  <1>10. ASSUME NEW s \in HttpServers, RequestBegins(s) PROVE StopInv'
    <2>1. /\ UnchangedLifespan /\ UNCHANGED <<threadStage, opened, misused>>
          /\ inHandler' = inHandler \cup {<<s, generation>>}
      BY <1>10 DEF RequestBegins
    <2>2. StopType'
      BY <1>0, <2>1 DEF StopType, UnchangedLifespan
    <2> QED
      BY <1>0, <2>1, <2>2, ThreadsTurn DEF ThreadsEnd
  <1>11. ASSUME NEW h \in inHandler, RequestEnds(h) PROVE StopInv'
    <2>1. /\ UnchangedLifespan /\ UNCHANGED <<threadStage, opened>> /\ inHandler' = inHandler \ {h}
          /\ misused' = IF h[2] # generation THEN misused \cup {h} ELSE misused
      BY <1>11 DEF RequestEnds
    <2>2. StopType'
      BY <1>0, <2>1 DEF StopType, UnchangedLifespan
    <2>3. h[1] \in HttpServers
      BY <1>0 DEF StopType
    <2> QED
      BY <1>0, <2>1, <2>2, <2>3, ThreadsTurn DEF ThreadsEnd
  <1>12. CASE UNCHANGED stopVars
    BY <1>0, <1>12 DEF stopVars, StopInv, StopType, Orderly, ThreadsEnd, ClosedLast, ToGo, ToJoin, Listed, Goes_on
  <1> QED
    BY <1>1, <1>2, <1>3, <1>5, <1>6, <1>7, <1>8, <1>9, <1>10, <1>11, <1>12 DEF StopNext

\* "stop the watcher, webhook, peer server, and sync threads *before* closing the database
\* connections" (server.py app_lifespan): for any services, stopped in any order, and any
\* number of lifespans of one process, a loop that was joined in time never uses a closed
\* connection, and a service has one loop that goes on, but for a loop of a module's Event
\* that a stop gave up waiting for.
THEOREM StopsCleanHolds == StopSpec => []StopsClean
  <1>1. StopInv => StopsClean
    <2> SUFFICES ASSUME StopInv, NEW t \in AllThreads, NEW u \in AllThreads,
                        t[1] = u[1], t[2] < u[2], Goes_on(t), Goes_on(u),
                        {EventOf(t), EventOf(u)} \cap stopped = {}
                 PROVE  t \in abandoned /\ t[1] \in Loops
      BY DEF StopInv, StopsClean, OneLoop
    <2>1. t[1] \in Services /\ t[2] \in Nat /\ u[2] \in Nat /\ lifespan \in Nat /\ u[2] <= lifespan
      BY ThreadsAre, LifespansAssumption DEF StopInv, StopType, ThreadsEnd
    <2>2. t[2] # lifespan /\ t[2] <= lifespan
      BY <2>1
    <2>3. t \in abandoned
      BY <2>2 DEF StopInv, ThreadsEnd
    <2>4. t[1] \notin HttpServers
      BY <2>3 DEF StopInv, ThreadsEnd
    <2>5. t[1] \in Watchers => t \in stopped /\ EventOf(t) = t
      BY <2>2 DEF StopInv, ThreadsEnd, EventOf
    <2> QED
      BY <2>1, <2>3, <2>4, <2>5 DEF Services
  <1> QED
    BY <1>1, StopInvInit, StopStep, PTL DEF StopSpec

-----------------------------------------------------------------------------
(* The credential files.                                                   *)
ItemsOf(s) == {i \in FileItems : (i.kind = "key") <=> (s = "keys")}
IsToken(i) == i.kind \in {"access_tokens", "refresh_tokens"}
\* No token pair has a number that is yet to come.
Issued(items) == \A i \in items : IsToken(i) => i.n <= pairs

IsChange(r) ==
    /\ r = [step |-> r.step, store |-> r.store, todo |-> r.todo, news |-> r.news, ends |-> r.ends,
            items |-> r.items, fd |-> r.fd]
    /\ r.step \in {"read", "open", "write", "replace"} /\ r.store \in Stores
    /\ r.news \subseteq ItemsOf(r.store) /\ r.ends \subseteq ItemsOf(r.store)
    /\ Issued(r.news) /\ Issued(r.ends)

AuthShape ==
    /\ credentials = [s \in Stores |-> credentials[s]]
    /\ temporary = [s \in Stores |-> [p \in {Pid[w] : w \in Writers} |-> temporary[s][p]]]
    /\ writing = [w \in Writers |-> writing[w]]
    /\ \A w \in Writers : writing[w] = Resting \/ IsChange(writing[w])
    /\ pairs \in 0..MaxPairs
    /\ given \subseteq FileItems /\ retired \subseteq FileItems /\ Issued(given) /\ Issued(retired)
    /\ given \cap expired = {}
    /\ \A x \in consents : x.kind = "consent"
    /\ \A x \in codes : x.kind = "code"
    /\ "oauth" \notin crossed => \A x \in expired : x.kind # "client"

\* A file that may stand: it has what is valid, nothing of what is not, and no token without
\* its client.
Fine(s, items) ==
    /\ items \subseteq ItemsOf(s) /\ given \cap ItemsOf(s) \subseteq items /\ retired \cap items = {}
    /\ s = "oauth" => \A i \in items : i.kind # "client" => Client(i.of) \in items

\* The file after the last operation of a change.
Done(s, items, r) == Fine(s, items) /\ r.news \subseteq items /\ r.ends \cap items = {}

\* Every file that a change is about to write may stand.
Plan(s, items, r) ==
    \/ \E o1 : r.todo = <<o1>> /\ Done(s, Changed(o1, items), r)
    \/ \E o1, o2 : /\ r.todo = <<o1, o2>> /\ Fine(s, Changed(o1, items))
                   /\ Done(s, Changed(o2, Changed(o1, items)), r)
    \/ \E o1, o2, o3 : /\ r.todo = <<o1, o2, o3>> /\ Fine(s, Changed(o1, items))
                       /\ Fine(s, Changed(o2, Changed(o1, items)))
                       /\ Done(s, Changed(o3, Changed(o2, Changed(o1, items))), r)

\* How far a change has come.
UnderWay(w, s) ==
    LET r == writing[w] IN
    /\ Plan(s, credentials[s], r)
    /\ r.step # "read" => r.items = Changed(Head(r.todo), credentials[s])
    /\ r.step = "write" => r.fd = "temporary" /\ temporary[s][Pid[w]] = Half
    /\ r.step = "replace" => temporary[s][Pid[w]] = r.items

StoreInv(s) ==
    /\ Fine(s, credentials[s])
    /\ \A v, w \in Writers : Busy(v, s) /\ Busy(w, s) => v = w
    /\ \A w \in Writers : Busy(w, s) => UnderWay(w, s)

AuthInv == AuthShape /\ \A s \in Stores \ crossed : StoreInv(s)

-----------------------------------------------------------------------------
(* Records of changes.                                                     *)
IsNote(r) ==
    r = [step |-> r.step, store |-> r.store, todo |-> r.todo, news |-> r.news, ends |-> r.ends,
         items |-> r.items, fd |-> r.fd]
\* q is a later record of the change r.
Continues(q, r) ==
    /\ IsNote(q) /\ q.step \in {"read", "open", "write", "replace"}
    /\ q.store = r.store /\ q.news = r.news /\ q.ends = r.ends

LEMMA SetStep ==
  ASSUME NEW r, IsNote(r), NEW x
  PROVE  [r EXCEPT !.step = x]
           = [step |-> x, store |-> r.store, todo |-> r.todo, news |-> r.news, ends |-> r.ends,
              items |-> r.items, fd |-> r.fd]
  BY DEF IsNote
LEMMA SetFd ==
  ASSUME NEW r, IsNote(r), NEW x
  PROVE  [r EXCEPT !.fd = x]
           = [step |-> r.step, store |-> r.store, todo |-> r.todo, news |-> r.news, ends |-> r.ends,
              items |-> r.items, fd |-> x]
  BY DEF IsNote
LEMMA SetStepItems ==
  ASSUME NEW r, IsNote(r), NEW x, NEW y
  PROVE  [r EXCEPT !.step = x, !.items = y]
           = [step |-> x, store |-> r.store, todo |-> r.todo, news |-> r.news, ends |-> r.ends,
              items |-> y, fd |-> r.fd]
  <1>1. PICK q : q = [r EXCEPT !.step = x]
    OBVIOUS
  <1>2. q = [step |-> x, store |-> r.store, todo |-> r.todo, news |-> r.news, ends |-> r.ends,
             items |-> r.items, fd |-> r.fd]
    BY <1>1, SetStep
  <1>3. [q EXCEPT !.items = y]
          = [step |-> x, store |-> r.store, todo |-> r.todo, news |-> r.news, ends |-> r.ends,
             items |-> y, fd |-> r.fd]
    BY <1>2
  <1> QED
    BY <1>1, <1>3
LEMMA SetStepFd ==
  ASSUME NEW r, IsNote(r), NEW x, NEW y
  PROVE  [r EXCEPT !.step = x, !.fd = y]
           = [step |-> x, store |-> r.store, todo |-> r.todo, news |-> r.news, ends |-> r.ends,
              items |-> r.items, fd |-> y]
  <1>1. PICK q : q = [r EXCEPT !.step = x]
    OBVIOUS
  <1>2. q = [step |-> x, store |-> r.store, todo |-> r.todo, news |-> r.news, ends |-> r.ends,
             items |-> r.items, fd |-> r.fd]
    BY <1>1, SetStep
  <1>3. [q EXCEPT !.fd = y]
          = [step |-> x, store |-> r.store, todo |-> r.todo, news |-> r.news, ends |-> r.ends,
             items |-> r.items, fd |-> y]
    BY <1>2
  <1> QED
    BY <1>1, <1>3
LEMMA SetTodoStep ==
  ASSUME NEW r, IsNote(r), NEW x, NEW y
  PROVE  [r EXCEPT !.todo = x, !.step = y]
           = [step |-> y, store |-> r.store, todo |-> x, news |-> r.news, ends |-> r.ends,
              items |-> r.items, fd |-> r.fd]
  <1>1. PICK q : q = [r EXCEPT !.todo = x]
    OBVIOUS
  <1>2. q = [step |-> r.step, store |-> r.store, todo |-> x, news |-> r.news, ends |-> r.ends,
             items |-> r.items, fd |-> r.fd]
    BY <1>1 DEF IsNote
  <1>3. [q EXCEPT !.step = y]
          = [step |-> y, store |-> r.store, todo |-> x, news |-> r.news, ends |-> r.ends,
             items |-> r.items, fd |-> r.fd]
    BY <1>2
  <1> QED
    BY <1>1, <1>3

-----------------------------------------------------------------------------
(* What a step leaves of a store that it is not about.                     *)
StoreKept(s) ==
    /\ credentials'[s] = credentials[s]
    /\ given' \cap ItemsOf(s) \subseteq given /\ retired' \cap ItemsOf(s) \subseteq retired
    /\ \A v \in Writers : Busy(v, s)' => /\ Busy(v, s) /\ writing'[v] = writing[v]
                                         /\ temporary'[s][Pid[v]] = temporary[s][Pid[v]]

\* What Fine and Plan say after the step.
FineNext(s, items) ==
    /\ items \subseteq ItemsOf(s) /\ given' \cap ItemsOf(s) \subseteq items /\ retired' \cap items = {}
    /\ s = "oauth" => \A i \in items : i.kind # "client" => Client(i.of) \in items
DoneNext(s, items, r) == FineNext(s, items) /\ r.news \subseteq items /\ r.ends \cap items = {}
PlanNext(s, items, r) ==
    \/ \E o1 : r.todo = <<o1>> /\ DoneNext(s, Changed(o1, items), r)
    \/ \E o1, o2 : /\ r.todo = <<o1, o2>> /\ FineNext(s, Changed(o1, items))
                   /\ DoneNext(s, Changed(o2, Changed(o1, items)), r)
    \/ \E o1, o2, o3 : /\ r.todo = <<o1, o2, o3>> /\ FineNext(s, Changed(o1, items))
                       /\ FineNext(s, Changed(o2, Changed(o1, items)))
                       /\ DoneNext(s, Changed(o3, Changed(o2, Changed(o1, items))), r)

FewerItems(s) == given' \cap ItemsOf(s) \subseteq given /\ retired' \cap ItemsOf(s) \subseteq retired
LEMMA FineStays ==
  ASSUME NEW s, FewerItems(s), NEW items, Fine(s, items)
  PROVE  FineNext(s, items)
  BY DEF FewerItems, Fine, FineNext
LEMMA DoneStays ==
  ASSUME NEW s, FewerItems(s), NEW items, NEW r, Done(s, items, r)
  PROVE  DoneNext(s, items, r)
  BY FineStays DEF Done, DoneNext
LEMMA PlanStays ==
  ASSUME NEW s, FewerItems(s), NEW items, NEW r, Plan(s, items, r)
  PROVE  PlanNext(s, items, r)
  <1>1. CASE \E o1 : r.todo = <<o1>> /\ Done(s, Changed(o1, items), r)
    BY <1>1, DoneStays DEF PlanNext
  <1>2. CASE \E o1, o2 : /\ r.todo = <<o1, o2>> /\ Fine(s, Changed(o1, items))
                         /\ Done(s, Changed(o2, Changed(o1, items)), r)
    BY <1>2, DoneStays, FineStays DEF PlanNext
  <1>3. CASE \E o1, o2, o3 : /\ r.todo = <<o1, o2, o3>> /\ Fine(s, Changed(o1, items))
                             /\ Fine(s, Changed(o2, Changed(o1, items)))
                             /\ Done(s, Changed(o3, Changed(o2, Changed(o1, items))), r)
    BY <1>3, DoneStays, FineStays DEF PlanNext
  <1> QED
    BY <1>1, <1>2, <1>3 DEF Plan

\* A store whose file is set, or stays, and that one writer at most is busy with.
LEMMA StoreNext ==
  ASSUME NEW s, FineNext(s, credentials'[s]),
         \A v, w \in Writers : Busy(v, s)' /\ Busy(w, s)' => v = w,
         \A w \in Writers : Busy(w, s)' =>
            /\ PlanNext(s, credentials'[s], writing'[w])
            /\ writing'[w].step # "read" => writing'[w].items = Changed(Head(writing'[w].todo), credentials'[s])
            /\ writing'[w].step = "write" => writing'[w].fd = "temporary" /\ temporary'[s][Pid[w]] = Half
            /\ writing'[w].step = "replace" => temporary'[s][Pid[w]] = writing'[w].items
  PROVE  StoreInv(s)'
  <1>1. Fine(s, credentials[s])'
    BY DEF Fine, FineNext, ItemsOf
  <1>2. ASSUME NEW w \in Writers, Busy(w, s)' PROVE UnderWay(w, s)'
    <2>1. Plan(s, credentials[s], writing[w])'
      <3>1. PlanNext(s, credentials'[s], writing'[w])
        BY <1>2
      <3> QED
        BY <3>1 DEF Plan, PlanNext, Done, DoneNext, Fine, FineNext, ItemsOf, Changed, TokensOf
    <2> QED
      BY <1>2, <2>1 DEF UnderWay, Changed, TokensOf
  <1> QED
    BY <1>1, <1>2 DEF StoreInv

LEMMA StoreStays ==
  ASSUME NEW s, StoreInv(s), StoreKept(s)
  PROVE  StoreInv(s)'
  <1>1. FewerItems(s)
    BY DEF StoreKept, FewerItems
  <1>2. FineNext(s, credentials'[s])
    BY <1>1, FineStays DEF StoreKept, StoreInv
  <1>3. ASSUME NEW w \in Writers, Busy(w, s)'
        PROVE  /\ PlanNext(s, credentials'[s], writing'[w])
               /\ writing'[w].step # "read" => writing'[w].items = Changed(Head(writing'[w].todo), credentials'[s])
               /\ writing'[w].step = "write" => writing'[w].fd = "temporary" /\ temporary'[s][Pid[w]] = Half
               /\ writing'[w].step = "replace" => temporary'[s][Pid[w]] = writing'[w].items
    <2>1. UnderWay(w, s) /\ writing'[w] = writing[w] /\ credentials'[s] = credentials[s]
          /\ temporary'[s][Pid[w]] = temporary[s][Pid[w]]
      BY <1>3 DEF StoreKept, StoreInv
    <2>2. PlanNext(s, credentials[s], writing[w])
      BY <1>1, <2>1, PlanStays DEF UnderWay
    <2> QED
      BY <2>1, <2>2 DEF UnderWay
  <1>4. \A v, w \in Writers : Busy(v, s)' /\ Busy(w, s)' => v = w
    BY DEF StoreKept, StoreInv
  <1> QED
    BY <1>2, <1>3, <1>4, StoreNext

-----------------------------------------------------------------------------
(* The steps of a writer.                                                  *)
Later(r, at, todo, items, fd) ==
    [step |-> at, store |-> r.store, todo |-> todo, news |-> r.news, ends |-> r.ends,
     items |-> items, fd |-> fd]
\* Only the record of w changes, to q.
Only(w, q) == writing' = [v \in Writers |-> IF v = w THEN q ELSE writing[v]]

LEMMA ChangeUnderWay ==
  ASSUME AuthShape, NEW w \in Writers, writing[w].step # "rest"
  PROVE  IsChange(writing[w]) /\ IsNote(writing[w]) /\ writing[w] # Resting
  BY DEF AuthShape, IsChange, IsNote, Resting

\* An update of two fields of the record of w.
LEMMA SetOne ==
  ASSUME AuthShape, NEW w \in Writers, NEW q, writing' = [writing EXCEPT ![w] = q]
  PROVE  Only(w, q)
  BY DEF AuthShape, Only
LEMMA SetStepItemsOf ==
  ASSUME AuthShape, NEW w \in Writers, writing[w].step # "rest", NEW x, NEW y,
         writing' = [writing EXCEPT ![w].step = x, ![w].items = y]
  PROVE  Only(w, Later(writing[w], x, writing[w].todo, y, writing[w].fd))
  <1>1. PICK q : q = [writing[w] EXCEPT !.step = x, !.items = y]
    OBVIOUS
  <1>2. writing' = [writing EXCEPT ![w] = q]
    BY <1>1 DEF AuthShape
  <1>3. q = Later(writing[w], x, writing[w].todo, y, writing[w].fd)
    BY <1>1, ChangeUnderWay, SetStepItems DEF Later
  <1> QED
    BY <1>2, <1>3, SetOne
LEMMA SetStepFdOf ==
  ASSUME AuthShape, NEW w \in Writers, writing[w].step # "rest", NEW x, NEW y,
         writing' = [writing EXCEPT ![w].step = x, ![w].fd = y]
  PROVE  Only(w, Later(writing[w], x, writing[w].todo, writing[w].items, y))
  <1>1. PICK q : q = [writing[w] EXCEPT !.step = x, !.fd = y]
    OBVIOUS
  <1>2. writing' = [writing EXCEPT ![w] = q]
    BY <1>1 DEF AuthShape
  <1>3. q = Later(writing[w], x, writing[w].todo, writing[w].items, y)
    BY <1>1, ChangeUnderWay, SetStepFd DEF Later
  <1> QED
    BY <1>2, <1>3, SetOne
LEMMA SetStepOf ==
  ASSUME AuthShape, NEW w \in Writers, writing[w].step # "rest", NEW x,
         writing' = [writing EXCEPT ![w].step = x]
  PROVE  Only(w, Later(writing[w], x, writing[w].todo, writing[w].items, writing[w].fd))
  <1>1. PICK q : q = [writing[w] EXCEPT !.step = x]
    OBVIOUS
  <1>2. writing' = [writing EXCEPT ![w] = q]
    BY <1>1 DEF AuthShape
  <1>3. q = Later(writing[w], x, writing[w].todo, writing[w].items, writing[w].fd)
    BY <1>1, ChangeUnderWay, SetStep DEF Later
  <1> QED
    BY <1>2, <1>3, SetOne
LEMMA Next1Is ==
  ASSUME AuthShape, NEW w \in Writers, writing[w].step # "rest"
  PROVE  Next1(w) = Later(writing[w], "read", Tail(writing[w].todo), writing[w].items, writing[w].fd)
  <1>1. PICK x : x = Tail(writing[w].todo)
    OBVIOUS
  <1>2. Next1(w) = [writing[w] EXCEPT !.todo = x, !.step = "read"]
    BY <1>1 DEF Next1
  <1> QED
    BY <1>1, <1>2, ChangeUnderWay, SetTodoStep DEF Later

\* What the steps of a writer may do to the shape of the state.
RecordsShaped ==
    /\ writing' = [v \in Writers |-> writing'[v]]
    /\ \A v \in Writers : \/ writing'[v] = writing[v] \/ writing'[v] = Resting
                          \/ writing[v] # Resting /\ Continues(writing'[v], writing[v])
FilesShaped ==
    /\ credentials' = [s \in Stores |-> credentials'[s]]
    /\ temporary' = [s \in Stores |-> [p \in {Pid[v] : v \in Writers} |-> temporary'[s][p]]]
Onward(w) ==
    /\ RecordsShaped /\ FilesShaped
    /\ \/ given' = given /\ retired' = retired
       \/ writing[w] # Resting /\ ToolEnded(w)
    /\ UnchangedProvider /\ crossed' = crossed

LEMMA OnwardShape ==
  ASSUME AuthShape, NEW w \in Writers, Onward(w)
  PROVE  AuthShape'
  <1>1. \A v \in Writers : (writing[v] = Resting \/ IsChange(writing[v]))'
    <2> SUFFICES ASSUME NEW v \in Writers PROVE (writing[v] = Resting \/ IsChange(writing[v]))'
      OBVIOUS
    <2>1. CASE writing[v] # Resting /\ Continues(writing'[v], writing[v])
      <3>1. IsChange(writing[v])
        BY <2>1 DEF AuthShape
      <3> QED
        BY <2>1, <3>1 DEF IsChange, Continues, IsNote, Issued, Onward, UnchangedProvider, ItemsOf, IsToken
    <2>2. CASE writing'[v] = writing[v]
      BY <2>2 DEF AuthShape, IsChange, Issued, Onward, UnchangedProvider, ItemsOf, IsToken
    <2> QED
      BY <2>1, <2>2 DEF Onward, RecordsShaped, FilesShaped
  <1>2. given' \subseteq FileItems /\ retired' \subseteq FileItems /\ Issued(given)' /\ Issued(retired)'
        /\ given' \cap expired = {}
    <2>1. CASE given' = given /\ retired' = retired
      BY <2>1 DEF Onward, RecordsShaped, FilesShaped, AuthShape, Issued, UnchangedProvider
    <2>2. CASE writing[w] # Resting /\ ToolEnded(w)
      <3>1. IsChange(writing[w])
        BY <2>2 DEF AuthShape
      <3>2. given' \subseteq given \cup (writing[w].news \ expired) /\ retired' = retired \cup writing[w].ends
        BY <2>2 DEF ToolEnded
      <3> QED
        BY <3>1, <3>2 DEF Onward, RecordsShaped, FilesShaped, AuthShape, Issued, UnchangedProvider, IsChange, ItemsOf
    <2> QED
      BY <2>1, <2>2 DEF Onward, RecordsShaped, FilesShaped
  <1>3. consents' = consents /\ codes' = codes /\ expired' = expired /\ pairs' = pairs /\ crossed' = crossed
    BY DEF Onward, RecordsShaped, FilesShaped, UnchangedProvider
  <1>4. /\ pairs \in 0..MaxPairs /\ \A x \in consents : x.kind = "consent"
        /\ \A x \in codes : x.kind = "code"
        /\ "oauth" \notin crossed => \A x \in expired : x.kind # "client"
    BY DEF AuthShape
  <1>5. /\ writing' = [v \in Writers |-> writing'[v]]
        /\ credentials' = [s \in Stores |-> credentials'[s]]
        /\ temporary' = [s \in Stores |-> [p \in {Pid[v] : v \in Writers} |-> temporary'[s][p]]]
    BY DEF Onward, RecordsShaped, FilesShaped
  <1> QED
    BY <1>1, <1>2, <1>3, <1>4, <1>5 DEF AuthShape

LEMMA CredentialsShaped ==
  ASSUME AuthShape,
         credentials' = credentials \/ \E t, c : credentials' = [credentials EXCEPT ![t] = c]
  PROVE  credentials' = [s \in Stores |-> credentials'[s]]
  BY DEF AuthShape
LEMMA TemporaryShaped ==
  ASSUME AuthShape,
         temporary' = temporary \/ \E t, p, c : temporary' = [temporary EXCEPT ![t][p] = c]
  PROVE  temporary' = [s \in Stores |-> [p \in {Pid[v] : v \in Writers} |-> temporary'[s][p]]]
  <1> DEFINE Names == {Pid[v] : v \in Writers}
  <1>1. temporary = [s \in Stores |-> [p \in Names |-> temporary[s][p]]]
    BY DEF AuthShape
  <1>2. CASE temporary' = temporary
    BY <1>1, <1>2
  <1>3. ASSUME NEW t, NEW p, NEW c, temporary' = [temporary EXCEPT ![t][p] = c]
        PROVE  temporary' = [s \in Stores |-> [q \in Names |-> temporary'[s][q]]]
    <2> HIDE DEF Names
    <2>1. PICK f : f = [temporary[t] EXCEPT ![p] = c]
      OBVIOUS
    <2>2. temporary' = [temporary EXCEPT ![t] = f]
      BY <1>3, <2>1
    <2>3. \A s \in Stores : temporary'[s] = IF s = t THEN f ELSE temporary[s]
      BY <1>1, <2>2
    <2>4. ASSUME NEW s \in Stores PROVE temporary'[s] = [q \in Names |-> temporary'[s][q]]
      <3>1. temporary[s] = [q \in Names |-> temporary[s][q]]
        BY <1>1
      <3>2. CASE s = t
        BY <2>1, <2>3, <3>1, <3>2
      <3>3. CASE s # t
        BY <2>3, <3>1, <3>3
      <3> QED
        BY <3>2, <3>3
    <2>5. temporary' = [s \in Stores |-> temporary'[s]]
      BY <1>1, <2>2
    <2> QED
      BY <2>4, <2>5
  <1> QED
    BY <1>2, <1>3

LEMMA LaterContinues ==
  ASSUME NEW r, NEW at \in {"read", "open", "write", "replace"}, NEW todo, NEW items, NEW fd
  PROVE  Continues(Later(r, at, todo, items, fd), r)
  BY DEF Continues, IsNote, Later
LEMMA OnlyOnward ==
  ASSUME AuthShape, NEW w \in Writers, NEW q, Only(w, q),
         q = Resting \/ (writing[w] # Resting /\ Continues(q, writing[w]))
  PROVE  RecordsShaped
  BY DEF AuthShape, Only, RecordsShaped

\* What ReadState(w) comes to.
LEMMA ReadStateIs ==
  ASSUME AuthShape, NEW w \in Writers, ReadState(w)
  PROVE  LET r == writing[w]
             new == Changed(Head(r.todo), Read(r.store))
         IN \/ new = Read(r.store) /\ Len(r.todo) = 1 /\ Only(w, Resting) /\ ToolEnded(w)
            \/ /\ new = Read(r.store) /\ Len(r.todo) # 1
               /\ Only(w, Later(r, "read", Tail(r.todo), r.items, r.fd)) /\ given' = given /\ retired' = retired
            \/ Only(w, Later(r, "open", r.todo, new, r.fd)) /\ given' = given /\ retired' = retired
  <1> DEFINE r == writing[w]
             new == Changed(Head(r.todo), Read(r.store))
  <1>1. r.step # "rest"
    BY DEF ReadState
  <1>2. CASE /\ new = Read(r.store) /\ Head(r.todo).do # "put" /\ Len(r.todo) = 1
             /\ writing' = [writing EXCEPT ![w] = Resting] /\ ToolEnded(w)
    BY <1>2, SetOne
  <1>3. CASE /\ new = Read(r.store) /\ Head(r.todo).do # "put" /\ Len(r.todo) # 1
             /\ writing' = [writing EXCEPT ![w] = Next1(w)] /\ given' = given /\ retired' = retired
    <2>1. Only(w, Next1(w))
      BY <1>3, SetOne
    <2> QED
      BY <1>1, <1>3, <2>1, Next1Is
  <1>4. CASE /\ writing' = [writing EXCEPT ![w].step = "open", ![w].items = new]
             /\ given' = given /\ retired' = retired
    <2> HIDE DEF new
    <2>1. Only(w, Later(r, "open", r.todo, new, r.fd))
      BY <1>1, <1>4, SetStepItemsOf
    <2> QED
      BY <1>4, <2>1 DEF new
  <1> QED
    BY <1>2, <1>3, <1>4 DEF ReadState
LEMMA ReadStateOnward ==
  ASSUME AuthShape, NEW w \in Writers, ReadState(w)
  PROVE  Onward(w)
  <1> DEFINE r == writing[w]
             new == Changed(Head(r.todo), Read(r.store))
  <1>1. r.step # "rest" /\ r # Resting
    BY DEF ReadState, Resting
  <1>2. \E q : /\ Only(w, q) /\ (q = Resting \/ Continues(q, r))
               /\ ((given' = given /\ retired' = retired) \/ ToolEnded(w))
    BY ReadStateIs, LaterContinues
  <1>3. credentials' = credentials /\ temporary' = temporary
    BY DEF ReadState
  <1>4. FilesShaped
    BY <1>3, CredentialsShaped, TemporaryShaped DEF FilesShaped
  <1>5. crossed' = crossed /\ UnchangedProvider
    BY DEF ReadState
  <1> QED
    BY <1>1, <1>2, <1>4, <1>5, OnlyOnward DEF Onward

LEMMA OpenOnward ==
  ASSUME AuthShape, NEW w \in Writers, OpenTemporary(w)
  PROVE  /\ Only(w, Later(writing[w], "write", writing[w].todo, writing[w].items, "temporary"))
         /\ Onward(w)
  <1>1. writing[w].step # "rest" /\ writing[w] # Resting
    BY DEF OpenTemporary, Resting
  <1>2. writing' = [writing EXCEPT ![w].step = "write", ![w].fd = "temporary"]
    BY DEF OpenTemporary
  <1>3. Only(w, Later(writing[w], "write", writing[w].todo, writing[w].items, "temporary"))
    BY <1>1, <1>2, SetStepFdOf
  <1>4. given' = given /\ retired' = retired /\ crossed' = crossed /\ UnchangedProvider
    BY DEF OpenTemporary
  <1>5. FilesShaped
    <2>1. credentials' = credentials /\ temporary' = [temporary EXCEPT ![writing[w].store][Pid[w]] = Half]
      BY DEF OpenTemporary
    <2> QED
      BY <2>1, CredentialsShaped, TemporaryShaped DEF FilesShaped
  <1>6. Continues(Later(writing[w], "write", writing[w].todo, writing[w].items, "temporary"), writing[w])
    BY LaterContinues
  <1> QED
    BY <1>1, <1>3, <1>4, <1>5, <1>6, OnlyOnward DEF Onward

LEMMA WriteOnward ==
  ASSUME AuthShape, NEW w \in Writers, WriteTemporary(w)
  PROVE  /\ Only(w, Later(writing[w], "replace", writing[w].todo, writing[w].items, writing[w].fd))
         /\ Onward(w)
  <1>1. writing[w].step # "rest" /\ writing[w] # Resting
    BY DEF WriteTemporary, Resting
  <1>2. writing' = [writing EXCEPT ![w].step = "replace"]
    BY DEF WriteTemporary
  <1>3. Only(w, Later(writing[w], "replace", writing[w].todo, writing[w].items, writing[w].fd))
    BY <1>1, <1>2, SetStepOf
  <1>4. /\ given' = given /\ retired' = retired /\ crossed' = crossed /\ UnchangedProvider
    BY DEF WriteTemporary
  <1>5. FilesShaped
    <2>1. \/ \E c : /\ temporary' = [temporary EXCEPT ![writing[w].store][Pid[w]] = c]
                    /\ credentials' = credentials
          \/ \E c : /\ credentials' = [credentials EXCEPT ![writing[w].store] = c] /\ temporary' = temporary
          \/ credentials' = credentials /\ temporary' = temporary
      BY DEF WriteTemporary
    <2> QED
      BY <2>1, CredentialsShaped, TemporaryShaped DEF FilesShaped
  <1>6. Continues(Later(writing[w], "replace", writing[w].todo, writing[w].items, writing[w].fd), writing[w])
    BY LaterContinues
  <1> QED
    BY <1>1, <1>3, <1>4, <1>5, <1>6, OnlyOnward DEF Onward

LEMMA FailsOnward ==
  ASSUME AuthShape, NEW w \in Writers, WriteFails(w)
  PROVE  Only(w, Resting) /\ Onward(w)
  <1>1. writing[w].step # "rest" /\ writing[w] # Resting
    BY DEF WriteFails, Resting
  <1>2. Only(w, Resting)
    BY SetOne DEF WriteFails
  <1>4. given' = given /\ retired' = retired /\ crossed' = crossed /\ UnchangedProvider
    BY DEF WriteFails
  <1>5. FilesShaped
    <2>1. credentials' = credentials /\ temporary' = [temporary EXCEPT ![writing[w].store][Pid[w]] = Missing]
      BY DEF WriteFails
    <2> QED
      BY <2>1, CredentialsShaped, TemporaryShaped DEF FilesShaped
  <1> QED
    BY <1>1, <1>2, <1>4, <1>5, OnlyOnward DEF Onward

\* What the rename leaves of the record of v.
LEMMA RenamedIs ==
  ASSUME AuthShape, NEW w \in Writers, writing[w].step # "rest", NEW v \in Writers
  PROVE  LET r == writing[w]
             q == Renamed(w)[v]
         IN /\ v = w => IF Len(r.todo) = 1 THEN q = Resting
                                           ELSE q = Later(r, "read", Tail(r.todo), r.items, r.fd)
            /\ v # w /\ ~Busy(v, r.store) => q = writing[v]
            /\ q = writing[v] \/ q = Resting \/ (writing[v] # Resting /\ Continues(q, writing[v]))
  <1> DEFINE r == writing[w]
             q == Renamed(w)[v]
  <1>1. q = IF v = w THEN IF Len(r.todo) = 1 THEN Resting ELSE Next1(w)
            ELSE IF ~Busy(v, r.store) THEN writing[v]
            ELSE IF writing[v].fd = "path" THEN [writing[v] EXCEPT !.fd = "gone"]
            ELSE IF writing[v].fd = "temporary" /\ Pid[v] = Pid[w] THEN [writing[v] EXCEPT !.fd = "path"]
            ELSE writing[v]
    BY DEF Renamed
  <1>2. Next1(w) = Later(r, "read", Tail(r.todo), r.items, r.fd) /\ r # Resting
    BY Next1Is, ChangeUnderWay
  <1>3. Continues(Later(r, "read", Tail(r.todo), r.items, r.fd), r)
    BY LaterContinues
  <1>4. ASSUME writing[v] # Resting, NEW x
        PROVE  Continues([writing[v] EXCEPT !.fd = x], writing[v])
    <2>1. IsChange(writing[v]) /\ IsNote(writing[v])
      BY <1>4 DEF AuthShape, IsChange, IsNote
    <2>2. [writing[v] EXCEPT !.fd = x] = Later(writing[v], writing[v].step, writing[v].todo, writing[v].items, x)
      BY <2>1, SetFd DEF Later
    <2> QED
      BY <2>1, <2>2, LaterContinues DEF IsChange
  <1>5. CASE v = w
    BY <1>1, <1>2, <1>3, <1>5
  <1>6. CASE v # w /\ ~Busy(v, r.store)
    BY <1>1, <1>6
  <1>7. CASE v # w /\ Busy(v, r.store)
    <2> HIDE DEF q
    <2>1. q = writing[v] \/ \E x : q = [writing[v] EXCEPT !.fd = x]
      BY <1>1, <1>7
    <2>2. writing[v] # Resting
      BY <1>7 DEF Busy
    <2>3. q = writing[v] \/ Continues(q, writing[v])
      BY <1>4, <2>1, <2>2
    <2> QED
      BY <1>7, <2>2, <2>3 DEF q
  <1> QED
    BY <1>5, <1>6, <1>7

LEMMA ReplaceOnward ==
  ASSUME AuthShape, NEW w \in Writers, ReplaceFile(w)
  PROVE  Onward(w)
  <1>1. writing[w].step # "rest" /\ writing[w] # Resting
    BY DEF ReplaceFile, Resting
  <1>2. crossed' = crossed /\ UnchangedProvider
        /\ ((given' = given /\ retired' = retired) \/ ToolEnded(w))
    BY DEF ReplaceFile
  <1>3. FilesShaped
    <2>1. \/ credentials' = credentials /\ temporary' = temporary
          \/ \E c : /\ credentials' = [credentials EXCEPT ![writing[w].store] = c]
                   /\ temporary' = [temporary EXCEPT ![writing[w].store][Pid[w]] = Missing]
      BY DEF ReplaceFile, Replaced
    <2> QED
      BY <2>1, CredentialsShaped, TemporaryShaped DEF FilesShaped
  <1>4. RecordsShaped
    <2>1. CASE writing' = [writing EXCEPT ![w] = Resting]
      BY <2>1, SetOne, OnlyOnward
    <2>2. CASE writing' = Renamed(w)
      <3>1. \A v \in Writers : \/ writing'[v] = writing[v] \/ writing'[v] = Resting
                               \/ writing[v] # Resting /\ Continues(writing'[v], writing[v])
        BY <1>1, <2>2, RenamedIs
      <3>2. writing' = [v \in Writers |-> writing'[v]]
        BY <2>2 DEF Renamed
      <3> QED
        BY <3>1, <3>2 DEF RecordsShaped
    <2> QED
      BY <2>1, <2>2 DEF ReplaceFile, Replaced
  <1> QED
    BY <1>1, <1>2, <1>3, <1>4 DEF Onward

LEMMA DiesShape ==
  ASSUME AuthShape, NEW p, ProcessDies(p)
  PROVE  AuthShape'
  <1>1. /\ writing' = [w \in Writers |-> IF Pid[w] = p THEN Resting ELSE writing[w]]
        /\ consents' \subseteq consents /\ codes' \subseteq codes
        /\ UNCHANGED <<credentials, temporary, expired, pairs, given, retired, crossed>>
    BY DEF ProcessDies
  <1>2. \A v \in Writers : (writing[v] = Resting \/ IsChange(writing[v]))'
    BY <1>1 DEF AuthShape, IsChange, Issued, ItemsOf, IsToken
  <1>3. writing' = [w \in Writers |-> writing'[w]]
    BY <1>1
  <1>4. Issued(given)' /\ Issued(retired)'
    BY <1>1 DEF AuthShape, Issued
  <1> QED
    BY <1>1, <1>2, <1>3, <1>4 DEF AuthShape

IssuedNext(items) == \A i \in items : IsToken(i) => i.n <= pairs'

\* A change that starts.
Begun(s, ops, news, ends) ==
    [step |-> "read", store |-> s, todo |-> ops, news |-> news, ends |-> ends, items |-> {}, fd |-> "none"]
LEMMA StartShape ==
  ASSUME AuthShape, NEW w \in Writers, NEW s \in Stores, NEW ops, NEW news, NEW ends,
         Start(w, s, ops, news, ends),
         news \subseteq ItemsOf(s), ends \subseteq ItemsOf(s), IssuedNext(news), IssuedNext(ends),
         credentials' = credentials, temporary' = temporary, retired' = retired,
         given' \subseteq given, expired' = expired, consents' = consents, codes' \subseteq codes,
         pairs' \in 0..MaxPairs, pairs <= pairs'
  PROVE  AuthShape'
  <1>1. writing' = [v \in Writers |-> IF v = w THEN Begun(s, ops, news, ends) ELSE writing[v]]
    BY DEF Start, AuthShape, Begun
  <1>2. \A i \in FileItems : IsToken(i) => i.n \in Nat
    BY DEF FileItems, IsToken, Client, Key, Access, Refresh
  <1>3. pairs \in Nat /\ pairs' \in Nat
    BY HalfIsNoFile DEF AuthShape
  <1>4. ASSUME NEW items, items \subseteq FileItems, Issued(items) PROVE IssuedNext(items)
    BY <1>2, <1>3, <1>4 DEF Issued, IssuedNext
  <1>5. IsChange(Begun(s, ops, news, ends))'
    BY DEF IsChange, Begun, Issued, IssuedNext, ItemsOf, IsToken
  <1>6. \A v \in Writers : (writing[v] = Resting \/ IsChange(writing[v]))'
    <2> SUFFICES ASSUME NEW v \in Writers PROVE (writing[v] = Resting \/ IsChange(writing[v]))'
      OBVIOUS
    <2>1. CASE v = w
      <3>1. writing'[v] = Begun(s, ops, news, ends)
        BY <1>1, <2>1
      <3> QED
        BY <1>5, <3>1 DEF IsChange, Issued, ItemsOf, IsToken
    <2>2. CASE v # w /\ IsChange(writing[v])
      <3>1. writing'[v] = writing[v]
        BY <1>1, <2>2
      <3>2. writing[v].news \subseteq FileItems /\ writing[v].ends \subseteq FileItems
        BY <2>2 DEF IsChange, ItemsOf
      <3>3. IssuedNext(writing[v].news) /\ IssuedNext(writing[v].ends)
        BY <1>4, <2>2, <3>2 DEF IsChange
      <3> QED
        BY <2>2, <3>1, <3>3 DEF IsChange, Issued, IssuedNext, ItemsOf, IsToken
    <2>3. CASE v # w /\ writing[v] = Resting
      BY <1>1, <2>3
    <2> QED
      BY <2>1, <2>2, <2>3 DEF AuthShape
  <1>7. crossed \subseteq crossed'
    BY DEF Start
  <1>8. Issued(given)' /\ Issued(retired)' /\ given' \subseteq FileItems
    <2>1. IssuedNext(given) /\ IssuedNext(retired)
      BY <1>4 DEF AuthShape
    <2> QED
      BY <2>1 DEF AuthShape, Issued, IssuedNext
  <1> QED
    BY <1>1, <1>6, <1>7, <1>8 DEF AuthShape

LEMMA ItemKinds ==
  /\ \A c \in Apps : Client(c) \in ItemsOf("oauth") /\ ~IsToken(Client(c))
  /\ \A k \in KeyNames : Key(k) \in ItemsOf("keys") /\ ~IsToken(Key(k))
  /\ \A c \in Apps, n \in 1..MaxPairs : /\ Access(c, n) \in ItemsOf("oauth") /\ Access(c, n).n = n
                                       /\ Refresh(c, n) \in ItemsOf("oauth") /\ Refresh(c, n).n = n
  /\ \A i \in FileItems : IsToken(i) => i \in ItemsOf("oauth") /\ i.n \in Nat
  <1>1. \A c \in Apps : Client(c) \in ItemsOf("oauth") /\ ~IsToken(Client(c))
    BY DEF ItemsOf, FileItems, IsToken, Client
  <1>2. \A k \in KeyNames : Key(k) \in ItemsOf("keys") /\ ~IsToken(Key(k))
    BY DEF ItemsOf, FileItems, IsToken, Key
  <1>3. \A c \in Apps, n \in 1..MaxPairs : Access(c, n) \in ItemsOf("oauth") /\ Access(c, n).n = n
    BY DEF ItemsOf, FileItems, Access
  <1>4. \A c \in Apps, n \in 1..MaxPairs : Refresh(c, n) \in ItemsOf("oauth") /\ Refresh(c, n).n = n
    BY DEF ItemsOf, FileItems, Refresh
  <1>5. \A i \in FileItems : IsToken(i) => i.kind # "key" /\ i.n \in Nat
    BY DEF FileItems, IsToken, Client, Key, Access, Refresh
  <1>6. \A i \in FileItems : IsToken(i) => i \in ItemsOf("oauth") /\ i.n \in Nat
    BY <1>5 DEF ItemsOf
  <1> QED
    BY <1>1, <1>2, <1>3, <1>4, <1>6
LEMMA IssuedStays ==
  ASSUME AuthShape, NEW items, items \subseteq FileItems, Issued(items), pairs' \in Nat, pairs <= pairs'
  PROVE  IssuedNext(items)
  <1>1. pairs \in Nat
    BY HalfIsNoFile DEF AuthShape
  <1> QED
    BY <1>1, ItemKinds DEF Issued, IssuedNext
LEMMA TokensHad ==
  ASSUME AuthShape, NEW c
  PROVE  TokensOf(c, given) \subseteq ItemsOf("oauth") /\ Issued(TokensOf(c, given))
  BY ItemKinds DEF AuthShape, TokensOf, IsToken, Issued

LEMMA OneBefore ==
  ASSUME NEW x, NEW y, NEW z
  PROVE  <<x>> \o <<y, z>> = <<x, y, z>>
  <1> DEFINE S == {x, y, z}
             s == <<x>> \o <<y, z>>
             t == <<x, y, z>>
  <1>1. <<x>> \in Seq(S) /\ <<y, z>> \in Seq(S) /\ t \in Seq(S) /\ s \in Seq(S)
    OBVIOUS
  <1>2. Len(s) = 3 /\ s[1] = x /\ s[2] = y /\ s[3] = z
    BY <1>1
  <1>3. Len(t) = 3 /\ t[1] = x /\ t[2] = y /\ t[3] = z
    OBVIOUS
  <1>4. \A i \in 1..Len(s) : s[i] = t[i]
    BY <1>2, <1>3
  <1> HIDE DEF s, t, S
  <1>5. Len(s) = Len(t)
    BY <1>2, <1>3
  <1>6. s = t
    BY <1>1, <1>4, <1>5, SeqEqual
  <1> QED
    BY <1>6 DEF s, t

\* The changes that start, with what their callers are told at once.
Opens(w, s, ops, news, ends) ==
    /\ writing[w] = Resting /\ Start(w, s, ops, news, ends)
    /\ news \subseteq ItemsOf(s) /\ ends \subseteq ItemsOf(s) /\ IssuedNext(news) /\ IssuedNext(ends)
    /\ credentials' = credentials /\ temporary' = temporary /\ retired' = retired
    /\ given' = given \ ends /\ expired' = expired /\ consents' = consents /\ codes' \subseteq codes
    /\ pairs' \in 0..MaxPairs /\ pairs <= pairs'

LEMMA StartsShape ==
  ASSUME AuthShape, NEW w \in Writers, NEW s \in Stores, NEW ops, NEW news, NEW ends,
         Opens(w, s, ops, news, ends)
  PROVE  AuthShape'
  BY StartShape DEF Opens

LEMMA RegisterStarts ==
  ASSUME AuthShape, NEW c \in Apps, register_client(c)
  PROVE  Opens("server", "oauth", <<[do |-> "put", item |-> Client(c)]>>, {Client(c)}, {})
  <1>1. pairs' = pairs /\ pairs \in 0..MaxPairs /\ pairs <= pairs'
    BY HalfIsNoFile DEF register_client, AuthShape
  <1> QED
    BY <1>1, ItemKinds DEF Opens, register_client, Serving, UnchangedFiles, IssuedNext
LEMMA ExchangeCodeStarts ==
  ASSUME AuthShape, NEW c \in Apps, NEW code, exchange_authorization_code(c, code)
  PROVE  /\ pairs' = pairs + 1 /\ pairs' \in 1..MaxPairs
         /\ Opens("server", "oauth", <<[do |-> "put", item |-> Access(c, pairs')],
                                        [do |-> "put", item |-> Refresh(c, pairs')]>>,
                   {Access(c, pairs'), Refresh(c, pairs')}, {})
  <1>1. pairs' = pairs + 1 /\ pairs' \in 1..MaxPairs /\ pairs <= pairs' /\ pairs' \in 0..MaxPairs
    BY HalfIsNoFile DEF exchange_authorization_code, AuthShape, Issue
  <1>2. PICK n \in 1..MaxPairs : n = pairs'
    BY <1>1
  <1>3. /\ {Access(c, n), Refresh(c, n)} \subseteq ItemsOf("oauth")
        /\ IssuedNext({Access(c, n), Refresh(c, n)}) /\ IssuedNext({})
    BY <1>2, ItemKinds DEF IssuedNext
  <1>4. PICK o1, o2 : o1 = [do |-> "put", item |-> Access(c, n)] /\ o2 = [do |-> "put", item |-> Refresh(c, n)]
    OBVIOUS
  <1>5. Start("server", "oauth", <<>> \o <<o1, o2>>, {Access(c, n), Refresh(c, n)}, {})
    BY <1>2, <1>4 DEF exchange_authorization_code, Issue
  <1>6. <<>> \o <<o1, o2>> = <<o1, o2>>
    OBVIOUS
  <1>7. Start("server", "oauth", <<o1, o2>>, {Access(c, n), Refresh(c, n)}, {})
    BY <1>5, <1>6
  <1>8. Opens("server", "oauth", <<o1, o2>>, {Access(c, n), Refresh(c, n)}, {})
    BY <1>1, <1>3, <1>7 DEF Opens, exchange_authorization_code, Serving, UnchangedFiles
  <1> QED
    BY <1>1, <1>2, <1>4, <1>8
LEMMA ExchangeRefreshStarts ==
  ASSUME AuthShape, NEW c \in Apps, NEW token, exchange_refresh_token(c, token)
  PROVE  /\ pairs' = pairs + 1 /\ pairs' \in 1..MaxPairs
         /\ Opens("server", "oauth", <<[do |-> "drop", of |-> c], [do |-> "put", item |-> Access(c, pairs')],
                                        [do |-> "put", item |-> Refresh(c, pairs')]>>,
                   {Access(c, pairs'), Refresh(c, pairs')}, TokensOf(c, given))
  <1>1. pairs' = pairs + 1 /\ pairs' \in 1..MaxPairs /\ pairs <= pairs' /\ pairs' \in 0..MaxPairs
    BY HalfIsNoFile DEF exchange_refresh_token, AuthShape, Issue
  <1>2. PICK n \in 1..MaxPairs : n = pairs'
    BY <1>1
  <1>3. /\ {Access(c, n), Refresh(c, n)} \subseteq ItemsOf("oauth")
        /\ IssuedNext({Access(c, n), Refresh(c, n)})
    BY <1>2, ItemKinds DEF IssuedNext
  <1>4. PICK o0, o1, o2 : /\ o0 = [do |-> "drop", of |-> c] /\ o1 = [do |-> "put", item |-> Access(c, n)]
                          /\ o2 = [do |-> "put", item |-> Refresh(c, n)]
    OBVIOUS
  <1>5. Start("server", "oauth", <<o0>> \o <<o1, o2>>, {Access(c, n), Refresh(c, n)}, TokensOf(c, given))
    BY <1>2, <1>4 DEF exchange_refresh_token, Issue
  <1>6. <<o0>> \o <<o1, o2>> = <<o0, o1, o2>>
    BY OneBefore
  <1>7. Start("server", "oauth", <<o0, o1, o2>>, {Access(c, n), Refresh(c, n)}, TokensOf(c, given))
    BY <1>5, <1>6
  <1>8. TokensOf(c, given) \subseteq ItemsOf("oauth") /\ IssuedNext(TokensOf(c, given))
    <2>1. TokensOf(c, given) \subseteq FileItems
      BY TokensHad DEF ItemsOf
    <2> QED
      BY <1>1, <2>1, TokensHad, IssuedStays
  <1>9. Opens("server", "oauth", <<o0, o1, o2>>, {Access(c, n), Refresh(c, n)}, TokensOf(c, given))
    BY <1>1, <1>3, <1>7, <1>8 DEF Opens, exchange_refresh_token, Serving, UnchangedFiles
  <1> QED
    BY <1>1, <1>2, <1>4, <1>9
LEMMA RevokeTokenStarts ==
  ASSUME AuthShape, NEW c \in Apps, NEW token, revoke_token(c, token)
  PROVE  Opens("server", "oauth", <<[do |-> "drop", of |-> c]>>, {}, TokensOf(c, given))
  <1>1. pairs' = pairs /\ pairs \in 0..MaxPairs /\ pairs <= pairs' /\ pairs' \in Nat
    BY HalfIsNoFile DEF revoke_token, AuthShape
  <1>2. TokensOf(c, given) \subseteq ItemsOf("oauth") /\ IssuedNext(TokensOf(c, given))
    <2>1. TokensOf(c, given) \subseteq FileItems
      BY TokensHad DEF ItemsOf
    <2> QED
      BY <1>1, <2>1, TokensHad, IssuedStays
  <1> QED
    BY <1>1, <1>2 DEF Opens, revoke_token, Serving, UnchangedFiles, IssuedNext
LEMMA LoadExpiredStarts ==
  ASSUME AuthShape, NEW token, LoadExpired(token)
  PROVE  Opens("server", "oauth", <<[do |-> "delete", item |-> token]>>, {}, {})
  <1>1. pairs' = pairs /\ pairs \in 0..MaxPairs /\ pairs <= pairs'
    BY HalfIsNoFile DEF LoadExpired, AuthShape
  <1> QED
    BY <1>1 DEF Opens, LoadExpired, Serving, UnchangedFiles, IssuedNext
LEMMA RevokeClientStarts ==
  ASSUME AuthShape, NEW w \in Tools, NEW c \in Apps, revoke_client(w, c)
  PROVE  Opens(w, "oauth", <<[do |-> "revoke", of |-> c]>>, {}, HadBy(c))
  <1>1. pairs' = pairs /\ pairs \in 0..MaxPairs /\ pairs <= pairs' /\ pairs' \in Nat
    BY HalfIsNoFile DEF revoke_client, AuthShape
  <1>2. HadBy(c) \subseteq ItemsOf("oauth") /\ IssuedNext(HadBy(c))
    <2>1. TokensOf(c, given) \subseteq FileItems
      BY TokensHad DEF ItemsOf
    <2>2. IssuedNext(TokensOf(c, given))
      BY <1>1, <2>1, TokensHad, IssuedStays
    <2> QED
      BY <2>2, TokensHad, ItemKinds DEF HadBy, IssuedNext
  <1> QED
    BY <1>1, <1>2 DEF Opens, revoke_client, UnchangedFiles, IssuedNext
LEMMA CreateKeyStarts ==
  ASSUME AuthShape, NEW w \in Tools, NEW k \in KeyNames, create_key(w, k)
  PROVE  Opens(w, "keys", <<[do |-> "put", item |-> Key(k)]>>, {Key(k)}, {})
  <1>1. pairs' = pairs /\ pairs \in 0..MaxPairs /\ pairs <= pairs'
    BY HalfIsNoFile DEF create_key, AuthShape
  <1> QED
    BY <1>1, ItemKinds DEF Opens, create_key, UnchangedFiles, IssuedNext
LEMMA RevokeKeyStarts ==
  ASSUME AuthShape, NEW w \in Tools, NEW k \in KeyNames, revoke_key(w, k)
  PROVE  Opens(w, "keys", <<[do |-> "delete", item |-> Key(k)]>>, {}, {Key(k)})
  <1>1. pairs' = pairs /\ pairs \in 0..MaxPairs /\ pairs <= pairs'
    BY HalfIsNoFile DEF revoke_key, AuthShape
  <1> QED
    BY <1>1, ItemKinds DEF Opens, revoke_key, UnchangedFiles, IssuedNext

-----------------------------------------------------------------------------
(* The other actions.                                                      *)
LEMMA ReadIs ==
  ASSUME NEW s, Fine(s, credentials[s])
  PROVE  Read(s) = credentials[s]
  <1>1. credentials[s] \in SUBSET FileItems
    BY DEF Fine, ItemsOf
  <1> QED
    BY <1>1, HalfIsNoFile DEF Read

\* Nothing of the files, the changes under way or the histories, but what has expired.
Aside ==
    /\ writing' = writing /\ credentials' = credentials /\ temporary' = temporary /\ crossed' = crossed
    /\ retired' = retired /\ given' \subseteq given /\ pairs' = pairs
LEMMA AsideShape ==
  ASSUME AuthShape, Aside, given' \cap expired' = {},
         \A x \in consents' : x.kind = "consent", \A x \in codes' : x.kind = "code",
         "oauth" \notin crossed => \A x \in expired' : x.kind # "client"
  PROVE  AuthShape'
  <1>1. \A v \in Writers : (writing[v] = Resting \/ IsChange(writing[v]))'
    BY DEF AuthShape, Aside, IsChange, Issued, ItemsOf, IsToken
  <1>2. Issued(given)' /\ Issued(retired)' /\ given' \subseteq FileItems /\ retired' \subseteq FileItems
    BY DEF AuthShape, Issued, Aside
  <1> QED
    BY <1>1, <1>2 DEF AuthShape, Aside
LEMMA AsideStore ==
  ASSUME Aside, NEW s, StoreInv(s)
  PROVE  StoreInv(s)'
  BY StoreStays DEF Aside, StoreKept, Busy

LEMMA AuthorizeAside ==
  ASSUME AuthShape, NEW c, authorize(c)
  PROVE  Aside /\ AuthShape'
  <1>1. Aside
    BY DEF authorize, UnchangedFiles, Aside
  <1>2. /\ given' = given /\ codes' = codes /\ expired' \subseteq expired
        /\ \A x \in consents' : x \in consents \/ x = [kind |-> "consent", of |-> c]
    BY DEF authorize, Fresh
  <1>3. \A x \in consents' : x.kind = "consent"
    BY <1>2 DEF AuthShape
  <1> QED
    BY <1>1, <1>2, <1>3, AsideShape DEF AuthShape
LEMMA ConsentAside ==
  ASSUME AuthShape, NEW txn, NEW ok, handle_consent_submit(txn, ok)
  PROVE  Aside /\ AuthShape'
  <1>1. Aside
    BY DEF handle_consent_submit, UnchangedFiles, Aside
  <1>2. /\ given' = given /\ consents' \subseteq consents /\ expired' \subseteq expired
        /\ \A x \in codes' : x \in codes \/ x = [kind |-> "code", of |-> txn.of]
    BY DEF handle_consent_submit, Fresh
  <1>3. \A x \in codes' : x.kind = "code"
    BY <1>2 DEF AuthShape
  <1> QED
    BY <1>1, <1>2, <1>3, AsideShape DEF AuthShape
LEMMA ExpireAside ==
  ASSUME AuthInv, NEW x \in consents \cup codes \cup (Read("oauth") \ {Client(c) : c \in Apps}), Expire(x)
  PROVE  Aside /\ AuthShape'
  <1>1. Aside
    BY DEF Expire, UnchangedFiles, Aside
  <1>2. /\ given' = given \ {x} /\ consents' = consents /\ codes' = codes /\ expired' = expired \cup {x}
    BY DEF Expire
  <1>3. "oauth" \notin crossed => x.kind # "client"
    <2>1. CASE x \in consents \cup codes
      BY <2>1 DEF AuthInv, AuthShape
    <2>2. CASE x \in Read("oauth") \ {Client(c) : c \in Apps} /\ "oauth" \notin crossed
      <3>1. Fine("oauth", credentials["oauth"])
        BY <2>2 DEF AuthInv, StoreInv, Stores
      <3>2. x \in FileItems
        BY <2>2, <3>1, ReadIs DEF Fine, ItemsOf
      <3> QED
        BY <2>2, <3>2 DEF FileItems, Client, Key, Access, Refresh
    <2> QED
      BY <2>1, <2>2
  <1>4. AuthShape
    BY DEF AuthInv
  <1> QED
    BY <1>1, <1>2, <1>3, <1>4, AsideShape DEF AuthShape

\* A change that starts on a file: on s by w, what it plans is said by PlanNext.
LEMMA StartsStore ==
  ASSUME AuthShape, NEW w \in Writers, NEW s \in Stores, NEW ops, NEW news, NEW ends,
         Opens(w, s, ops, news, ends), NEW t \in Stores, t \notin crossed', StoreInv(t),
         t = s => PlanNext(s, credentials[s], Begun(s, ops, news, ends))
  PROVE  StoreInv(t)'
  <1>1. /\ writing[w] = Resting
        /\ writing' = [v \in Writers |-> IF v = w THEN Begun(s, ops, news, ends) ELSE writing[v]]
    BY DEF Opens, Start, AuthShape, Begun
  <1>2. /\ credentials' = credentials /\ temporary' = temporary /\ retired' = retired /\ given' \subseteq given
    BY DEF Opens
  <1>3. CASE t # s
    <2>1. \A v \in Writers : Busy(v, t)' => Busy(v, t) /\ writing'[v] = writing[v]
      BY <1>1, <1>3 DEF Busy, Begun
    <2> QED
      BY <1>2, <2>1, StoreStays DEF StoreKept
  <1>4. CASE t = s
    <2>1. \A v \in Writers \ {w} : ~Busy(v, s)
      BY <1>4 DEF Opens, Start
    <2>2. \A v \in Writers : Busy(v, s)' => v = w
      BY <1>1, <2>1 DEF Busy
    <2>3. FewerItems(s)
      BY <1>2 DEF FewerItems
    <2>4. FineNext(s, credentials'[s])
      BY <1>2, <1>4, <2>3, FineStays DEF StoreInv
    <2>5. writing'[w] = Begun(s, ops, news, ends) /\ writing'[w].step = "read"
      BY <1>1 DEF Begun
    <2>6. PlanNext(s, credentials'[s], writing'[w])
      BY <1>2, <1>4, <2>5
    <2> QED
      BY <1>4, <2>2, <2>4, <2>5, <2>6, StoreNext
  <1> QED
    BY <1>3, <1>4

\* What the operations leave of a file's items.
LEMMA ChangedIs ==
  ASSUME NEW x, NEW items
  PROVE  /\ Changed([do |-> "put", item |-> x], items) = items \cup {x}
         /\ Changed([do |-> "delete", item |-> x], items) = items \ {x}
         /\ Changed([do |-> "drop", of |-> x], items) = items \ TokensOf(x, items)
         /\ Changed([do |-> "revoke", of |-> x], items)
              = IF Client(x) \in items THEN items \ ({Client(x)} \cup TokensOf(x, items)) ELSE items
  BY DEF Changed

LEMMA PlanOne ==
  ASSUME NEW s, NEW items, NEW o1, NEW news, NEW ends,
         FineNext(s, Changed(o1, items)), news \subseteq Changed(o1, items), ends \cap Changed(o1, items) = {}
  PROVE  PlanNext(s, items, Begun(s, <<o1>>, news, ends))
  <1> DEFINE r == Begun(s, <<o1>>, news, ends)
  <1>1. r.todo = <<o1>> /\ r.news = news /\ r.ends = ends
    BY DEF Begun
  <1> HIDE DEF r
  <1>2. DoneNext(s, Changed(o1, items), r)
    BY <1>1 DEF DoneNext
  <1> QED
    BY <1>1, <1>2 DEF PlanNext, r

LEMMA RegisterPlan ==
  ASSUME AuthInv, NEW c \in Apps, register_client(c), "oauth" \notin crossed
  PROVE  PlanNext("oauth", credentials["oauth"],
                  Begun("oauth", <<[do |-> "put", item |-> Client(c)]>>, {Client(c)}, {}))
  <1> DEFINE items == credentials["oauth"]
  <1>1. PICK o : o = [do |-> "put", item |-> Client(c)]
    OBVIOUS
  <1>2. Changed(o, items) = items \cup {Client(c)}
    BY <1>1, ChangedIs
  <1>3. Fine("oauth", items)
    BY DEF AuthInv, StoreInv, Stores
  <1>4. given' = given /\ retired' = retired /\ Client(c) \notin retired
    BY DEF register_client
  <1>5. FineNext("oauth", Changed(o, items))
    BY <1>2, <1>3, <1>4, ItemKinds DEF Fine, FineNext, Client
  <1> QED
    BY <1>1, <1>2, <1>5, PlanOne
LEMMA CreateKeyPlan ==
  ASSUME AuthInv, NEW w, NEW k \in KeyNames, create_key(w, k), "keys" \notin crossed
  PROVE  PlanNext("keys", credentials["keys"],
                  Begun("keys", <<[do |-> "put", item |-> Key(k)]>>, {Key(k)}, {}))
  <1> DEFINE items == credentials["keys"]
  <1>1. PICK o : o = [do |-> "put", item |-> Key(k)]
    OBVIOUS
  <1>2. Changed(o, items) = items \cup {Key(k)}
    BY <1>1, ChangedIs
  <1>3. Fine("keys", items)
    BY DEF AuthInv, StoreInv, Stores
  <1>4. given' = given /\ retired' = retired /\ Key(k) \notin retired
    BY DEF create_key
  <1>5. FineNext("keys", Changed(o, items))
    BY <1>2, <1>3, <1>4, ItemKinds DEF Fine, FineNext
  <1> QED
    BY <1>1, <1>2, <1>5, PlanOne
LEMMA RevokeKeyPlan ==
  ASSUME AuthInv, NEW w, NEW k \in KeyNames, revoke_key(w, k), "keys" \notin crossed
  PROVE  PlanNext("keys", credentials["keys"],
                  Begun("keys", <<[do |-> "delete", item |-> Key(k)]>>, {}, {Key(k)}))
  <1> DEFINE items == credentials["keys"]
  <1>1. PICK o : o = [do |-> "delete", item |-> Key(k)]
    OBVIOUS
  <1>2. Changed(o, items) = items \ {Key(k)}
    BY <1>1, ChangedIs
  <1>3. Fine("keys", items)
    BY DEF AuthInv, StoreInv, Stores
  <1>4. given' = given \ {Key(k)} /\ retired' = retired
    BY DEF revoke_key
  <1>5. FineNext("keys", Changed(o, items))
    BY <1>2, <1>3, <1>4 DEF Fine, FineNext
  <1> QED
    BY <1>1, <1>2, <1>5, PlanOne
LEMMA LoadExpiredPlan ==
  ASSUME AuthInv, NEW token, LoadExpired(token), "oauth" \notin crossed
  PROVE  PlanNext("oauth", credentials["oauth"],
                  Begun("oauth", <<[do |-> "delete", item |-> token]>>, {}, {}))
  <1> DEFINE items == credentials["oauth"]
  <1>1. PICK o : o = [do |-> "delete", item |-> token]
    OBVIOUS
  <1>2. Changed(o, items) = items \ {token}
    BY <1>1, ChangedIs
  <1>3. Fine("oauth", items)
    BY DEF AuthInv, StoreInv, Stores
  <1>4. given' = given /\ retired' = retired /\ token \in expired
    BY DEF LoadExpired
  <1>5. token \notin given /\ token.kind # "client"
    BY <1>4 DEF AuthInv, AuthShape
  <1>6. \A i : Client(i.of) # token
    BY <1>5 DEF Client
  <1>7. FineNext("oauth", Changed(o, items))
    BY <1>2, <1>3, <1>4, <1>5, <1>6 DEF Fine, FineNext
  <1> QED
    BY <1>1, <1>2, <1>7, PlanOne

\* Without the tokens of a client the file still has a client for every token.
LEMMA DropFine ==
  ASSUME AuthShape, NEW c, NEW items, Fine("oauth", items),
         given' = given \ TokensOf(c, given), retired' = retired
  PROVE  /\ FineNext("oauth", items \ TokensOf(c, items))
         /\ TokensOf(c, given) \cap (items \ TokensOf(c, items)) = {}
  <1>1. \A i \in items : i.kind # "client" => Client(i.of) \in items \ TokensOf(c, items)
    BY DEF Fine, TokensOf, Client
  <1>2. given' \cap ItemsOf("oauth") \subseteq items \ TokensOf(c, items)
    BY DEF Fine, TokensOf
  <1> QED
    BY <1>1, <1>2 DEF Fine, FineNext, TokensOf
LEMMA RevokeTokenPlan ==
  ASSUME AuthInv, NEW c \in Apps, NEW token, revoke_token(c, token), "oauth" \notin crossed
  PROVE  PlanNext("oauth", credentials["oauth"],
                  Begun("oauth", <<[do |-> "drop", of |-> c]>>, {}, TokensOf(c, given)))
  <1> DEFINE items == credentials["oauth"]
  <1>1. PICK o : o = [do |-> "drop", of |-> c]
    OBVIOUS
  <1>2. Changed(o, items) = items \ TokensOf(c, items)
    BY <1>1, ChangedIs
  <1>3. Fine("oauth", items) /\ AuthShape
    BY DEF AuthInv, StoreInv, Stores
  <1>4. given' = given \ TokensOf(c, given) /\ retired' = retired
    BY DEF revoke_token
  <1>5. /\ FineNext("oauth", Changed(o, items))
        /\ TokensOf(c, given) \cap Changed(o, items) = {}
    BY <1>2, <1>3, <1>4, DropFine
  <1> QED
    BY <1>1, <1>5, PlanOne
LEMMA RevokeClientPlan ==
  ASSUME AuthInv, NEW w, NEW c \in Apps, revoke_client(w, c), "oauth" \notin crossed
  PROVE  PlanNext("oauth", credentials["oauth"],
                  Begun("oauth", <<[do |-> "revoke", of |-> c]>>, {}, HadBy(c)))
  <1> DEFINE items == credentials["oauth"]
             left == items \ ({Client(c)} \cup TokensOf(c, items))
  <1>1. PICK o : o = [do |-> "revoke", of |-> c]
    OBVIOUS
  <1>2. Fine("oauth", items) /\ AuthShape
    BY DEF AuthInv, StoreInv, Stores
  <1>3. given' = given \ HadBy(c) /\ retired' = retired /\ Client(c) \in items
    BY <1>2, ReadIs DEF revoke_client, Known
  <1>4. Changed(o, items) = left
    BY <1>1, <1>3, ChangedIs
  <1>5. \A i \in left : i.kind # "client" => Client(i.of) \in left
    <2> SUFFICES ASSUME NEW i \in left, i.kind # "client" PROVE Client(i.of) \in left
      OBVIOUS
    <2>1. i \in items /\ i \in FileItems /\ i.kind # "key" /\ Client(i.of) \in items
      BY <1>2 DEF Fine, ItemsOf
    <2>2. IsToken(i)
      BY <2>1 DEF FileItems, Client, Key, Access, Refresh, IsToken
    <2>3. i.of # c
      BY <2>1, <2>2 DEF TokensOf, IsToken
    <2> QED
      BY <2>1, <2>3 DEF Client, TokensOf
  <1>6. given' \cap ItemsOf("oauth") \subseteq left /\ HadBy(c) \cap left = {}
    BY <1>2, <1>3 DEF Fine, HadBy, TokensOf
  <1>7. FineNext("oauth", left)
    BY <1>2, <1>3, <1>5, <1>6 DEF Fine, FineNext
  <1> QED
    BY <1>1, <1>4, <1>6, <1>7, PlanOne

\* Operations, by what they do.
Puts(o, x) == \A items : Changed(o, items) = items \cup {x}
Drops(o, c) == \A items : Changed(o, items) = items \ TokensOf(c, items)
LEMMA PutsIs == ASSUME NEW x PROVE Puts([do |-> "put", item |-> x], x)
  BY ChangedIs DEF Puts
LEMMA DropsIs == ASSUME NEW c PROVE Drops([do |-> "drop", of |-> c], c)
  BY ChangedIs DEF Drops

\* A token pair with a new number.
LEMMA NewPair ==
  ASSUME AuthShape, NEW c \in Apps, NEW n \in 1..MaxPairs, n = pairs + 1, retired' = retired,
         NEW items, FineNext("oauth", items), Client(c) \in items
  PROVE  /\ FineNext("oauth", items \cup {Access(c, n)})
         /\ FineNext("oauth", (items \cup {Access(c, n)}) \cup {Refresh(c, n)})
         /\ Access(c, n) \notin given /\ Refresh(c, n) \notin given
  <1>1. pairs \in Nat /\ ~(n <= pairs)
    BY HalfIsNoFile DEF AuthShape
  <1>2. IsToken(Access(c, n)) /\ Access(c, n).n = n /\ IsToken(Refresh(c, n)) /\ Refresh(c, n).n = n
    BY DEF IsToken, Access, Refresh
  <1>3. Access(c, n) \notin retired \cup given /\ Refresh(c, n) \notin retired \cup given
    BY <1>1, <1>2 DEF AuthShape, Issued
  <1>4. Access(c, n).of = c /\ Refresh(c, n).of = c
    BY DEF Access, Refresh
  <1>5. Access(c, n) \in ItemsOf("oauth") /\ Refresh(c, n) \in ItemsOf("oauth")
    BY ItemKinds
  <1> QED
    BY <1>3, <1>4, <1>5 DEF FineNext
LEMMA ExchangeCodePlan ==
  ASSUME AuthInv, NEW c \in Apps, NEW code, exchange_authorization_code(c, code), "oauth" \notin crossed
  PROVE  PlanNext("oauth", credentials["oauth"],
                  Begun("oauth", <<[do |-> "put", item |-> Access(c, pairs')],
                                   [do |-> "put", item |-> Refresh(c, pairs')]>>,
                        {Access(c, pairs'), Refresh(c, pairs')}, {}))
  <1> DEFINE items == credentials["oauth"]
  <1>1. AuthShape /\ Fine("oauth", items)
    BY DEF AuthInv, StoreInv, Stores
  <1>2. PICK n \in 1..MaxPairs : n = pairs' /\ n = pairs + 1
    BY <1>1, ExchangeCodeStarts
  <1>3. PICK o1, o2 : o1 = [do |-> "put", item |-> Access(c, n)] /\ o2 = [do |-> "put", item |-> Refresh(c, n)]
    OBVIOUS
  <1>4. PICK r : r = Begun("oauth", <<o1, o2>>, {Access(c, n), Refresh(c, n)}, {})
    OBVIOUS
  <1>5. r.todo = <<o1, o2>> /\ r.news = {Access(c, n), Refresh(c, n)} /\ r.ends = {}
    BY <1>4 DEF Begun
  <1>6. given' = given /\ retired' = retired /\ Client(c) \in items
    BY <1>1, ReadIs DEF exchange_authorization_code, Known
  <1>7. FineNext("oauth", items)
    BY <1>1, <1>6, FineStays DEF FewerItems
  <1>8. /\ Changed(o1, items) = items \cup {Access(c, n)}
        /\ Changed(o2, Changed(o1, items)) = (items \cup {Access(c, n)}) \cup {Refresh(c, n)}
    <2>1. Puts(o1, Access(c, n)) /\ Puts(o2, Refresh(c, n))
      BY <1>3, PutsIs
    <2> QED
      BY <2>1 DEF Puts
  <1>9. /\ FineNext("oauth", Changed(o1, items))
        /\ DoneNext("oauth", Changed(o2, Changed(o1, items)), r)
    <2>1. /\ FineNext("oauth", items \cup {Access(c, n)})
          /\ FineNext("oauth", (items \cup {Access(c, n)}) \cup {Refresh(c, n)})
      <3> HIDE DEF items
      <3> QED
        BY <1>1, <1>2, <1>6, <1>7, NewPair
    <2> QED
      BY <1>5, <1>8, <2>1 DEF DoneNext
  <1>10. PlanNext("oauth", items, r)
    BY <1>5, <1>9 DEF PlanNext
  <1> QED
    BY <1>2, <1>3, <1>4, <1>10
LEMMA ExchangeRefreshPlan ==
  ASSUME AuthInv, NEW c \in Apps, NEW token, exchange_refresh_token(c, token), "oauth" \notin crossed
  PROVE  PlanNext("oauth", credentials["oauth"],
                  Begun("oauth", <<[do |-> "drop", of |-> c], [do |-> "put", item |-> Access(c, pairs')],
                                   [do |-> "put", item |-> Refresh(c, pairs')]>>,
                        {Access(c, pairs'), Refresh(c, pairs')}, TokensOf(c, given)))
  <1> DEFINE items == credentials["oauth"]
             left == items \ TokensOf(c, items)
  <1>1. AuthShape /\ Fine("oauth", items)
    BY DEF AuthInv, StoreInv, Stores
  <1>2. PICK n \in 1..MaxPairs : n = pairs' /\ n = pairs + 1
    BY <1>1, ExchangeRefreshStarts
  <1>3. PICK o0, o1, o2 : /\ o0 = [do |-> "drop", of |-> c] /\ o1 = [do |-> "put", item |-> Access(c, n)]
                          /\ o2 = [do |-> "put", item |-> Refresh(c, n)]
    OBVIOUS
  <1>4. PICK r : r = Begun("oauth", <<o0, o1, o2>>, {Access(c, n), Refresh(c, n)}, TokensOf(c, given))
    OBVIOUS
  <1>5. r.todo = <<o0, o1, o2>> /\ r.news = {Access(c, n), Refresh(c, n)} /\ r.ends = TokensOf(c, given)
    BY <1>4 DEF Begun
  <1>6. given' = given \ TokensOf(c, given) /\ retired' = retired /\ Client(c) \in items
    BY <1>1, ReadIs DEF exchange_refresh_token, Known
  <1>7. FineNext("oauth", left) /\ TokensOf(c, given) \cap left = {} /\ Client(c) \in left
    <2>1. FineNext("oauth", left) /\ TokensOf(c, given) \cap left = {}
      BY <1>1, <1>6, DropFine
    <2>2. Client(c) \in left
      BY <1>6 DEF TokensOf, Client
    <2> QED
      BY <2>1, <2>2
  <1>8. /\ Changed(o0, items) = left
        /\ Changed(o1, Changed(o0, items)) = left \cup {Access(c, n)}
        /\ Changed(o2, Changed(o1, Changed(o0, items))) = (left \cup {Access(c, n)}) \cup {Refresh(c, n)}
    <2>1. Drops(o0, c) /\ Puts(o1, Access(c, n)) /\ Puts(o2, Refresh(c, n))
      BY <1>3, PutsIs, DropsIs
    <2> QED
      BY <2>1 DEF Puts, Drops
  <1>9. /\ FineNext("oauth", left \cup {Access(c, n)})
        /\ FineNext("oauth", (left \cup {Access(c, n)}) \cup {Refresh(c, n)})
        /\ Access(c, n) \notin given /\ Refresh(c, n) \notin given
    <2> HIDE DEF left
    <2> QED
      BY <1>1, <1>2, <1>6, <1>7, NewPair
  <1>10. TokensOf(c, given) \cap ((left \cup {Access(c, n)}) \cup {Refresh(c, n)}) = {}
    BY <1>7, <1>9 DEF TokensOf
  <1>11. /\ FineNext("oauth", Changed(o0, items)) /\ FineNext("oauth", Changed(o1, Changed(o0, items)))
         /\ DoneNext("oauth", Changed(o2, Changed(o1, Changed(o0, items))), r)
    BY <1>5, <1>7, <1>8, <1>9, <1>10 DEF DoneNext
  <1>12. PlanNext("oauth", items, r)
    BY <1>5, <1>11 DEF PlanNext
  <1> QED
    BY <1>2, <1>3, <1>4, <1>12

-----------------------------------------------------------------------------
(* The steps of a writer, on the store it changes and on the other one.    *)
\* What is left of a plan once its first operation is done.
LEMMA PlanHead ==
  ASSUME NEW s, NEW items, NEW r, Plan(s, items, r), NEW new, new = Changed(Head(r.todo), items)
  PROVE  /\ Len(r.todo) = 1 => Done(s, new, r)
         /\ Len(r.todo) # 1 => Fine(s, new)
         /\ \A q : Len(r.todo) # 1 /\ q.todo = Tail(r.todo) /\ q.news = r.news /\ q.ends = r.ends
                   => Plan(s, new, q)
  <1>1. ASSUME NEW o1, r.todo = <<o1>>, Done(s, Changed(o1, items), r)
        PROVE  Len(r.todo) = 1 /\ Done(s, new, r)
    BY <1>1
  <1>2. ASSUME NEW o1, NEW o2, r.todo = <<o1, o2>>, Fine(s, Changed(o1, items)),
               Done(s, Changed(o2, Changed(o1, items)), r)
        PROVE  /\ Len(r.todo) # 1 /\ Fine(s, new)
               /\ \A q : q.todo = Tail(r.todo) /\ q.news = r.news /\ q.ends = r.ends => Plan(s, new, q)
    <2>1. Head(r.todo) = o1 /\ Tail(r.todo) = <<o2>> /\ Len(r.todo) = 2
      BY <1>2
    <2>2. new = Changed(o1, items)
      BY <2>1
    <2>3. Done(s, Changed(o2, new), r)
      BY <1>2, <2>2
    <2>4. ASSUME NEW q, q.todo = Tail(r.todo), q.news = r.news, q.ends = r.ends PROVE Plan(s, new, q)
      <3>1. Done(s, Changed(o2, new), q)
        BY <2>3, <2>4 DEF Done
      <3> QED
        BY <2>1, <2>4, <3>1 DEF Plan
    <2> QED
      BY <1>2, <2>1, <2>2, <2>4
  <1>3. ASSUME NEW o1, NEW o2, NEW o3, r.todo = <<o1, o2, o3>>, Fine(s, Changed(o1, items)),
               Fine(s, Changed(o2, Changed(o1, items))),
               Done(s, Changed(o3, Changed(o2, Changed(o1, items))), r)
        PROVE  /\ Len(r.todo) # 1 /\ Fine(s, new)
               /\ \A q : q.todo = Tail(r.todo) /\ q.news = r.news /\ q.ends = r.ends => Plan(s, new, q)
    <2>1. Head(r.todo) = o1 /\ Tail(r.todo) = <<o2, o3>> /\ Len(r.todo) = 3
      BY <1>3
    <2>2. new = Changed(o1, items)
      BY <2>1
    <2>3. Fine(s, Changed(o2, new)) /\ Done(s, Changed(o3, Changed(o2, new)), r)
      BY <1>3, <2>2
    <2>4. ASSUME NEW q, q.todo = Tail(r.todo), q.news = r.news, q.ends = r.ends PROVE Plan(s, new, q)
      <3>1. Done(s, Changed(o3, Changed(o2, new)), q)
        BY <2>3, <2>4 DEF Done
      <3> QED
        BY <2>1, <2>3, <2>4, <3>1 DEF Plan
    <2> QED
      BY <1>3, <2>1, <2>2, <2>4
  <1> QED
    BY <1>1, <1>2, <1>3 DEF Plan

\* The store that the change is not about.
LEMMA OtherStore ==
  ASSUME AuthShape, NEW w \in Writers, writing[w].step # "rest", Onward(w),
         NEW s \in Stores, s # writing[w].store, StoreInv(s),
         credentials'[s] = credentials[s], temporary'[s] = temporary[s],
         \A v \in Writers : Busy(v, s)' => Busy(v, s) /\ writing'[v] = writing[v]
  PROVE  StoreInv(s)'
  <1>1. writing[w].store \in Stores /\ writing[w].news \subseteq ItemsOf(writing[w].store)
        /\ writing[w].ends \subseteq ItemsOf(writing[w].store)
    BY ChangeUnderWay DEF IsChange
  <1>2. ItemsOf(writing[w].store) \cap ItemsOf(s) = {}
    BY <1>1 DEF ItemsOf, Stores
  <1>3. given' \cap ItemsOf(s) \subseteq given /\ retired' \cap ItemsOf(s) \subseteq retired
    BY <1>1, <1>2 DEF Onward, ToolEnded
  <1> QED
    BY <1>3, StoreStays DEF StoreKept

\* The store it is about, once w has its new record q.
LEMMA SameStore ==
  ASSUME AuthShape, NEW w \in Writers, writing[w].step # "rest", NEW s, s = writing[w].store, StoreInv(s)
  PROVE  UnderWay(w, s) /\ Fine(s, credentials[s]) /\ \A v \in Writers : Busy(v, s) => v = w
  BY ChangeUnderWay DEF StoreInv, Busy

\* A change that has ended, or was cut short.
LEMMA EndedStore ==
  ASSUME NEW w \in Writers, NEW s, FineNext(s, credentials'[s]),
         \A v \in Writers : Busy(v, s)' => v = w, writing'[w] = Resting
  PROVE  StoreInv(s)'
  <1>1. \A v \in Writers : ~Busy(v, s)'
    BY DEF Busy
  <1> QED
    BY <1>1, StoreNext

LEMMA OnlyBusy ==
  ASSUME NEW w \in Writers, NEW q, Only(w, q), q = Resting \/ q.store = writing[w].store, NEW s
  PROVE  /\ s # writing[w].store
               => \A v \in Writers : Busy(v, s)' => Busy(v, s) /\ writing'[v] = writing[v]
         /\ (\A v \in Writers : Busy(v, s) => v = w) => \A v \in Writers : Busy(v, s)' => v = w
         /\ writing'[w] = q
  BY DEF Only, Busy
LEMMA LaterIs ==
  ASSUME NEW r, NEW at, NEW todo, NEW items, NEW fd, NEW q, q = Later(r, at, todo, items, fd)
  PROVE  /\ q.step = at /\ q.store = r.store /\ q.todo = todo /\ q.items = items /\ q.fd = fd
         /\ q.news = r.news /\ q.ends = r.ends
  BY DEF Later
\* A later record of a plan that goes on as it is.
LEMMA PlanSame ==
  ASSUME NEW s, NEW items, NEW r, Plan(s, items, r), NEW q, q.todo = r.todo, q.news = r.news, q.ends = r.ends
  PROVE  Plan(s, items, q)
  <1>1. \A t : Done(s, t, r) => Done(s, t, q)
    BY DEF Done
  <1> QED
    BY <1>1 DEF Plan

LEMMA ReadStateStore ==
  ASSUME AuthInv, NEW w \in Writers, ReadState(w), NEW s \in Stores, s \notin crossed
  PROVE  StoreInv(s)'
  <1> DEFINE r == writing[w]
             new == Changed(Head(r.todo), Read(r.store))
             more == Later(r, "read", Tail(r.todo), r.items, r.fd)
             open == Later(r, "open", r.todo, new, r.fd)
  <1>1. AuthShape /\ StoreInv(s) /\ r.step = "read" /\ r.step # "rest"
        /\ credentials' = credentials /\ temporary' = temporary
    BY DEF AuthInv, ReadState
  <1>2. \/ new = Read(r.store) /\ Len(r.todo) = 1 /\ Only(w, Resting) /\ ToolEnded(w)
        \/ new = Read(r.store) /\ Len(r.todo) # 1 /\ Only(w, more) /\ given' = given /\ retired' = retired
        \/ Only(w, open) /\ given' = given /\ retired' = retired
    BY <1>1, ReadStateIs
  <1>3. more.store = r.store /\ open.store = r.store
    BY LaterIs
  <1>4. CASE s # r.store
    <2>1. \A v \in Writers : Busy(v, s)' => Busy(v, s) /\ writing'[v] = writing[v]
      <3> HIDE DEF more, open, new
      <3> QED
        BY <1>2, <1>3, <1>4, OnlyBusy
    <2> QED
      BY <1>1, <1>4, <2>1, OtherStore, ReadStateOnward
  <1>5. CASE s = r.store
    <2>1. UnderWay(w, s) /\ Fine(s, credentials[s]) /\ \A v \in Writers : Busy(v, s) => v = w
      BY <1>1, <1>5, SameStore
    <2>2. Read(s) = credentials[s] /\ Plan(s, credentials[s], r)
      BY <2>1, ReadIs DEF UnderWay
    <2>3. new = Changed(Head(r.todo), credentials[s])
      BY <1>5, <2>2
    <2> HIDE DEF new
    <2>4. /\ Len(r.todo) = 1 => Done(s, new, r)
          /\ \A q : Len(r.todo) # 1 /\ q.todo = Tail(r.todo) /\ q.news = r.news /\ q.ends = r.ends
                     => Plan(s, new, q)
      BY <2>2, <2>3, PlanHead
    <2>5. CASE new = Read(r.store) /\ Len(r.todo) = 1 /\ Only(w, Resting) /\ ToolEnded(w)
      <3>1. Done(s, credentials[s], r)
        BY <1>5, <2>2, <2>4, <2>5
      <3>2. FineNext(s, credentials'[s])
        BY <1>1, <2>5, <3>1 DEF Done, Fine, FineNext, ToolEnded
      <3>3. writing'[w] = Resting /\ \A v \in Writers : Busy(v, s)' => v = w
        BY <2>1, <2>5, OnlyBusy
      <3> QED
        BY <3>2, <3>3, EndedStore
    <2>6. ASSUME given' = given, retired' = retired, NEW q, Only(w, q), q.store = r.store,
                 Plan(s, credentials[s], q), q.step \in {"read", "open"},
                 q.step = "open" => q.items = Changed(Head(q.todo), credentials[s])
          PROVE  StoreInv(s)'
      <3>1. FewerItems(s)
        BY <2>6 DEF FewerItems
      <3>2. FineNext(s, credentials'[s]) /\ PlanNext(s, credentials'[s], q)
        BY <1>1, <2>1, <2>6, <3>1, FineStays, PlanStays
      <3>3. writing'[w] = q /\ \A v \in Writers : Busy(v, s)' => v = w
        BY <2>1, <2>6, OnlyBusy
      <3> QED
        BY <1>1, <2>6, <3>2, <3>3, StoreNext
    <2>7. CASE new = Read(r.store) /\ Len(r.todo) # 1 /\ Only(w, more) /\ given' = given /\ retired' = retired
      <3>1. PICK q : q = more
        OBVIOUS
      <3>2. q.step = "read" /\ q.store = r.store /\ q.todo = Tail(r.todo) /\ q.news = r.news /\ q.ends = r.ends
        BY <3>1, LaterIs
      <3>3. Plan(s, credentials[s], q)
        BY <1>5, <2>2, <2>4, <2>7, <3>2
      <3> QED
        BY <2>6, <2>7, <3>1, <3>2, <3>3
    <2>8. CASE Only(w, open) /\ given' = given /\ retired' = retired
      <3>1. PICK q : q = open
        OBVIOUS
      <3>2. /\ q.step = "open" /\ q.store = r.store /\ q.todo = r.todo /\ q.items = new
            /\ q.news = r.news /\ q.ends = r.ends
        BY <3>1, LaterIs
      <3>3. Plan(s, credentials[s], q)
        BY <2>2, <3>2, PlanSame
      <3> QED
        BY <2>3, <2>6, <2>8, <3>1, <3>2, <3>3
    <2> QED
      BY <1>2, <2>5, <2>7, <2>8 DEF new
  <1> QED
    BY <1>4, <1>5

\* The temporary file of one process for one store.
TemporarySet(t, p, c) == temporary' = [temporary EXCEPT ![t][p] = c]
LEMMA SetTemporary ==
  ASSUME AuthShape, NEW w \in Writers, NEW t \in Stores, NEW c, TemporarySet(t, Pid[w], c)
  PROVE  temporary'[t][Pid[w]] = c /\ \A s \in Stores : s # t => temporary'[s] = temporary[s]
  <1>1. Pid[w] \in {Pid[v] : v \in Writers} /\ Pid[w] \in DOMAIN temporary[t] /\ t \in DOMAIN temporary
    BY DEF AuthShape
  <1> QED
    BY <1>1 DEF TemporarySet

\* A writer that goes from one step to the next with the change it has.
LEMMA StepStore ==
  ASSUME AuthShape, NEW w \in Writers, writing[w].step # "rest", Onward(w), given' = given, retired' = retired,
         NEW s \in Stores, StoreInv(s), credentials' = credentials,
         NEW q, Only(w, q), q.store = writing[w].store, q.todo = writing[w].todo, q.news = writing[w].news,
         q.ends = writing[w].ends, q.items = writing[w].items, writing[w].step # "read",
         s # writing[w].store => temporary'[s] = temporary[s],
         s = writing[w].store =>
            /\ q.step = "write" => q.fd = "temporary" /\ temporary'[s][Pid[w]] = Half
            /\ q.step = "replace" => temporary'[s][Pid[w]] = q.items
  PROVE  StoreInv(s)'
  <1>1. CASE s # writing[w].store
    <2>1. \A v \in Writers : Busy(v, s)' => Busy(v, s) /\ writing'[v] = writing[v]
      BY <1>1, OnlyBusy
    <2> QED
      BY <1>1, <2>1, OtherStore
  <1>2. CASE s = writing[w].store
    <2>1. UnderWay(w, s) /\ Fine(s, credentials[s]) /\ \A v \in Writers : Busy(v, s) => v = w
      BY <1>2, SameStore
    <2>2. /\ Plan(s, credentials[s], writing[w])
          /\ writing[w].items = Changed(Head(writing[w].todo), credentials[s])
      BY <2>1 DEF UnderWay
    <2>3. FewerItems(s)
      BY DEF FewerItems
    <2>4. FineNext(s, credentials'[s]) /\ PlanNext(s, credentials'[s], q)
      <3>1. Plan(s, credentials[s], q)
        BY <2>2, PlanSame
      <3> QED
        BY <2>1, <2>3, <3>1, FineStays, PlanStays
    <2>5. writing'[w] = q /\ \A v \in Writers : Busy(v, s)' => v = w
      BY <2>1, OnlyBusy
    <2> QED
      BY <1>2, <2>2, <2>4, <2>5, StoreNext
  <1> QED
    BY <1>1, <1>2

LEMMA OpenStore ==
  ASSUME AuthInv, NEW w \in Writers, OpenTemporary(w), NEW s \in Stores, s \notin crossed
  PROVE  StoreInv(s)'
  <1> DEFINE r == writing[w]
  <1>1. AuthShape /\ StoreInv(s) /\ r.step = "open" /\ r.step # "rest" /\ r.step # "read"
        /\ credentials' = credentials /\ given' = given /\ retired' = retired
    BY DEF AuthInv, OpenTemporary
  <1>2. PICK q : q = Later(r, "write", r.todo, r.items, "temporary")
    OBVIOUS
  <1>3. Only(w, q) /\ Onward(w)
    BY <1>1, <1>2, OpenOnward
  <1>4. /\ q.step = "write" /\ q.store = r.store /\ q.todo = r.todo /\ q.items = r.items /\ q.fd = "temporary"
        /\ q.news = r.news /\ q.ends = r.ends
    BY <1>2, LaterIs
  <1>5. r.store \in Stores
    BY <1>1, ChangeUnderWay DEF IsChange
  <1>6. TemporarySet(r.store, Pid[w], Half)
    BY DEF OpenTemporary, TemporarySet
  <1>7. temporary'[r.store][Pid[w]] = Half /\ \A t \in Stores : t # r.store => temporary'[t] = temporary[t]
    BY <1>1, <1>5, <1>6, SetTemporary
  <1> QED
    BY <1>1, <1>3, <1>4, <1>7, StepStore

LEMMA WriteStore ==
  ASSUME AuthInv, NEW w \in Writers, WriteTemporary(w), NEW s \in Stores, s \notin crossed
  PROVE  StoreInv(s)'
  <1> DEFINE r == writing[w]
  <1>1. AuthShape /\ StoreInv(s) /\ r.step = "write" /\ r.step # "rest" /\ r.step # "read"
        /\ given' = given /\ retired' = retired
    BY DEF AuthInv, WriteTemporary
  <1>2. PICK q : q = Later(r, "replace", r.todo, r.items, r.fd)
    OBVIOUS
  <1>3. Only(w, q) /\ Onward(w)
    BY <1>1, <1>2, WriteOnward
  <1>4. /\ q.step = "replace" /\ q.store = r.store /\ q.todo = r.todo /\ q.items = r.items
        /\ q.news = r.news /\ q.ends = r.ends
    BY <1>2, LaterIs
  <1>5. r.store \in Stores
    BY <1>1, ChangeUnderWay DEF IsChange
  <1>6. CASE s = r.store
    <2>1. r.fd = "temporary" /\ temporary[s][Pid[w]] = Half
      BY <1>1, <1>6, SameStore DEF UnderWay
    <2>2. Overlaid(temporary[r.store][Pid[w]], r.items) = {r.items}
      BY <1>6, <2>1 DEF Overlaid
    <2>3. TemporarySet(r.store, Pid[w], r.items) /\ credentials' = credentials
      BY <2>1, <2>2 DEF WriteTemporary, TemporarySet
    <2>4. temporary'[s][Pid[w]] = r.items
      BY <1>1, <1>5, <1>6, <2>3, SetTemporary
    <2> QED
      BY <1>1, <1>3, <1>4, <1>6, <2>3, <2>4, StepStore
  <1>7. CASE s # r.store
    <2>1. \/ credentials' = credentials /\ temporary' = temporary
          \/ \E c : TemporarySet(r.store, Pid[w], c) /\ credentials' = credentials
          \/ \E c : credentials' = [credentials EXCEPT ![r.store] = c] /\ temporary' = temporary
      BY DEF WriteTemporary, TemporarySet
    <2>2. credentials'[s] = credentials[s] /\ temporary'[s] = temporary[s]
      BY <1>1, <1>5, <1>7, <2>1, SetTemporary DEF AuthShape
    <2>3. \A v \in Writers : Busy(v, s)' => Busy(v, s) /\ writing'[v] = writing[v]
      BY <1>3, <1>4, <1>7, OnlyBusy
    <2> QED
      BY <1>1, <1>3, <1>7, <2>2, <2>3, OtherStore
  <1> QED
    BY <1>6, <1>7

LEMMA FailsStore ==
  ASSUME AuthInv, NEW w \in Writers, WriteFails(w), NEW s \in Stores, s \notin crossed
  PROVE  StoreInv(s)'
  <1> DEFINE r == writing[w]
  <1>1. AuthShape /\ StoreInv(s) /\ r.step # "rest"
        /\ given' = given /\ retired' = retired /\ credentials' = credentials
    BY DEF AuthInv, WriteFails
  <1>2. Only(w, Resting) /\ Onward(w)
    BY <1>1, FailsOnward
  <1>3. r.store \in Stores
    BY <1>1, ChangeUnderWay DEF IsChange
  <1>4. TemporarySet(r.store, Pid[w], Missing)
    BY DEF WriteFails, TemporarySet
  <1>5. CASE s # r.store
    <2>1. \A t \in Stores : t # r.store => temporary'[t] = temporary[t]
      <3>1. PICK q : q = r.store /\ q \in Stores /\ TemporarySet(q, Pid[w], Missing)
        BY <1>3, <1>4
      <3>2. \A t \in Stores : t # q => temporary'[t] = temporary[t]
        BY <1>1, <3>1, SetTemporary
      <3> QED
        BY <3>1, <3>2
    <2>2. \A v \in Writers : Busy(v, s)' => Busy(v, s) /\ writing'[v] = writing[v]
      BY <1>2, <1>5, OnlyBusy
    <2> QED
      BY <1>1, <1>2, <1>5, <2>1, <2>2, OtherStore
  <1>6. CASE s = r.store
    <2>1. Fine(s, credentials[s]) /\ \A v \in Writers : Busy(v, s) => v = w
      BY <1>1, <1>6, SameStore
    <2>2. FineNext(s, credentials'[s])
      BY <1>1, <2>1, FineStays DEF FewerItems
    <2>3. writing'[w] = Resting /\ \A v \in Writers : Busy(v, s)' => v = w
      BY <1>2, <2>1, OnlyBusy
    <2> QED
      BY <2>2, <2>3, EndedStore
  <1> QED
    BY <1>5, <1>6

LEMMA DiesStore ==
  ASSUME AuthInv, NEW p, ProcessDies(p), NEW s \in Stores, s \notin crossed
  PROVE  StoreInv(s)'
  <1>1. /\ writing' = [w \in Writers |-> IF Pid[w] = p THEN Resting ELSE writing[w]]
        /\ UNCHANGED <<credentials, temporary, given, retired>> /\ StoreInv(s)
    BY DEF AuthInv, ProcessDies
  <1>2. \A v \in Writers : Busy(v, s)' => Busy(v, s) /\ writing'[v] = writing[v]
    BY <1>1 DEF Busy
  <1> QED
    BY <1>1, <1>2, StoreStays DEF StoreKept

\* The rename, and a writer that finds its temporary file gone.
LEMMA ReplaceStore ==
  ASSUME AuthInv, NEW w \in Writers, ReplaceFile(w), NEW s \in Stores, s \notin crossed
  PROVE  StoreInv(s)'
  <1> DEFINE r == writing[w]
  <1>1. AuthShape /\ StoreInv(s) /\ r.step = "replace" /\ r.step # "rest"
    BY DEF AuthInv, ReplaceFile
  <1>2. r.store \in Stores /\ Onward(w)
    BY <1>1, ChangeUnderWay, ReplaceOnward DEF IsChange
  <1>3. CASE /\ writing' = [writing EXCEPT ![w] = Resting]
             /\ UNCHANGED <<credentials, temporary, given, retired>>
    <2>1. Only(w, Resting)
      BY <1>1, <1>3, SetOne
    <2>2. CASE s # r.store
      <3>1. \A v \in Writers : Busy(v, s)' => Busy(v, s) /\ writing'[v] = writing[v]
        BY <2>1, <2>2, OnlyBusy
      <3> QED
        BY <1>1, <1>2, <1>3, <2>2, <3>1, OtherStore
    <2>3. CASE s = r.store
      <3>1. Fine(s, credentials[s]) /\ \A v \in Writers : Busy(v, s) => v = w
        BY <1>1, <2>3, SameStore
      <3>2. FineNext(s, credentials'[s])
        BY <1>3, <3>1, FineStays DEF FewerItems
      <3>3. writing'[w] = Resting /\ \A v \in Writers : Busy(v, s)' => v = w
        BY <2>1, <3>1, OnlyBusy
      <3> QED
        BY <3>2, <3>3, EndedStore
    <2> QED
      BY <2>2, <2>3
  <1>4. CASE /\ Replaced(w)
             /\ IF Len(r.todo) = 1 THEN ToolEnded(w) ELSE UNCHANGED <<given, retired>>
    <2>1. /\ credentials' = [credentials EXCEPT ![r.store] = temporary[r.store][Pid[w]]]
          /\ TemporarySet(r.store, Pid[w], Missing)
          /\ writing' = Renamed(w)
      BY <1>4 DEF Replaced, TemporarySet
    <2>2. /\ \A v \in Writers : v # w /\ ~Busy(v, r.store) => writing'[v] = writing[v]
          /\ Len(r.todo) = 1 => writing'[w] = Resting
          /\ Len(r.todo) # 1 => writing'[w] = Later(r, "read", Tail(r.todo), r.items, r.fd)
          /\ \A v \in Writers : \/ writing'[v] = writing[v] \/ writing'[v] = Resting
                                \/ writing[v] # Resting /\ Continues(writing'[v], writing[v])
      BY <1>1, <2>1, RenamedIs
    <2>3. \A v \in Writers, t \in Stores : Busy(v, t)' => Busy(v, t)
      BY <2>2 DEF Busy, Continues
    <2>4. CASE s # r.store
      <3>1. temporary'[s] = temporary[s]
        BY <1>1, <1>2, <2>1, <2>4, SetTemporary
      <3>2. credentials'[s] = credentials[s]
        BY <2>1, <2>4 DEF AuthShape
      <3>3. ASSUME NEW v \in Writers, Busy(v, s)' PROVE Busy(v, s) /\ writing'[v] = writing[v]
        <4>1. Busy(v, s) /\ ~Busy(v, r.store)
          BY <2>3, <2>4, <3>3 DEF Busy
        <4>2. v # w
          BY <2>4, <4>1 DEF Busy
        <4> QED
          BY <2>2, <4>1, <4>2
      <3> QED
        BY <1>1, <1>2, <2>4, <3>1, <3>2, <3>3, OtherStore
    <2>5. CASE s = r.store
      <3>1. UnderWay(w, s) /\ \A v \in Writers : Busy(v, s) => v = w
        BY <1>1, <2>5, SameStore
      <3>2. /\ Plan(s, credentials[s], r) /\ r.items = Changed(Head(r.todo), credentials[s])
            /\ temporary[s][Pid[w]] = r.items
        BY <1>1, <3>1 DEF UnderWay
      <3>3. credentials'[s] = r.items
        BY <1>1, <1>2, <2>1, <2>5, <3>2 DEF AuthShape
      <3>4. \A v \in Writers : Busy(v, s)' => v = w
        BY <2>3, <3>1
      <3>5. /\ Len(r.todo) = 1 => Done(s, r.items, r)
            /\ Len(r.todo) # 1 => Fine(s, r.items)
            /\ \A q : Len(r.todo) # 1 /\ q.todo = Tail(r.todo) /\ q.news = r.news /\ q.ends = r.ends
                      => Plan(s, r.items, q)
        <4>1. PICK new : new = r.items
          OBVIOUS
        <4>2. new = Changed(Head(r.todo), credentials[s])
          BY <3>2, <4>1
        <4> QED
          BY <3>2, <4>1, <4>2, PlanHead
      <3>6. CASE Len(r.todo) = 1
        <4>1. Done(s, r.items, r) /\ ToolEnded(w) /\ writing'[w] = Resting
          BY <1>4, <2>2, <3>5, <3>6
        <4>2. FineNext(s, credentials'[s])
          BY <3>3, <4>1 DEF Done, Fine, FineNext, ToolEnded
        <4> QED
          BY <3>4, <4>1, <4>2, EndedStore
      <3>7. CASE Len(r.todo) # 1
        <4>1. PICK q : q = Later(r, "read", Tail(r.todo), r.items, r.fd)
          OBVIOUS
        <4>2. /\ q.step = "read" /\ q.store = r.store /\ q.todo = Tail(r.todo)
              /\ q.news = r.news /\ q.ends = r.ends
          BY <4>1, LaterIs
        <4>3. writing'[w] = q
          BY <2>2, <3>7, <4>1
        <4>4. FewerItems(s)
          BY <1>4, <3>7 DEF FewerItems
        <4>5. Fine(s, credentials'[s]) /\ Plan(s, credentials'[s], q)
          BY <3>3, <3>5, <3>7, <4>2
        <4>6. FineNext(s, credentials'[s]) /\ PlanNext(s, credentials'[s], q)
          BY <4>4, <4>5, FineStays, PlanStays
        <4> QED
          BY <3>4, <4>2, <4>3, <4>6, StoreNext
      <3> QED
        BY <3>6, <3>7
    <2> QED
      BY <2>4, <2>5
  <1> QED
    BY <1>3, <1>4 DEF ReplaceFile

-----------------------------------------------------------------------------
LEMMA AuthStarts == ASSUME AuthInit PROVE AuthInv
  <1>1. AuthShape
    BY HalfIsNoFile DEF AuthInit, AuthShape, Issued
  <1>2. ASSUME NEW s \in Stores PROVE StoreInv(s)
    <2>1. credentials[s] = {} /\ given = {} /\ retired = {} /\ \A w \in Writers : ~Busy(w, s)
      BY DEF AuthInit, Busy
    <2> QED
      BY <2>1 DEF StoreInv, Fine
  <1> QED
    BY <1>1, <1>2 DEF AuthInv

\* A change that starts keeps the invariant when what it plans is sound.
LEMMA StartsInv ==
  ASSUME AuthInv, NEW w \in Writers, NEW s \in Stores, NEW ops, NEW news, NEW ends,
         Opens(w, s, ops, news, ends),
         s \notin crossed => PlanNext(s, credentials[s], Begun(s, ops, news, ends))
  PROVE  AuthInv'
  <1>1. AuthShape /\ crossed \subseteq crossed'
    BY DEF AuthInv, Opens, Start
  <1>2. AuthShape'
    BY <1>1, StartsShape
  <1>3. ASSUME NEW t \in Stores, t \notin crossed' PROVE StoreInv(t)'
    <2>1. StoreInv(t) /\ t \notin crossed
      BY <1>1, <1>3 DEF AuthInv
    <2> QED
      BY <1>1, <1>3, <2>1, StartsStore
  <1> QED
    BY <1>2, <1>3 DEF AuthInv, Stores

LEMMA WriterInv ==
  ASSUME AuthInv, NEW w \in Writers,
         ReadState(w) \/ OpenTemporary(w) \/ WriteTemporary(w) \/ ReplaceFile(w) \/ WriteFails(w)
  PROVE  AuthInv'
  <1>1. AuthShape
    BY DEF AuthInv
  <1>2. Onward(w)
    BY <1>1, ReadStateOnward, OpenOnward, WriteOnward, ReplaceOnward, FailsOnward
  <1>3. AuthShape' /\ crossed' = crossed
    BY <1>1, <1>2, OnwardShape DEF Onward
  <1>4. ASSUME NEW s \in Stores, s \notin crossed PROVE StoreInv(s)'
    BY <1>4, ReadStateStore, OpenStore, WriteStore, ReplaceStore, FailsStore
  <1> QED
    BY <1>3, <1>4 DEF AuthInv, Stores
LEMMA AsideInv ==
  ASSUME AuthInv, Aside, AuthShape'
  PROVE  AuthInv'
  <1>1. ASSUME NEW s \in Stores, s \notin crossed PROVE StoreInv(s)'
    BY <1>1, AsideStore DEF AuthInv
  <1>2. crossed' = crossed
    BY DEF Aside
  <1> QED
    BY <1>1, <1>2 DEF AuthInv, Stores

LEMMA AuthStep == ASSUME AuthInv, [AuthNext]_authVars PROVE AuthInv'
  <1>1. AuthShape /\ "server" \in Writers /\ Tools \subseteq Writers /\ "oauth" \in Stores /\ "keys" \in Stores
    BY DEF AuthInv, Writers, Stores
  <1>2. CASE \E w \in Writers : \/ ReadState(w) \/ OpenTemporary(w) \/ WriteTemporary(w)
                                \/ ReplaceFile(w) \/ WriteFails(w)
    BY <1>2, WriterInv
  <1>3. CASE \E p \in {Pid[w] : w \in Writers} : ProcessDies(p)
    <2>1. PICK p : ProcessDies(p)
      BY <1>3
    <2>2. AuthShape' /\ crossed' = crossed
      BY <1>1, <2>1, DiesShape DEF ProcessDies
    <2>3. ASSUME NEW s \in Stores, s \notin crossed PROVE StoreInv(s)'
      BY <2>1, <2>3, DiesStore
    <2> QED
      BY <2>2, <2>3 DEF AuthInv, Stores
  <1>4. ASSUME NEW c \in Apps, register_client(c) PROVE AuthInv'
    BY <1>1, <1>4, RegisterStarts, RegisterPlan, StartsInv
  <1>5. ASSUME NEW c \in Apps, authorize(c) PROVE AuthInv'
    BY <1>1, <1>5, AuthorizeAside, AsideInv
  <1>6. ASSUME NEW c \in Apps, NEW code, exchange_authorization_code(c, code) PROVE AuthInv'
    BY <1>1, <1>6, ExchangeCodeStarts, ExchangeCodePlan, StartsInv
  <1>7. ASSUME NEW c \in Apps, NEW t, exchange_refresh_token(c, t) PROVE AuthInv'
    BY <1>1, <1>7, ExchangeRefreshStarts, ExchangeRefreshPlan, StartsInv
  <1>8. ASSUME NEW c \in Apps, NEW t, revoke_token(c, t) PROVE AuthInv'
    BY <1>1, <1>8, RevokeTokenStarts, RevokeTokenPlan, StartsInv
  <1>9. ASSUME NEW c \in Apps, NEW w \in Tools, revoke_client(w, c) PROVE AuthInv'
    BY <1>1, <1>9, RevokeClientStarts, RevokeClientPlan, StartsInv
  <1>10. ASSUME NEW txn, NEW ok, handle_consent_submit(txn, ok) PROVE AuthInv'
    BY <1>1, <1>10, ConsentAside, AsideInv
  <1>11. ASSUME NEW t, LoadExpired(t) PROVE AuthInv'
    BY <1>1, <1>11, LoadExpiredStarts, LoadExpiredPlan, StartsInv
  <1>12. ASSUME NEW x \in consents \cup codes \cup (Read("oauth") \ {Client(c) : c \in Apps}), Expire(x)
         PROVE  AuthInv'
    BY <1>12, ExpireAside, AsideInv
  <1>13. ASSUME NEW w \in Tools, NEW k \in KeyNames, create_key(w, k) PROVE AuthInv'
    BY <1>1, <1>13, CreateKeyStarts, CreateKeyPlan, StartsInv
  <1>14. ASSUME NEW w \in Tools, NEW k \in KeyNames, revoke_key(w, k) PROVE AuthInv'
    BY <1>1, <1>14, RevokeKeyStarts, RevokeKeyPlan, StartsInv
  <1>15. CASE UNCHANGED authVars
    <2>1. Aside /\ expired' = expired /\ consents' = consents /\ codes' = codes
      BY <1>15 DEF Aside, authVars
    <2>2. given' \cap expired' = {}
      BY <1>15 DEF AuthInv, AuthShape, authVars
    <2>3. AuthShape'
      BY <1>1, <2>1, <2>2, AsideShape DEF AuthShape
    <2> QED
      BY <2>1, <2>3, AsideInv
  <1> QED
    BY <1>2, <1>3, <1>4, <1>5, <1>6, <1>7, <1>8, <1>9, <1>10, <1>11, <1>12, <1>13, <1>14, <1>15 DEF AuthNext

LEMMA HoldsThen == ASSUME AuthInv PROVE CredentialsHold
  <1>1. ASSUME NEW s \in Stores, s \notin crossed
        PROVE  Fine(s, credentials[s]) /\ Read(s) = credentials[s]
    BY <1>1, ReadIs DEF AuthInv, StoreInv
  <1>2. given \subseteq FileItems
    BY DEF AuthInv, AuthShape
  <1>3. Remembered
    BY <1>1, <1>2 DEF Remembered, Fine, ItemsOf
  <1>4. LockedOut
    BY <1>1 DEF LockedOut, Fine, Stores
  <1> QED
    BY <1>3, <1>4 DEF CredentialsHold

\* Files "re-read on every operation" and replaced "instead of truncating" (oauth.py
\* \* OAuthStateStore, api_keys.py ApiKeyStore): for any clients, keys, tools and processes, a
\* registration, token pair or key that was handed out is accepted until it expires, is rotated
\* or revoked, and never afterwards, through crashes and failed writes at any step of a change,
\* as long as one writer at a time changes the file.
THEOREM CredentialsHoldHolds == AuthSpec => []CredentialsHold
  <1>1. AuthInit => AuthInv
    BY AuthStarts
  <1>2. AuthInv /\ [AuthNext]_authVars => AuthInv'
    BY AuthStep
  <1>3. AuthInv => CredentialsHold
    BY HoldsThen
  <1> QED
    BY <1>1, <1>2, <1>3, PTL DEF AuthSpec

-----------------------------------------------------------------------------
(* The rate limiter.  What a bucket has counted since it began is a set of *)
(* requests, `counted`, and everything else its key let through came       *)
(* before.  All but two of the windows that reach into one stretch began   *)
(* with a request that had read the clock before the stretch.              *)
KeysOf == Addresses \cup {"auth:known"}
InOf(all, key) == {a \in all : a.in /\ a.key = key}
Stretch(all, key, t) == {a \in all : a.in /\ a.key = key /\ a.at \in t .. t + Window - 1}
LateIn(some, t) == {a \in some : a.read < t}

\* Sets of requests, and how many of them a stretch may have.
Capped(all, key, t) == Cardinality(Stretch(all, key, t)) <= (2 + Cardinality(LateIn(Stretch(all, key, t), t))) * Limit
ClosedCap(all, key, counted, t) ==
    Cardinality(Stretch(all, key, t) \ counted)
      <= (1 + Cardinality(LateIn(Stretch(all, key, t) \ counted, t))) * Limit

\* `counted` is what the bucket b of the key has counted; without a bucket it is empty.
Counted(all, key, b, counted) ==
    /\ counted \subseteq InOf(all, key)
    /\ b.start \in Nat /\ b.count \in 0..Limit /\ Cardinality(counted) = b.count
    /\ b.count # 0 => \E c \in counted : c.read = b.start
    /\ \A x \in counted : b.start <= x.at /\ \A y \in InOf(all, key) \ counted : y.at <= x.at

Logged(all, now) ==
    /\ IsFiniteSet(all)
    /\ \A a \in all : /\ a.n \in Nat /\ a.n < Cardinality(all) /\ a.in \in BOOLEAN /\ a.own \in BOOLEAN
                      /\ a.at \in 0..now /\ a.read \in 0..now /\ a.key \in Limiters \X KeysOf
                      /\ a.own <=> a.key[2] = "auth:known"

LEMMA Times ==
  ASSUME NEW x \in Nat, NEW y \in Nat, x < y
  PROVE  (1 + x) * Limit + Limit <= (1 + y) * Limit
  <1>1. Limit \in Nat
    BY LimiterNumbers
  <1>2. PICK d \in Nat : y = x + 1 + d
    <2>1. y - x - 1 \in Nat /\ y = x + 1 + (y - x - 1)
      OBVIOUS
    <2> QED
      BY <2>1
  <1>3. (1 + y) * Limit = (1 + x) * Limit + Limit + d * Limit
    BY <1>1, <1>2
  <1>4. d * Limit \in Nat /\ (1 + x) * Limit \in Nat
    BY <1>1
  <1> QED
    BY <1>1, <1>3, <1>4
LEMMA TimesMore ==
  ASSUME NEW x \in Nat, NEW y \in Nat, x <= y, NEW k \in Nat
  PROVE  (k + x) * Limit <= (k + y) * Limit /\ (k + x) * Limit \in Nat /\ (k + y) * Limit \in Nat
  <1>1. Limit \in Nat
    BY LimiterNumbers
  <1>2. PICK d \in Nat : y = x + d
    <2>1. y - x \in Nat /\ y = x + (y - x)
      OBVIOUS
    <2> QED
      BY <2>1
  <1>3. (k + y) * Limit = (k + x) * Limit + d * Limit
    BY <1>1, <1>2
  <1>4. d * Limit \in Nat /\ (k + x) * Limit \in Nat
    BY <1>1
  <1> QED
    BY <1>1, <1>3, <1>4

LEMMA FinitePart ==
  ASSUME NEW S, IsFiniteSet(S), NEW T \in SUBSET S
  PROVE  IsFiniteSet(T) /\ Cardinality(T) \in Nat /\ Cardinality(T) <= Cardinality(S)
  BY FS_Subset, FS_CardinalityType
\* A set that is split.
LEMMA SplitCount ==
  ASSUME NEW S, IsFiniteSet(S), NEW T, IsFiniteSet(T)
  PROVE  /\ Cardinality(S) <= Cardinality(S \ T) + Cardinality(T)
         /\ Cardinality(S) \in Nat /\ Cardinality(T) \in Nat /\ Cardinality(S \ T) \in Nat
  <1>1. /\ IsFiniteSet(S \ T) /\ Cardinality(S \ T) \in Nat
        /\ Cardinality(S) \in Nat /\ Cardinality(T) \in Nat
    BY FinitePart, FS_CardinalityType
  <1>2. IsFiniteSet((S \ T) \cap T) /\ Cardinality((S \ T) \cap T) \in Nat
    BY <1>1, FinitePart
  <1>3. /\ IsFiniteSet((S \ T) \cup T)
        /\ Cardinality((S \ T) \cup T) = Cardinality(S \ T) + Cardinality(T) - Cardinality((S \ T) \cap T)
    BY <1>1, FS_Union
  <1>4. Cardinality(S) <= Cardinality((S \ T) \cup T) /\ Cardinality((S \ T) \cup T) \in Nat
    <2>1. S \in SUBSET ((S \ T) \cup T)
      OBVIOUS
    <2> QED
      BY <1>3, <2>1, FinitePart, FS_CardinalityType
  <1> QED
    BY <1>1, <1>2, <1>3, <1>4

LEMMA StretchFinite ==
  ASSUME NEW all, IsFiniteSet(all), NEW key, NEW t, NEW counted, IsFiniteSet(counted)
  PROVE  /\ IsFiniteSet(Stretch(all, key, t)) /\ IsFiniteSet(Stretch(all, key, t) \ counted)
         /\ IsFiniteSet(LateIn(Stretch(all, key, t), t))
         /\ IsFiniteSet(LateIn(Stretch(all, key, t) \ counted, t))
         /\ Cardinality(LateIn(Stretch(all, key, t), t)) \in Nat
         /\ Cardinality(LateIn(Stretch(all, key, t) \ counted, t)) \in Nat
         /\ Cardinality(LateIn(Stretch(all, key, t) \ counted, t)) <= Cardinality(LateIn(Stretch(all, key, t), t))
  <1> DEFINE S == Stretch(all, key, t)
  <1>1. S \in SUBSET all /\ S \ counted \in SUBSET all /\ LateIn(S, t) \in SUBSET all
        /\ LateIn(S \ counted, t) \in SUBSET LateIn(S, t)
    BY DEF Stretch, LateIn
  <1> HIDE DEF S
  <1>2. IsFiniteSet(S) /\ IsFiniteSet(S \ counted) /\ IsFiniteSet(LateIn(S, t)) /\ Cardinality(LateIn(S, t)) \in Nat
    BY <1>1, FinitePart
  <1>3. /\ IsFiniteSet(LateIn(S \ counted, t)) /\ Cardinality(LateIn(S \ counted, t)) \in Nat
        /\ Cardinality(LateIn(S \ counted, t)) <= Cardinality(LateIn(S, t))
    BY <1>1, <1>2, FinitePart
  <1> QED
    BY <1>2, <1>3 DEF S

\* What is closed and what the bucket has counted, together.
LEMMA BothCapped ==
  ASSUME NEW all, NEW key, NEW t, NEW counted, IsFiniteSet(all), counted \in SUBSET all,
         Cardinality(counted) <= Limit, ClosedCap(all, key, counted, t)
  PROVE  Capped(all, key, t)
  <1> DEFINE S == Stretch(all, key, t)
             x == Cardinality(LateIn(S \ counted, t))
             y == Cardinality(LateIn(S, t))
  <1>1. IsFiniteSet(counted) /\ Cardinality(counted) \in Nat /\ Limit \in Nat
    BY FinitePart, LimiterNumbers
  <1>2. x \in Nat /\ y \in Nat /\ x <= y /\ IsFiniteSet(S)
    BY <1>1, StretchFinite
  <1>3. Cardinality(S \ counted) <= (1 + x) * Limit
    BY DEF ClosedCap
  <1> HIDE DEF S, x, y
  <1>4. /\ Cardinality(S) <= Cardinality(S \ counted) + Cardinality(counted)
        /\ Cardinality(S) \in Nat /\ Cardinality(S \ counted) \in Nat
    BY <1>1, <1>2, SplitCount
  <1>5. (2 + x) * Limit = (1 + x) * Limit + Limit /\ (1 + x) * Limit \in Nat
    BY <1>1, <1>2
  <1>6. (2 + x) * Limit <= (2 + y) * Limit /\ (2 + x) * Limit \in Nat /\ (2 + y) * Limit \in Nat
    BY <1>2, TimesMore
  <1>7. Cardinality(S) <= (2 + y) * Limit
    BY <1>1, <1>3, <1>4, <1>5, <1>6
  <1> QED
    BY <1>7 DEF Capped, S, y

\* A window that is over, in a stretch that is not: it began before the stretch, so that the
\* request it began with, if the stretch has an earlier one, had read the clock before.
LEMMA Closes ==
  ASSUME NEW all, NEW now \in Nat, Logged(all, now), NEW key, NEW b, NEW counted,
         Counted(all, key, b, counted), NEW read \in 0..now, ~InHandler(b, read), NEW t \in Nat,
         now < t + Window, ClosedCap(all, key, counted, t)
  PROVE  ClosedCap(all, key, {}, t)
  <1> DEFINE S == Stretch(all, key, t)
             x == Cardinality(LateIn(S \ counted, t))
             y == Cardinality(LateIn(S, t))
  <1>1. counted \in SUBSET all /\ IsFiniteSet(all) /\ IsFiniteSet(counted)
        /\ Cardinality(counted) \in Nat /\ Limit \in Nat /\ Window \in Nat
    <2>1. counted \in SUBSET all /\ IsFiniteSet(all)
      BY DEF Counted, Logged, InOf
    <2> QED
      BY <2>1, FinitePart, LimiterNumbers
  <1>2. x \in Nat /\ y \in Nat /\ x <= y /\ IsFiniteSet(S) /\ IsFiniteSet(LateIn(S, t)) /\ IsFiniteSet(LateIn(S \ counted, t))
    BY <1>1, StretchFinite
  <1>3. Cardinality(S \ counted) <= (1 + x) * Limit /\ Cardinality(counted) <= Limit
    BY <1>1 DEF ClosedCap, Counted
  <1>4. b.start < t
    <2>1. b.start \in Nat /\ ~(read < b.start + Window)
      BY DEF Counted, InHandler
    <2> QED
      BY <1>1, <2>1
  <1>5. CASE S \ counted = {}
    <2>1. S \in SUBSET counted
      BY <1>5
    <2>2. Cardinality(S) <= Cardinality(counted) /\ Cardinality(S) \in Nat
      BY <1>1, <2>1, FinitePart
    <2>3. Limit <= (1 + y) * Limit /\ (1 + y) * Limit \in Nat
      <3>1. (1 + 0) * Limit <= (1 + y) * Limit /\ (1 + y) * Limit \in Nat
        BY <1>2, TimesMore
      <3>2. (1 + 0) * Limit = Limit
        BY <1>1
      <3> QED
        BY <3>1, <3>2
    <2>4. Cardinality(S) <= (1 + y) * Limit
      <3> HIDE DEF S, y
      <3> QED
        BY <1>1, <1>3, <2>2, <2>3
    <2>5. S \ {} = S
      OBVIOUS
    <2> QED
      BY <2>4, <2>5 DEF ClosedCap
  <1>6. CASE S \ counted # {} /\ b.count # 0
    <2>1. PICK e \in S \ counted : TRUE
      BY <1>6
    <2>2. PICK c \in counted : c.read = b.start
      BY <1>6 DEF Counted
    <2>3. e.at <= c.at /\ e.at \in t .. t + Window - 1 /\ e \in all /\ c \in all /\ c.in /\ c.key = key
      BY <2>1 DEF Counted, InOf, Stretch
    <2>4. c.at \in 0..now /\ e.at \in 0..now
      BY <2>3 DEF Logged
    <2>5. c.at \in t .. t + Window - 1
      BY <1>1, <2>3, <2>4
    <2>6. c \in LateIn(S, t) /\ c \notin LateIn(S \ counted, t) /\ LateIn(S \ counted, t) \subseteq LateIn(S, t)
      BY <1>4, <2>2, <2>3, <2>5 DEF Stretch, LateIn
    <2>7. x < y
      <3>1. Cardinality(LateIn(S \ counted, t) \cup {c}) = x + 1
        BY <1>2, <2>6, FS_AddElement
      <3>2. LateIn(S \ counted, t) \cup {c} \in SUBSET LateIn(S, t)
        BY <2>6
      <3>3. Cardinality(LateIn(S \ counted, t) \cup {c}) <= y
        BY <1>2, <3>2, FinitePart
      <3> QED
        BY <1>2, <3>1, <3>3
    <2> HIDE DEF S, x, y
    <2>8. (1 + x) * Limit + Limit <= (1 + y) * Limit
      BY <1>2, <2>7, Times
    <2>9. Cardinality(S) <= Cardinality(S \ counted) + Cardinality(counted)
          /\ Cardinality(S) \in Nat /\ Cardinality(S \ counted) \in Nat
      BY <1>1, <1>2, SplitCount
    <2>10. (1 + x) * Limit \in Nat /\ (1 + y) * Limit \in Nat
      BY <1>1, <1>2
    <2>11. Cardinality(S) <= (1 + y) * Limit
      BY <1>1, <1>3, <2>8, <2>9, <2>10
    <2>12. S \ {} = S
      OBVIOUS
    <2> QED
      BY <2>11, <2>12 DEF ClosedCap, S, y
  <1>7. CASE S \ counted # {} /\ b.count = 0
    <2>1. counted = {}
      BY <1>1, <1>7, FS_EmptySet DEF Counted
    <2> QED
      BY <2>1
  <1> QED
    BY <1>5, <1>6, <1>7

\* A request that is let through counts in its bucket, ...
LEMMA AddCounted ==
  ASSUME NEW all, NEW now \in Nat, Logged(all, now), NEW key, NEW b, NEW counted, Counted(all, key, b, counted),
         b.start <= now, b.count < Limit,
         NEW a, a \notin all, a.in, a.key = key, a.at = now, b.count = 0 => a.read = b.start
  PROVE  Counted(all \cup {a}, key, [start |-> b.start, count |-> b.count + 1], counted \cup {a})
  <1>1. counted \in SUBSET all /\ IsFiniteSet(counted) /\ a \notin counted /\ b.count \in Nat /\ Limit \in Nat
    <2>1. counted \in SUBSET all /\ IsFiniteSet(all)
      BY DEF Counted, Logged, InOf
    <2> QED
      BY <2>1, FinitePart, LimiterNumbers DEF Counted
  <1>2. Cardinality(counted \cup {a}) = b.count + 1
    BY <1>1, FS_AddElement DEF Counted
  <1>3. PICK u : u = [start |-> b.start, count |-> b.count + 1]
    OBVIOUS
  <1>4. u.start = b.start /\ u.count = b.count + 1 /\ u.count \in 0..Limit /\ u.start \in Nat
    BY <1>1, <1>3 DEF Counted
  <1>5. \E c \in counted \cup {a} : c.read = u.start
    BY <1>4 DEF Counted
  <1>6. counted \cup {a} \subseteq InOf(all \cup {a}, key)
    BY DEF Counted, InOf
  <1>7. \A x \in counted \cup {a} : u.start <= x.at
    BY <1>4 DEF Counted
  <1>8. \A x \in counted \cup {a}, y \in InOf(all \cup {a}, key) \ (counted \cup {a}) : y.at <= x.at
    BY DEF Counted, InOf, Logged
  <1> QED
    BY <1>2, <1>3, <1>4, <1>5, <1>6, <1>7, <1>8 DEF Counted
\* ... and is no part of what is closed, ...
LEMMA AddClosed ==
  ASSUME NEW all, NEW key, NEW counted, NEW t, ClosedCap(all, key, counted, t), NEW a, a \notin all
  PROVE  ClosedCap(all \cup {a}, key, counted \cup {a}, t)
  <1>1. Stretch(all \cup {a}, key, t) \ (counted \cup {a}) = Stretch(all, key, t) \ counted
    BY DEF Stretch
  <1> QED
    BY <1>1 DEF ClosedCap
\* ... and of no stretch that is over.
LEMMA AddOther ==
  ASSUME NEW all, NEW key, NEW counted, NEW t, NEW a,
         ~a.in \/ a.key # key \/ a.at \notin t .. t + Window - 1
  PROVE  /\ Stretch(all \cup {a}, key, t) = Stretch(all, key, t)
         /\ ClosedCap(all, key, counted, t) => ClosedCap(all \cup {a}, key, counted, t)
         /\ Capped(all, key, t) => Capped(all \cup {a}, key, t)
  <1>1. Stretch(all \cup {a}, key, t) = Stretch(all, key, t)
    BY DEF Stretch
  <1> QED
    BY <1>1 DEF ClosedCap, Capped
LEMMA CountedOther ==
  ASSUME NEW all, NEW key, NEW b, NEW counted, Counted(all, key, b, counted), NEW a, ~a.in \/ a.key # key
  PROVE  Counted(all \cup {a}, key, b, counted)
  <1>1. InOf(all \cup {a}, key) = InOf(all, key)
    BY DEF InOf
  <1> QED
    BY <1>1 DEF Counted

-----------------------------------------------------------------------------
BucketHas(all, now, key, b, counted) ==
    /\ Counted(all, key, b, counted) /\ b.start <= now
    /\ \A t \in Nat : now < t + Window => ClosedCap(all, key, counted, t)
BucketInv(s, k) ==
    \E b, counted : /\ BucketHas(admitted, ticks, <<s, k>>, b, counted)
                    /\ IF k \in DOMAIN buckets[s] THEN b = buckets[s][k] /\ b.count # 0 ELSE counted = {}

GateShape ==
    /\ ticks \in Nat
    /\ buckets = [s \in Limiters |-> buckets[s]] /\ \A s \in Limiters : DOMAIN buckets[s] \subseteq KeysOf
    /\ \A s \in Limiters : \A k \in DOMAIN buckets[s] : buckets[s][k] \in [start : Nat, count : Nat]
    /\ handling = [h \in Handlers |-> handling[h]]
    /\ \A h \in Handlers : handling[h] = NoRequest
                          \/ (handling[h].req \in Requests /\ handling[h].now \in 0..ticks)
    /\ Logged(admitted, ticks)
GateInv ==
    /\ GateShape
    /\ \A s \in Limiters, k \in KeysOf : BucketInv(s, k)
    /\ \A key : \A t \in Nat : Capped(admitted, key, t)
    /\ OwnBucket

LEMMA EmptyCounted ==
  ASSUME NEW all, NEW key, NEW b, b.start \in Nat, b.count = 0
  PROVE  Counted(all, key, b, {})
  BY FS_EmptySet, LimiterNumbers DEF Counted, InOf

\* The bucket that a hit finds or begins.
LEMMA BucketFound ==
  ASSUME GateInv, NEW s \in Limiters, NEW k \in KeysOf, NEW now \in 0..ticks
  PROVE  \E counted : /\ BucketHas(admitted, ticks, <<s, k>>, Bucket(s, k, now), counted)
                      /\ InHandler(Bucket(s, k, now), now)
                      /\ Bucket(s, k, now).count = 0 => Bucket(s, k, now).start = now
  <1> DEFINE kept == AfterPrune(s, now)
             fresh == [start |-> now, count |-> 0]
             found == IF k \in DOMAIN kept THEN kept[k] ELSE fresh
             mine == Bucket(s, k, now)
  <1>1. mine = IF InHandler(found, now) THEN found ELSE fresh
    BY DEF Bucket
  <1>2. /\ k \in DOMAIN kept => k \in DOMAIN buckets[s] /\ kept[k] = buckets[s][k]
        /\ k \in DOMAIN buckets[s] /\ k \notin DOMAIN kept => ~InHandler(buckets[s][k], now)
    BY DEF AfterPrune, Pruned
  <1>3. fresh.start = now /\ fresh.count = 0 /\ InHandler(fresh, now) /\ now \in Nat /\ now <= ticks /\ ticks \in Nat
    BY LimiterNumbers DEF InHandler, GateInv, GateShape
  <1>4. PICK b, counted : /\ BucketHas(admitted, ticks, <<s, k>>, b, counted)
                          /\ IF k \in DOMAIN buckets[s] THEN b = buckets[s][k] /\ b.count # 0 ELSE counted = {}
    BY DEF GateInv, BucketInv
  <1> HIDE DEF kept, fresh, mine
  <1>5. CASE k \in DOMAIN kept /\ InHandler(buckets[s][k], now)
    <2>1. mine = buckets[s][k] /\ b = buckets[s][k] /\ b.count # 0
      BY <1>1, <1>2, <1>4, <1>5
    <2> QED
      BY <1>4, <1>5, <2>1 DEF mine
  <1>6. CASE ~(k \in DOMAIN kept /\ InHandler(buckets[s][k], now))
    <2>1. mine = fresh
      BY <1>1, <1>2, <1>3, <1>6
    <2>2. Counted(admitted, <<s, k>>, fresh, {})
      BY <1>3, EmptyCounted
    <2>3. ASSUME NEW t \in Nat, ticks < t + Window PROVE ClosedCap(admitted, <<s, k>>, {}, t)
      <3>1. ClosedCap(admitted, <<s, k>>, counted, t) /\ Counted(admitted, <<s, k>>, b, counted)
        BY <1>4, <2>3 DEF BucketHas
      <3>2. CASE k \in DOMAIN buckets[s]
        <4>1. ~InHandler(b, now)
          BY <1>2, <1>4, <1>6, <3>2
        <4> QED
          BY <1>3, <2>3, <3>1, <4>1, Closes DEF GateInv, GateShape
      <3>3. CASE k \notin DOMAIN buckets[s]
        BY <1>4, <3>1, <3>3
      <3> QED
        BY <3>2, <3>3
    <2>4. BucketHas(admitted, ticks, <<s, k>>, fresh, {})
      BY <1>3, <2>2, <2>3 DEF BucketHas
    <2> QED
      BY <1>3, <2>1, <2>4 DEF mine
  <1> QED
    BY <1>5, <1>6

\* The buckets that a hit leaves to the other keys.
LEMMA BucketLeft ==
  ASSUME GateInv, NEW s \in Limiters, NEW k \in KeysOf, NEW now \in 0..ticks
  PROVE  \E b, counted : /\ BucketHas(admitted, ticks, <<s, k>>, b, counted)
                         /\ IF k \in DOMAIN AfterPrune(s, now) THEN b = AfterPrune(s, now)[k] /\ b.count # 0
                                                              ELSE counted = {}
  <1> DEFINE kept == AfterPrune(s, now)
  <1>1. PICK b, counted : /\ BucketHas(admitted, ticks, <<s, k>>, b, counted)
                          /\ IF k \in DOMAIN buckets[s] THEN b = buckets[s][k] /\ b.count # 0 ELSE counted = {}
    BY DEF GateInv, BucketInv
  <1>2. /\ k \in DOMAIN kept => k \in DOMAIN buckets[s] /\ kept[k] = buckets[s][k]
        /\ k \in DOMAIN buckets[s] /\ k \notin DOMAIN kept => ~InHandler(buckets[s][k], now)
    BY DEF AfterPrune, Pruned
  <1> HIDE DEF kept
  <1>3. CASE k \in DOMAIN kept \/ k \notin DOMAIN buckets[s]
    BY <1>1, <1>2, <1>3 DEF kept
  <1>4. CASE k \notin DOMAIN kept /\ k \in DOMAIN buckets[s]
    <2>1. ~InHandler(b, now) /\ Logged(admitted, ticks) /\ ticks \in Nat
      BY <1>1, <1>2, <1>4 DEF GateInv, GateShape
    <2>2. PICK none : none = [start |-> 0, count |-> 0]
      OBVIOUS
    <2>3. none.start = 0 /\ none.count = 0
      BY <2>2
    <2>4. Counted(admitted, <<s, k>>, none, {})
      BY <2>3, EmptyCounted
    <2>5. ASSUME NEW t \in Nat, ticks < t + Window PROVE ClosedCap(admitted, <<s, k>>, {}, t)
      <3>1. ClosedCap(admitted, <<s, k>>, counted, t) /\ Counted(admitted, <<s, k>>, b, counted)
        BY <1>1, <2>5 DEF BucketHas
      <3> QED
        BY <2>1, <2>5, <3>1, Closes
    <2>6. BucketHas(admitted, ticks, <<s, k>>, none, {})
      BY <2>1, <2>3, <2>4, <2>5 DEF BucketHas
    <2> QED
      BY <1>4, <2>6 DEF kept
  <1> QED
    BY <1>3, <1>4

\* A refusal of a caller with the credential needs a full limit of his in the window before.
OwnBefore(all, x) == {b \in all : b.own /\ b.key[1] = x.key[1] /\ b.in /\ b.at <= x.at /\ x.read < b.at + Window}

LEMMA HitLogs ==
  ASSUME GateInv, NEW h \in Handlers, Hit(h)
  PROVE  LET r == handling[h].req
             now == handling[h].now
             s == r.surface
             k == resolve_key(r)
             full == Bucket(s, k, now).count >= Limit
         IN \E a : /\ admitted' = admitted \cup {a} /\ a \notin admitted
                   /\ a.n = Cardinality(admitted) /\ a.key = <<s, k>> /\ a.read = now /\ a.at = ticks
                   /\ a.own <=> k = "auth:known"
                   /\ a.own \in BOOLEAN
                   /\ a.in = ~full
                   /\ s \in Limiters /\ k \in KeysOf /\ now \in 0..ticks /\ ticks \in Nat /\ ticks' = ticks
                   /\ Logged(admitted', ticks')
  <1> DEFINE r == handling[h].req
             now == handling[h].now
             s == r.surface
             k == resolve_key(r)
             full == Bucket(s, k, now).count >= Limit
             own == r.cred = "secret"
  <1>1. r \in Requests /\ now \in 0..ticks /\ ticks \in Nat /\ Guarded(r)
    BY DEF Hit, GateInv, GateShape
  <1>2. s \in Limiters
    BY <1>1 DEF Guarded, Requests, Limiters
  <1>3. k \in KeysOf /\ (own <=> k = "auth:known")
    <2>1. r.from \in Addresses
      BY <1>1 DEF Requests
    <2> QED
      BY <2>1, NoAddressIsKnown DEF resolve_key, KeysOf
  <1>4. PICK a : a = [n |-> Cardinality(admitted), key |-> <<s, k>>, read |-> now, at |-> ticks, own |-> own, in |-> ~full]
    OBVIOUS
  <1>5. admitted' = admitted \cup {a} /\ ticks' = ticks
    BY <1>4 DEF Hit
  <1>6. a.n = Cardinality(admitted) /\ a.key = <<s, k>> /\ a.read = now /\ a.at = ticks /\ a.own = own /\ a.in = ~full
    BY <1>4
  <1> HIDE DEF r, now, s, k, full, own
  <1>7. Logged(admitted, ticks)
    BY DEF GateInv, GateShape
  <1>8. Cardinality(admitted) \in Nat /\ IsFiniteSet(admitted)
    BY <1>7, FS_CardinalityType DEF Logged
  <1>9. a \notin admitted
    BY <1>6, <1>7, <1>8 DEF Logged
  <1>10. IsFiniteSet(admitted') /\ Cardinality(admitted') = Cardinality(admitted) + 1
    BY <1>5, <1>8, <1>9, FS_AddElement
  <1>11. own \in BOOLEAN /\ full \in BOOLEAN /\ a.own \in BOOLEAN /\ a.in \in BOOLEAN
    <2>1. own \in BOOLEAN
      BY DEF own
    <2>2. full \in BOOLEAN
      BY DEF full
    <2> QED
      BY <1>6, <2>1, <2>2
  <1>12. Logged(admitted', ticks')
    <2>1. ASSUME NEW x \in admitted'
          PROVE  /\ x.n \in Nat /\ x.n < Cardinality(admitted') /\ x.in \in BOOLEAN /\ x.own \in BOOLEAN
                 /\ x.at \in 0..ticks /\ x.read \in 0..ticks /\ x.key \in Limiters \X KeysOf
                 /\ x.own <=> x.key[2] = "auth:known"
      <3>1. CASE x \in admitted
        BY <1>7, <1>8, <1>10, <3>1 DEF Logged
      <3>2. CASE x = a
        <4>1. x.at \in 0..ticks /\ x.read \in 0..ticks /\ x.n \in Nat /\ x.n < Cardinality(admitted')
          BY <1>1, <1>6, <1>8, <1>10, <3>2
        <4>2. x.key = <<s, k>> /\ x.key \in Limiters \X KeysOf /\ x.key[2] = k
          BY <1>2, <1>3, <1>6, <3>2
        <4> QED
          BY <1>3, <1>6, <1>11, <3>2, <4>1, <4>2
      <3> QED
        BY <1>5, <3>1, <3>2
    <2> QED
      BY <1>5, <1>10, <2>1 DEF Logged
  <1>13. a.own <=> k = "auth:known"
    BY <1>3, <1>6
  <1>14. s \in Limiters /\ k \in KeysOf /\ now \in 0..ticks /\ ticks \in Nat
    BY <1>1, <1>2, <1>3
  <1> QED
    BY <1>5, <1>6, <1>9, <1>11, <1>12, <1>13, <1>14 DEF r, now, s, k, full

LEMMA HitKeeps ==
  ASSUME GateInv, NEW h \in Handlers, Hit(h)
  PROVE  GateInv'
  <1> DEFINE r == handling[h].req
             now == handling[h].now
             s == r.surface
             k == resolve_key(r)
             mine == Bucket(s, k, now)
             full == mine.count >= Limit
             kept == AfterPrune(s, now)
             next == IF full THEN mine ELSE [mine EXCEPT !.count = @ + 1]
  <1>1. PICK a : /\ admitted' = admitted \cup {a} /\ a \notin admitted
                 /\ a.n = Cardinality(admitted) /\ a.key = <<s, k>> /\ a.read = now /\ a.at = ticks
                 /\ a.own <=> k = "auth:known"
                 /\ a.own \in BOOLEAN
                 /\ a.in = ~full
                 /\ s \in Limiters /\ k \in KeysOf /\ now \in 0..ticks /\ ticks \in Nat /\ ticks' = ticks
                 /\ Logged(admitted', ticks')
    BY HitLogs
  <1>2. PICK counted : /\ BucketHas(admitted, ticks, <<s, k>>, mine, counted)
                       /\ InHandler(mine, now)
                       /\ mine.count = 0 => mine.start = now
    BY <1>1, BucketFound
  <1>3. mine \in [start : Nat, count : Nat]
    <2>1. \A x \in DOMAIN buckets[s] : buckets[s][x] \in [start : Nat, count : Nat]
      BY <1>1 DEF GateInv, GateShape
    <2>2. \A x \in DOMAIN kept : kept[x] \in [start : Nat, count : Nat]
      BY <2>1 DEF AfterPrune, Pruned
    <2>3. [start |-> now, count |-> 0] \in [start : Nat, count : Nat]
      BY <1>1
    <2> QED
      BY <2>2, <2>3 DEF Bucket
  <1>4. /\ buckets' = [buckets EXCEPT ![s] = [x \in DOMAIN kept \cup {k} |-> IF x # k THEN kept[x] ELSE next]]
        /\ handling' = [handling EXCEPT ![h] = NoRequest]
    BY DEF Hit, Passed
  <1>5. /\ buckets' = [x \in Limiters |-> buckets'[x]]
        /\ buckets'[s] = [x \in DOMAIN kept \cup {k} |-> IF x # k THEN kept[x] ELSE next]
        /\ \A x \in Limiters \ {s} : buckets'[x] = buckets[x]
    <2>1. buckets = [x \in Limiters |-> buckets[x]]
      BY DEF GateInv, GateShape
    <2> HIDE DEF s, kept, k, next
    <2> QED
      BY <1>1, <1>4, <2>1
  <1>6. /\ DOMAIN kept \subseteq DOMAIN buckets[s] /\ \A x \in DOMAIN kept : kept[x] = buckets[s][x]
    BY DEF AfterPrune, Pruned
  <1>7. /\ full => next = mine
        /\ ~full => next = [start |-> mine.start, count |-> mine.count + 1]
        /\ mine.count \in Nat /\ mine.start \in Nat /\ full \in BOOLEAN
    BY <1>3
  <1>8. /\ next \in [start : Nat, count : Nat] /\ (full => mine.count # 0) /\ next.count # 0
        /\ next.start = mine.start /\ Limit \in Nat \ {0}
    <2>1. Limit \in Nat \ {0}
      BY LimiterNumbers
    <2>2. CASE full
      BY <1>3, <1>7, <2>1, <2>2
    <2>3. CASE ~full
      <3>1. PICK u : u = [start |-> mine.start, count |-> mine.count + 1]
        OBVIOUS
      <3>2. u.start = mine.start /\ u.count = mine.count + 1 /\ u \in [start : Nat, count : Nat]
        BY <1>7, <3>1
      <3> HIDE DEF mine, next
      <3> QED
        BY <1>7, <2>1, <2>3, <3>1, <3>2
    <2> QED
      BY <2>2, <2>3
  <1>9. a.in \in BOOLEAN /\ (a.in <=> mine.count < Limit) /\ (full <=> ~(mine.count < Limit))
    <2>1. full <=> ~(mine.count < Limit)
      BY <1>7, <1>8
    <2> HIDE DEF mine, full
    <2>2. a.in = ~full
      BY <1>1
    <2> QED
      BY <1>7, <2>1, <2>2
  <1> HIDE DEF r, now, s, k, mine, full, kept, next
  <1>10. GateShape'
    <2>1. handling = [x \in Handlers |-> handling[x]]
          /\ \A x \in Handlers : handling[x] = NoRequest
                                \/ (handling[x].req \in Requests /\ handling[x].now \in 0..ticks)
      BY DEF GateInv, GateShape
    <2>2. handling' = [x \in Handlers |-> handling'[x]]
          /\ \A x \in Handlers : handling'[x] = NoRequest
                                \/ (handling'[x].req \in Requests /\ handling'[x].now \in 0..ticks')
      BY <1>1, <1>4, <2>1
    <2>3. \A x \in Limiters : DOMAIN buckets'[x] \subseteq KeysOf
      BY <1>1, <1>5, <1>6 DEF GateInv, GateShape
    <2>4. \A x \in Limiters : \A y \in DOMAIN buckets'[x] : buckets'[x][y] \in [start : Nat, count : Nat]
      <3> SUFFICES ASSUME NEW x \in Limiters, NEW y \in DOMAIN buckets'[x]
                   PROVE  buckets'[x][y] \in [start : Nat, count : Nat]
        OBVIOUS
      <3>1. \A z \in DOMAIN buckets[x] : buckets[x][z] \in [start : Nat, count : Nat]
        BY DEF GateInv, GateShape
      <3>2. CASE x = s
        BY <1>5, <1>6, <1>8, <3>1, <3>2
      <3>3. CASE x # s
        BY <1>5, <3>1, <3>3
      <3> QED
        BY <3>2, <3>3
    <2> QED
      BY <1>1, <1>5, <2>2, <2>3, <2>4 DEF GateShape
  <1>11. \E c : BucketHas(admitted', ticks', <<s, k>>, next, c)
    <2>1. CASE full
      <3>1. ~a.in
        BY <1>9, <2>1
      <3>2. Counted(admitted', <<s, k>>, mine, counted)
        BY <1>1, <1>2, <3>1, CountedOther DEF BucketHas
      <3>3. \A t \in Nat : ticks < t + Window => ClosedCap(admitted', <<s, k>>, counted, t)
        BY <1>1, <1>2, <3>1, AddOther DEF BucketHas
      <3>4. next = mine /\ mine.start <= ticks
        BY <1>2, <1>7, <2>1 DEF BucketHas
      <3>5. BucketHas(admitted', ticks', <<s, k>>, next, counted)
        BY <1>1, <3>2, <3>3, <3>4 DEF BucketHas
      <3> QED
        BY <3>5
    <2>2. CASE ~full
      <3>1. a.in /\ mine.count < Limit
        BY <1>9, <2>2
      <3>2. mine.start <= ticks /\ Counted(admitted, <<s, k>>, mine, counted)
        BY <1>2 DEF BucketHas
      <3>3. Logged(admitted, ticks)
        BY DEF GateInv, GateShape
      <3>4. Counted(admitted \cup {a}, <<s, k>>, [start |-> mine.start, count |-> mine.count + 1], counted \cup {a})
        BY <1>1, <1>2, <3>1, <3>2, <3>3, AddCounted
      <3>5. \A t \in Nat : ticks < t + Window => ClosedCap(admitted', <<s, k>>, counted \cup {a}, t)
        BY <1>1, <1>2, AddClosed DEF BucketHas
      <3>6. BucketHas(admitted', ticks', <<s, k>>, next, counted \cup {a})
        BY <1>1, <1>7, <1>8, <2>2, <3>2, <3>4, <3>5 DEF BucketHas
      <3> QED
        BY <3>6
    <2> QED
      BY <2>1, <2>2
  <1>12. \A s2 \in Limiters, k2 \in KeysOf : BucketInv(s2, k2)'
    <2> SUFFICES ASSUME NEW s2 \in Limiters, NEW k2 \in KeysOf PROVE BucketInv(s2, k2)'
      OBVIOUS
    <2>1. CASE s2 = s /\ k2 = k
      <3>1. PICK c : BucketHas(admitted', ticks', <<s, k>>, next, c)
        BY <1>11
      <3>2. k \in DOMAIN buckets'[s] /\ buckets'[s][k] = next
        BY <1>5
      <3> QED
        BY <1>8, <2>1, <3>1, <3>2 DEF BucketInv
    <2>2. CASE s2 # s \/ k2 # k
      <3>1. PICK b, c : /\ BucketHas(admitted, ticks, <<s2, k2>>, b, c)
                        /\ IF k2 \in DOMAIN buckets'[s2] THEN b = buckets'[s2][k2] /\ b.count # 0 ELSE c = {}
        <4>1. CASE s2 # s
          <5>1. buckets'[s2] = buckets[s2]
            BY <1>5, <4>1
          <5> QED
            BY <5>1 DEF GateInv, BucketInv
        <4>2. CASE s2 = s /\ k2 # k
          <5>1. k2 \in DOMAIN buckets'[s] <=> k2 \in DOMAIN kept
            BY <1>5, <4>2
          <5>2. k2 \in DOMAIN kept => buckets'[s][k2] = kept[k2]
            BY <1>5, <4>2
          <5>3. \E b, c : /\ BucketHas(admitted, ticks, <<s, k2>>, b, c)
                          /\ IF k2 \in DOMAIN kept THEN b = kept[k2] /\ b.count # 0 ELSE c = {}
            BY <1>1, BucketLeft DEF kept
          <5> QED
            BY <4>2, <5>1, <5>2, <5>3
        <4> QED
          BY <2>2, <4>1, <4>2
      <3>2. a.key # <<s2, k2>>
        BY <1>1, <2>2
      <3>3. Counted(admitted', <<s2, k2>>, b, c)
        BY <1>1, <3>1, <3>2, CountedOther DEF BucketHas
      <3>4. \A t \in Nat : ticks < t + Window => ClosedCap(admitted', <<s2, k2>>, c, t)
        BY <1>1, <3>1, <3>2, AddOther DEF BucketHas
      <3>5. BucketHas(admitted', ticks', <<s2, k2>>, b, c)
        BY <1>1, <3>1, <3>3, <3>4 DEF BucketHas
      <3> QED
        BY <3>1, <3>5 DEF BucketInv
    <2> QED
      BY <2>1, <2>2
  <1>13. \A key : \A t \in Nat : Capped(admitted', key, t)
    <2> SUFFICES ASSUME NEW key, NEW t \in Nat PROVE Capped(admitted', key, t)
      OBVIOUS
    <2>1. Capped(admitted, key, t)
      BY DEF GateInv
    <2>2. CASE ~a.in \/ a.key # key \/ a.at \notin t .. t + Window - 1
      BY <1>1, <2>1, <2>2, AddOther
    <2>3. CASE a.key = key /\ a.at \in t .. t + Window - 1
      <3>1. PICK c : BucketHas(admitted', ticks', <<s, k>>, next, c)
        BY <1>11
      <3>2. ticks < t + Window /\ key = <<s, k>>
        <4>1. ticks \in t .. t + Window - 1 /\ ticks \in Nat /\ Window \in Nat
          BY <1>1, <2>3, LimiterNumbers
        <4>2. key = <<s, k>>
          BY <1>1, <2>3
        <4> QED
          BY <4>1, <4>2
      <3>3. Counted(admitted', key, next, c) /\ ClosedCap(admitted', key, c, t)
        BY <1>1, <3>1, <3>2 DEF BucketHas
      <3>4. IsFiniteSet(admitted') /\ c \in SUBSET admitted' /\ Cardinality(c) <= Limit
        BY <1>1, <1>8, <3>3 DEF Logged, Counted, InOf
      <3> QED
        BY <3>3, <3>4, BothCapped
    <2> QED
      BY <2>2, <2>3
  <1>14. OwnBucket'
    <2> SUFFICES ASSUME NEW x \in admitted', x.own, ~x.in
                 PROVE  Cardinality(OwnBefore(admitted', x)) >= Limit
      BY DEF OwnBucket, OwnBefore
    <2>1. IsFiniteSet(admitted')
      BY <1>1 DEF Logged
    <2>2. OwnBefore(admitted', x) \in SUBSET admitted' /\ IsFiniteSet(OwnBefore(admitted', x))
          /\ Cardinality(OwnBefore(admitted', x)) \in Nat
      <3>1. OwnBefore(admitted', x) \in SUBSET admitted'
        BY DEF OwnBefore
      <3> QED
        BY <2>1, <3>1, FinitePart
    <2>3. CASE x \in admitted
      <3>1. Cardinality(OwnBefore(admitted, x)) >= Limit
        BY <2>3 DEF GateInv, OwnBucket, OwnBefore
      <3>2. OwnBefore(admitted, x) \in SUBSET OwnBefore(admitted', x)
        BY <1>1 DEF OwnBefore
      <3>3. Cardinality(OwnBefore(admitted, x)) <= Cardinality(OwnBefore(admitted', x))
            /\ Cardinality(OwnBefore(admitted, x)) \in Nat
        BY <2>2, <3>2, FinitePart
      <3> QED
        BY <1>8, <2>2, <3>1, <3>3
    <2>4. CASE x = a
      <3>1. full /\ k = "auth:known" /\ x.key = <<s, k>> /\ x.at = ticks /\ x.read = now
        BY <1>1, <1>9, <2>4
      <3>2. counted \in SUBSET OwnBefore(admitted', x)
        <4> SUFFICES ASSUME NEW c \in counted PROVE c \in OwnBefore(admitted', x)
          OBVIOUS
        <4>1. c \in admitted /\ c.in /\ c.key = <<s, k>> /\ mine.start <= c.at
          BY <1>2 DEF BucketHas, Counted, InOf
        <4>2. c.at \in 0..ticks /\ (c.own <=> c.key[2] = "auth:known") /\ c.own \in BOOLEAN
          BY <4>1 DEF GateInv, GateShape, Logged
        <4>3. c.own
          BY <3>1, <4>1, <4>2
        <4>4. now < mine.start + Window
          BY <1>2 DEF InHandler
        <4>5. c.at <= x.at /\ x.read < c.at + Window
          BY <1>1, <1>7, <3>1, <4>1, <4>2, <4>4, LimiterNumbers
        <4>6. c.key[1] = x.key[1]
          BY <3>1, <4>1
        <4> QED
          BY <1>1, <4>1, <4>3, <4>5, <4>6 DEF OwnBefore
      <3>3. Cardinality(counted) = mine.count /\ mine.count >= Limit
        BY <1>2, <1>7, <1>8, <1>9, <3>1 DEF BucketHas, Counted
      <3>4. Cardinality(counted) <= Cardinality(OwnBefore(admitted', x))
        BY <2>2, <3>2, FinitePart
      <3> QED
        BY <1>7, <1>8, <2>2, <3>3, <3>4
    <2> QED
      BY <1>1, <2>3, <2>4
  <1> QED
    BY <1>10, <1>12, <1>13, <1>14 DEF GateInv

LEMMA GateFrame ==
  ASSUME GateInv, GateShape', UNCHANGED <<buckets, admitted>>, ticks <= ticks'
  PROVE  GateInv'
  <1>1. ticks \in Nat /\ ticks' \in Nat /\ Window \in Nat
    BY LimiterNumbers DEF GateInv, GateShape
  <1>2. ASSUME NEW s \in Limiters, NEW k \in KeysOf PROVE BucketInv(s, k)'
    <2>1. PICK b, c : /\ BucketHas(admitted, ticks, <<s, k>>, b, c)
                      /\ IF k \in DOMAIN buckets[s] THEN b = buckets[s][k] /\ b.count # 0 ELSE c = {}
      BY DEF GateInv, BucketInv
    <2>2. b.start \in Nat /\ b.start <= ticks
      BY <2>1 DEF BucketHas, Counted
    <2>3. \A t \in Nat : ticks' < t + Window => ClosedCap(admitted, <<s, k>>, c, t)
      BY <1>1, <2>1 DEF BucketHas
    <2>4. BucketHas(admitted', ticks', <<s, k>>, b, c)
      BY <1>1, <2>1, <2>2, <2>3 DEF BucketHas
    <2> QED
      BY <2>1, <2>4 DEF BucketInv
  <1>3. OwnBucket'
    BY DEF GateInv, OwnBucket
  <1>4. \A key : \A t \in Nat : Capped(admitted', key, t)
    BY DEF GateInv
  <1> QED
    BY <1>2, <1>3, <1>4 DEF GateInv

LEMMA GateHoldsFirst ==
  ASSUME GateInit
  PROVE  GateInv
  <1>1. admitted = {} /\ ticks = 0 /\ buckets = [s \in Limiters |-> [k \in {} |-> 0]]
        /\ handling = [h \in Handlers |-> NoRequest]
    BY DEF GateInit
  <1>2. IsFiniteSet(admitted) /\ Cardinality({}) = 0
    BY <1>1, FS_EmptySet
  <1>3. \A s \in Limiters : DOMAIN buckets[s] = {}
    BY <1>1
  <1>4. GateShape
    BY <1>1, <1>2, <1>3 DEF GateShape, Logged
  <1>5. ASSUME NEW all, all = {}, NEW key, NEW t \in Nat
        PROVE  Stretch(all, key, t) = {} /\ LateIn({}, t) = {}
    BY <1>5 DEF Stretch, LateIn
  <1>6. (2 + 0) * Limit \in Nat /\ (1 + 0) * Limit \in Nat
    BY LimiterNumbers
  <1>7. ASSUME NEW key, NEW t \in Nat PROVE Capped(admitted, key, t) /\ ClosedCap(admitted, key, {}, t)
    <2>1. Stretch(admitted, key, t) = {} /\ LateIn({}, t) = {} /\ {} \ {} = {}
      BY <1>1, <1>5
    <2> QED
      BY <1>2, <1>6, <2>1 DEF Capped, ClosedCap
  <1>8. ASSUME NEW s \in Limiters, NEW k \in KeysOf PROVE BucketInv(s, k)
    <2>1. PICK none : none = [start |-> 0, count |-> 0]
      OBVIOUS
    <2>2. none.start = 0 /\ none.count = 0
      BY <2>1
    <2>3. Counted(admitted, <<s, k>>, none, {})
      BY <2>2, EmptyCounted
    <2>4. BucketHas(admitted, ticks, <<s, k>>, none, {})
      BY <1>1, <1>7, <2>2, <2>3 DEF BucketHas
    <2> QED
      BY <1>3, <2>4 DEF BucketInv
  <1>9. OwnBucket
    BY <1>1 DEF OwnBucket
  <1> QED
    BY <1>4, <1>7, <1>8, <1>9 DEF GateInv

LEMMA GateStep ==
  ASSUME GateInv, [GateNext]_gateVars
  PROVE  GateInv'
  <1>1. CASE UNCHANGED gateVars
    <2>1. GateShape' /\ ticks <= ticks'
      BY <1>1 DEF GateInv, GateShape, gateVars
    <2> QED
      BY <1>1, <2>1, GateFrame DEF gateVars
  <1>2. CASE Tick
    <2>1. /\ ticks \in Nat /\ ticks' = ticks + 1 /\ UNCHANGED <<buckets, handling, admitted>>
      BY <1>2 DEF Tick, GateInv, GateShape
    <2>2. Logged(admitted, ticks')
      BY <2>1 DEF Logged, GateInv, GateShape
    <2>3. GateShape'
      BY <2>1, <2>2 DEF GateInv, GateShape
    <2> QED
      BY <2>1, <2>3, GateFrame
  <1>3. ASSUME NEW h \in Handlers, NEW r \in Arriving, Arrive(h, r) PROVE GateInv'
    <2>1. PICK u : u = [req |-> r, now |-> ticks]
      OBVIOUS
    <2>2. u.req = r /\ u.now = ticks /\ r \in Requests
      BY <2>1, ArrivingRequests
    <2>3. handling' = [handling EXCEPT ![h] = u] /\ UNCHANGED <<buckets, ticks, admitted>>
      BY <1>3, <2>1 DEF Arrive
    <2>4. GateShape'
      BY <2>2, <2>3 DEF GateInv, GateShape
    <2> QED
      BY <2>3, <2>4, GateFrame DEF GateInv, GateShape
  <1>4. ASSUME NEW h \in Handlers, Unlimited(h) PROVE GateInv'
    <2>1. handling' = [handling EXCEPT ![h] = NoRequest] /\ UNCHANGED <<buckets, ticks, admitted>>
      BY <1>4 DEF Unlimited, Passed
    <2>2. GateShape'
      BY <2>1 DEF GateInv, GateShape
    <2> QED
      BY <2>1, <2>2, GateFrame DEF GateInv, GateShape
  <1>5. ASSUME NEW h \in Handlers, Hit(h) PROVE GateInv'
    BY <1>5, HitKeeps
  <1> QED
    BY <1>1, <1>2, <1>3, <1>4, <1>5 DEF GateNext

\* What the remote server, the webhook and the dashboard let through: of each bucket no more in
\* the stretch of one window than two limits, and one for each request that had read the clock
\* before; and a caller with the credential is refused for nobody's requests but such.
THEOREM LimitsHoldHolds == GateSpec => []LimitsHold
  <1>1. GateInit => GateInv
    BY GateHoldsFirst
  <1>2. GateInv /\ [GateNext]_gateVars => GateInv'
    BY GateStep
  <1>3. GateInv => LimitsHold
    <2> SUFFICES ASSUME GateInv, NEW key, NEW t \in 0..MaxTicks
                 PROVE  Cardinality(Within(key, t)) <= (2 + Cardinality({a \in Within(key, t) : a.read < t})) * Limit
      BY DEF GateInv, LimitsHold, WindowCap
    <2>1. t \in Nat
      OBVIOUS
    <2>2. Within(key, t) = Stretch(admitted, key, t)
      BY DEF Within, Stretch
    <2> QED
      BY <2>1, <2>2 DEF GateInv, Capped, LateIn
  <1> QED
    BY <1>1, <1>2, <1>3, PTL DEF GateSpec

-----------------------------------------------------------------------------
(* The jobs of the scheduler's loop.  As long as no two loops have been    *)
(* between a question and its stamp together, what one has found out is    *)
(* still so when it writes: the digest is due, and today has no snapshot.  *)
At(place) == {p \in Schedulers : turn[p] = place}
AtMark == {p \in Schedulers : turn[p] = "mark"}
AtSend == {p \in Schedulers : turn[p] = "send"}

JobsShape ==
    /\ jobsNow \in Nat \ {0} /\ digestMark \in Nat /\ sent \in Nat /\ overlapped \in BOOLEAN
    /\ turn = [p \in Schedulers |-> turn[p]]
    /\ claims \in Seq(Nat) /\ daySnapshots \in Seq(Nat)
    /\ \A i \in DOMAIN daySnapshots : daySnapshots[i] <= jobsNow
\* The stamp is that of the last claim, ...
MarkIsLast ==
    /\ claims = <<>> => digestMark = 0
    /\ claims # <<>> => digestMark = claims[Len(claims)] /\ digestMark # 0 /\ digestMark <= jobsNow
    /\ \A i \in 1..Len(claims) : claims[i] <= digestMark
\* ... each of which has been, or will be, sent once.
SentOnce == sent + Cardinality(AtSend) <= Len(claims)
Apart ==
    ~overlapped =>
        /\ \A p, q \in Schedulers : Undecided(p) /\ Undecided(q) => p = q
        /\ \A p \in AtMark : IsDue(digestMark, DigestInterval)
        /\ \A i \in 1..Len(claims) - 1 : claims[i + 1] - claims[i] >= DigestInterval
        /\ \A p \in Schedulers : turn[p] = "capture"
              => \A i \in DOMAIN daySnapshots : daySnapshots[i] \div Day < jobsNow \div Day
        /\ \A i, j \in DOMAIN daySnapshots : daySnapshots[i] \div Day = daySnapshots[j] \div Day => i = j
JobsInv == JobsShape /\ MarkIsLast /\ SentOnce /\ Apart

LEMMA LaterDay ==
  ASSUME NEW x \in Nat, NEW y \in Nat, x <= y
  PROVE  x \div Day <= y \div Day /\ x \div Day \in Nat /\ y \div Day \in Nat
  BY PeriodsArePositive, SMTT(30)

LEMMA SendersFinite == IsFiniteSet(AtSend) /\ Cardinality(AtSend) \in Nat /\ IsFiniteSet(AtMark) /\ Cardinality(AtMark) \in Nat
  <1>1. AtSend \in SUBSET Schedulers /\ AtMark \in SUBSET Schedulers
    BY DEF AtSend, AtMark
  <1> QED
    BY <1>1, SchedulersFinite, FS_Subset, FS_CardinalityType

LEMMA JobsFirst ==
  ASSUME JobsInit
  PROVE  JobsInv
  <1>1. AtSend = {}
    BY DEF JobsInit, AtSend
  <1>2. SentOnce
    BY <1>1, FS_EmptySet DEF SentOnce, JobsInit
  <1>3. JobsShape
    <2>1. turn = [p \in Schedulers |-> turn[p]]
      BY DEF JobsInit
    <2>2. claims \in Seq(Nat) /\ daySnapshots \in Seq(Nat) /\ DOMAIN daySnapshots = {}
      BY DEF JobsInit
    <2>3. jobsNow \in Nat \ {0} /\ digestMark \in Nat /\ sent \in Nat
      BY DEF JobsInit
    <2>4. overlapped \in BOOLEAN
      BY DEF JobsInit
    <2> QED
      BY <2>1, <2>2, <2>3, <2>4 DEF JobsShape
  <1>5. MarkIsLast
    BY DEF JobsInit, MarkIsLast
  <1>4. Apart
    BY DEF JobsInit, Apart, AtMark, Undecided
  <1> QED
    BY <1>2, <1>3, <1>4, <1>5 DEF JobsInv

\* What a step of p's loop makes of the loops.
LEMMA StepsTo ==
  ASSUME JobsShape, NEW p \in Schedulers, NEW to, Steps(p, to)
  PROVE  /\ turn' = [q \in Schedulers |-> turn'[q]] /\ turn'[p] = to
         /\ \A q \in Schedulers \ {p} : turn'[q] = turn[q]
         /\ overlapped' \in BOOLEAN /\ (~overlapped' => ~overlapped)
         /\ ~overlapped' /\ to \in {"mark", "snapshot due", "capture"} =>
               \A q \in Schedulers \ {p} : turn[q] \notin {"mark", "snapshot due", "capture"}
  BY DEF JobsShape, Steps, Undecided

LEMMA AloneKept ==
  ASSUME JobsInv, NEW p \in Schedulers, NEW to, Steps(p, to)
  PROVE  ~overlapped' => \A q, r \in Schedulers : Undecided(q)' /\ Undecided(r)' => q = r
  BY StepsTo DEF JobsInv, Apart, Undecided

\* The loops at a place.
LEMMA AtKept ==
  ASSUME JobsShape, NEW place, NEW p \in Schedulers, turn' = [turn EXCEPT ![p] = turn'[p]]
  PROVE  /\ turn[p] # place /\ turn'[p] = place => Cardinality(At(place)') = Cardinality(At(place)) + 1
         /\ turn[p] = place /\ turn'[p] # place => Cardinality(At(place)') = Cardinality(At(place)) - 1
         /\ (turn[p] = place <=> turn'[p] = place) => Cardinality(At(place)') = Cardinality(At(place))
         /\ Cardinality(At(place)') \in Nat /\ Cardinality(At(place)) \in Nat
         /\ Cardinality(At(place)) <= Cardinality(Schedulers) /\ Cardinality(Schedulers) \in Nat
  <1>1. \A q \in Schedulers \ {p} : turn'[q] = turn[q]
    BY DEF JobsShape
  <1>2. At(place) \in SUBSET Schedulers /\ At(place)' \in SUBSET Schedulers
    BY DEF At
  <1>3. IsFiniteSet(At(place)) /\ Cardinality(At(place)) \in Nat /\ Cardinality(At(place)') \in Nat
        /\ Cardinality(At(place)) <= Cardinality(Schedulers) /\ Cardinality(Schedulers) \in Nat
    BY <1>2, SchedulersFinite, FS_Subset, FS_CardinalityType
  <1>4. At(place)' = IF turn'[p] = place THEN At(place) \cup {p} ELSE At(place) \ {p}
    BY <1>1 DEF At
  <1>5. p \in At(place) <=> turn[p] = place
    BY DEF At
  <1>6. Cardinality(At(place) \cup {p}) = IF p \in At(place) THEN Cardinality(At(place)) ELSE Cardinality(At(place)) + 1
    BY <1>3, FS_AddElement
  <1>7. Cardinality(At(place) \ {p}) = IF p \in At(place) THEN Cardinality(At(place)) - 1 ELSE Cardinality(At(place))
    BY <1>3, FS_RemoveElement
  <1>8. Cardinality(At(place)') = IF turn'[p] = place THEN Cardinality(At(place) \cup {p}) ELSE Cardinality(At(place) \ {p})
    BY <1>4
  <1> QED
    BY <1>3, <1>5, <1>6, <1>7, <1>8

\* Those at the sending of a digest.
LEMMA SendersKept ==
  ASSUME JobsShape, NEW p \in Schedulers, turn' = [turn EXCEPT ![p] = turn'[p]]
  PROVE  /\ turn[p] # "send" /\ turn'[p] = "send" => Cardinality(AtSend') = Cardinality(AtSend) + 1
         /\ turn'[p] # "send" => Cardinality(AtSend') <= Cardinality(AtSend)
         /\ turn[p] = "send" /\ turn'[p] # "send" => Cardinality(AtSend') = Cardinality(AtSend) - 1
         /\ Cardinality(AtSend') \in Nat
  <1>1. AtSend = At("send") /\ AtSend' = At("send")'
    BY DEF AtSend, At
  <1> QED
    BY <1>1, AtKept

LEMMA JobsStep ==
  ASSUME JobsInv, [JobsNext]_jobVars
  PROVE  JobsInv'
  <1> USE DEF JobsInv
  <1>1. CASE UNCHANGED jobVars
    BY <1>1 DEF jobVars, JobsShape, MarkIsLast, SentOnce, Apart, AtMark, AtSend, IsDue, Undecided
  <1>2. CASE JobsClock
    <2>1. jobsNow' = jobsNow + 1 /\ UNCHANGED <<digestMark, claims, sent, daySnapshots, turn, overlapped>>
      BY <1>2 DEF JobsClock, UnchangedDigest, UnchangedSnapshots
    <2>2. JobsShape'
      BY <2>1 DEF JobsShape
    <2>3. MarkIsLast' /\ SentOnce'
      BY <2>1 DEF JobsShape, MarkIsLast, SentOnce, AtSend
    <2>4. \A i \in DOMAIN daySnapshots : daySnapshots[i] \div Day < jobsNow \div Day
             => daySnapshots[i] \div Day < jobsNow' \div Day
      <3> SUFFICES ASSUME NEW i \in DOMAIN daySnapshots
                   PROVE  daySnapshots[i] \div Day < jobsNow \div Day => daySnapshots[i] \div Day < jobsNow' \div Day
        OBVIOUS
      <3>1. daySnapshots[i] \in Nat /\ jobsNow \in Nat /\ jobsNow' \in Nat /\ jobsNow <= jobsNow'
        BY <2>1 DEF JobsShape
      <3>2. jobsNow \div Day <= jobsNow' \div Day /\ jobsNow \div Day \in Nat /\ jobsNow' \div Day \in Nat
            /\ daySnapshots[i] \div Day \in Nat
        BY <3>1, LaterDay
      <3> QED
        BY <3>2
    <2>5. Apart'
      <3>1. digestMark \in Nat /\ jobsNow \in Nat /\ jobsNow' \in Nat
        BY <2>1 DEF JobsShape
      <3>2. IsDue(digestMark, DigestInterval) => IsDue(digestMark, DigestInterval)'
        BY <2>1, <3>1, PeriodsArePositive DEF IsDue
      <3>3. ~overlapped' => /\ \A p, q \in Schedulers : Undecided(p)' /\ Undecided(q)' => p = q
                            /\ \A p \in AtMark' : IsDue(digestMark, DigestInterval)'
        BY <2>1, <3>2 DEF Apart, AtMark, Undecided
      <3>4. ~overlapped' => /\ \A i \in 1..Len(claims') - 1 : claims'[i + 1] - claims'[i] >= DigestInterval
                            /\ \A i, j \in DOMAIN daySnapshots' : daySnapshots'[i] \div Day = daySnapshots'[j] \div Day => i = j
        BY <2>1 DEF Apart
      <3>5. ~overlapped' => \A p \in Schedulers : turn'[p] = "capture"
              => \A i \in DOMAIN daySnapshots' : daySnapshots'[i] \div Day < jobsNow' \div Day
        BY <2>1, <2>4 DEF Apart
      <3> QED
        BY <2>1, <3>3, <3>4, <3>5 DEF Apart
    <2> QED
      BY <2>2, <2>3, <2>5
  <1>4. ASSUME NEW p \in Schedulers, SchedulerKilled(p) PROVE JobsInv'
    <2>1. /\ turn' = [turn EXCEPT ![p] = "sleep"]
          /\ UNCHANGED <<jobsNow, digestMark, claims, sent, daySnapshots, overlapped>>
      BY <1>4 DEF SchedulerKilled, UnchangedDigest, UnchangedSnapshots
    <2>2. /\ turn' = [q \in Schedulers |-> turn'[q]] /\ turn'[p] = "sleep" /\ turn' = [turn EXCEPT ![p] = turn'[p]]
          /\ \A q \in Schedulers \ {p} : turn'[q] = turn[q]
      BY <2>1 DEF JobsShape
    <2>3. Cardinality(AtSend') <= Cardinality(AtSend) /\ Cardinality(AtSend') \in Nat /\ Cardinality(AtSend) \in Nat
      BY <2>2, SendersKept, SendersFinite
    <2>4. JobsShape' /\ MarkIsLast'
      BY <2>1, <2>2 DEF JobsShape, MarkIsLast
    <2>5. SentOnce'
      BY <2>1, <2>3 DEF SentOnce, JobsShape
    <2>6. Apart'
      BY <2>1, <2>2 DEF Apart, AtMark, IsDue, Undecided
    <2> QED
      BY <2>4, <2>5, <2>6
  <1>5. ASSUME NEW p \in Schedulers, Ask(p) PROVE JobsInv'
    <2>1. PICK to : /\ Steps(p, to) /\ to \in {"mark", "snapshot"}
                    /\ to = "mark" => IsDue(digestMark, DigestInterval)
      BY <1>5 DEF Ask, After
    <2>2. UNCHANGED <<jobsNow, digestMark, claims, sent, daySnapshots>>
      BY <1>5 DEF Ask, UnchangedDigest, UnchangedSnapshots, UnchangedTime
    <2>3. /\ turn' = [q \in Schedulers |-> turn'[q]] /\ turn'[p] = to
          /\ \A q \in Schedulers \ {p} : turn'[q] = turn[q]
          /\ overlapped' \in BOOLEAN /\ (~overlapped' => ~overlapped)
      BY <2>1, StepsTo
    <2>4. Cardinality(AtSend') <= Cardinality(AtSend) /\ Cardinality(AtSend') \in Nat /\ Cardinality(AtSend) \in Nat
      <3>1. turn' = [turn EXCEPT ![p] = turn'[p]] /\ turn'[p] # "send"
        BY <2>1, <2>3 DEF Steps
      <3> QED
        BY <3>1, SendersKept, SendersFinite
    <2>5. JobsShape' /\ MarkIsLast'
      BY <2>2, <2>3 DEF JobsShape, MarkIsLast
    <2>6. SentOnce'
      BY <2>2, <2>4 DEF SentOnce, JobsShape
    <2>7. Apart'
      <3>1. ~overlapped' => \A q, r \in Schedulers : Undecided(q)' /\ Undecided(r)' => q = r
        BY <2>1, AloneKept
      <3> QED
        BY <2>1, <2>2, <2>3, <3>1 DEF Apart, AtMark, IsDue
    <2> QED
      BY <2>5, <2>6, <2>7
  <1>6. ASSUME NEW p \in Schedulers, Claim(p) PROVE JobsInv'
    <2>1. /\ Steps(p, "send") /\ turn[p] = "mark" /\ digestMark' = jobsNow /\ claims' = Append(claims, jobsNow)
          /\ UNCHANGED <<jobsNow, sent, daySnapshots>>
      BY <1>6 DEF Claim, After, UnchangedSnapshots, UnchangedTime
    <2>2. /\ turn' = [q \in Schedulers |-> turn'[q]] /\ turn'[p] = "send"
          /\ \A q \in Schedulers \ {p} : turn'[q] = turn[q]
          /\ overlapped' \in BOOLEAN /\ (~overlapped' => ~overlapped)
      BY <2>1, StepsTo
    <2>3. /\ claims' \in Seq(Nat) /\ Len(claims') = Len(claims) + 1 /\ claims'[Len(claims')] = jobsNow
          /\ \A i \in 1..Len(claims) : claims'[i] = claims[i]
          /\ claims' # <<>> /\ Len(claims) \in Nat
      BY <2>1 DEF JobsShape
    <2>4. Cardinality(AtSend') = Cardinality(AtSend) + 1 /\ Cardinality(AtSend') \in Nat /\ Cardinality(AtSend) \in Nat
      <3>1. turn' = [turn EXCEPT ![p] = turn'[p]] /\ turn'[p] = "send" /\ turn[p] # "send"
        BY <2>1, <2>2 DEF Steps
      <3> QED
        BY <3>1, SendersKept, SendersFinite
    <2>5. JobsShape'
      BY <2>1, <2>2, <2>3 DEF JobsShape
    <2>6. MarkIsLast'
      BY <2>1, <2>3 DEF JobsShape, MarkIsLast
    <2>7. SentOnce'
      BY <2>1, <2>3, <2>4 DEF SentOnce, JobsShape
    <2>8. Apart'
      <3> SUFFICES ASSUME ~overlapped' PROVE Apart'
        BY DEF Apart
      <3>1. ~overlapped
        BY <2>2
      <3>2. \A q, r \in Schedulers : Undecided(q)' /\ Undecided(r)' => q = r
        BY <2>1, AloneKept
      <3>3. AtMark' = {}
        BY <2>1, <2>2, <3>1 DEF Apart, AtMark, Undecided
      <3>4. \A i \in 1..Len(claims') - 1 : claims'[i + 1] - claims'[i] >= DigestInterval
        <4> SUFFICES ASSUME NEW i \in 1..Len(claims') - 1 PROVE claims'[i + 1] - claims'[i] >= DigestInterval
          OBVIOUS
        <4>1. CASE i < Len(claims)
          <5>1. i \in 1..Len(claims) - 1 /\ claims'[i] = claims[i] /\ claims'[i + 1] = claims[i + 1]
            BY <2>3, <4>1
          <5> QED
            BY <3>1, <5>1 DEF Apart
        <4>2. CASE i = Len(claims)
          <5>1. claims # <<>> /\ claims'[i] = claims[Len(claims)] /\ claims'[i + 1] = jobsNow
            BY <2>3, <4>2
          <5>2. digestMark = claims[Len(claims)] /\ digestMark # 0
            BY <5>1 DEF MarkIsLast
          <5>3. IsDue(digestMark, DigestInterval)
            BY <2>1, <3>1 DEF Apart, AtMark
          <5> QED
            BY <5>1, <5>2, <5>3 DEF IsDue
        <4> QED
          BY <2>3, <4>1, <4>2
      <3> QED
        BY <2>1, <2>2, <3>1, <3>2, <3>3, <3>4 DEF Apart
    <2> QED
      BY <2>5, <2>6, <2>7, <2>8
  <1>7. ASSUME NEW p \in Schedulers, Send(p) \/ SendFails(p) PROVE JobsInv'
    <2>1. /\ Steps(p, "snapshot") /\ turn[p] = "send" /\ (sent' = sent \/ sent' = sent + 1)
          /\ UNCHANGED <<jobsNow, digestMark, claims, daySnapshots>>
      BY <1>7 DEF Send, SendFails, After, UnchangedDigest, UnchangedSnapshots, UnchangedTime
    <2>2. /\ turn' = [q \in Schedulers |-> turn'[q]] /\ turn'[p] = "snapshot"
          /\ \A q \in Schedulers \ {p} : turn'[q] = turn[q]
          /\ overlapped' \in BOOLEAN /\ (~overlapped' => ~overlapped)
      BY <2>1, StepsTo
    <2>3. Cardinality(AtSend') = Cardinality(AtSend) - 1 /\ Cardinality(AtSend') \in Nat /\ Cardinality(AtSend) \in Nat
      <3>1. turn' = [turn EXCEPT ![p] = turn'[p]] /\ turn'[p] # "send"
        BY <2>1, <2>2 DEF Steps
      <3> QED
        BY <2>1, <3>1, SendersKept, SendersFinite
    <2>4. JobsShape' /\ MarkIsLast'
      BY <2>1, <2>2 DEF JobsShape, MarkIsLast
    <2>5. SentOnce'
      BY <2>1, <2>3 DEF SentOnce, JobsShape
    <2>6. Apart'
      <3>1. ~overlapped' => \A q, r \in Schedulers : Undecided(q)' /\ Undecided(r)' => q = r
        BY <2>1, AloneKept
      <3> QED
        BY <2>1, <2>2, <3>1 DEF Apart, AtMark, IsDue
    <2> QED
      BY <2>4, <2>5, <2>6
  <1>8. ASSUME NEW p \in Schedulers, AskSnapshot(p) \/ MarkSnapshot(p) PROVE JobsInv'
    <2>1. PICK to : /\ Steps(p, to) /\ to \in {"snapshot due", "capture", "sleep"}
                    /\ to = "capture" => ~Today
      <3>1. CASE AskSnapshot(p)
        <4> DEFINE to == IF IsDue(snapshotMark, Day) THEN "snapshot due" ELSE "sleep"
        <4>1. Steps(p, to) /\ to \in {"snapshot due", "capture", "sleep"} /\ to # "capture"
          BY <3>1 DEF AskSnapshot
        <4> QED
          BY <4>1
      <3>2. CASE MarkSnapshot(p)
        <4> DEFINE to == IF Today THEN "sleep" ELSE "capture"
        <4>1. Steps(p, to) /\ to \in {"snapshot due", "capture", "sleep"} /\ (to = "capture" => ~Today)
          BY <3>2 DEF MarkSnapshot
        <4> QED
          BY <4>1
      <3> QED
        BY <1>8, <3>1, <3>2
    <2>2. UNCHANGED <<jobsNow, digestMark, claims, sent, daySnapshots>>
      BY <1>8 DEF AskSnapshot, MarkSnapshot, UnchangedDigest, UnchangedSnapshots, UnchangedTime
    <2>3. /\ turn' = [q \in Schedulers |-> turn'[q]] /\ turn'[p] = to
          /\ \A q \in Schedulers \ {p} : turn'[q] = turn[q]
          /\ overlapped' \in BOOLEAN /\ (~overlapped' => ~overlapped)
      BY <2>1, StepsTo
    <2>4. Cardinality(AtSend') <= Cardinality(AtSend) /\ Cardinality(AtSend') \in Nat /\ Cardinality(AtSend) \in Nat
      <3>1. turn' = [turn EXCEPT ![p] = turn'[p]] /\ turn'[p] # "send"
        BY <2>1, <2>3 DEF Steps
      <3> QED
        BY <3>1, SendersKept, SendersFinite
    <2>5. JobsShape' /\ MarkIsLast'
      BY <2>2, <2>3 DEF JobsShape, MarkIsLast
    <2>6. SentOnce'
      BY <2>2, <2>4 DEF SentOnce, JobsShape
    <2>7. Apart'
      <3>1. ~overlapped' => \A q, r \in Schedulers : Undecided(q)' /\ Undecided(r)' => q = r
        BY <2>1, AloneKept
      <3>2. ~Today => \A i \in DOMAIN daySnapshots : daySnapshots[i] \div Day < jobsNow \div Day
        <4> SUFFICES ASSUME ~Today, NEW i \in DOMAIN daySnapshots
                     PROVE  daySnapshots[i] \div Day < jobsNow \div Day
          OBVIOUS
        <4>1. daySnapshots[i] \in Nat /\ jobsNow \in Nat /\ daySnapshots[i] <= jobsNow
          BY DEF JobsShape
        <4>2. /\ daySnapshots[i] \div Day <= jobsNow \div Day /\ daySnapshots[i] \div Day \in Nat
              /\ jobsNow \div Day \in Nat
          BY <4>1, LaterDay
        <4>3. daySnapshots[i] \div Day # jobsNow \div Day
          BY DEF Today
        <4> QED
          BY <4>2, <4>3
      <3> QED
        BY <2>1, <2>2, <2>3, <3>1, <3>2 DEF Apart, AtMark, IsDue
    <2> QED
      BY <2>5, <2>6, <2>7
  <1>9. ASSUME NEW p \in Schedulers, CaptureSnapshot(p) PROVE JobsInv'
    <2>1. /\ Steps(p, "sleep") /\ turn[p] = "capture" /\ daySnapshots' = Append(daySnapshots, jobsNow)
          /\ UNCHANGED <<jobsNow, digestMark, claims, sent>>
      BY <1>9 DEF CaptureSnapshot, UnchangedDigest, UnchangedTime
    <2>2. /\ turn' = [q \in Schedulers |-> turn'[q]] /\ turn'[p] = "sleep"
          /\ \A q \in Schedulers \ {p} : turn'[q] = turn[q]
          /\ overlapped' \in BOOLEAN /\ (~overlapped' => ~overlapped)
      BY <2>1, StepsTo
    <2>3. /\ daySnapshots' \in Seq(Nat) /\ DOMAIN daySnapshots' = DOMAIN daySnapshots \cup {Len(daySnapshots) + 1}
          /\ daySnapshots'[Len(daySnapshots) + 1] = jobsNow
          /\ \A i \in DOMAIN daySnapshots : daySnapshots'[i] = daySnapshots[i]
          /\ Len(daySnapshots) + 1 \notin DOMAIN daySnapshots
      BY <2>1 DEF JobsShape
    <2>4. Cardinality(AtSend') <= Cardinality(AtSend) /\ Cardinality(AtSend') \in Nat /\ Cardinality(AtSend) \in Nat
      <3>1. turn' = [turn EXCEPT ![p] = turn'[p]] /\ turn'[p] # "send"
        BY <2>1, <2>2 DEF Steps
      <3> QED
        BY <3>1, SendersKept, SendersFinite
    <2>5. JobsShape' /\ MarkIsLast'
      BY <2>1, <2>2, <2>3 DEF JobsShape, MarkIsLast
    <2>6. SentOnce'
      BY <2>1, <2>4 DEF SentOnce, JobsShape
    <2>7. Apart'
      <3> SUFFICES ASSUME ~overlapped' PROVE Apart'
        BY DEF Apart
      <3>1. ~overlapped
        BY <2>2
      <3>2. \A q, r \in Schedulers : Undecided(q)' /\ Undecided(r)' => q = r
        BY <2>1, AloneKept
      <3>3. \A q \in Schedulers : turn'[q] # "capture"
        BY <2>1, <2>2, <3>1 DEF Apart, Undecided
      <3>4. /\ \A i \in DOMAIN daySnapshots : daySnapshots[i] \div Day < jobsNow \div Day
            /\ \A i \in DOMAIN daySnapshots : daySnapshots[i] \div Day \in Nat /\ jobsNow \div Day \in Nat
        <4>1. \A i \in DOMAIN daySnapshots : daySnapshots[i] \div Day < jobsNow \div Day
          BY <2>1, <3>1 DEF Apart
        <4>2. \A i \in DOMAIN daySnapshots : daySnapshots[i] \in Nat /\ jobsNow \in Nat /\ daySnapshots[i] <= jobsNow
          BY DEF JobsShape
        <4> QED
          BY <4>1, <4>2, LaterDay
      <3>5. \A i, j \in DOMAIN daySnapshots' : daySnapshots'[i] \div Day = daySnapshots'[j] \div Day => i = j
        <4>1. \A i, j \in DOMAIN daySnapshots : daySnapshots[i] \div Day = daySnapshots[j] \div Day => i = j
          BY <3>1 DEF Apart
        <4>2. \A i \in DOMAIN daySnapshots : daySnapshots[i] \div Day # jobsNow \div Day
          BY <3>4
        <4> QED
          BY <2>3, <4>1, <4>2
      <3>6. \A q \in AtMark' : IsDue(digestMark, DigestInterval)'
        BY <2>1, <2>2, <3>1 DEF Apart, AtMark, IsDue
      <3>7. \A i \in 1..Len(claims') - 1 : claims'[i + 1] - claims'[i] >= DigestInterval
        BY <2>1, <3>1 DEF Apart
      <3> QED
        BY <3>2, <3>3, <3>5, <3>6, <3>7 DEF Apart
    <2> QED
      BY <2>5, <2>6, <2>7
  <1> QED
    BY <1>1, <1>2, <1>4, <1>5, <1>6, <1>7, <1>8, <1>9 DEF JobsNext

\* While a claim is recent, each later one, and each loop about to claim, is another server's, ...
FewClaims ==
    \A i \in 1..Len(claims) :
        /\ jobsNow - claims[i] < DigestInterval
           => (Len(claims) - i) + Cardinality(At("mark")) + 1 <= Cardinality(Schedulers)
        /\ i + Cardinality(Schedulers) <= Len(claims)
           => claims[i + Cardinality(Schedulers)] - claims[i] >= DigestInterval
\* ... and so is each snapshot of a day that has one.
OfDay(day) == {i \in DOMAIN daySnapshots : daySnapshots[i] \div Day = day}
FewOfDay ==
    /\ \A day : Cardinality(OfDay(day)) <= Cardinality(Schedulers)
    /\ Today => Cardinality(OfDay(jobsNow \div Day)) + Cardinality(At("capture")) <= Cardinality(Schedulers)

LEMMA DayFinite ==
  ASSUME JobsShape, NEW day
  PROVE  IsFiniteSet(OfDay(day)) /\ Cardinality(OfDay(day)) \in Nat
  <1>1. OfDay(day) \in SUBSET 1..Len(daySnapshots) /\ Len(daySnapshots) \in Int
    BY DEF OfDay, JobsShape
  <1>2. IsFiniteSet(1..Len(daySnapshots))
    BY <1>1, FS_Interval
  <1>3. IsFiniteSet(OfDay(day))
    BY <1>1, <1>2, FS_Subset
  <1> QED
    BY <1>3, FS_CardinalityType

\* No one claims, captures, or comes to do so while it matters.
LEMMA FewStay ==
  ASSUME FewClaims, FewOfDay, UNCHANGED <<jobsNow, claims, daySnapshots>>,
         Cardinality(At("mark")) \in Nat, Cardinality(At("mark")') \in Nat, Cardinality(Schedulers) \in Nat,
         Cardinality(At("capture")) \in Nat, Cardinality(At("capture")') \in Nat, JobsShape,
         \/ Cardinality(At("mark")') <= Cardinality(At("mark"))
         \/ \A i \in 1..Len(claims) : ~(jobsNow - claims[i] < DigestInterval),
         Cardinality(At("capture")') <= Cardinality(At("capture")) \/ ~Today
  PROVE  FewClaims' /\ FewOfDay'
  <1>1. FewClaims'
    <2> SUFFICES ASSUME NEW i \in 1..Len(claims), jobsNow - claims[i] < DigestInterval
                 PROVE  (Len(claims) - i) + Cardinality(At("mark")') + 1 <= Cardinality(Schedulers)
      BY DEF FewClaims
    <2>1. (Len(claims) - i) + Cardinality(At("mark")) + 1 <= Cardinality(Schedulers) /\ Len(claims) \in Nat
      BY DEF FewClaims, JobsShape
    <2> QED
      BY <2>1
  <1>2. FewOfDay'
    <2>1. \A day : OfDay(day)' = OfDay(day)
      BY DEF OfDay
    <2>2. Today' <=> Today
      BY DEF Today
    <2>3. Cardinality(OfDay(jobsNow \div Day)) \in Nat
      BY DayFinite
    <2> QED
      BY <2>1, <2>2, <2>3 DEF FewOfDay
  <1> QED
    BY <1>1, <1>2

LEMMA FewStep ==
  ASSUME JobsInv, FewClaims, FewOfDay, [JobsNext]_jobVars
  PROVE  FewClaims' /\ FewOfDay'
  <1> DEFINE servers == Cardinality(Schedulers)
  <1>0. JobsShape /\ MarkIsLast /\ Len(claims) \in Nat /\ Len(daySnapshots) \in Nat /\ DigestInterval \in Nat \ {0}
        /\ jobsNow \in Nat /\ digestMark \in Nat /\ \A i \in 1..Len(claims) : claims[i] \in Nat
    BY PeriodsArePositive DEF JobsInv, JobsShape
  <1>1. CASE UNCHANGED jobVars
    BY <1>1 DEF jobVars, FewClaims, FewOfDay, OfDay, At, Today
  <1>2. CASE JobsClock
    <2>1. jobsNow' = jobsNow + 1 /\ UNCHANGED <<claims, daySnapshots, turn>>
      BY <1>2 DEF JobsClock, UnchangedDigest, UnchangedSnapshots
    <2>2. \A place : At(place)' = At(place)
      BY <2>1 DEF At
    <2>3. FewClaims'
      <3>1. \A i \in 1..Len(claims) : jobsNow' - claims[i] < DigestInterval => jobsNow - claims[i] < DigestInterval
        BY <1>0, <2>1
      <3> QED
        BY <2>1, <2>2, <3>1 DEF FewClaims
    <2>4. \A day : OfDay(day)' = OfDay(day)
      BY <2>1 DEF OfDay
    <2>5. Today' => Today /\ jobsNow' \div Day = jobsNow \div Day
      <3> SUFFICES ASSUME NEW i \in DOMAIN daySnapshots, daySnapshots[i] \div Day = jobsNow' \div Day
                   PROVE  Today /\ jobsNow' \div Day = jobsNow \div Day
        BY <2>1 DEF Today
      <3>1. daySnapshots[i] \in Nat /\ daySnapshots[i] <= jobsNow /\ jobsNow <= jobsNow' /\ jobsNow' \in Nat
        BY <1>0, <2>1 DEF JobsShape
      <3>2. /\ daySnapshots[i] \div Day <= jobsNow \div Day /\ jobsNow \div Day <= jobsNow' \div Day
            /\ daySnapshots[i] \div Day \in Nat /\ jobsNow \div Day \in Nat /\ jobsNow' \div Day \in Nat
        BY <1>0, <3>1, LaterDay
      <3>3. daySnapshots[i] \div Day = jobsNow \div Day
        BY <3>2
      <3> QED
        BY <3>3 DEF Today
    <2> QED
      BY <2>2, <2>3, <2>4, <2>5 DEF FewOfDay
  <1>3. ASSUME NEW p \in Schedulers, turn' = [turn EXCEPT ![p] = turn'[p]], UNCHANGED <<jobsNow, claims, daySnapshots>>,
               \/ ~(turn[p] # "mark" /\ turn'[p] = "mark")
               \/ \A i \in 1..Len(claims) : ~(jobsNow - claims[i] < DigestInterval),
               ~(turn[p] # "capture" /\ turn'[p] = "capture") \/ ~Today
        PROVE  FewClaims' /\ FewOfDay'
    <2>1. /\ Cardinality(At("mark")') <= Cardinality(At("mark")) \/ (turn[p] # "mark" /\ turn'[p] = "mark")
          /\ Cardinality(At("capture")') <= Cardinality(At("capture")) \/ (turn[p] # "capture" /\ turn'[p] = "capture")
          /\ Cardinality(At("mark")) \in Nat /\ Cardinality(At("mark")') \in Nat /\ servers \in Nat
          /\ Cardinality(At("capture")) \in Nat /\ Cardinality(At("capture")') \in Nat
      <3>1. \A place : Cardinality(At(place)') <= Cardinality(At(place)) \/ (turn[p] # place /\ turn'[p] = place)
        BY <1>0, <1>3, AtKept
      <3> QED
        BY <1>0, <1>3, <3>1, AtKept
    <2> QED
      BY <1>0, <1>3, <2>1, FewStay
  <1>4. ASSUME NEW p \in Schedulers, NEW to, Steps(p, to)
        PROVE  turn' = [turn EXCEPT ![p] = turn'[p]] /\ turn'[p] = to
    <2>1. turn' = [turn EXCEPT ![p] = to]
      BY <1>4 DEF Steps
    <2> QED
      BY <1>0, <2>1 DEF JobsShape
  <1>5. ASSUME NEW p \in Schedulers, SchedulerKilled(p) PROVE FewClaims' /\ FewOfDay'
    <2>1. turn' = [turn EXCEPT ![p] = "sleep"] /\ UNCHANGED <<jobsNow, claims, daySnapshots>>
      BY <1>5 DEF SchedulerKilled, UnchangedDigest, UnchangedSnapshots
    <2>2. turn' = [turn EXCEPT ![p] = turn'[p]] /\ turn'[p] = "sleep"
      BY <1>0, <2>1 DEF JobsShape
    <2> QED
      BY <1>3, <2>1, <2>2
  <1>6. ASSUME NEW p \in Schedulers, Ask(p) PROVE FewClaims' /\ FewOfDay'
    <2>1. PICK to : Steps(p, to) /\ to \in {"mark", "snapshot"} /\ (to = "mark" => IsDue(digestMark, DigestInterval))
      BY <1>6 DEF Ask, After
    <2>2. UNCHANGED <<jobsNow, claims, daySnapshots>>
      BY <1>6 DEF Ask, UnchangedDigest, UnchangedSnapshots, UnchangedTime
    <2>3. IsDue(digestMark, DigestInterval) => \A i \in 1..Len(claims) : ~(jobsNow - claims[i] < DigestInterval)
      BY <1>0 DEF IsDue, MarkIsLast
    <2> QED
      BY <1>3, <1>4, <2>1, <2>2, <2>3
  <1>7. ASSUME NEW p \in Schedulers, Send(p) \/ SendFails(p) PROVE FewClaims' /\ FewOfDay'
    <2>1. Steps(p, "snapshot") /\ UNCHANGED <<jobsNow, claims, daySnapshots>>
      BY <1>7 DEF Send, SendFails, After, UnchangedDigest, UnchangedSnapshots, UnchangedTime
    <2> QED
      BY <1>3, <1>4, <2>1
  <1>8. ASSUME NEW p \in Schedulers, AskSnapshot(p) \/ MarkSnapshot(p) PROVE FewClaims' /\ FewOfDay'
    <2>1. UNCHANGED <<jobsNow, claims, daySnapshots>>
      BY <1>8 DEF AskSnapshot, MarkSnapshot, UnchangedDigest, UnchangedSnapshots, UnchangedTime
    <2>2. CASE AskSnapshot(p)
      <3> DEFINE to == IF IsDue(snapshotMark, Day) THEN "snapshot due" ELSE "sleep"
      <3>1. Steps(p, to) /\ to # "mark" /\ to # "capture"
        BY <2>2 DEF AskSnapshot
      <3> QED
        BY <1>3, <1>4, <2>1, <3>1
    <2>3. CASE MarkSnapshot(p)
      <3> DEFINE to == IF Today THEN "sleep" ELSE "capture"
      <3>1. Steps(p, to) /\ to # "mark" /\ (to = "capture" => ~Today)
        BY <2>3 DEF MarkSnapshot
      <3> QED
        BY <1>3, <1>4, <2>1, <3>1
    <2> QED
      BY <1>8, <2>2, <2>3
  <1>9. ASSUME NEW p \in Schedulers, Claim(p) PROVE FewClaims' /\ FewOfDay'
    <2>1. /\ Steps(p, "send") /\ turn[p] = "mark" /\ claims' = Append(claims, jobsNow)
          /\ UNCHANGED <<jobsNow, daySnapshots>>
      BY <1>9 DEF Claim, After, UnchangedSnapshots, UnchangedTime
    <2>2. turn' = [turn EXCEPT ![p] = turn'[p]] /\ turn'[p] = "send"
      BY <1>4, <2>1
    <2>3. /\ Cardinality(At("mark")') = Cardinality(At("mark")) - 1 /\ Cardinality(At("mark")') \in Nat
          /\ Cardinality(At("mark")) \in Nat /\ servers \in Nat /\ Cardinality(At("mark")) <= servers
          /\ Cardinality(At("capture")') = Cardinality(At("capture"))
      BY <1>0, <2>1, <2>2, AtKept
    <2>4. /\ Len(claims') = Len(claims) + 1 /\ claims'[Len(claims) + 1] = jobsNow
          /\ \A i \in 1..Len(claims) : claims'[i] = claims[i]
      BY <1>0, <2>1 DEF JobsShape
    <2> HIDE DEF servers
    <2>5. ASSUME NEW i \in 1..Len(claims'), jobsNow - claims'[i] < DigestInterval
          PROVE  (Len(claims') - i) + Cardinality(At("mark")') + 1 <= servers
      <3>1. CASE i = Len(claims) + 1
        BY <2>3, <2>4, <3>1
      <3>2. CASE i \in 1..Len(claims)
        <4>1. (Len(claims) - i) + Cardinality(At("mark")) + 1 <= servers
          BY <2>4, <2>5, <3>2 DEF FewClaims, servers
        <4> QED
          BY <1>0, <2>3, <2>4, <4>1
      <3> QED
        BY <1>0, <2>4, <3>1, <3>2
    <2>6. ASSUME NEW i \in 1..Len(claims'), i + servers <= Len(claims')
          PROVE  claims'[i + servers] - claims'[i] >= DigestInterval
      <3>1. servers # 0
        BY <2>3
      <3>2. i \in 1..Len(claims)
        BY <1>0, <2>3, <2>4, <2>6, <3>1
      <3>3. CASE i + servers <= Len(claims)
        <4>1. i + servers \in 1..Len(claims)
          BY <1>0, <2>3, <3>2, <3>3
        <4>2. claims[i + servers] - claims[i] >= DigestInterval
          BY <3>2, <3>3 DEF FewClaims, servers
        <4> QED
          BY <2>4, <3>2, <4>1, <4>2
      <3>4. CASE i + servers = Len(claims) + 1
        <4>1. ~(jobsNow - claims[i] < DigestInterval)
          <5>1. ~((Len(claims) - i) + Cardinality(At("mark")) + 1 <= servers)
            BY <1>0, <2>3, <3>2, <3>4
          <5> QED
            BY <3>2, <5>1 DEF FewClaims, servers
        <4> QED
          BY <1>0, <2>4, <3>2, <3>4, <4>1
      <3>5. i + servers <= Len(claims) \/ i + servers = Len(claims) + 1
        <4>1. i + servers <= Len(claims) + 1 /\ i \in Int /\ servers \in Int
          BY <2>3, <2>4, <2>6, <3>2
        <4> QED
          BY <1>0, <4>1
      <3> QED
        BY <3>3, <3>4, <3>5
    <2>7. FewClaims'
      BY <2>1, <2>5, <2>6 DEF FewClaims, servers
    <2>8. FewOfDay'
      <3>1. (\A day : OfDay(day)' = OfDay(day)) /\ (Today' <=> Today)
        BY <2>1 DEF OfDay, Today
      <3> QED
        BY <2>1, <2>3, <3>1 DEF FewOfDay
    <2> QED
      BY <2>7, <2>8
  <1>10. ASSUME NEW p \in Schedulers, CaptureSnapshot(p) PROVE FewClaims' /\ FewOfDay'
    <2>1. /\ Steps(p, "sleep") /\ turn[p] = "capture" /\ daySnapshots' = Append(daySnapshots, jobsNow)
          /\ UNCHANGED <<jobsNow, claims>>
      BY <1>10 DEF CaptureSnapshot, UnchangedDigest, UnchangedTime
    <2>2. turn' = [turn EXCEPT ![p] = turn'[p]] /\ turn'[p] = "sleep"
      BY <1>4, <2>1
    <2>3. /\ Cardinality(At("capture")') = Cardinality(At("capture")) - 1 /\ Cardinality(At("capture")') \in Nat
          /\ Cardinality(At("capture")) \in Nat /\ servers \in Nat /\ Cardinality(At("capture")) <= servers
          /\ Cardinality(At("mark")') = Cardinality(At("mark"))
      BY <1>0, <2>1, <2>2, AtKept
    <2>4. FewClaims'
      BY <2>1, <2>3 DEF FewClaims
    <2> DEFINE today == jobsNow \div Day
               last == Len(daySnapshots) + 1
    <2>5. /\ DOMAIN daySnapshots' = DOMAIN daySnapshots \cup {last} /\ last \notin DOMAIN daySnapshots
          /\ daySnapshots'[last] = jobsNow
          /\ \A i \in DOMAIN daySnapshots : daySnapshots'[i] = daySnapshots[i]
      BY <1>0, <2>1 DEF JobsShape
    <2> HIDE DEF last, servers
    <2>6. /\ OfDay(today)' = OfDay(today) \cup {last} /\ last \notin OfDay(today)
          /\ \A day : day # today => OfDay(day)' = OfDay(day)
      BY <2>1, <2>5 DEF OfDay
    <2>7. IsFiniteSet(OfDay(today)) /\ Cardinality(OfDay(today)) \in Nat
      BY <1>0, DayFinite
    <2>8. Cardinality(OfDay(today)') = Cardinality(OfDay(today)) + 1
      BY <2>6, <2>7, FS_AddElement
    <2>9. Cardinality(OfDay(today)') + Cardinality(At("capture")') <= servers
      <3>1. CASE Today
        BY <2>3, <2>7, <2>8, <3>1 DEF FewOfDay, servers
      <3>2. CASE ~Today
        <4>1. OfDay(today) = {}
          BY <3>2 DEF OfDay, Today
        <4>2. Cardinality(OfDay(today)) = 0
          BY <4>1, FS_EmptySet
        <4> QED
          BY <2>3, <2>8, <4>2
      <3> QED
        BY <3>1, <3>2
    <2>10. FewOfDay'
      <3>1. \A day : Cardinality(OfDay(day)') <= servers
        <4>1. Cardinality(OfDay(today)') <= servers
          BY <2>3, <2>7, <2>8, <2>9
        <4>2. ASSUME NEW day, day # today PROVE Cardinality(OfDay(day)') <= servers
          BY <2>6, <4>2 DEF FewOfDay, servers
        <4>0. today' = today
          BY <2>1
        <4> HIDE DEF today
        <4>3. ASSUME NEW day PROVE Cardinality(OfDay(day)') <= servers
          <5>1. CASE day = today
            BY <4>0, <4>1, <5>1
          <5> QED
            BY <4>2, <5>1
        <4> QED
          BY <4>3
      <3>2. jobsNow' \div Day = today
        BY <2>1
      <3> QED
        BY <2>9, <3>1, <3>2 DEF FewOfDay, servers
    <2> QED
      BY <2>4, <2>10
  <1> QED
    BY <1>1, <1>2, <1>5, <1>6, <1>7, <1>8, <1>9, <1>10 DEF JobsNext

\* A digest goes out once for each claim at most (maybe_send_scheduled_digest).  Of the digests
\* claimed within an interval, and of the snapshots of a day, there are no more than servers; they
\* are an interval apart, and one a day, as long as no two loops are between a question and its
\* stamp together: for any number of servers, intervals and kills.
THEOREM DigestsRightHolds == JobsSpec => []DigestsRight
  <1>1. JobsInit => JobsInv /\ FewClaims /\ FewOfDay
    <2> SUFFICES ASSUME JobsInit PROVE JobsInv /\ FewClaims /\ FewOfDay
      OBVIOUS
    <2>1. Len(claims) = 0 /\ DOMAIN daySnapshots = {} /\ \A day : OfDay(day) = {}
      BY DEF JobsInit, OfDay
    <2>2. Cardinality(Schedulers) \in Nat /\ \A day : Cardinality(OfDay(day)) = 0
      BY <2>1, SchedulersFinite, FS_CardinalityType, FS_EmptySet
    <2> QED
      BY <2>1, <2>2, JobsFirst DEF FewClaims, FewOfDay, Today
  <1>2. JobsInv /\ FewClaims /\ FewOfDay /\ [JobsNext]_jobVars => (JobsInv /\ FewClaims /\ FewOfDay)'
    BY JobsStep, FewStep
  <1>3. JobsInv /\ FewClaims /\ FewOfDay => DigestsRight
    <2> SUFFICES ASSUME JobsInv, FewClaims, FewOfDay PROVE DigestsRight
      OBVIOUS
    <2>1. sent <= Len(claims)
      <3>1. Cardinality(AtSend) \in Nat /\ sent \in Nat /\ Len(claims) \in Nat
        BY SendersFinite DEF JobsInv, JobsShape
      <3> QED
        BY <3>1 DEF JobsInv, SentOnce
    <2>2. NoMoreThanServers
      <3>1. \A day : Cardinality({i \in DOMAIN daySnapshots : daySnapshots[i] \div Day = day}) <= Cardinality(Schedulers)
        BY DEF FewOfDay, OfDay
      <3> QED
        BY <3>1 DEF NoMoreThanServers, FewClaims
    <2>3. JobsSpaced
      BY DEF JobsInv, Apart, JobsSpaced
    <2> QED
      BY <2>1, <2>2, <2>3 DEF DigestsRight
  <1> QED
    BY <1>1, <1>2, <1>3, PTL DEF JobsSpec
=============================================================================
