---------------------------- MODULE HubSyncProofs ----------------------------
(* Theorems about HubSync for every number of nodes, memories, writes and  *)
(* faults and for every size of batches and pages: its types; the push     *)
(* path, which loses no write as long as the hub refuses no record,        *)
(* however pushes are batched, cut off, repeated or worked off in          *)
(* parallel; that HubSync implements the last-write-wins store of          *)
(* Replication, whatever is refused, interrupted or reset; and the pull    *)
(* path, which leaves no version behind a cursor but those the hub         *)
(* commits out of order and those a node fails to store.                   *)
EXTENDS HubSync, FiniteSetTheorems, TLAPS

USE DEF Stamps, Recs, Requests, States, Unknown

-----------------------------------------------------------------------------
(* Type correctness.                                                       *)

LEMMA InitType == Init => TypeOK
  BY BoundsAssumption DEF Init, TypeOK

\* The record that takes the place of another one in reqs keeps the type.
LEMMA ReplaceType ==
  ASSUME reqs \subseteq Requests, NEW q, NEW r \in Requests, Replace(q, r)
  PROVE  reqs' \subseteq Requests
  BY DEF Replace

LEMMA StepType == TypeOK /\ [Next]_vars => TypeOK'
  <1> SUFFICES ASSUME TypeOK, [Next]_vars PROVE TypeOK'
    OBVIOUS
  <1> USE BoundsAssumption, SizesAssumption, HubAssumption
  <1>1. ASSUME NEW n \in Nodes, NEW m \in Mems, Edit(n, m) PROVE TypeOK'
    BY <1>1 DEF Edit, OutboxRow, TypeOK, histVars, pushVars, pullVars, hubVars
  <1>2. ASSUME NEW n \in Nodes, BeginCycle(n) PROVE TypeOK'
    BY <1>2 DEF BeginCycle, GoTo, TypeOK, histVars, pushVars, pullVars, hubVars
  <1>3. ASSUME NEW n \in Nodes, PushBatch(n) PROVE TypeOK'
    <2>1. PICK B \in SUBSET pending[n] :
             /\ batch' = [batch EXCEPT ![n] = B]
             /\ IF B = {}
                   THEN /\ GoTo(n, "start")
                        /\ after' = [after EXCEPT ![n] = 0]
                        /\ UNCHANGED reqs
                   ELSE /\ GoTo(n, "sent")
                        /\ \E last \in B : after' = [after EXCEPT ![n] = last.key]
                        /\ reqs' = reqs \cup {[node |-> n, todo |-> B, open |-> {},
                                               ok |-> {}, lost |-> 0]}
      BY <1>3 DEF PushBatch
    <2>2. B \in SUBSET Recs
      BY <2>1 DEF TypeOK
    <2>3. batch' \in [Nodes -> SUBSET Recs]
      BY <2>1, <2>2 DEF TypeOK
    <2>4. after' \in [Nodes -> Nat]
      <3>1. CASE B = {}
        <4>1. after' = [after EXCEPT ![n] = 0]
          BY <2>1, <3>1
        <4> QED BY <4>1 DEF TypeOK
      <3>2. ASSUME NEW last \in B, after' = [after EXCEPT ![n] = last.key]
            PROVE  after' \in [Nodes -> Nat]
        <4>1. last.key \in Nat
          BY <2>2
        <4> QED BY <3>2, <4>1 DEF TypeOK
      <3> QED BY <2>1, <3>1, <3>2
    <2>5. reqs' \subseteq Requests
      <3>1. [node |-> n, todo |-> B, open |-> {}, ok |-> {}, lost |-> 0] \in Requests
        BY <2>2
      <3> QED BY <2>1, <3>1 DEF TypeOK
    <2>6. pc' \in [Nodes -> States]
      BY <2>1 DEF TypeOK, GoTo
    <2> QED BY <1>3, <2>3, <2>4, <2>5, <2>6
            DEF PushBatch, TypeOK, histVars, pushVars, pullVars, hubVars
  <1>4. ASSUME NEW n \in Nodes, PushAck(n) PROVE TypeOK'
    <2>1. pc' \in [Nodes -> States] /\ after' \in [Nodes -> Nat]
      <3>1. \/ GoTo(n, "push") /\ after' = after
            \/ GoTo(n, "start") /\ after' = [after EXCEPT ![n] = 0]
        BY <1>4 DEF PushAck
      <3>2. CASE GoTo(n, "push") /\ after' = after
        BY <3>2 DEF GoTo, TypeOK
      <3>3. CASE GoTo(n, "start") /\ after' = [after EXCEPT ![n] = 0]
        BY <3>3 DEF GoTo, TypeOK
      <3> QED BY <3>1, <3>2, <3>3
    <2>2. PICK q \in reqs :
             /\ reqs' = reqs \ {q}
             /\ pending' = [pending EXCEPT
                              ![n] = @ \ {r \in batch[n] : r.mem \in q.ok}]
      BY <1>4 DEF PushAck
    <2>3. reqs' \subseteq Requests /\ pending' \in [Nodes -> SUBSET Recs]
      BY <2>2 DEF TypeOK
    <2>4. batch' \in [Nodes -> SUBSET Recs]
      BY <1>4 DEF PushAck, TypeOK
    <2> QED BY <1>4, <2>1, <2>3, <2>4 DEF PushAck, TypeOK, histVars, pullVars, hubVars
  <1>5. ASSUME NEW n \in Nodes, StartPull(n) PROVE TypeOK'
    <2>1. lpos' \in [Nodes -> Nat]
      <3>1. CASE cursor[n] = Unknown
        BY SMTT(30), <1>5, <3>1 DEF StartPull, TypeOK
      <3>2. CASE cursor[n] # Unknown
        <4>1. cursor[n] \in Nat
          BY <3>2 DEF TypeOK
        <4> QED BY <1>5, <3>2, <4>1 DEF StartPull, TypeOK
      <3> QED BY <3>1, <3>2
    <2>2. pc' \in [Nodes -> States] /\ legacy' \in [Nodes -> BOOLEAN]
      BY <1>5 DEF StartPull, GoTo, TypeOK
    <2> QED BY <1>5, <2>1, <2>2 DEF StartPull, TypeOK, histVars, pushVars, hubVars
  <1>6. ASSUME NEW n \in Nodes, ProbeFound(n) PROVE TypeOK'
    BY <1>6 DEF ProbeFound, GoTo, TypeOK, histVars, pushVars, pullVars, hubVars
  <1>7. ASSUME NEW n \in Nodes, ProbeInconclusive(n) PROVE TypeOK'
    BY <1>7 DEF ProbeInconclusive, Fault, GoTo, TypeOK, histVars, pushVars, pullVars, hubVars
  <1>8. ASSUME NEW n \in Nodes, FetchPage(n) PROVE TypeOK'
    <2>1. Visible(n) \subseteq Recs
      BY DEF Visible, TypeOK
    <2>2. PICK P \in SUBSET Visible(n) :
             IF P = {}
                THEN EndPull(n)
                ELSE /\ GoTo(n, "apply")
                     /\ page' = [page EXCEPT ![n] = P]
                     /\ \E last \in P : ptop' = [ptop EXCEPT ![n] = last.key]
                     /\ pfull' = [pfull EXCEPT ![n] = Cardinality(P) = PageSize]
                     /\ UNCHANGED <<legacy, lpos>>
      BY <1>8 DEF FetchPage
    <2>3. P \in SUBSET Recs
      BY <2>1
    <2>4. CASE P = {}
      <3>1. EndPull(n)
        BY <2>2, <2>4
      <3> QED BY <1>8, <3>1 DEF FetchPage, EndPull, GoTo, TypeOK, histVars, pushVars, hubVars
    <2>5. CASE P # {}
      <3>1. PICK last \in P : ptop' = [ptop EXCEPT ![n] = last.key]
        BY <2>2, <2>5
      <3>2. last.key \in Nat
        BY <2>3
      <3>3. ptop' \in [Nodes -> Nat]
        BY <3>1, <3>2 DEF TypeOK
      <3>4. /\ page' \in [Nodes -> SUBSET Recs]
            /\ pc' \in [Nodes -> States]
            /\ pfull' \in [Nodes -> BOOLEAN]
        <4>1. /\ GoTo(n, "apply")
              /\ page' = [page EXCEPT ![n] = P]
              /\ pfull' = [pfull EXCEPT ![n] = Cardinality(P) = PageSize]
          BY <2>2, <2>5
        <4>2. (Cardinality(P) = PageSize) \in BOOLEAN
          OBVIOUS
        <4> QED BY <4>1, <4>2, <2>3 DEF GoTo, TypeOK
      <3> QED BY <1>8, <2>2, <2>5, <3>3, <3>4 DEF FetchPage, TypeOK, histVars, pushVars, hubVars
    <2> QED BY <2>4, <2>5
  <1>9. ASSUME NEW n \in Nodes, ApplyRecord(n) PROVE TypeOK'
    <2>1. PICK r \in page[n] :
             /\ page' = [page EXCEPT ![n] = @ \ {r}]
             /\ row' = [row EXCEPT ![n][r.mem] = IF r.ts > @ THEN r.ts ELSE @]
      BY <1>9 DEF ApplyRecord
    <2>2. r \in Recs
      BY DEF TypeOK
    <2>3. row' \in [Nodes -> [Mems -> 0..MaxStamp]]
      BY <2>1, <2>2 DEF TypeOK
    <2>4. page' \in [Nodes -> SUBSET Recs]
      BY <2>1 DEF TypeOK
    <2> QED BY <1>9, <2>3, <2>4 DEF ApplyRecord, TypeOK, histVars, pushVars, hubVars
  <1>10. ASSUME NEW n \in Nodes, SkipRecord(n) PROVE TypeOK'
    <2>1. skipped' \subseteq [node : Nodes, mem : Mems, ts : Stamps]
      <3>1. \A r \in page[n] : r \in Recs
        BY DEF TypeOK
      <3> QED BY <1>10, <3>1 DEF SkipRecord, TypeOK
    <2> QED BY <1>10, <2>1 DEF SkipRecord, Fault, TypeOK, histVars, pushVars, hubVars
  <1>11. ASSUME NEW n \in Nodes, SaveCursor(n) PROVE TypeOK'
    <2>1. since' \in [Nodes -> Nat] /\ cursor' \in [Nodes -> Nat \cup {Unknown}]
      BY ZenonT(60), <1>11 DEF SaveCursor, TypeOK
    <2>2. /\ pc' \in [Nodes -> States]
          /\ legacy' \in [Nodes -> BOOLEAN]
          /\ lpos' \in [Nodes -> Nat]
          /\ page' \in [Nodes -> SUBSET Recs]
          /\ ptop' \in [Nodes -> Nat]
          /\ pfull' \in [Nodes -> BOOLEAN]
      <3>1. \/ /\ GoTo(n, "fetch")
               /\ lpos' = [lpos EXCEPT ![n] = ptop[n]]
               /\ UNCHANGED <<legacy, page, ptop, pfull>>
            \/ EndPull(n)
        BY <1>11 DEF SaveCursor
      <3>2. CASE /\ GoTo(n, "fetch")
                 /\ lpos' = [lpos EXCEPT ![n] = ptop[n]]
                 /\ UNCHANGED <<legacy, page, ptop, pfull>>
        BY <3>2 DEF GoTo, TypeOK
      <3>3. CASE EndPull(n)
        BY <3>3 DEF EndPull, GoTo, TypeOK
      <3> QED BY <3>1, <3>2, <3>3
    <2> QED BY <1>11, <2>1, <2>2 DEF SaveCursor, TypeOK, histVars, pushVars, hubVars
  <1>12. ASSUME NEW n \in Nodes, Interrupt(n) PROVE TypeOK'
    <2>1. reqs' \subseteq Requests
      <3>1. CASE reqs' = {q \in reqs : ~Waits(q, n)}
        BY <3>1 DEF TypeOK
      <3>2. ASSUME NEW q \in reqs, Replace(q, [q EXCEPT !.lost = faults + 1])
            PROVE  reqs' \subseteq Requests
        <4>1. [q EXCEPT !.lost = faults + 1] \in Requests
          <5>1. q \in Requests /\ faults + 1 \in 0..MaxFaults
            BY <1>12 DEF Interrupt, Fault, TypeOK
          <5> QED BY <5>1
        <4> QED BY <3>2, <4>1, ReplaceType DEF TypeOK
      <3> QED BY <1>12, <3>1, <3>2 DEF Interrupt
    <2> QED BY <1>12, <2>1
            DEF Interrupt, Fault, EndPull, GoTo, TypeOK, histVars, hubVars
  <1>13. ASSUME NEW n \in Nodes, ResetCursor(n) PROVE TypeOK'
    BY <1>13 DEF ResetCursor, Fault, TypeOK, histVars, pushVars, pullVars, hubVars
  <1>14. ASSUME NEW q \in reqs, HubSkip(q) PROVE TypeOK'
    <2>1. PICK r \in q.todo :
             Replace(q, [q EXCEPT !.todo = @ \ {r}, !.ok = @ \cup {r.mem}])
      BY <1>14 DEF HubSkip
    <2>2. [q EXCEPT !.todo = @ \ {r}, !.ok = @ \cup {r.mem}] \in Requests
      BY ZenonT(60) DEF TypeOK
    <2>3. reqs' \subseteq Requests
      BY <2>1, <2>2, ReplaceType DEF TypeOK
    <2> QED BY <1>14, <2>3 DEF HubSkip, TypeOK, histVars, pushVars, pullVars, hubVars
  <1>15. ASSUME NEW q \in reqs, HubStore(q) PROVE TypeOK'
    <2>1. PICK r \in q.todo :
             Replace(q, [q EXCEPT
                !.todo = @ \ {r},
                !.open = {[mem |-> r.mem, ts |-> r.ts, key |-> hubSeq + 1]}])
      BY <1>15 DEF HubStore
    <2>2. [q EXCEPT !.todo = @ \ {r},
                    !.open = {[mem |-> r.mem, ts |-> r.ts, key |-> hubSeq + 1]}]
             \in Requests
      <3>1. q \in Requests /\ r \in Recs
        BY DEF TypeOK
      <3>2. [mem |-> r.mem, ts |-> r.ts, key |-> hubSeq + 1] \in Recs
        BY <3>1 DEF TypeOK
      <3> QED BY <3>1, <3>2
    <2>3. reqs' \subseteq Requests
      BY <2>1, <2>2, ReplaceType DEF TypeOK
    <2> QED BY <1>15, <2>3 DEF HubStore, TypeOK, histVars, pushVars, pullVars
  <1>16. ASSUME NEW q \in reqs, HubCommit(q) PROVE TypeOK'
    <2>1. PICK t \in q.open :
             /\ hub' = [hub EXCEPT ![t.mem] =
                           [ts |-> t.ts, origin |-> q.node, seq |-> t.key]]
             /\ late' \subseteq late \cup {[mem |-> t.mem, ts |-> t.ts]}
             /\ Replace(q, [q EXCEPT !.open = {}, !.ok = @ \cup {t.mem}])
      BY <1>16 DEF HubCommit
    <2>2. [q EXCEPT !.open = {}, !.ok = @ \cup {t.mem}] \in Requests
      BY ZenonT(60) DEF TypeOK
    <2>3. reqs' \subseteq Requests
      BY <2>1, <2>2, ReplaceType DEF TypeOK
    <2>4. hub' \in [Mems -> [ts : 0..MaxStamp, origin : Nodes \cup {NoNode}, seq : Nat]]
      BY <2>1 DEF TypeOK
    <2>5. late' \subseteq [mem : Mems, ts : Stamps]
      <3>1. t \in Recs
        BY DEF TypeOK
      <3> QED BY <2>1, <3>1 DEF TypeOK
    <2> QED BY <1>16, <2>3, <2>4, <2>5 DEF HubCommit, TypeOK, histVars, pushVars, pullVars
  <1>17. ASSUME NEW q \in reqs, HubReject(q) PROVE TypeOK'
    <2>1. PICK r \in q.todo : Replace(q, [q EXCEPT !.todo = @ \ {r}])
      BY <1>17 DEF HubReject
    <2>2. [q EXCEPT !.todo = @ \ {r}] \in Requests
      BY ZenonT(60) DEF TypeOK
    <2>3. reqs' \subseteq Requests
      BY <2>1, <2>2, ReplaceType DEF TypeOK
    <2> QED BY <1>17, <2>3 DEF HubReject, Fault, TypeOK, histVars, pushVars, pullVars, hubVars
  <1>18. ASSUME NEW q \in reqs, HubDrop(q) PROVE TypeOK'
    BY <1>18 DEF HubDrop, TypeOK, histVars, pushVars, pullVars, hubVars
  <1>19. CASE UNCHANGED vars
    BY <1>19 DEF vars, TypeOK, histVars, pushVars, pullVars, hubVars
  <1> QED
    BY <1>1, <1>2, <1>3, <1>4, <1>5, <1>6, <1>7, <1>8, <1>9, <1>10, <1>11, <1>12,
       <1>13, <1>14, <1>15, <1>16, <1>17, <1>18, <1>19 DEF Next

\* Every state the program reaches is one of the states the model describes.
THEOREM TypeCorrect == Spec => []TypeOK
  BY InitType, StepType, PTL DEF Spec

-----------------------------------------------------------------------------
(* The push path.                                                          *)
\* A node waits for at most one request, and only while it is in flight.
OneWaits ==
    /\ \A q \in reqs : q.lost = 0 => pc[q.node] = "sent"
    /\ \A p, q \in reqs : p.lost = 0 /\ q.lost = 0 /\ p.node = q.node => p = q

\* Row locks: a memory is being stored by one transaction at most, and the
\* version it stores is newer than the committed one.
RowsLocked ==
    /\ \A q \in reqs : \A t, u \in q.open : t = u
    /\ \A p, q \in reqs : \A t \in p.open, u \in q.open : t.mem = u.mem => p = q
    /\ \A q \in reqs : \A t \in q.open : t.ts > hub[t.mem].ts

\* Where a row of the batch in flight is: still to be stored, being stored,
\* or in the hub.
BatchAccounted ==
    \A q \in reqs : q.lost = 0 =>
        \A r \in batch[q.node] :
            \/ r \in q.todo
            \/ \E t \in q.open : t.mem = r.mem /\ t.ts = r.ts
            \/ hub[r.mem].ts >= r.ts

PushFacts == OneWaits /\ BatchAccounted /\ NothingLost

LockInv == TypeOK /\ RowsLocked

PushInv == LockInv /\ PushFacts

-----------------------------------------------------------------------------
LEMMA InitLock == Init => LockInv
  BY InitType DEF Init, LockInv, RowsLocked

\* What is in reqs once r has taken the place of q.
LEMMA ReplaceMember ==
  ASSUME NEW q, NEW r, Replace(q, r)
  PROVE  \A x \in reqs' : x = r \/ (x \in reqs /\ x # q)
  BY DEF Replace

\* Requests come without a transaction, keep theirs or go with it.
LEMMA LockKept ==
  ASSUME RowsLocked, UNCHANGED hub,
         \A x \in reqs' : x.open = {} \/ x \in reqs
  PROVE  RowsLocked'
  BY DEF RowsLocked

LEMMA LockHubSkip ==
  ASSUME TypeOK, RowsLocked, NEW q \in reqs, HubSkip(q) \/ HubReject(q)
  PROVE  RowsLocked'
  <1>1. q.open = {} /\ q \in Requests /\ UNCHANGED hub
    BY DEF HubSkip, HubReject, TypeOK, hubVars
  <1>2. ASSUME NEW r \in q.todo,
               Replace(q, [q EXCEPT !.todo = @ \ {r}, !.ok = @ \cup {r.mem}])
        PROVE  RowsLocked'
    <2>1. [q EXCEPT !.todo = @ \ {r}, !.ok = @ \cup {r.mem}].open = {}
      BY <1>1
    <2> QED BY <1>1, <1>2, <2>1, ReplaceMember, LockKept
  <1>3. ASSUME NEW r \in q.todo, Replace(q, [q EXCEPT !.todo = @ \ {r}])
        PROVE  RowsLocked'
    <2>1. [q EXCEPT !.todo = @ \ {r}].open = {}
      BY <1>1
    <2> QED BY <1>1, <1>3, <2>1, ReplaceMember, LockKept
  <1> QED BY <1>2, <1>3 DEF HubSkip, HubReject

LEMMA LockHubStore ==
  ASSUME TypeOK, RowsLocked, NEW q \in reqs, HubStore(q)
  PROVE  RowsLocked'
  <1>1. PICK r \in q.todo :
           /\ RowIsFree(r.mem)
           /\ r.ts > hub[r.mem].ts
           /\ Replace(q, [q EXCEPT
                !.todo = @ \ {r},
                !.open = {[mem |-> r.mem, ts |-> r.ts, key |-> hubSeq + 1]}])
    BY DEF HubStore
  <1> DEFINE u == [mem |-> r.mem, ts |-> r.ts, key |-> hubSeq + 1]
             s == [q EXCEPT !.todo = @ \ {r}, !.open = {u}]
  <1>2. UNCHANGED hub
    BY DEF HubStore
  <1>3. q \in Requests
    BY DEF TypeOK
  <1>4. s.open = {u} /\ u.mem = r.mem /\ u.ts = r.ts
    BY <1>3
  <1>5. \A x \in reqs' : x = s \/ (x \in reqs /\ x # q)
    BY <1>1, ReplaceMember
  <1>6. \A p \in reqs : \A t \in p.open : t.mem # r.mem
    BY <1>1 DEF RowIsFree
  <1> HIDE DEF s, u
  <1>7. \A p \in reqs' : \A t, v \in p.open : t = v
    BY <1>4, <1>5 DEF RowsLocked
  <1>8. \A p, x \in reqs' : \A t \in p.open, v \in x.open : t.mem = v.mem => p = x
    BY <1>4, <1>5, <1>6 DEF RowsLocked
  <1>9. \A p \in reqs' : \A t \in p.open : t.ts > hub'[t.mem].ts
    BY <1>1, <1>2, <1>4, <1>5 DEF RowsLocked
  <1> QED BY <1>7, <1>8, <1>9 DEF RowsLocked

LEMMA LockHubCommit ==
  ASSUME TypeOK, RowsLocked, NEW q \in reqs, HubCommit(q)
  PROVE  RowsLocked'
  <1>1. PICK t \in q.open :
           /\ hub' = [hub EXCEPT ![t.mem] =
                         [ts |-> t.ts, origin |-> q.node, seq |-> t.key]]
           /\ Replace(q, [q EXCEPT !.open = {}, !.ok = @ \cup {t.mem}])
    BY DEF HubCommit
  <1>2. q \in Requests
    BY DEF TypeOK
  <1>3. \A p \in reqs' : p.open = {} \/ (p \in reqs /\ p # q)
    <2> DEFINE s == [q EXCEPT !.open = {}, !.ok = @ \cup {t.mem}]
    <2>1. s.open = {} /\ Replace(q, s)
      BY <1>1, <1>2
    <2> HIDE DEF s
    <2> QED BY <2>1, ReplaceMember
  <1>4. \A p \in reqs' : \A u \in p.open :
           p \in reqs /\ p # q /\ u.mem \in Mems \ {t.mem}
    BY <1>3 DEF RowsLocked, TypeOK
  <1>5. \A m \in Mems \ {t.mem} : hub'[m] = hub[m]
    BY <1>1 DEF TypeOK
  <1>6. \A p \in reqs' : \A u, v \in p.open : u = v
    BY <1>4 DEF RowsLocked
  <1>7. \A p, x \in reqs' : \A u \in p.open, v \in x.open : u.mem = v.mem => p = x
    BY <1>4 DEF RowsLocked
  <1>8. \A p \in reqs' : \A u \in p.open : u.ts > hub'[u.mem].ts
    BY <1>4, <1>5 DEF RowsLocked
  <1> QED BY <1>6, <1>7, <1>8 DEF RowsLocked

LEMMA LockInterrupt ==
  ASSUME TypeOK, RowsLocked, NEW n \in Nodes, Interrupt(n)
  PROVE  RowsLocked'
  <1>1. UNCHANGED hub
    BY DEF Interrupt, hubVars
  <1>2. CASE reqs' = {q \in reqs : ~Waits(q, n)}
    BY <1>1, <1>2, LockKept
  <1>3. ASSUME NEW q \in reqs, Replace(q, [q EXCEPT !.lost = faults + 1])
        PROVE  RowsLocked'
    <2> DEFINE s == [q EXCEPT !.lost = faults + 1]
    <2>1. q \in Requests
      BY DEF TypeOK
    <2>2. s.open = q.open
      BY <2>1
    <2>3. \A x \in reqs' : x = s \/ (x \in reqs /\ x # q)
      BY <1>3, ReplaceMember
    <2> HIDE DEF s
    <2>4. \A p \in reqs' : \A t, v \in p.open : t = v
      BY <2>2, <2>3 DEF RowsLocked
    <2>5. \A p, x \in reqs' : \A t \in p.open, v \in x.open : t.mem = v.mem => p = x
      BY <2>2, <2>3 DEF RowsLocked
    <2>6. \A p \in reqs' : \A t \in p.open : t.ts > hub'[t.mem].ts
      BY <1>1, <2>2, <2>3 DEF RowsLocked
    <2> QED BY <2>4, <2>5, <2>6 DEF RowsLocked
  <1> QED BY <1>2, <1>3 DEF Interrupt

\* Row locks are kept whatever the hub refuses.
LEMMA StepLock == LockInv /\ [Next]_vars => LockInv'
  <1> SUFFICES ASSUME TypeOK, RowsLocked, [Next]_vars PROVE RowsLocked'
    BY StepType DEF LockInv
  <1>1. ASSUME UNCHANGED <<hub, reqs>> PROVE RowsLocked'
    BY <1>1, LockKept
  <1>2. ASSUME NEW n \in Nodes, PushBatch(n) PROVE RowsLocked'
    <2>1. ASSUME NEW B,
                 reqs' = reqs \cup {[node |-> n, todo |-> B, open |-> {},
                                     ok |-> {}, lost |-> 0]}
          PROVE  \A x \in reqs' : x.open = {} \/ x \in reqs
      BY <2>1
    <2> QED BY <1>2, <2>1, LockKept DEF PushBatch, hubVars
  <1>3. ASSUME NEW n \in Nodes, PushAck(n) PROVE RowsLocked'
    BY <1>3, LockKept DEF PushAck, hubVars
  <1>4. ASSUME NEW q \in reqs, HubDrop(q) PROVE RowsLocked'
    BY <1>4, LockKept DEF HubDrop, hubVars
  <1>5. ASSUME NEW n \in Nodes,
               \/ \E m \in Mems : Edit(n, m)
               \/ BeginCycle(n) \/ StartPull(n) \/ ProbeFound(n)
               \/ ProbeInconclusive(n) \/ FetchPage(n) \/ ApplyRecord(n)
               \/ SkipRecord(n) \/ SaveCursor(n) \/ ResetCursor(n)
        PROVE  UNCHANGED <<hub, reqs>>
    BY <1>5 DEF Edit, BeginCycle, StartPull, ProbeFound, ProbeInconclusive, FetchPage,
                ApplyRecord, SkipRecord, SaveCursor, ResetCursor, hubVars
  <1>6. CASE UNCHANGED vars
    BY <1>1, <1>6 DEF vars, hubVars
  <1> QED
    BY <1>1, <1>2, <1>3, <1>4, <1>5, <1>6, LockInterrupt, LockHubSkip, LockHubStore,
       LockHubCommit DEF Next

-----------------------------------------------------------------------------
LEMMA InitPush == Init => PushFacts
  BY DEF Init, PushFacts, OneWaits, BatchAccounted, NothingLost

\* Steps that leave the outbox, the requests and the hub alone.
LEMMA PushQuiet ==
  ASSUME TypeOK, RowsLocked, PushFacts,
         UNCHANGED <<written, pending, batch, hub, reqs>>,
         \A n \in Nodes : pc[n] = "sent" => pc'[n] = "sent"
  PROVE  PushFacts'
  <1>1. OneWaits'
    BY DEF PushFacts, OneWaits, TypeOK
  <1>2. BatchAccounted'
    BY DEF PushFacts, BatchAccounted
  <1>3. NothingLost'
    BY DEF PushFacts, NothingLost
  <1> QED BY <1>1, <1>2, <1>3 DEF PushFacts

LEMMA PushEdit ==
  ASSUME TypeOK, RowsLocked, PushFacts, NEW n \in Nodes, NEW m \in Mems, Edit(n, m)
  PROVE  PushFacts'
  <1>1. /\ written' = written \cup {[node |-> n, mem |-> m, ts |-> clock + 1]}
        /\ pending' = [pending EXCEPT ![n] = @ \cup {OutboxRow(m, clock + 1)}]
        /\ UNCHANGED <<batch, hub, reqs, pc>>
    BY DEF Edit, pushVars, hubVars
  <1>2. OneWaits' /\ BatchAccounted'
    BY <1>1 DEF PushFacts, OneWaits, BatchAccounted
  <1>3. ASSUME NEW w \in written'
        PROVE  OutboxRow(w.mem, w.ts) \in pending'[w.node] \/ hub'[w.mem].ts >= w.ts
    <2>1. CASE w \in written
      <3>1. w.node \in Nodes
        BY <2>1 DEF TypeOK
      <3>2. pending[w.node] \subseteq pending'[w.node]
        BY <1>1, <3>1 DEF TypeOK
      <3> QED BY <1>1, <2>1, <3>2 DEF PushFacts, NothingLost
    <2>2. CASE w = [node |-> n, mem |-> m, ts |-> clock + 1]
      BY <1>1, <2>2 DEF TypeOK
    <2> QED BY <1>1, <2>1, <2>2
  <1> QED BY <1>2, <1>3 DEF PushFacts, NothingLost

LEMMA PushPushBatch ==
  ASSUME TypeOK, RowsLocked, PushFacts, NEW n \in Nodes, PushBatch(n)
  PROVE  PushFacts'
  <1>1. PICK B \in SUBSET pending[n] :
           /\ batch' = [batch EXCEPT ![n] = B]
           /\ B = {} => GoTo(n, "start") /\ UNCHANGED reqs
           /\ B # {} => /\ GoTo(n, "sent")
                        /\ reqs' = reqs \cup {[node |-> n, todo |-> B, open |-> {},
                                               ok |-> {}, lost |-> 0]}
    BY DEF PushBatch
  <1>2. UNCHANGED <<written, pending, hub>> /\ pc[n] = "push"
    BY DEF PushBatch, hubVars
  <1>3. \A q \in reqs : q.lost = 0 => q.node # n
    BY <1>2 DEF PushFacts, OneWaits
  <1>4. NothingLost'
    BY <1>2 DEF PushFacts, NothingLost
  <1>5. CASE B = {}
    <2>1. OneWaits'
      BY <1>1, <1>3, <1>5 DEF PushFacts, OneWaits, GoTo, TypeOK
    <2>2. BatchAccounted'
      BY <1>1, <1>2, <1>3, <1>5 DEF PushFacts, BatchAccounted, TypeOK
    <2> QED BY <1>4, <2>1, <2>2 DEF PushFacts
  <1>6. CASE B # {}
    <2> DEFINE q0 == [node |-> n, todo |-> B, open |-> {}, ok |-> {}, lost |-> 0]
    <2>1. reqs' = reqs \cup {q0} /\ pc' = [pc EXCEPT ![n] = "sent"]
      BY <1>1, <1>6 DEF GoTo
    <2>2. q0.node = n /\ q0.todo = B /\ q0.open = {} /\ q0.lost = 0
      OBVIOUS
    <2> HIDE DEF q0
    <2>3. OneWaits'
      <3>1. \A q \in reqs' : q.lost = 0 => pc'[q.node] = "sent"
        BY <1>3, <2>1, <2>2 DEF PushFacts, OneWaits, TypeOK
      <3>2. \A p, q \in reqs' : p.lost = 0 /\ q.lost = 0 /\ p.node = q.node => p = q
        BY <1>3, <2>1, <2>2 DEF PushFacts, OneWaits
      <3> QED BY <3>1, <3>2 DEF OneWaits
    <2>4. BatchAccounted'
      <3>1. SUFFICES ASSUME NEW q \in reqs', q.lost = 0, NEW r \in batch'[q.node]
                     PROVE  \/ r \in q.todo
                            \/ \E t \in q.open : t.mem = r.mem /\ t.ts = r.ts
                            \/ hub'[r.mem].ts >= r.ts
        BY DEF BatchAccounted
      <3>2. CASE q = q0
        BY <1>1, <2>2, <3>1, <3>2 DEF TypeOK
      <3>3. CASE q \in reqs
        <4>1. q.node # n /\ q.node \in Nodes
          BY <1>3, <3>1, <3>3 DEF TypeOK
        <4>2. batch'[q.node] = batch[q.node]
          BY <1>1, <4>1 DEF TypeOK
        <4> QED BY <1>2, <3>1, <3>3, <4>2 DEF PushFacts, BatchAccounted
      <3> QED BY <2>1, <3>2, <3>3
    <2> QED BY <1>4, <2>3, <2>4 DEF PushFacts
  <1> QED BY <1>5, <1>6

LEMMA PushPushAck ==
  ASSUME TypeOK, RowsLocked, PushFacts, NEW n \in Nodes, PushAck(n)
  PROVE  PushFacts'
  <1>1. PICK q \in reqs :
           /\ q.node = n /\ q.lost = 0
           /\ q.todo = {} /\ q.open = {}
           /\ reqs' = reqs \ {q}
           /\ pending' = [pending EXCEPT
                            ![n] = @ \ {r \in batch[n] : r.mem \in q.ok}]
    BY DEF PushAck
  <1>2. /\ UNCHANGED <<written, hub>>
        /\ batch' = [batch EXCEPT ![n] = {}]
        /\ \A k \in Nodes \ {n} : pc'[k] = pc[k]
    BY DEF PushAck, GoTo, hubVars, TypeOK
  <1>3. \A p \in reqs' : p \in reqs /\ p.node \in Nodes /\ (p.lost = 0 => p.node # n)
    BY <1>1 DEF PushFacts, OneWaits, TypeOK
  <1>4. OneWaits'
    BY <1>2, <1>3 DEF PushFacts, OneWaits
  <1>5. BatchAccounted'
    <2>1. \A p \in reqs' : p.lost = 0 => batch'[p.node] = batch[p.node]
      BY <1>2, <1>3 DEF TypeOK
    <2> QED BY <1>2, <1>3, <2>1 DEF PushFacts, BatchAccounted
  <1>6. \A r \in batch[n] : hub[r.mem].ts >= r.ts
    BY <1>1 DEF PushFacts, BatchAccounted
  <1>7. ASSUME NEW w \in written
        PROVE  OutboxRow(w.mem, w.ts) \in pending'[w.node] \/ hub[w.mem].ts >= w.ts
    <2>1. CASE w.node = n /\ OutboxRow(w.mem, w.ts) \in batch[n]
      BY <1>6, <2>1 DEF OutboxRow
    <2>2. CASE w.node = n /\ OutboxRow(w.mem, w.ts) \notin batch[n]
      BY <1>1, <2>2 DEF PushFacts, NothingLost, TypeOK
    <2>3. CASE w.node # n
      <3>1. w.node \in Nodes
        BY DEF TypeOK
      <3> QED BY <1>1, <2>3, <3>1 DEF PushFacts, NothingLost, TypeOK
    <2> QED BY <2>1, <2>2, <2>3
  <1>8. NothingLost'
    BY <1>2, <1>7 DEF NothingLost
  <1> QED BY <1>4, <1>5, <1>8 DEF PushFacts

LEMMA PushHubSkip ==
  ASSUME TypeOK, RowsLocked, PushFacts, NEW q \in reqs, HubSkip(q)
  PROVE  PushFacts'
  <1>1. PICK r \in q.todo :
           /\ r.ts <= hub[r.mem].ts
           /\ Replace(q, [q EXCEPT !.todo = @ \ {r}, !.ok = @ \cup {r.mem}])
    BY DEF HubSkip
  <1> DEFINE s == [q EXCEPT !.todo = @ \ {r}, !.ok = @ \cup {r.mem}]
  <1>2. UNCHANGED <<written, pending, batch, hub, pc>> /\ q.open = {}
    BY DEF HubSkip, hubVars, pushVars
  <1>3. q \in Requests
    BY DEF TypeOK
  <1>4. s.node = q.node /\ s.lost = q.lost /\ s.open = {} /\ s.todo = q.todo \ {r}
    BY <1>2, <1>3
  <1>5. \A x \in reqs' : x = s \/ (x \in reqs /\ x # q)
    BY <1>1, ReplaceMember
  <1> HIDE DEF s
  <1>6. OneWaits'
    BY <1>2, <1>4, <1>5 DEF PushFacts, OneWaits
  <1>7. BatchAccounted'
    BY <1>1, <1>2, <1>4, <1>5 DEF PushFacts, BatchAccounted
  <1>8. NothingLost'
    BY <1>2 DEF PushFacts, NothingLost
  <1> QED BY <1>6, <1>7, <1>8 DEF PushFacts

LEMMA PushHubStore ==
  ASSUME TypeOK, RowsLocked, PushFacts, NEW q \in reqs, HubStore(q)
  PROVE  PushFacts'
  <1>1. PICK r \in q.todo :
           Replace(q, [q EXCEPT
                !.todo = @ \ {r},
                !.open = {[mem |-> r.mem, ts |-> r.ts, key |-> hubSeq + 1]}])
    BY DEF HubStore
  <1> DEFINE u == [mem |-> r.mem, ts |-> r.ts, key |-> hubSeq + 1]
             s == [q EXCEPT !.todo = @ \ {r}, !.open = {u}]
  <1>2. UNCHANGED <<written, pending, batch, hub, pc>> /\ q.open = {}
    BY DEF HubStore, pushVars
  <1>3. q \in Requests
    BY DEF TypeOK
  <1>4. s.node = q.node /\ s.lost = q.lost /\ s.open = {u} /\ s.todo = q.todo \ {r}
    BY <1>2, <1>3
  <1>5. u.mem = r.mem /\ u.ts = r.ts
    OBVIOUS
  <1>6. \A x \in reqs' : x = s \/ (x \in reqs /\ x # q)
    BY <1>1, ReplaceMember
  <1> HIDE DEF s, u
  <1>7. OneWaits'
    BY <1>2, <1>4, <1>6 DEF PushFacts, OneWaits
  <1>8. BatchAccounted'
    BY <1>2, <1>4, <1>5, <1>6 DEF PushFacts, BatchAccounted
  <1>9. NothingLost'
    BY <1>2 DEF PushFacts, NothingLost
  <1> QED BY <1>7, <1>8, <1>9 DEF PushFacts

LEMMA PushHubCommit ==
  ASSUME TypeOK, RowsLocked, PushFacts, NEW q \in reqs, HubCommit(q)
  PROVE  PushFacts'
  <1>1. PICK t \in q.open :
           /\ hub' = [hub EXCEPT ![t.mem] =
                         [ts |-> t.ts, origin |-> q.node, seq |-> t.key]]
           /\ Replace(q, [q EXCEPT !.open = {}, !.ok = @ \cup {t.mem}])
    BY DEF HubCommit
  <1> DEFINE s == [q EXCEPT !.open = {}, !.ok = @ \cup {t.mem}]
  <1>2. UNCHANGED <<written, pending, batch, pc>>
    BY DEF HubCommit, pushVars
  <1>3. q \in Requests /\ t \in Recs
    BY DEF TypeOK
  <1>4. s.node = q.node /\ s.lost = q.lost /\ s.open = {} /\ s.todo = q.todo
    BY <1>3
  <1>5. \A x \in reqs' : x = s \/ (x \in reqs /\ x # q)
    BY <1>1, ReplaceMember
  <1> HIDE DEF s
  <1>6. hub'[t.mem].ts = t.ts /\ \A m \in Mems \ {t.mem} : hub'[m] = hub[m]
    BY <1>1, <1>3 DEF TypeOK
  <1>7. \A m \in Mems : hub'[m].ts >= hub[m].ts
    BY SMTT(30), <1>3, <1>6 DEF RowsLocked, TypeOK
  <1>8. OneWaits'
    BY <1>2, <1>4, <1>5 DEF PushFacts, OneWaits
  <1>9. BatchAccounted'
    <2>1. SUFFICES ASSUME NEW p \in reqs', p.lost = 0, NEW r \in batch[p.node]
                   PROVE  \/ r \in p.todo
                          \/ \E u \in p.open : u.mem = r.mem /\ u.ts = r.ts
                          \/ hub'[r.mem].ts >= r.ts
      BY <1>2 DEF BatchAccounted
    <2>2. r \in Recs /\ hub[r.mem].ts \in Nat /\ hub'[r.mem].ts \in Nat
      <3>1. p.node \in Nodes
        BY <1>3, <1>4, <1>5 DEF TypeOK
      <3>2. r \in Recs
        BY <3>1, <2>1 DEF TypeOK
      <3>3. hub[r.mem].ts \in Nat
        BY <3>2, BoundsAssumption DEF TypeOK
      <3> QED BY <3>2, <3>3, <1>3, <1>6
    <2>3. hub'[r.mem].ts >= hub[r.mem].ts
      BY <2>2, <1>7
    <2>4. CASE p = s
      <3>1. \/ r \in q.todo
            \/ \E u \in q.open : u.mem = r.mem /\ u.ts = r.ts
            \/ hub[r.mem].ts >= r.ts
        BY <1>4, <2>1, <2>4 DEF PushFacts, BatchAccounted
      <3>2. \A u \in q.open : u = t
        BY DEF RowsLocked
      <3> QED BY <1>3, <1>4, <1>6, <2>2, <2>3, <2>4, <3>1, <3>2
    <2>5. CASE p \in reqs
      <3>1. \/ r \in p.todo
            \/ \E u \in p.open : u.mem = r.mem /\ u.ts = r.ts
            \/ hub[r.mem].ts >= r.ts
        BY <2>1, <2>5 DEF PushFacts, BatchAccounted
      <3> QED BY <3>1, <2>2, <2>3
    <2> QED BY <1>5, <2>4, <2>5
  <1>10. NothingLost'
    <2>1. SUFFICES ASSUME NEW w \in written
                   PROVE  \/ OutboxRow(w.mem, w.ts) \in pending[w.node]
                          \/ hub'[w.mem].ts >= w.ts
      BY <1>2 DEF NothingLost
    <2>2. w.mem \in Mems /\ w.ts \in Nat /\ hub[w.mem].ts \in Nat
      BY BoundsAssumption DEF TypeOK
    <2>3. hub'[w.mem].ts \in Nat /\ hub'[w.mem].ts >= hub[w.mem].ts
      BY <1>3, <1>6, <1>7, <2>2
    <2> QED BY <2>2, <2>3 DEF PushFacts, NothingLost
  <1> QED BY <1>8, <1>9, <1>10 DEF PushFacts

LEMMA PushHubDrop ==
  ASSUME TypeOK, RowsLocked, PushFacts, NEW q \in reqs, HubDrop(q)
  PROVE  PushFacts'
  <1>1. UNCHANGED <<written, pending, batch, hub, pc>> /\ reqs' \subseteq reqs
    BY DEF HubDrop, hubVars, pushVars
  <1> QED BY <1>1 DEF PushFacts, OneWaits, BatchAccounted, NothingLost

LEMMA PushInterrupt ==
  ASSUME TypeOK, RowsLocked, PushFacts, NEW n \in Nodes, Interrupt(n)
  PROVE  PushFacts'
  <1>1. /\ UNCHANGED <<written, pending, hub>>
        /\ batch' = [batch EXCEPT ![n] = {}]
        /\ pc' = [pc EXCEPT ![n] = "idle"]
    BY DEF Interrupt, EndPull, GoTo, hubVars
  <1>2. \A x \in reqs : x.node \in Nodes
    BY DEF TypeOK
  <1>3. NothingLost'
    BY <1>1 DEF PushFacts, NothingLost
  \* Whoever still waits is another node, and its request is untouched.
  <1>4. ASSUME \A x \in reqs' : x.lost = 0 => x \in reqs /\ x.node # n
        PROVE  OneWaits' /\ BatchAccounted'
    <2>1. OneWaits'
      BY <1>1, <1>2, <1>4 DEF PushFacts, OneWaits, TypeOK
    <2>2. \A x \in reqs' : x.lost = 0 => batch'[x.node] = batch[x.node]
      BY <1>1, <1>2, <1>4 DEF TypeOK
    <2>3. BatchAccounted'
      BY <1>1, <1>4, <2>2 DEF PushFacts, BatchAccounted
    <2> QED BY <2>1, <2>3
  <1>5. CASE reqs' = {q \in reqs : ~Waits(q, n)}
    <2>1. \A x \in reqs' : x.lost = 0 => x \in reqs /\ x.node # n
      BY <1>5 DEF Waits
    <2> QED BY <1>3, <1>4, <2>1 DEF PushFacts
  <1>6. ASSUME NEW q \in reqs, Waits(q, n), Replace(q, [q EXCEPT !.lost = faults + 1])
        PROVE  PushFacts'
    <2> DEFINE s == [q EXCEPT !.lost = faults + 1]
    <2>1. q \in Requests
      BY DEF TypeOK
    <2>2. s.lost = faults + 1
      BY <2>1
    <2>3. \A x \in reqs' : x = s \/ (x \in reqs /\ x # q)
      BY <1>6, ReplaceMember
    <2>4. faults + 1 > 0
      BY BoundsAssumption DEF TypeOK
    <2> HIDE DEF s
    <2>5. \A x \in reqs' : x.lost = 0 => x \in reqs /\ x.node # n
      BY <1>6, <2>2, <2>3, <2>4 DEF PushFacts, OneWaits, Waits
    <2> QED BY <1>3, <1>4, <2>5 DEF PushFacts
  <1> QED BY <1>5, <1>6 DEF Interrupt

LEMMA StepPush ==
  ASSUME ~HubMayReject, TypeOK, RowsLocked, PushFacts, [Next]_vars
  PROVE  PushFacts'
  <1>1. ASSUME NEW n \in Nodes, BeginCycle(n) PROVE PushFacts'
    BY <1>1, PushQuiet DEF BeginCycle, GoTo, pushVars, hubVars, TypeOK
  <1>2. ASSUME NEW n \in Nodes, StartPull(n) PROVE PushFacts'
    <2>1. pc[n] = "start" /\ \A k \in Nodes \ {n} : pc'[k] = pc[k]
      BY <1>2 DEF StartPull, GoTo, TypeOK
    <2> QED BY <1>2, <2>1, PushQuiet DEF StartPull, pushVars, hubVars
  <1>3. ASSUME NEW n \in Nodes, ProbeFound(n) \/ ProbeInconclusive(n) PROVE PushFacts'
    <2>1. pc[n] = "probe" /\ \A k \in Nodes \ {n} : pc'[k] = pc[k]
      BY <1>3 DEF ProbeFound, ProbeInconclusive, GoTo, TypeOK
    <2> QED BY <1>3, <2>1, PushQuiet
            DEF ProbeFound, ProbeInconclusive, pushVars, hubVars
  <1>4. ASSUME NEW n \in Nodes, FetchPage(n) PROVE PushFacts'
    <2>1. pc[n] = "fetch" /\ \A k \in Nodes \ {n} : pc'[k] = pc[k]
      BY <1>4 DEF FetchPage, EndPull, GoTo, TypeOK
    <2> QED BY <1>4, <2>1, PushQuiet DEF FetchPage, pushVars, hubVars
  <1>5. ASSUME NEW n \in Nodes, ApplyRecord(n) \/ SkipRecord(n) PROVE PushFacts'
    BY <1>5, PushQuiet DEF ApplyRecord, SkipRecord, pushVars, hubVars
  <1>6. ASSUME NEW n \in Nodes, SaveCursor(n) PROVE PushFacts'
    <2>1. pc[n] = "apply" /\ \A k \in Nodes \ {n} : pc'[k] = pc[k]
      BY <1>6 DEF SaveCursor, EndPull, GoTo, TypeOK
    <2> QED BY <1>6, <2>1, PushQuiet DEF SaveCursor, pushVars, hubVars
  <1>7. ASSUME NEW n \in Nodes, ResetCursor(n) PROVE PushFacts'
    BY <1>7, PushQuiet DEF ResetCursor, pushVars, hubVars
  <1>8. CASE UNCHANGED vars
    BY <1>8, PushQuiet DEF vars, pushVars, hubVars
  <1>9. ASSUME NEW q \in reqs, HubReject(q) PROVE PushFacts'
    BY <1>9 DEF HubReject
  <1> QED
    BY <1>1, <1>2, <1>3, <1>4, <1>5, <1>6, <1>7, <1>8, <1>9, PushEdit, PushPushBatch,
       PushPushAck, PushInterrupt, PushHubSkip, PushHubStore, PushHubCommit, PushHubDrop
    DEF Next

\* If the hub refuses no record, no write leaves an outbox before the hub
\* holds it or a newer version: for any number of nodes pushing at once, any
\* batch size, and any pattern of lost answers, crashes and repeated pushes.
THEOREM NothingLostHolds == ASSUME ~HubMayReject PROVE Spec => []NothingLost
  <1>1. Init => PushInv
    BY InitLock, InitPush DEF PushInv
  <1>2. PushInv /\ [Next]_vars => PushInv'
    BY StepLock, StepPush DEF PushInv, LockInv
  <1>3. PushInv => NothingLost
    BY DEF PushInv, PushFacts
  <1> QED BY <1>1, <1>2, <1>3, PTL DEF Spec

-----------------------------------------------------------------------------
(* The refinement of Replication.                                          *)
IsWritten(m, ts) == \E w \in written : w.mem = m /\ w.ts = ts

\* Whatever is under way or stored at the hub was written by some node.
Written ==
    /\ \A w \in written : w.ts <= clock
    /\ \A n \in Nodes : \A r \in pending[n] \cup page[n] : IsWritten(r.mem, r.ts)
    /\ \A q \in reqs : \A r \in q.todo \cup q.open : IsWritten(r.mem, r.ts)
    /\ \A m \in Mems : hub[m].ts = 0 \/ IsWritten(m, hub[m].ts)

RefInv == LockInv /\ Written

-----------------------------------------------------------------------------
LEMMA InitWritten == Init => Written
  BY DEF Init, Written, IsWritten

\* Steps that write nothing and bring no record that was not there.
LEMMA WrittenKept ==
  ASSUME Written, UNCHANGED <<clock, written>>,
         \A n \in Nodes : \A r \in pending'[n] \cup page'[n] : IsWritten(r.mem, r.ts),
         \A q \in reqs' : \A r \in q.todo \cup q.open : IsWritten(r.mem, r.ts),
         \A m \in Mems : hub'[m].ts = 0 \/ IsWritten(m, hub'[m].ts)
  PROVE  Written'
  BY DEF Written, IsWritten

LEMMA WrittenReplace ==
  ASSUME TypeOK, Written, NEW q \in reqs, NEW s, Replace(q, s),
         UNCHANGED <<clock, written, pending>>,
         \A n \in Nodes : page'[n] \subseteq page[n],
         \A r \in s.todo \cup s.open : IsWritten(r.mem, r.ts),
         \A m \in Mems : hub'[m].ts = 0 \/ IsWritten(m, hub'[m].ts)
  PROVE  Written'
  <1>1. \A x \in reqs' : x = s \/ (x \in reqs /\ x # q)
    BY ReplaceMember
  <1>2. \A x \in reqs' : \A r \in x.todo \cup x.open : IsWritten(r.mem, r.ts)
    BY <1>1 DEF Written
  <1>3. \A n \in Nodes : \A r \in pending'[n] \cup page'[n] : IsWritten(r.mem, r.ts)
    BY DEF Written
  <1> QED BY <1>2, <1>3, WrittenKept

LEMMA WrittenEdit ==
  ASSUME TypeOK, Written, NEW n \in Nodes, NEW m \in Mems, Edit(n, m)
  PROVE  Written'
  <1> DEFINE w0 == [node |-> n, mem |-> m, ts |-> clock + 1]
  <1>1. /\ clock' = clock + 1 /\ clock \in Nat
        /\ written' = written \cup {w0}
        /\ pending' = [pending EXCEPT ![n] = @ \cup {OutboxRow(m, clock + 1)}]
        /\ UNCHANGED <<page, reqs, hub>>
    BY DEF Edit, pullVars, hubVars, TypeOK
  <1>2. w0.mem = m /\ w0.ts = clock + 1
    OBVIOUS
  <1> HIDE DEF w0
  <1>3. \A x, ts : IsWritten(x, ts) => IsWritten(x, ts)'
    BY <1>1 DEF IsWritten
  <1>4. \A w \in written' : w.ts <= clock'
    <2>1. \A w \in written : w.ts \in Nat /\ w.ts <= clock
      BY DEF TypeOK, Written
    <2> QED BY <1>1, <1>2, <2>1
  <1>5. ASSUME NEW k \in Nodes, NEW r \in pending'[k] \cup page'[k]
        PROVE  IsWritten(r.mem, r.ts)'
    <2>1. CASE r \in pending[k] \cup page[k]
      BY <1>3, <2>1 DEF Written
    <2>2. CASE r = OutboxRow(m, clock + 1)
      <3>1. r.mem = m /\ r.ts = clock + 1
        BY <2>2 DEF OutboxRow
      <3>2. \E w \in written' : w.mem = r.mem /\ w.ts = r.ts
        BY <1>1, <1>2, <3>1
      <3> QED BY <3>2 DEF IsWritten
    <2> QED BY <1>1, <2>1, <2>2 DEF TypeOK
  <1>6. \A q \in reqs' : \A r \in q.todo \cup q.open : IsWritten(r.mem, r.ts)'
    BY <1>1, <1>3 DEF Written
  <1>7. \A x \in Mems : hub'[x].ts = 0 \/ IsWritten(x, hub[x].ts)'
    BY <1>1 DEF Written, IsWritten
  <1> QED BY <1>1, <1>4, <1>5, <1>6, <1>7 DEF Written, IsWritten

LEMMA StepWritten == TypeOK /\ Written /\ [Next]_vars => Written'
  <1> SUFFICES ASSUME TypeOK, Written, [Next]_vars PROVE Written'
    OBVIOUS
  <1> USE DEF pushVars, pullVars, hubVars
  <1>1. /\ \A n \in Nodes : \A r \in pending[n] \cup page[n] : IsWritten(r.mem, r.ts)
        /\ \A q \in reqs : \A r \in q.todo \cup q.open : IsWritten(r.mem, r.ts)
        /\ \A m \in Mems : hub[m].ts = 0 \/ IsWritten(m, hub[m].ts)
    BY DEF Written
  <1>2. ASSUME UNCHANGED <<clock, written, pending, page, reqs, hub>> PROVE Written'
    BY <1>1, <1>2, WrittenKept
  <1>3. ASSUME NEW n \in Nodes,
               \/ BeginCycle(n) \/ StartPull(n) \/ ProbeFound(n)
               \/ ProbeInconclusive(n) \/ ResetCursor(n)
        PROVE  Written'
    BY <1>2, <1>3 DEF BeginCycle, StartPull, ProbeFound, ProbeInconclusive, ResetCursor
  <1>4. ASSUME NEW n \in Nodes, PushBatch(n) PROVE Written'
    <2>1. PICK B \in SUBSET pending[n] :
             \/ UNCHANGED reqs
             \/ reqs' = reqs \cup {[node |-> n, todo |-> B, open |-> {},
                                    ok |-> {}, lost |-> 0]}
      BY <1>4 DEF PushBatch
    <2>2. \A q \in reqs' : \A r \in q.todo \cup q.open : IsWritten(r.mem, r.ts)
      BY <1>1, <2>1
    <2> QED BY <1>1, <1>4, <2>2, WrittenKept DEF PushBatch
  <1>5. ASSUME NEW n \in Nodes, PushAck(n) PROVE Written'
    <2>1. reqs' \subseteq reqs /\ \A k \in Nodes : pending'[k] \subseteq pending[k]
      BY <1>5 DEF PushAck, TypeOK
    <2> QED BY <1>1, <1>5, <2>1, WrittenKept DEF PushAck
  <1>6. ASSUME NEW n \in Nodes, FetchPage(n) PROVE Written'
    <2>1. \A r \in Visible(n) : IsWritten(r.mem, r.ts)
      <3>1. ASSUME NEW r \in Visible(n)
            PROVE  \E m \in Mems : hub[m].ts > 0 /\ r.mem = m /\ r.ts = hub[m].ts
        BY DEF Visible
      <3> QED
        BY <1>1, <3>1 DEF Written
    <2>2. PICK P \in SUBSET Visible(n) :
             EndPull(n) \/ page' = [page EXCEPT ![n] = P]
      BY <1>6 DEF FetchPage
    <2>3. \A k \in Nodes : page'[k] \subseteq page[k] \/ page'[k] = P
      BY <2>2 DEF EndPull, TypeOK
    <2> QED BY <1>1, <1>6, <2>1, <2>3, WrittenKept DEF FetchPage
  <1>7. ASSUME NEW n \in Nodes, ApplyRecord(n) \/ SkipRecord(n) \/ SaveCursor(n)
        PROVE  Written'
    <2>1. \A k \in Nodes : page'[k] \subseteq page[k]
      <3>1. CASE ApplyRecord(n) \/ SkipRecord(n)
        <4>1. PICK r : page' = [page EXCEPT ![n] = @ \ {r}]
          BY <3>1 DEF ApplyRecord, SkipRecord
        <4> QED BY <4>1 DEF TypeOK
      <3>2. CASE SaveCursor(n)
        BY <3>2 DEF SaveCursor, EndPull, TypeOK
      <3> QED BY <1>7, <3>1, <3>2
    <2> QED BY <1>1, <1>7, <2>1, WrittenKept DEF ApplyRecord, SkipRecord, SaveCursor
  <1>8. ASSUME NEW n \in Nodes, Interrupt(n) PROVE Written'
    <2>1. /\ UNCHANGED <<clock, written, pending, hub>>
          /\ \A k \in Nodes : page'[k] \subseteq page[k]
      BY <1>8 DEF Interrupt, EndPull, TypeOK
    <2>2. CASE reqs' = {q \in reqs : ~Waits(q, n)}
      BY <1>1, <2>1, <2>2, WrittenKept
    <2>3. ASSUME NEW q \in reqs, Replace(q, [q EXCEPT !.lost = faults + 1])
          PROVE  Written'
      <3> DEFINE s == [q EXCEPT !.lost = faults + 1]
      <3>1. q \in Requests
        BY DEF TypeOK
      <3>2. s.todo = q.todo /\ s.open = q.open /\ Replace(q, s)
        BY <2>3, <3>1
      <3> HIDE DEF s
      <3> QED BY <1>1, <2>1, <3>2, WrittenReplace
    <2> QED BY <1>8, <2>2, <2>3 DEF Interrupt
  <1>9. ASSUME NEW q \in reqs, HubSkip(q) PROVE Written'
    <2>1. PICK r \in q.todo :
             Replace(q, [q EXCEPT !.todo = @ \ {r}, !.ok = @ \cup {r.mem}])
      BY <1>9 DEF HubSkip
    <2> DEFINE s == [q EXCEPT !.todo = @ \ {r}, !.ok = @ \cup {r.mem}]
    <2>2. q \in Requests
      BY DEF TypeOK
    <2>3. s.todo \subseteq q.todo /\ s.open = q.open /\ Replace(q, s)
      BY <2>1, <2>2
    <2> HIDE DEF s
    <2> QED BY <1>1, <1>9, <2>3, WrittenReplace DEF HubSkip
  <1>10. ASSUME NEW q \in reqs, HubReject(q) PROVE Written'
    <2>1. PICK r \in q.todo : Replace(q, [q EXCEPT !.todo = @ \ {r}])
      BY <1>10 DEF HubReject
    <2> DEFINE s == [q EXCEPT !.todo = @ \ {r}]
    <2>2. q \in Requests
      BY DEF TypeOK
    <2>3. s.todo \subseteq q.todo /\ s.open = q.open /\ Replace(q, s)
      BY <2>1, <2>2
    <2> HIDE DEF s
    <2> QED BY <1>1, <1>10, <2>3, WrittenReplace DEF HubReject
  <1>11. ASSUME NEW q \in reqs, HubStore(q) PROVE Written'
    <2>1. PICK r \in q.todo :
             Replace(q, [q EXCEPT
                !.todo = @ \ {r},
                !.open = {[mem |-> r.mem, ts |-> r.ts, key |-> hubSeq + 1]}])
      BY <1>11 DEF HubStore
    <2> DEFINE u == [mem |-> r.mem, ts |-> r.ts, key |-> hubSeq + 1]
               s == [q EXCEPT !.todo = @ \ {r}, !.open = {u}]
    <2>2. q \in Requests
      BY DEF TypeOK
    <2>3. /\ s.todo \subseteq q.todo /\ s.open = {u} /\ Replace(q, s)
          /\ u.mem = r.mem /\ u.ts = r.ts
      BY <2>1, <2>2
    <2> HIDE DEF s, u
    <2>4. \A x \in s.todo \cup s.open : IsWritten(x.mem, x.ts)
      BY <1>1, <2>3
    <2> QED BY <1>1, <1>11, <2>3, <2>4, WrittenReplace DEF HubStore
  <1>12. ASSUME NEW q \in reqs, HubCommit(q) PROVE Written'
    <2>1. PICK t \in q.open :
             /\ hub' = [hub EXCEPT ![t.mem] =
                           [ts |-> t.ts, origin |-> q.node, seq |-> t.key]]
             /\ Replace(q, [q EXCEPT !.open = {}, !.ok = @ \cup {t.mem}])
      BY <1>12 DEF HubCommit
    <2> DEFINE s == [q EXCEPT !.open = {}, !.ok = @ \cup {t.mem}]
    <2>2. q \in Requests
      BY DEF TypeOK
    <2>3. s.todo \subseteq q.todo /\ s.open = {} /\ Replace(q, s)
      BY <2>1, <2>2
    <2> HIDE DEF s
    <2>4. \A m \in Mems : hub'[m].ts = 0 \/ IsWritten(m, hub'[m].ts)
      BY <1>1, <2>1 DEF TypeOK
    <2> QED BY <1>1, <1>12, <2>3, <2>4, WrittenReplace DEF HubCommit
  <1>13. ASSUME NEW q \in reqs, HubDrop(q) PROVE Written'
    BY <1>1, <1>13, WrittenKept DEF HubDrop
  <1>14. CASE UNCHANGED vars
    BY <1>2, <1>14 DEF vars
  <1> QED
    BY <1>3, <1>4, <1>5, <1>6, <1>7, <1>8, <1>9, <1>10, <1>11, <1>12, <1>13, <1>14,
       WrittenEdit DEF Next

-----------------------------------------------------------------------------
\* The refinement mapping.
Store == [r \in Nodes \cup {NoNode} |->
             IF r = NoNode THEN [m \in Mems |-> hub[m].ts] ELSE row[r]]

Versions == {[mem |-> w.mem, ts |-> w.ts] : w \in written}

LEMMA RefinesInit == Init => R!Init
  BY NodesAssumption DEF Init, R!Init

LEMMA RefinesEdit ==
  ASSUME RefInv, NEW n \in Nodes, NEW m \in Mems, Edit(n, m)
  PROVE  R!Write(n, m)
  <1> USE DEF RefInv, LockInv
  <1> DEFINE w0 == [node |-> n, mem |-> m, ts |-> clock + 1]
             v0 == [mem |-> m, ts |-> clock + 1]
  <1>1. /\ clock + 1 \in Stamps /\ clock \in Nat
        /\ written' = written \cup {w0}
        /\ row' = [row EXCEPT ![n][m] = clock + 1]
        /\ UNCHANGED hub
    BY BoundsAssumption DEF Edit, hubVars, TypeOK
  <1>2. \A v \in Versions : clock + 1 > v.ts
    <2>1. \A w \in written : w.ts \in Nat /\ w.ts <= clock
      BY DEF TypeOK, Written
    <2> QED BY <1>1, <2>1 DEF Versions
  <1>3. Versions' = Versions \cup {v0}
    <2> DEFINE V(w) == [mem |-> w.mem, ts |-> w.ts]
    <2>1. V(w0) = v0
      OBVIOUS
    <2>2. Versions' = {V(w) : w \in written \cup {w0}} /\ Versions = {V(w) : w \in written}
      BY <1>1 DEF Versions
    <2> HIDE DEF V, w0, v0
    <2> QED BY <2>1, <2>2
  <1>4. Store' = [Store EXCEPT ![n][m] = clock + 1]
    <2>1. n # NoNode
      BY NodesAssumption
    <2> QED BY <1>1, <2>1 DEF Store, TypeOK
  <1> QED BY <1>1, <1>2, <1>3, <1>4 DEF R!Write, Store, Versions

LEMMA RefinesApply ==
  ASSUME RefInv, NEW n \in Nodes, ApplyRecord(n)
  PROVE  R!Next \/ UNCHANGED <<Store, Versions>>
  <1> USE DEF RefInv, LockInv
  <1>1. PICK r \in page[n] :
           row' = [row EXCEPT ![n][r.mem] = IF r.ts > @ THEN r.ts ELSE @]
    BY DEF ApplyRecord
  <1>2. UNCHANGED <<written, hub>> /\ r \in Recs /\ n # NoNode
    BY NodesAssumption DEF ApplyRecord, hubVars, TypeOK
  <1>3. UNCHANGED Versions
    BY <1>2 DEF Versions
  <1>4. CASE r.ts > row[n][r.mem]
    <2>1. PICK w \in written : w.mem = r.mem /\ w.ts = r.ts
      BY DEF Written, IsWritten
    <2> DEFINE v == [mem |-> w.mem, ts |-> w.ts]
    <2>2. v \in Versions /\ v.mem = r.mem /\ v.ts = r.ts
      BY <2>1 DEF Versions
    <2> HIDE DEF v
    <2>3. Store[n] = row[n]
      BY <1>2 DEF Store
    <2>4. row' = [row EXCEPT ![n][r.mem] = r.ts]
      BY <1>1, <1>2, <1>4 DEF TypeOK
    <2>5. Store' = [Store EXCEPT ![n][r.mem] = r.ts]
      BY <1>2, <2>4 DEF Store, TypeOK
    <2>6. R!Adopt(n, v)
      BY <1>3, <1>4, <2>2, <2>3, <2>5 DEF R!Adopt, Store, Versions
    <2> QED BY <2>2, <2>6 DEF R!Next, Versions
  <1>5. CASE ~(r.ts > row[n][r.mem])
    <2>1. row' = row
      BY <1>1, <1>2, <1>5 DEF TypeOK
    <2> QED BY <1>2, <1>3, <2>1 DEF Store
  <1> QED BY <1>4, <1>5

LEMMA RefinesCommit ==
  ASSUME RefInv, NEW q \in reqs, HubCommit(q)
  PROVE  R!Next
  <1> USE DEF RefInv, LockInv
  <1>1. PICK t \in q.open :
           hub' = [hub EXCEPT ![t.mem] =
                     [ts |-> t.ts, origin |-> q.node, seq |-> t.key]]
    BY DEF HubCommit
  <1>2. UNCHANGED <<written, row>> /\ t \in Recs /\ t.ts > hub[t.mem].ts
    BY DEF HubCommit, TypeOK, RowsLocked
  <1>3. UNCHANGED Versions
    BY <1>2 DEF Versions
  <1>4. PICK w \in written : w.mem = t.mem /\ w.ts = t.ts
    BY DEF Written, IsWritten
  <1> DEFINE v == [mem |-> w.mem, ts |-> w.ts]
  <1>5. v \in Versions /\ v.mem = t.mem /\ v.ts = t.ts
    BY <1>4 DEF Versions
  <1> HIDE DEF v
  <1>6. Store[NoNode] = [m \in Mems |-> hub[m].ts]
    BY DEF Store
  <1>7. [m \in Mems |-> hub'[m].ts] = [[m \in Mems |-> hub[m].ts] EXCEPT ![t.mem] = t.ts]
    BY <1>1, <1>2 DEF TypeOK
  <1>8. Store' = [Store EXCEPT ![NoNode][t.mem] = t.ts]
    <2>1. Store' = [r \in Nodes \cup {NoNode} |->
                      IF r = NoNode THEN [m \in Mems |-> hub'[m].ts] ELSE row[r]]
      BY <1>2 DEF Store
    <2>2. Store = [r \in Nodes \cup {NoNode} |->
                      IF r = NoNode THEN [m \in Mems |-> hub[m].ts] ELSE row[r]]
      BY DEF Store
    <2> QED BY <1>7, <2>1, <2>2
  <1>9. Store[NoNode][t.mem] = hub[t.mem].ts
    BY <1>2, <1>6
  <1>10. R!Adopt(NoNode, v)
    BY <1>2, <1>3, <1>5, <1>8, <1>9 DEF R!Adopt, Store, Versions
  <1> QED BY <1>5, <1>10 DEF R!Next, Versions

LEMMA RefinesStep == RefInv /\ [Next]_vars => [R!Next]_<<Store, Versions>>
  <1> SUFFICES ASSUME RefInv, [Next]_vars
               PROVE  R!Next \/ UNCHANGED <<Store, Versions>>
    OBVIOUS
  <1>1. ASSUME UNCHANGED <<written, row, hub>> PROVE UNCHANGED <<Store, Versions>>
    BY <1>1 DEF Store, Versions
  <1>2. ASSUME NEW n \in Nodes, NEW m \in Mems, Edit(n, m) PROVE R!Next
    BY <1>2, RefinesEdit DEF R!Next
  <1>3. ASSUME NEW n \in Nodes,
               \/ BeginCycle(n) \/ PushBatch(n) \/ PushAck(n)
               \/ StartPull(n) \/ ProbeFound(n) \/ ProbeInconclusive(n)
               \/ FetchPage(n) \/ SkipRecord(n) \/ SaveCursor(n)
               \/ Interrupt(n) \/ ResetCursor(n)
        PROVE  UNCHANGED <<written, row, hub>>
    BY <1>3 DEF BeginCycle, PushBatch, PushAck, StartPull, ProbeFound, ProbeInconclusive,
                FetchPage, SkipRecord, SaveCursor, Interrupt, ResetCursor, hubVars
  <1>4. ASSUME NEW q \in reqs, HubSkip(q) \/ HubStore(q) \/ HubReject(q) \/ HubDrop(q)
        PROVE  UNCHANGED <<written, row, hub>>
    BY <1>4 DEF HubSkip, HubStore, HubReject, HubDrop, hubVars
  <1>5. CASE UNCHANGED vars
    BY <1>1, <1>5 DEF vars, hubVars
  <1> QED
    BY <1>1, <1>2, <1>3, <1>4, <1>5, RefinesApply, RefinesCommit DEF Next

\* Every behaviour of the nodes and the hub is one of the abstract store: no
\* replica ever takes up a version nobody wrote, or goes back to an older one.
THEOREM LastWriteWinsHolds == Spec => LastWriteWins
  <1>1. Init => RefInv
    BY InitLock, InitWritten DEF RefInv
  <1>2. RefInv /\ [Next]_vars => RefInv'
    BY StepLock, StepWritten DEF RefInv, LockInv
  <1>3. Spec => []RefInv
    BY <1>1, <1>2, PTL DEF Spec
  <1>4. RefInv /\ [Next]_vars => [R!Next]_<<Store, Versions>>
    BY RefinesStep
  <1> QED BY <1>3, <1>4, RefinesInit, PTL
          DEF Spec, LastWriteWins, R!Spec, Store, Versions
-----------------------------------------------------------------------------
(* The pull path leaves nothing behind its cursor but what the history     *)
(* variables name.  A position of a pull is one the hub has shown a number *)
(* of, or one after it; the numbers of a memory rise, as its row is locked *)
(* from the taking of a number to the commit.  A commit that may come      *)
(* behind a position is therefore one behind a number already shown.       *)

\* A node is not behind what it has pushed, or is about to push.
OwnWritesHeld ==
    /\ \A n \in Nodes : \A r \in pending[n] : row[n][r.mem] >= r.ts
    /\ \A q \in reqs : \A r \in q.todo \cup q.open : row[q.node][r.mem] >= r.ts
    /\ \A n \in Nodes, m \in Mems :
          hub[m].origin = n => row[n][m] >= hub[m].ts

\* No version in the system is newer than the clock.
StampsIssued ==
    /\ \A n \in Nodes, m \in Mems : row[n][m] <= clock
    /\ \A m \in Mems : hub[m].ts <= clock
    /\ \A n \in Nodes : \A r \in page[n] : r.ts <= clock

\* The hub has shown the sequence value k or a later one.
Reached(k) == k <= 0 \/ \E m \in Mems : k <= hub[m].seq

\* A transaction has a later number than the row it replaces, and what a node
\* knows that pages on the sequence the hub has shown.
SeqOrdered ==
    /\ \A q \in reqs : \A t \in q.open :
          t.key > hub[t.mem].seq /\ t.key <= hubSeq
    /\ \A m \in Mems : hub[m].seq <= hubSeq
    /\ \A m \in Mems : hub[m].seq = 0 => hub[m].ts = 0
    /\ \A n \in Nodes :
          /\ Reached(cursor[n])
          /\ pc[n] = "fetch" /\ ~legacy[n] => Reached(lpos[n])
          /\ pc[n] = "apply" /\ ~legacy[n] => Reached(ptop[n])

\* The row of m at the hub is one that n may have passed without getting it.
Excused(n, m) ==
    \/ [mem |-> m, ts |-> hub[m].ts] \in late
    \/ [node |-> n, mem |-> m, ts |-> hub[m].ts] \in skipped

\* Node n holds what the hub has up to position k, save the records in S.
HoldsBut(n, k, S) ==
    \A m \in Mems : hub[m].seq <= k =>
        \/ row[n][m] >= hub[m].ts
        \/ Excused(n, m)
        \/ \E r \in S : r.mem = m /\ r.ts = hub[m].ts

\* What lies behind a position a pull has reached is held or in its page.
PullCovers ==
    \A n \in Nodes :
        /\ HoldsBut(n, cursor[n], {})
        /\ pc[n] = "probe" => legacy[n]
        /\ pc[n] = "fetch" /\ ~legacy[n] => HoldsBut(n, lpos[n], {})
        /\ pc[n] = "apply" /\ ~legacy[n] => HoldsBut(n, ptop[n], page[n])

PullFacts == OwnWritesHeld /\ StampsIssued /\ SeqOrdered /\ PullCovers

-----------------------------------------------------------------------------
LEMMA InitPull == Init => PullFacts
  <1> SUFFICES ASSUME Init PROVE PullFacts
    OBVIOUS
  <1>1. OwnWritesHeld
    BY NodesAssumption DEF Init, OwnWritesHeld
  <1>2. StampsIssued
    BY DEF Init, StampsIssued
  <1>4. SeqOrdered
    BY DEF Init, SeqOrdered, Reached
  <1>5. PullCovers
    BY DEF Init, PullCovers, HoldsBut, Excused
  <1> QED BY <1>1, <1>2, <1>4, <1>5 DEF PullFacts

\* The steps of a sync cycle that leave rows, requests and the hub alone:
\* what they must keep is what the pull knows of its positions.
LEMMA PullCursors ==
  ASSUME TypeOK, PullFacts, NEW n \in Nodes,
         UNCHANGED <<clock, row, pending, hub, hubSeq, late, skipped, reqs>>,
         \A k \in Nodes \ {n} :
            /\ pc'[k] = pc[k] /\ cursor'[k] = cursor[k] /\ legacy'[k] = legacy[k]
            /\ lpos'[k] = lpos[k] /\ ptop'[k] = ptop[k] /\ page'[k] = page[k],
         \A r \in page'[n] : r.ts <= clock,
         pc'[n] = "probe" => legacy'[n],
         Reached(cursor[n])' /\ HoldsBut(n, cursor[n], {})',
         pc'[n] = "fetch" /\ ~legacy'[n] =>
            Reached(lpos[n])' /\ HoldsBut(n, lpos[n], {})',
         pc'[n] = "apply" /\ ~legacy'[n] =>
            Reached(ptop[n])' /\ HoldsBut(n, ptop[n], page[n])'
  PROVE  PullFacts'
  <1>1. OwnWritesHeld'
    BY DEF PullFacts, OwnWritesHeld
  <1>2. StampsIssued'
    BY DEF PullFacts, StampsIssued
  <1>4. SeqOrdered'
    <2>1. ASSUME NEW k \in Nodes
          PROVE  /\ Reached(cursor[k])'
                 /\ pc'[k] = "fetch" /\ ~legacy'[k] => Reached(lpos[k])'
                 /\ pc'[k] = "apply" /\ ~legacy'[k] => Reached(ptop[k])'
      <3>1. CASE k = n
        BY <3>1
      <3>2. CASE k # n
        BY <3>2 DEF PullFacts, SeqOrdered, Reached
      <3> QED BY <3>1, <3>2
    <2> QED BY <2>1 DEF PullFacts, SeqOrdered
  <1>5. PullCovers'
    <2>1. ASSUME NEW k \in Nodes
          PROVE  /\ HoldsBut(k, cursor[k], {})'
                 /\ pc'[k] = "probe" => legacy'[k]
                 /\ pc'[k] = "fetch" /\ ~legacy'[k] => HoldsBut(k, lpos[k], {})'
                 /\ pc'[k] = "apply" /\ ~legacy'[k] => HoldsBut(k, ptop[k], page[k])'
      <3>1. CASE k = n
        BY <3>1
      <3>2. CASE k # n
        BY <3>2 DEF PullFacts, PullCovers, HoldsBut, Excused
      <3> QED BY <3>1, <3>2
    <2> QED BY <2>1 DEF PullCovers
  <1> QED BY <1>1, <1>2, <1>4, <1>5 DEF PullFacts

\* A node that has left the pull, or not begun it, has no position to keep.
LEMMA PullElsewhere ==
  ASSUME TypeOK, PullFacts, NEW n \in Nodes,
         UNCHANGED <<clock, row, pending, cursor, hub, hubSeq, late, skipped, reqs, page,
                     legacy, lpos, ptop>>,
         \A k \in Nodes \ {n} : pc'[k] = pc[k],
         pc'[n] \notin {"probe", "fetch", "apply"}
  PROVE  PullFacts'
  <1>1. \A r \in page'[n] : r.ts <= clock
    BY DEF PullFacts, StampsIssued
  <1>2. Reached(cursor[n])' /\ HoldsBut(n, cursor[n], {})'
    BY DEF PullFacts, SeqOrdered, PullCovers, Reached, HoldsBut, Excused
  <1> QED BY <1>1, <1>2, PullCursors

LEMMA PullStart ==
  ASSUME TypeOK, PullFacts, NEW n \in Nodes, StartPull(n)
  PROVE  PullFacts'
  <1>1. /\ UNCHANGED <<clock, row, pending, cursor, hub, hubSeq, late, skipped, reqs, page, ptop>>
        /\ legacy'[n] = (cursor[n] = Unknown)
        /\ cursor[n] # Unknown => pc'[n] = "fetch" /\ lpos'[n] = cursor[n]
        /\ cursor[n] = Unknown => pc'[n] = "probe"
    BY DEF StartPull, GoTo, TypeOK, hubVars, histVars
  <1>2. \A k \in Nodes \ {n} :
            pc'[k] = pc[k] /\ legacy'[k] = legacy[k] /\ lpos'[k] = lpos[k]
    BY DEF StartPull, GoTo, TypeOK
  <1>3. \A r \in page'[n] : r.ts <= clock
    BY <1>1 DEF PullFacts, StampsIssued
  <1>4. Reached(cursor[n])' /\ HoldsBut(n, cursor[n], {})'
    BY <1>1 DEF PullFacts, SeqOrdered, PullCovers, Reached, HoldsBut, Excused
  <1>5. cursor[n] # Unknown => Reached(lpos[n])' /\ HoldsBut(n, lpos[n], {})'
    BY <1>1, <1>4 DEF Reached, HoldsBut, Excused
  <1> QED BY <1>1, <1>2, <1>3, <1>4, <1>5, PullCursors

LEMMA PullProbe ==
  ASSUME TypeOK, PullFacts, NEW n \in Nodes, ProbeFound(n) \/ ProbeInconclusive(n)
  PROVE  PullFacts'
  <1>1. /\ UNCHANGED <<clock, row, pending, hub, hubSeq, late, skipped, reqs, page, ptop>>
        /\ pc'[n] = "fetch" /\ pc[n] = "probe"
        /\ \/ legacy'[n] = FALSE /\ cursor'[n] = 0 /\ lpos'[n] = 0
           \/ legacy'[n] = legacy[n] /\ cursor'[n] = cursor[n]
    BY DEF ProbeFound, ProbeInconclusive, GoTo, TypeOK, hubVars, histVars, pullVars
  <1>2. \A k \in Nodes \ {n} :
            /\ pc'[k] = pc[k] /\ legacy'[k] = legacy[k] /\ lpos'[k] = lpos[k]
            /\ cursor'[k] = cursor[k]
    BY DEF ProbeFound, ProbeInconclusive, GoTo, TypeOK, pullVars
  <1>3. \A r \in page'[n] : r.ts <= clock
    BY <1>1 DEF PullFacts, StampsIssued
  <1>4. legacy[n]
    BY <1>1 DEF PullFacts, PullCovers
  <1>5. CASE legacy'[n] = FALSE /\ cursor'[n] = 0 /\ lpos'[n] = 0
    <2>1. Reached(cursor[n])' /\ Reached(lpos[n])'
      BY <1>1, <1>5 DEF PullFacts, SeqOrdered, Reached, TypeOK
    <2>2. \A m \in Mems : hub[m].seq <= 0 => row[n][m] >= hub[m].ts
      BY BoundsAssumption DEF PullFacts, SeqOrdered, TypeOK
    <2>3. HoldsBut(n, cursor[n], {})' /\ HoldsBut(n, lpos[n], {})'
      BY <1>1, <1>5, <2>2 DEF HoldsBut, Excused
    <2> QED BY <1>1, <1>2, <1>3, <1>5, <2>1, <2>3, PullCursors
  <1>6. CASE legacy'[n] = legacy[n] /\ cursor'[n] = cursor[n]
    <2>1. Reached(cursor[n])' /\ HoldsBut(n, cursor[n], {})'
      BY <1>1, <1>6 DEF PullFacts, SeqOrdered, PullCovers, Reached, HoldsBut, Excused
    <2> QED BY <1>1, <1>2, <1>3, <1>4, <1>6, <2>1, PullCursors
  <1> QED BY <1>1, <1>5, <1>6

LEMMA PullFetch ==
  ASSUME TypeOK, PullFacts, NEW n \in Nodes, FetchPage(n)
  PROVE  PullFacts'
  <1>1. PICK P \in SUBSET Visible(n) :
           /\ IsPage(P, Visible(n), PageSize)
           /\ P = {} => EndPull(n)
           /\ P # {} => /\ GoTo(n, "apply")
                        /\ page' = [page EXCEPT ![n] = P]
                        /\ \E last \in P :
                              /\ \A r \in P : r.key <= last.key
                              /\ ptop' = [ptop EXCEPT ![n] = last.key]
                        /\ UNCHANGED <<legacy, lpos>>
    BY DEF FetchPage
  <1>2. UNCHANGED <<clock, row, pending, cursor, hub, hubSeq, late, skipped, reqs>> /\ pc[n] = "fetch"
    BY DEF FetchPage, hubVars, histVars
  <1>3. Reached(cursor[n])' /\ HoldsBut(n, cursor[n], {})'
    BY <1>2 DEF PullFacts, SeqOrdered, PullCovers, Reached, HoldsBut, Excused
  <1>4. \A r \in Visible(n) : r.ts <= clock
    BY DEF Visible, PullFacts, StampsIssued
  <1>5. CASE P = {}
    <2>1. /\ pc'[n] = "idle" /\ page'[n] = {}
          /\ \A k \in Nodes \ {n} :
                /\ pc'[k] = pc[k] /\ legacy'[k] = legacy[k]
                /\ lpos'[k] = lpos[k] /\ ptop'[k] = ptop[k] /\ page'[k] = page[k]
      BY <1>1, <1>5 DEF EndPull, GoTo, TypeOK
    <2> QED BY <1>2, <1>3, <2>1, PullCursors
  <1>6. CASE P # {}
    <2>1. PICK last \in P :
             /\ \A r \in P : r.key <= last.key
             /\ ptop' = [ptop EXCEPT ![n] = last.key]
      BY <1>1, <1>6
    <2>2. /\ pc'[n] = "apply" /\ page'[n] = P /\ ptop'[n] = last.key
          /\ \A k \in Nodes \ {n} :
                pc'[k] = pc[k] /\ ptop'[k] = ptop[k] /\ page'[k] = page[k]
          /\ UNCHANGED <<legacy, lpos>>
      BY <1>1, <1>6, <2>1 DEF GoTo, TypeOK
    <2>3. ASSUME ~legacy[n]
          PROVE  Reached(ptop[n])' /\ HoldsBut(n, ptop[n], page[n])'
      <3>1. Visible(n) = {[mem |-> m, ts |-> hub[m].ts, key |-> hub[m].seq] :
                             m \in {x \in Mems : /\ hub[x].ts > 0
                                                 /\ hub[x].seq > lpos[n]
                                                 /\ hub[x].origin # n}}
        BY <2>3 DEF Visible
      <3>2. PICK m0 \in Mems : last.key = hub[m0].seq
        BY <3>1
      <3>3. hub[m0].seq <= hub[m0].seq
        BY DEF TypeOK
      <3>4. Reached(ptop[n])'
        BY <1>2, <2>2, <3>2, <3>3 DEF Reached
      <3>5. ASSUME NEW m \in Mems, hub[m].seq <= last.key
            PROVE  row[n][m] >= hub[m].ts \/ Excused(n, m) \/ \E r \in P : r.mem = m /\ r.ts = hub[m].ts
        <4> DEFINE r0 == [mem |-> m, ts |-> hub[m].ts, key |-> hub[m].seq]
        <4>1. /\ hub[m].ts \in Nat /\ hub[m].seq \in Nat /\ lpos[n] \in Nat
              /\ row[n][m] \in Nat /\ last.key \in Nat
          BY <3>2, BoundsAssumption DEF TypeOK
        <4>2. CASE hub[m].ts = 0
          BY <4>1, <4>2
        <4>3. CASE hub[m].seq <= lpos[n]
          BY <1>2, <2>3, <4>3 DEF PullFacts, PullCovers, HoldsBut, Excused
        <4>4. CASE hub[m].origin = n
          BY <4>4 DEF PullFacts, OwnWritesHeld
        <4>5. CASE r0 \in Visible(n)
          <5>1. r0 \in P
            BY <1>1, <2>1, <3>5, <4>1, <4>5 DEF IsPage
          <5> QED BY <4>1, <5>1
        <4> QED BY <3>1, <4>1, <4>2, <4>3, <4>4, <4>5
      <3>6. HoldsBut(n, ptop[n], page[n])'
        BY <1>2, <2>2, <3>5 DEF HoldsBut, Excused
      <3> QED BY <3>4, <3>6
    <2> QED BY <1>2, <1>3, <1>4, <2>2, <2>3, PullCursors
  <1> QED BY <1>5, <1>6

LEMMA PullSave ==
  ASSUME TypeOK, PullFacts, NEW n \in Nodes, SaveCursor(n)
  PROVE  PullFacts'
  <1>1. /\ UNCHANGED <<clock, row, pending, hub, hubSeq, late, skipped, reqs>>
        /\ pc[n] = "apply" /\ page[n] = {}
        /\ cursor'[n] = IF legacy[n] THEN cursor[n] ELSE ptop[n]
        /\ \A k \in Nodes \ {n} : cursor'[k] = cursor[k]
    BY DEF SaveCursor, hubVars, histVars, TypeOK
  <1>2. /\ page'[n] = {}
        /\ \/ pc'[n] = "idle"
           \/ pc'[n] = "fetch" /\ lpos'[n] = ptop[n] /\ legacy'[n] = legacy[n]
        /\ \A k \in Nodes \ {n} :
              /\ pc'[k] = pc[k] /\ legacy'[k] = legacy[k]
              /\ lpos'[k] = lpos[k] /\ ptop'[k] = ptop[k] /\ page'[k] = page[k]
    <2>1. CASE /\ GoTo(n, "fetch")
               /\ lpos' = [lpos EXCEPT ![n] = ptop[n]]
               /\ UNCHANGED <<legacy, page, ptop, pfull>>
      BY <1>1, <2>1 DEF GoTo, TypeOK
    <2>2. CASE EndPull(n)
      BY <2>2 DEF EndPull, GoTo, TypeOK
    <2> QED BY <2>1, <2>2 DEF SaveCursor
  <1>3. ~legacy[n] => Reached(ptop[n]) /\ HoldsBut(n, ptop[n], {})
    BY <1>1 DEF PullFacts, SeqOrdered, PullCovers, HoldsBut, Excused
  <1>4. Reached(cursor[n])' /\ HoldsBut(n, cursor[n], {})'
    <2>1. CASE legacy[n]
      BY <1>1, <2>1 DEF PullFacts, SeqOrdered, PullCovers, Reached, HoldsBut, Excused
    <2>2. CASE ~legacy[n]
      BY <1>1, <1>3, <2>2 DEF Reached, HoldsBut, Excused
    <2> QED BY <2>1, <2>2
  <1>5. pc'[n] = "fetch" /\ ~legacy'[n] => Reached(lpos[n])' /\ HoldsBut(n, lpos[n], {})'
    BY <1>1, <1>2, <1>3 DEF Reached, HoldsBut, Excused
  <1> QED BY <1>1, <1>2, <1>4, <1>5, PullCursors

LEMMA PullReset ==
  ASSUME TypeOK, PullFacts, NEW n \in Nodes, ResetCursor(n)
  PROVE  PullFacts'
  <1>1. /\ UNCHANGED <<clock, row, pending, hub, hubSeq, late, skipped, reqs, pc, legacy, lpos, ptop, page>>
        /\ cursor'[n] = -1
        /\ \A k \in Nodes \ {n} : cursor'[k] = cursor[k]
    BY DEF ResetCursor, hubVars, histVars, pullVars, TypeOK
  <1>2. \A r \in page'[n] : r.ts <= clock
    BY <1>1 DEF PullFacts, StampsIssued
  <1>3. Reached(cursor[n])' /\ HoldsBut(n, cursor[n], {})'
    BY <1>1 DEF PullFacts, SeqOrdered, Reached, HoldsBut, Excused, TypeOK
  <1>4. /\ pc'[n] = "probe" => legacy'[n]
        /\ pc'[n] = "fetch" /\ ~legacy'[n] =>
              Reached(lpos[n])' /\ HoldsBut(n, lpos[n], {})'
        /\ pc'[n] = "apply" /\ ~legacy'[n] =>
              Reached(ptop[n])' /\ HoldsBut(n, ptop[n], page[n])'
    BY <1>1 DEF PullFacts, SeqOrdered, PullCovers, Reached, HoldsBut, Excused
  <1> QED BY <1>1, <1>2, <1>3, <1>4, PullCursors

\* Rows only grow, and the clock with them.
LEMMA PullEdit ==
  ASSUME TypeOK, PullFacts, NEW n \in Nodes, NEW m \in Mems, Edit(n, m)
  PROVE  PullFacts'
  <1>1. /\ UNCHANGED <<hub, hubSeq, late, skipped, reqs, cursor, pc, legacy, lpos, ptop, page>>
        /\ clock' = clock + 1
        /\ clock \in Nat
        /\ row' = [row EXCEPT ![n][m] = clock + 1]
        /\ pending' = [pending EXCEPT ![n] = @ \cup {OutboxRow(m, clock + 1)}]
    BY DEF Edit, hubVars, histVars, pullVars, TypeOK
  <1>2. ASSUME NEW k \in Nodes, NEW x \in Mems
        PROVE  /\ row[k][x] \in Nat /\ row'[k][x] \in Nat
               /\ row'[k][x] >= row[k][x] /\ row'[k][x] <= clock'
    <2>1. row[k][x] \in Nat /\ row[k][x] <= clock
      BY BoundsAssumption DEF TypeOK, PullFacts, StampsIssued
    <2>2. row'[k][x] = row[k][x] \/ row'[k][x] = clock + 1
      BY <1>1 DEF TypeOK
    <2> QED BY <1>1, <2>1, <2>2
  <1>3. row'[n][m] = clock + 1
    BY <1>1 DEF TypeOK
  <1>4. OwnWritesHeld'
    <2>1. ASSUME NEW k \in Nodes, NEW r \in pending'[k] PROVE row'[k][r.mem] >= r.ts
      <3>1. CASE r \in pending[k]
        <4>1. r \in Recs /\ row[k][r.mem] >= r.ts
          BY <3>1 DEF TypeOK, PullFacts, OwnWritesHeld
        <4> QED BY <1>2, <4>1, BoundsAssumption
      <3>2. CASE r \notin pending[k]
        <4>1. k = n /\ r = OutboxRow(m, clock + 1)
          BY <1>1, <2>1, <3>2 DEF TypeOK
        <4> QED BY <1>1, <1>3, <4>1 DEF OutboxRow
      <3> QED BY <3>1, <3>2
    <2>2. ASSUME NEW q \in reqs', NEW r \in q.todo \cup q.open
          PROVE  row'[q.node][r.mem] >= r.ts
      <3>1. q.node \in Nodes /\ r \in Recs /\ row[q.node][r.mem] >= r.ts
        BY <1>1 DEF TypeOK, PullFacts, OwnWritesHeld
      <3> QED BY <1>2, <3>1, BoundsAssumption
    <2>3. ASSUME NEW k \in Nodes, NEW x \in Mems, hub'[x].origin = k
          PROVE  row'[k][x] >= hub'[x].ts
      <3>1. hub[x].ts \in Nat /\ row[k][x] >= hub[x].ts
        BY <1>1, <2>3, BoundsAssumption DEF TypeOK, PullFacts, OwnWritesHeld
      <3> QED BY <1>1, <1>2, <3>1
    <2> QED BY <2>1, <2>2, <2>3 DEF OwnWritesHeld
  <1>5. StampsIssued'
    <2>1. \A x \in Mems : hub'[x].ts <= clock'
      BY <1>1, BoundsAssumption DEF TypeOK, PullFacts, StampsIssued
    <2>2. ASSUME NEW k \in Nodes, NEW r \in page'[k] PROVE r.ts <= clock'
      <3>1. r \in Recs /\ r.ts <= clock
        BY <1>1 DEF TypeOK, PullFacts, StampsIssued
      <3> QED BY <1>1, <3>1
    <2> QED BY <1>2, <2>1, <2>2 DEF StampsIssued
  <1>6. SeqOrdered'
    BY <1>1 DEF PullFacts, SeqOrdered, Reached
  <1>7. ASSUME NEW k \in Nodes, NEW c, NEW S, HoldsBut(k, c, S)
        PROVE  \A x \in Mems : hub[x].seq <= c =>
                   \/ row'[k][x] >= hub[x].ts \/ Excused(k, x)
                   \/ \E r \in S : r.mem = x /\ r.ts = hub[x].ts
    <2>1. \A x \in Mems : hub[x].ts \in Nat
      BY BoundsAssumption DEF TypeOK
    <2> QED BY <1>2, <1>7, <2>1 DEF HoldsBut, Excused
  <1>8. PullCovers'
    <2>1. ASSUME NEW k \in Nodes PROVE HoldsBut(k, cursor[k], {})'
      <3>1. HoldsBut(k, cursor[k], {})
        BY DEF PullFacts, PullCovers
      <3>2. \A x \in Mems : hub[x].seq <= cursor[k] =>
               \/ row'[k][x] >= hub[x].ts \/ Excused(k, x)
               \/ \E r \in {} : r.mem = x /\ r.ts = hub[x].ts
        BY <1>7, <3>1
      <3> QED BY <1>1, <3>2 DEF HoldsBut, Excused
    <2>2. ASSUME NEW k \in Nodes, pc[k] = "fetch", ~legacy[k]
          PROVE  HoldsBut(k, lpos[k], {})'
      <3>1. HoldsBut(k, lpos[k], {})
        BY <2>2 DEF PullFacts, PullCovers
      <3>2. \A x \in Mems : hub[x].seq <= lpos[k] =>
               \/ row'[k][x] >= hub[x].ts \/ Excused(k, x)
               \/ \E r \in {} : r.mem = x /\ r.ts = hub[x].ts
        BY <1>7, <3>1
      <3> QED BY <1>1, <3>2 DEF HoldsBut, Excused
    <2>3. ASSUME NEW k \in Nodes, pc[k] = "apply", ~legacy[k]
          PROVE  HoldsBut(k, ptop[k], page[k])'
      <3>1. HoldsBut(k, ptop[k], page[k])
        BY <2>3 DEF PullFacts, PullCovers
      <3>2. \A x \in Mems : hub[x].seq <= ptop[k] =>
               \/ row'[k][x] >= hub[x].ts \/ Excused(k, x)
               \/ \E r \in page[k] : r.mem = x /\ r.ts = hub[x].ts
        BY <1>7, <3>1
      <3> QED BY <1>1, <3>2 DEF HoldsBut, Excused
    <2> QED BY <1>1, <2>1, <2>2, <2>3 DEF PullFacts, PullCovers
  <1> QED BY <1>4, <1>5, <1>6, <1>8 DEF PullFacts

LEMMA PullApply ==
  ASSUME TypeOK, PullFacts, NEW n \in Nodes, ApplyRecord(n)
  PROVE  PullFacts'
  <1>1. PICK r \in page[n] :
           /\ page' = [page EXCEPT ![n] = @ \ {r}]
           /\ row' = [row EXCEPT ![n][r.mem] = IF r.ts > @ THEN r.ts ELSE @]
    BY DEF ApplyRecord
  <1>2. /\ UNCHANGED <<clock, pending, hub, hubSeq, late, skipped, reqs, cursor, pc, legacy, lpos, ptop>>
        /\ pc[n] = "apply"
    BY DEF ApplyRecord, hubVars, histVars
  <1>3. r \in Recs /\ r.ts <= clock /\ clock \in Nat
    BY BoundsAssumption DEF TypeOK, PullFacts, StampsIssued
  <1>4. ASSUME NEW k \in Nodes, NEW x \in Mems
        PROVE  /\ row[k][x] \in Nat /\ row'[k][x] \in Nat
               /\ row'[k][x] >= row[k][x] /\ row'[k][x] <= clock'
    <2>1. row[k][x] \in Nat /\ row[k][x] <= clock
      BY BoundsAssumption DEF TypeOK, PullFacts, StampsIssued
    <2>2. row'[k][x] = row[k][x] \/ (row'[k][x] = r.ts /\ r.ts > row[k][x])
      BY <1>1, <1>3 DEF TypeOK
    <2> QED BY <1>2, <1>3, <2>1, <2>2
  <1>5. row'[n][r.mem] >= r.ts
    <2>1. row[n][r.mem] \in Nat
      BY <1>3, <1>4
    <2>2. row'[n][r.mem] = IF r.ts > row[n][r.mem] THEN r.ts ELSE row[n][r.mem]
      BY <1>1, <1>3 DEF TypeOK
    <2> QED BY <1>3, <2>1, <2>2
  <1>6. page'[n] = page[n] \ {r} /\ \A k \in Nodes \ {n} : page'[k] = page[k]
    BY <1>1 DEF TypeOK
  <1>7. OwnWritesHeld'
    <2>1. ASSUME NEW k \in Nodes, NEW s \in pending'[k] PROVE row'[k][s.mem] >= s.ts
      <3>1. s \in Recs /\ row[k][s.mem] >= s.ts
        BY <1>2 DEF TypeOK, PullFacts, OwnWritesHeld
      <3> QED BY <1>4, <3>1, BoundsAssumption
    <2>2. ASSUME NEW q \in reqs', NEW s \in q.todo \cup q.open
          PROVE  row'[q.node][s.mem] >= s.ts
      <3>1. q.node \in Nodes /\ s \in Recs /\ row[q.node][s.mem] >= s.ts
        BY <1>2 DEF TypeOK, PullFacts, OwnWritesHeld
      <3> QED BY <1>4, <3>1, BoundsAssumption
    <2>3. ASSUME NEW k \in Nodes, NEW x \in Mems, hub'[x].origin = k
          PROVE  row'[k][x] >= hub'[x].ts
      <3>1. hub[x].ts \in Nat /\ row[k][x] >= hub[x].ts
        BY <1>2, <2>3, BoundsAssumption DEF TypeOK, PullFacts, OwnWritesHeld
      <3> QED BY <1>2, <1>4, <3>1
    <2> QED BY <2>1, <2>2, <2>3 DEF OwnWritesHeld
  <1>8. StampsIssued'
    <2>1. \A k \in Nodes : \A s \in page'[k] : s.ts <= clock'
      BY <1>2, <1>6 DEF PullFacts, StampsIssued
    <2> QED BY <1>2, <1>4, <2>1 DEF PullFacts, StampsIssued
  <1>9. SeqOrdered'
    BY <1>2 DEF PullFacts, SeqOrdered, Reached
  <1>10. ASSUME NEW k \in Nodes, NEW c, NEW S, HoldsBut(k, c, S)
         PROVE  \A x \in Mems : hub[x].seq <= c =>
                    \/ row'[k][x] >= hub[x].ts \/ Excused(k, x)
                    \/ \E s \in S : s.mem = x /\ s.ts = hub[x].ts
    <2>1. \A x \in Mems : hub[x].ts \in Nat
      BY BoundsAssumption DEF TypeOK
    <2> QED BY <1>4, <1>10, <2>1 DEF HoldsBut, Excused
  <1>11. ASSUME ~legacy[n] PROVE HoldsBut(n, ptop[n], page[n])'
    <2>1. SUFFICES ASSUME NEW x \in Mems, hub[x].seq <= ptop[n]
                   PROVE  \/ row'[n][x] >= hub[x].ts \/ Excused(n, x)
                          \/ \E s \in page'[n] : s.mem = x /\ s.ts = hub[x].ts
      BY <1>2 DEF HoldsBut, Excused
    <2>2. \/ row'[n][x] >= hub[x].ts \/ Excused(n, x)
          \/ \E s \in page[n] : s.mem = x /\ s.ts = hub[x].ts
      BY <1>2, <1>10, <1>11, <2>1 DEF PullFacts, PullCovers
    <2>3. CASE r.mem = x /\ r.ts = hub[x].ts
      <3>1. hub[x].ts \in Nat /\ row'[n][x] \in Nat
        BY <1>4, BoundsAssumption DEF TypeOK
      <3> QED BY <1>3, <1>5, <2>3, <3>1
    <2> QED BY <1>6, <2>2, <2>3
  <1>12. PullCovers'
    <2>1. ASSUME NEW k \in Nodes PROVE HoldsBut(k, cursor[k], {})'
      <3>1. HoldsBut(k, cursor[k], {})
        BY DEF PullFacts, PullCovers
      <3>2. \A x \in Mems : hub[x].seq <= cursor[k] =>
               \/ row'[k][x] >= hub[x].ts \/ Excused(k, x)
               \/ \E s \in {} : s.mem = x /\ s.ts = hub[x].ts
        BY <1>10, <3>1
      <3> QED BY <1>2, <3>2 DEF HoldsBut, Excused
    <2>2. ASSUME NEW k \in Nodes, pc[k] = "fetch", ~legacy[k]
          PROVE  HoldsBut(k, lpos[k], {})'
      <3>1. HoldsBut(k, lpos[k], {})
        BY <2>2 DEF PullFacts, PullCovers
      <3>2. \A x \in Mems : hub[x].seq <= lpos[k] =>
               \/ row'[k][x] >= hub[x].ts \/ Excused(k, x)
               \/ \E s \in {} : s.mem = x /\ s.ts = hub[x].ts
        BY <1>10, <3>1
      <3> QED BY <1>2, <3>2 DEF HoldsBut, Excused
    <2>3. ASSUME NEW k \in Nodes \ {n}, pc[k] = "apply", ~legacy[k]
          PROVE  HoldsBut(k, ptop[k], page[k])'
      <3>1. HoldsBut(k, ptop[k], page[k])
        BY <2>3 DEF PullFacts, PullCovers
      <3>2. \A x \in Mems : hub[x].seq <= ptop[k] =>
               \/ row'[k][x] >= hub[x].ts \/ Excused(k, x)
               \/ \E s \in page[k] : s.mem = x /\ s.ts = hub[x].ts
        BY <1>10, <3>1
      <3> QED BY <1>2, <1>6, <3>2 DEF HoldsBut, Excused
    <2> QED BY <1>2, <1>11, <2>1, <2>2, <2>3 DEF PullFacts, PullCovers
  <1> QED BY <1>7, <1>8, <1>9, <1>12 DEF PullFacts

\* Requests come, shrink or go; no transaction begins or commits.
LEMMA PullRequests ==
  ASSUME TypeOK, PullFacts,
         UNCHANGED <<clock, row, cursor, hub, hubSeq, late, skipped>>,
         \A k \in Nodes : pending'[k] \subseteq pending[k] /\ page'[k] \subseteq page[k],
         \A k \in Nodes : pc'[k] \in {"probe", "fetch", "apply"} =>
            /\ pc'[k] = pc[k] /\ legacy'[k] = legacy[k] /\ lpos'[k] = lpos[k]
            /\ ptop'[k] = ptop[k] /\ page'[k] = page[k],
         \A x \in reqs' :
            /\ \A r \in x.todo \cup x.open : row[x.node][r.mem] >= r.ts
            /\ x.open = {} \/ \E q \in reqs : x.open = q.open
  PROVE  PullFacts'
  <1>1. OwnWritesHeld'
    BY DEF PullFacts, OwnWritesHeld
  <1>2. StampsIssued'
    BY DEF PullFacts, StampsIssued
  <1>3. \A x \in reqs' : \A t \in x.open : \E q \in reqs : t \in q.open
    OBVIOUS
  <1>4. SeqOrdered'
    <2>1. \A q \in reqs' : \A t \in q.open :
             t.key > hub'[t.mem].seq /\ t.key <= hubSeq'
      BY <1>3 DEF PullFacts, SeqOrdered
    <2>3. ASSUME NEW k \in Nodes
          PROVE  /\ Reached(cursor[k])'
                 /\ pc'[k] = "fetch" /\ ~legacy'[k] => Reached(lpos[k])'
                 /\ pc'[k] = "apply" /\ ~legacy'[k] => Reached(ptop[k])'
      BY <1>3 DEF PullFacts, SeqOrdered, Reached
    <2> QED BY <2>1, <2>3 DEF PullFacts, SeqOrdered
  <1>5. PullCovers'
    BY DEF PullFacts, PullCovers, HoldsBut, Excused
  <1> QED BY <1>1, <1>2, <1>4, <1>5 DEF PullFacts

LEMMA PullPushBatch ==
  ASSUME TypeOK, PullFacts, NEW n \in Nodes, PushBatch(n)
  PROVE  PullFacts'
  <1>1. PICK B \in SUBSET pending[n] :
           /\ B = {} => GoTo(n, "start") /\ UNCHANGED reqs
           /\ B # {} => /\ GoTo(n, "sent")
                        /\ reqs' = reqs \cup {[node |-> n, todo |-> B, open |-> {},
                                               ok |-> {}, lost |-> 0]}
    BY DEF PushBatch
  <1>2. UNCHANGED <<clock, row, pending, cursor, hub, hubSeq, late, skipped, legacy, lpos, page, ptop>>
    BY DEF PushBatch, hubVars, histVars, pullVars
  <1>3. pc'[n] \in {"start", "sent"} /\ \A k \in Nodes \ {n} : pc'[k] = pc[k]
    BY <1>1 DEF GoTo, TypeOK
  <1>4. \A q \in reqs : \A r \in q.todo \cup q.open : row[q.node][r.mem] >= r.ts
    BY DEF PullFacts, OwnWritesHeld
  <1>5. CASE B = {}
    <2> QED BY <1>1, <1>2, <1>3, <1>4, <1>5, PullRequests
  <1>6. CASE B # {}
    <2> DEFINE q0 == [node |-> n, todo |-> B, open |-> {}, ok |-> {}, lost |-> 0]
    <2>1. reqs' = reqs \cup {q0} /\ q0.node = n /\ q0.todo = B /\ q0.open = {}
      BY <1>1, <1>6
    <2> HIDE DEF q0
    <2>3. \A r \in B : row[n][r.mem] >= r.ts
      BY DEF PullFacts, OwnWritesHeld
    <2>4. \A x \in reqs' :
            /\ \A r \in x.todo \cup x.open : row[x.node][r.mem] >= r.ts
            /\ x.open = {} \/ \E q \in reqs : x.open = q.open
      BY <1>4, <2>1, <2>3
    <2> QED BY <1>2, <1>3, <2>4, PullRequests
  <1> QED BY <1>5, <1>6

LEMMA PullPushAck ==
  ASSUME TypeOK, PullFacts, NEW n \in Nodes, PushAck(n)
  PROVE  PullFacts'
  <1>1. PICK q \in reqs :
           /\ reqs' = reqs \ {q}
           /\ pending' = [pending EXCEPT
                            ![n] = @ \ {r \in batch[n] : r.mem \in q.ok}]
    BY DEF PushAck
  <1>2. UNCHANGED <<clock, row, cursor, hub, hubSeq, late, skipped, legacy, lpos, page, ptop>>
    BY DEF PushAck, hubVars, histVars, pullVars
  <1>3. pc'[n] \in {"push", "start"} /\ \A k \in Nodes \ {n} : pc'[k] = pc[k]
    BY DEF PushAck, GoTo, TypeOK
  <1>4. \A k \in Nodes : pending'[k] \subseteq pending[k]
    BY <1>1 DEF TypeOK
  <1>6. \A x \in reqs : \A r \in x.todo \cup x.open : row[x.node][r.mem] >= r.ts
    BY DEF PullFacts, OwnWritesHeld
  <1> QED BY <1>1, <1>2, <1>3, <1>4, <1>6, PullRequests

\* A request is replaced by one with no more to store and the same, or no,
\* transaction.
LEMMA PullReplace ==
  ASSUME TypeOK, PullFacts, NEW q \in reqs, NEW s, Replace(q, s),
         s.node = q.node, s.todo \subseteq q.todo, s.open = q.open,
         UNCHANGED <<clock, row, cursor, hub, hubSeq, late, skipped, pending>>,
         \A k \in Nodes : page'[k] \subseteq page[k],
         \A k \in Nodes : pc'[k] \in {"probe", "fetch", "apply"} =>
            /\ pc'[k] = pc[k] /\ legacy'[k] = legacy[k] /\ lpos'[k] = lpos[k]
            /\ ptop'[k] = ptop[k] /\ page'[k] = page[k]
  PROVE  PullFacts'
  <1>1. \A x \in reqs' : x = s \/ (x \in reqs /\ x # q)
    BY ReplaceMember
  <1>2. \A x \in reqs' :
            /\ \A r \in x.todo \cup x.open : row[x.node][r.mem] >= r.ts
            /\ x.open = {} \/ \E p \in reqs : x.open = p.open
    BY <1>1 DEF PullFacts, OwnWritesHeld
  <1> QED BY <1>2, PullRequests

LEMMA PullInterrupt ==
  ASSUME TypeOK, PullFacts, NEW n \in Nodes, Interrupt(n)
  PROVE  PullFacts'
  <1>1. /\ UNCHANGED <<clock, row, pending, cursor, hub, hubSeq, late, skipped>>
        /\ pc'[n] = "idle" /\ page'[n] = {}
        /\ \A k \in Nodes \ {n} :
              /\ pc'[k] = pc[k] /\ legacy'[k] = legacy[k] /\ lpos'[k] = lpos[k]
              /\ ptop'[k] = ptop[k] /\ page'[k] = page[k]
    BY DEF Interrupt, EndPull, GoTo, hubVars, histVars, TypeOK
  <1>2. CASE reqs' = {q \in reqs : ~Waits(q, n)}
    <2>2. \A x \in reqs' : \A r \in x.todo \cup x.open : row[x.node][r.mem] >= r.ts
      BY <1>2 DEF PullFacts, OwnWritesHeld
    <2> QED BY <1>1, <1>2, <2>2, PullRequests
  <1>3. ASSUME NEW q \in reqs, Replace(q, [q EXCEPT !.lost = faults + 1])
        PROVE  PullFacts'
    <2> DEFINE s == [q EXCEPT !.lost = faults + 1]
    <2>1. q \in Requests
      BY DEF TypeOK
    <2>2. s.node = q.node /\ s.todo \subseteq q.todo /\ s.open = q.open
      BY <2>1
    <2>3. Replace(q, s)
      BY <1>3
    <2> HIDE DEF s
    <2> QED BY <1>1, <2>2, <2>3, PullReplace
  <1> QED BY <1>2, <1>3 DEF Interrupt

LEMMA PullHubDrop ==
  ASSUME TypeOK, PullFacts, NEW q \in reqs, HubDrop(q)
  PROVE  PullFacts'
  <1>1. /\ UNCHANGED <<clock, row, pending, cursor, hub, hubSeq, late, skipped, pc, legacy, lpos,
                       ptop, page>>
        /\ reqs' = reqs \ {q}
    BY DEF HubDrop, hubVars, histVars, pullVars
  <1>3. \A x \in reqs' : \A r \in x.todo \cup x.open : row[x.node][r.mem] >= r.ts
    BY <1>1 DEF PullFacts, OwnWritesHeld
  <1> QED BY <1>1, <1>3, PullRequests

LEMMA PullHubSkip ==
  ASSUME TypeOK, PullFacts, NEW q \in reqs, HubSkip(q) \/ HubReject(q)
  PROVE  PullFacts'
  <1>1. UNCHANGED <<clock, row, pending, cursor, hub, hubSeq, late, skipped, pc, legacy, lpos,
                    ptop, page>>
    BY DEF HubSkip, HubReject, hubVars, histVars, pullVars
  <1>2. PICK s : /\ Replace(q, s)
                 /\ s.node = q.node /\ s.todo \subseteq q.todo /\ s.open = q.open
    <2>1. q \in Requests
      BY DEF TypeOK
    <2>2. ASSUME NEW r \in q.todo,
                 Replace(q, [q EXCEPT !.todo = @ \ {r}, !.ok = @ \cup {r.mem}])
          PROVE  \E s : /\ Replace(q, s)
                        /\ s.node = q.node /\ s.todo \subseteq q.todo /\ s.open = q.open
      <3> DEFINE s == [q EXCEPT !.todo = @ \ {r}, !.ok = @ \cup {r.mem}]
      <3>1. s.node = q.node /\ s.todo \subseteq q.todo /\ s.open = q.open
        BY <2>1
      <3>2. Replace(q, s)
        BY <2>2
      <3> HIDE DEF s
      <3> QED BY <3>1, <3>2
    <2>3. ASSUME NEW r \in q.todo, Replace(q, [q EXCEPT !.todo = @ \ {r}])
          PROVE  \E s : /\ Replace(q, s)
                        /\ s.node = q.node /\ s.todo \subseteq q.todo /\ s.open = q.open
      <3> DEFINE s == [q EXCEPT !.todo = @ \ {r}]
      <3>1. s.node = q.node /\ s.todo \subseteq q.todo /\ s.open = q.open
        BY <2>1
      <3>2. Replace(q, s)
        BY <2>3
      <3> HIDE DEF s
      <3> QED BY <3>1, <3>2
    <2> QED BY <2>2, <2>3 DEF HubSkip, HubReject
  <1> QED BY <1>1, <1>2, PullReplace

\* A record that fails is out of the page, and excused from then on.
LEMMA PullSkip ==
  ASSUME TypeOK, PullFacts, NEW n \in Nodes, SkipRecord(n)
  PROVE  PullFacts'
  <1>1. PICK r \in page[n] :
           /\ page' = [page EXCEPT ![n] = @ \ {r}]
           /\ skipped' = IF legacy[n] THEN skipped
                         ELSE skipped \cup {[node |-> n, mem |-> r.mem, ts |-> r.ts]}
    BY DEF SkipRecord
  <1>2. /\ UNCHANGED <<clock, row, pending, hub, hubSeq, late, reqs, cursor, pc,
                       legacy, lpos, ptop>>
        /\ pc[n] = "apply"
    BY DEF SkipRecord, hubVars
  <1>3. page'[n] = page[n] \ {r} /\ \A k \in Nodes \ {n} : page'[k] = page[k]
    BY <1>1 DEF TypeOK
  <1>4. OwnWritesHeld' /\ SeqOrdered'
    BY <1>2 DEF PullFacts, OwnWritesHeld, SeqOrdered, Reached
  <1>5. StampsIssued'
    BY <1>2, <1>3 DEF PullFacts, StampsIssued
  <1>6. \A k \in Nodes, m \in Mems : Excused(k, m) => Excused(k, m)'
    BY <1>1, <1>2 DEF Excused
  <1>7. ASSUME ~legacy[n] PROVE HoldsBut(n, ptop[n], page[n])'
    <2>1. SUFFICES ASSUME NEW x \in Mems, hub[x].seq <= ptop[n]
                   PROVE  \/ row[n][x] >= hub[x].ts \/ Excused(n, x)'
                          \/ \E s \in page'[n] : s.mem = x /\ s.ts = hub[x].ts
      BY <1>2 DEF HoldsBut
    <2>2. \/ row[n][x] >= hub[x].ts \/ Excused(n, x)
          \/ \E s \in page[n] : s.mem = x /\ s.ts = hub[x].ts
      BY <1>2, <1>7, <2>1 DEF PullFacts, PullCovers, HoldsBut
    <2>3. CASE r.mem = x /\ r.ts = hub[x].ts
      BY <1>1, <1>2, <1>7, <2>3 DEF Excused
    <2> QED BY <1>3, <1>6, <2>2, <2>3
  <1>8. PullCovers'
    <2>1. ASSUME NEW k \in Nodes
          PROVE  /\ HoldsBut(k, cursor[k], {})'
                 /\ pc[k] = "fetch" /\ ~legacy[k] => HoldsBut(k, lpos[k], {})'
      BY <1>2, <1>6 DEF PullFacts, PullCovers, HoldsBut
    <2>2. ASSUME NEW k \in Nodes \ {n}, pc[k] = "apply", ~legacy[k]
          PROVE  HoldsBut(k, ptop[k], page[k])'
      BY <1>2, <1>3, <1>6, <2>2 DEF PullFacts, PullCovers, HoldsBut
    <2> QED BY <1>2, <1>7, <2>1, <2>2 DEF PullFacts, PullCovers
  <1> QED BY <1>4, <1>5, <1>8 DEF PullFacts

LEMMA PullHubStore ==
  ASSUME TypeOK, PullFacts, NEW q \in reqs, HubStore(q)
  PROVE  PullFacts'
  <1>1. PICK r \in q.todo :
           Replace(q, [q EXCEPT
                !.todo = @ \ {r},
                !.open = {[mem |-> r.mem, ts |-> r.ts, key |-> hubSeq + 1]}])
    BY DEF HubStore
  <1> DEFINE u == [mem |-> r.mem, ts |-> r.ts, key |-> hubSeq + 1]
             s == [q EXCEPT !.todo = @ \ {r}, !.open = {u}]
  <1>2. /\ UNCHANGED <<clock, row, pending, cursor, pc, hub, late, skipped, legacy,
                       lpos, ptop, page>>
        /\ hubSeq' = hubSeq + 1 /\ hubSeq \in Nat
    BY DEF HubStore, histVars, pullVars, TypeOK
  <1>3. q \in Requests /\ r \in Recs
    BY DEF TypeOK
  <1>4. s.node = q.node /\ s.open = {u} /\ s.todo = q.todo \ {r}
    BY <1>3
  <1>5. u.mem = r.mem /\ u.ts = r.ts /\ u.key = hubSeq + 1
    OBVIOUS
  <1>6. \A x \in reqs' : x = s \/ (x \in reqs /\ x # q)
    BY <1>1, ReplaceMember
  <1> HIDE DEF s, u
  <1>7. OwnWritesHeld'
    <2>1. \A r2 \in q.todo : row[q.node][r2.mem] >= r2.ts
      BY DEF PullFacts, OwnWritesHeld
    <2>2. \A x \in reqs' : \A r2 \in x.todo \cup x.open :
             row'[x.node][r2.mem] >= r2.ts
      BY <1>2, <1>4, <1>5, <1>6, <2>1 DEF PullFacts, OwnWritesHeld
    <2> QED BY <1>2, <2>2 DEF PullFacts, OwnWritesHeld
  <1>8. StampsIssued'
    BY <1>2 DEF PullFacts, StampsIssued
  \* The new value of the sequence is above every one that was given out.
  <1>9. SeqOrdered'
    <2>1. \A m \in Mems : hub'[m].seq <= hubSeq' /\ hub'[m].seq < hubSeq + 1
      <3>1. \A m \in Mems : hub[m].seq \in Nat /\ hub[m].seq <= hubSeq
        BY DEF TypeOK, PullFacts, SeqOrdered
      <3> QED BY <1>2, <3>1
    <2>2. ASSUME NEW x \in reqs', NEW t \in x.open
          PROVE  t.key > hub'[t.mem].seq /\ t.key <= hubSeq'
      <3>1. CASE x = s
        BY <1>2, <1>3, <1>4, <1>5, <2>1, <3>1
      <3>2. CASE x # s
        <4>1. x \in reqs /\ t \in Recs /\ t.key <= hubSeq /\ t.key > hub[t.mem].seq
          BY <1>6, <3>2 DEF TypeOK, PullFacts, SeqOrdered
        <4> QED BY <1>2, <4>1
      <3> QED BY <3>1, <3>2
    <2> QED BY <1>2, <2>1, <2>2 DEF PullFacts, SeqOrdered, Reached
  <1>10. PullCovers'
    BY <1>2 DEF PullFacts, PullCovers, HoldsBut, Excused
  <1> QED BY <1>7, <1>8, <1>9, <1>10 DEF PullFacts

LEMMA PullHubCommit ==
  ASSUME LockInv, PullFacts, NEW q \in reqs, HubCommit(q)
  PROVE  PullFacts'
  <1> USE DEF LockInv
  <1>1. PICK t \in q.open :
           /\ hub' = [hub EXCEPT ![t.mem] =
                         [ts |-> t.ts, origin |-> q.node, seq |-> t.key]]
           /\ late' = IF Overtaken(t.key)
                         THEN late \cup {[mem |-> t.mem, ts |-> t.ts]} ELSE late
           /\ Replace(q, [q EXCEPT !.open = {}, !.ok = @ \cup {t.mem}])
    BY DEF HubCommit
  <1> DEFINE s == [q EXCEPT !.open = {}, !.ok = @ \cup {t.mem}]
  <1>2. UNCHANGED <<clock, row, pending, cursor, pc, hubSeq, skipped, legacy, lpos,
                    ptop, page>>
    BY DEF HubCommit, pullVars
  <1>3. q \in Requests /\ t \in Recs
    BY DEF TypeOK
  <1>4. s.node = q.node /\ s.open = {} /\ s.todo = q.todo
    BY <1>3
  <1>5. \A x \in reqs' : x = s \/ (x \in reqs /\ x # q)
    BY <1>1, ReplaceMember
  <1> HIDE DEF s
  <1>6. /\ hub'[t.mem].ts = t.ts /\ hub'[t.mem].origin = q.node
        /\ hub'[t.mem].seq = t.key
        /\ \A m \in Mems \ {t.mem} : hub'[m] = hub[m]
    BY <1>1, <1>3 DEF TypeOK
  <1>7. row[q.node][t.mem] >= t.ts
    BY DEF PullFacts, OwnWritesHeld
  <1>8. /\ t.key \in Nat /\ t.key <= hubSeq /\ t.key > hub[t.mem].seq
        /\ \A m \in Mems : hub[m].seq \in Nat
    BY <1>3 DEF TypeOK, PullFacts, SeqOrdered
  \* The other transactions are those of other rows.
  <1>9. \A x \in reqs' : \A u \in x.open : x \in reqs /\ u.mem \in Mems \ {t.mem}
    BY <1>4, <1>5 DEF RowsLocked, TypeOK
  <1>10. OwnWritesHeld'
    <2>1. \A x \in reqs' : \A r \in x.todo \cup x.open : row'[x.node][r.mem] >= r.ts
      BY <1>2, <1>4, <1>5 DEF PullFacts, OwnWritesHeld
    <2>2. \A n \in Nodes, m \in Mems : hub'[m].origin = n => row'[n][m] >= hub'[m].ts
      BY <1>2, <1>6, <1>7 DEF PullFacts, OwnWritesHeld
    <2> QED BY <1>2, <2>1, <2>2 DEF PullFacts, OwnWritesHeld
  <1>11. StampsIssued'
    <2>1. q.node \in Nodes /\ t.mem \in Mems /\ row[q.node][t.mem] \in Nat /\ t.ts \in Nat
      BY <1>3, BoundsAssumption DEF TypeOK
    <2>2. row[q.node][t.mem] <= clock /\ clock \in Nat
      BY <2>1, BoundsAssumption DEF TypeOK, PullFacts, StampsIssued
    <2>3. t.ts <= clock
      BY <1>7, <2>1, <2>2
    <2> QED BY <1>2, <1>6, <2>3 DEF PullFacts, StampsIssued
  <1>12. ASSUME NEW k \in Int, Reached(k) PROVE Reached(k)'
    <2>1. ASSUME NEW m \in Mems, k <= hub[m].seq PROVE k <= hub'[m].seq
      BY <1>6, <1>8, <2>1
    <2> QED BY <1>12, <2>1 DEF Reached
  <1>13. SeqOrdered'
    <2>1. \A x \in reqs' : \A u \in x.open :
             u.key > hub'[u.mem].seq /\ u.key <= hubSeq'
      BY <1>2, <1>6, <1>9 DEF PullFacts, SeqOrdered
    <2>2. \A m \in Mems : hub'[m].seq <= hubSeq'
      BY <1>2, <1>6, <1>8 DEF PullFacts, SeqOrdered
    <2>3. \A m \in Mems : hub'[m].seq = 0 => hub'[m].ts = 0
      BY <1>6, <1>8 DEF PullFacts, SeqOrdered
    <2>4. ASSUME NEW k \in Nodes
          PROVE  /\ Reached(cursor[k])'
                 /\ pc'[k] = "fetch" /\ ~legacy'[k] => Reached(lpos[k])'
                 /\ pc'[k] = "apply" /\ ~legacy'[k] => Reached(ptop[k])'
      <3>1. cursor[k] \in Int /\ lpos[k] \in Int /\ ptop[k] \in Int
        BY DEF TypeOK
      <3>2. /\ Reached(cursor[k])
            /\ pc[k] = "fetch" /\ ~legacy[k] => Reached(lpos[k])
            /\ pc[k] = "apply" /\ ~legacy[k] => Reached(ptop[k])
        BY DEF PullFacts, SeqOrdered
      <3>3. /\ \A c \in {cursor[k]} : Reached(c)'
            /\ pc[k] = "fetch" /\ ~legacy[k] => \A c \in {lpos[k]} : Reached(c)'
            /\ pc[k] = "apply" /\ ~legacy[k] => \A c \in {ptop[k]} : Reached(c)'
        BY <1>12, <3>1, <3>2
      <3> QED BY <1>2, <3>3 DEF Reached
    <2> QED BY <2>1, <2>2, <2>3, <2>4 DEF SeqOrdered
  \* The row that becomes visible lies beyond every position in use, or late.
  <1>14. ASSUME NEW n \in Nodes, NEW k \in Int, NEW S, Reached(k), HoldsBut(n, k, S)
         PROVE  \A m \in Mems : hub'[m].seq <= k =>
                    \/ row[n][m] >= hub'[m].ts \/ Excused(n, m)'
                    \/ \E r \in S : r.mem = m /\ r.ts = hub'[m].ts
    <2>1. ASSUME t.key <= k PROVE Excused(n, t.mem)'
      <3>1. PICK m \in Mems : k <= hub[m].seq
        BY <1>3, <1>8, <1>14, <2>1 DEF Reached
      <3>2. Overtaken(t.key)
        BY <1>8, <2>1, <3>1 DEF Overtaken
      <3> QED BY <1>1, <1>6, <3>2 DEF Excused
    <2>2. ASSUME NEW m \in Mems \ {t.mem} PROVE Excused(n, m) => Excused(n, m)'
      BY <1>1, <1>2, <1>6 DEF Excused
    <2>3. ASSUME NEW m \in Mems, hub'[m].seq <= k, m # t.mem
          PROVE  \/ row[n][m] >= hub'[m].ts \/ Excused(n, m)'
                 \/ \E r \in S : r.mem = m /\ r.ts = hub'[m].ts
      BY <1>6, <1>14, <2>2, <2>3 DEF HoldsBut
    <2> QED BY <1>6, <2>1, <2>3
  <1>15. PullCovers'
    <2>1. ASSUME NEW n \in Nodes
          PROVE  /\ cursor[n] \in Int /\ lpos[n] \in Int /\ ptop[n] \in Int
                 /\ Reached(cursor[n]) /\ HoldsBut(n, cursor[n], {})
                 /\ pc[n] = "probe" => legacy[n]
                 /\ pc[n] = "fetch" /\ ~legacy[n] =>
                       Reached(lpos[n]) /\ HoldsBut(n, lpos[n], {})
                 /\ pc[n] = "apply" /\ ~legacy[n] =>
                       Reached(ptop[n]) /\ HoldsBut(n, ptop[n], page[n])
      BY DEF TypeOK, PullFacts, SeqOrdered, PullCovers
    <2>2. ASSUME NEW n \in Nodes PROVE HoldsBut(n, cursor[n], {})'
      <3>1. \A m \in Mems : hub'[m].seq <= cursor[n] =>
               \/ row[n][m] >= hub'[m].ts \/ Excused(n, m)'
               \/ \E r \in {} : r.mem = m /\ r.ts = hub'[m].ts
        BY <1>14, <2>1
      <3> QED BY <1>2, <3>1 DEF HoldsBut
    <2>3. ASSUME NEW n \in Nodes, pc[n] = "fetch", ~legacy[n]
          PROVE  HoldsBut(n, lpos[n], {})'
      <3>1. \A m \in Mems : hub'[m].seq <= lpos[n] =>
               \/ row[n][m] >= hub'[m].ts \/ Excused(n, m)'
               \/ \E r \in {} : r.mem = m /\ r.ts = hub'[m].ts
        BY <1>14, <2>1, <2>3
      <3> QED BY <1>2, <3>1 DEF HoldsBut
    <2>4. ASSUME NEW n \in Nodes, pc[n] = "apply", ~legacy[n]
          PROVE  HoldsBut(n, ptop[n], page[n])'
      <3>1. \A m \in Mems : hub'[m].seq <= ptop[n] =>
               \/ row[n][m] >= hub'[m].ts \/ Excused(n, m)'
               \/ \E r \in page[n] : r.mem = m /\ r.ts = hub'[m].ts
        BY <1>14, <2>1, <2>4
      <3> QED BY <1>2, <3>1 DEF HoldsBut
    <2> QED BY <1>2, <2>1, <2>2, <2>3, <2>4 DEF PullCovers
  <1> QED BY <1>10, <1>11, <1>13, <1>15 DEF PullFacts

LEMMA StepPull ==
  ASSUME LockInv, PullFacts, [Next]_vars
  PROVE  PullFacts'
  <1> USE DEF LockInv
  <1>1. ASSUME NEW n \in Nodes, BeginCycle(n) PROVE PullFacts'
    <2>1. pc'[n] = "push" /\ \A k \in Nodes \ {n} : pc'[k] = pc[k]
      BY <1>1 DEF BeginCycle, GoTo, TypeOK
    <2> QED BY <1>1, <2>1, PullElsewhere DEF BeginCycle, pullVars, hubVars, histVars
  <1>2. CASE UNCHANGED vars
    BY <1>2 DEF vars, pushVars, pullVars, hubVars, histVars, PullFacts, OwnWritesHeld,
                StampsIssued, SeqOrdered, Reached, PullCovers, HoldsBut, Excused
  <1> QED
    BY <1>1, <1>2, PullEdit, PullPushBatch, PullPushAck, PullStart, PullProbe,
       PullFetch, PullApply, PullSkip, PullSave, PullInterrupt, PullReset, PullHubSkip,
       PullHubStore, PullHubCommit, PullHubDrop
    DEF Next

\* A node that has moved its cursor past a row of the hub has that version or a
\* newer one, unless the hub committed the version after one with a later number
\* or the node failed to store it, whatever was interrupted, refused by the hub
\* or reset in between, with any number of transactions open at the hub.
THEOREM PassedIsHeldHolds == Spec => []PassedIsHeld
  <1>1. Init => LockInv /\ PullFacts
    BY InitLock, InitPull
  <1>2. LockInv /\ PullFacts /\ [Next]_vars => (LockInv /\ PullFacts)'
    BY StepLock, StepPull
  <1>3. PullFacts => PassedIsHeld
    BY DEF PullFacts, PullCovers, HoldsBut, Excused, PassedIsHeld
  <1> QED BY <1>1, <1>2, <1>3, PTL DEF Spec
=============================================================================
