----------------------------- MODULE SyncVerdict -----------------------------
(***************************************************************************)
(* remind_me_sync_reconcile (sync.py, reconcile_with_hub): a node asks the *)
(* hub how many records it has in each category, counts its own, and       *)
(* judges the difference: "in-sync", "pull-lag", "node-ahead" or "fault".  *)
(* A fault is told from lag by the age of the last pull and by a baseline  *)
(* of the pull cursor that the previous judgement left in sync_flags.      *)
(* Meanwhile the node and the other nodes write, and the node pushes and   *)
(* pulls.  reconcile_with_peer and the three cursors of the graph are      *)
(* judged in the same way.                                                 *)
(*                                                                         *)
(* A record of the hub is [category, seq, own]; `own`: this node pushed it *)
(* last, and no pull returns it.                                           *)
(***************************************************************************)
EXTENDS Naturals, Integers, FiniteSets

CONSTANTS SyncedRows, Categories, NoRecord,
          Grace,                      \* 3 intervals or 300 s
          MaxRowWrites, MaxNow           \* bounds

ASSUME RowsAndCategories ==
    /\ IsFiniteSet(SyncedRows) /\ IsFiniteSet(Categories)
    /\ NoRecord \notin Categories /\ NoRecord \notin [category : Categories, seq : Nat, own : BOOLEAN]

VARIABLES
    hubRecord,    \* [SyncedRows -> [category, seq, own] or NoRecord]
    localRecord,  \* [SyncedRows -> Categories or NoRecord]
    outgoing,     \* records in the outbox and not sent
    hubSeq,       \* the sequence number last given by the hub
    cursor,       \* last_pull of the hub's cursor
    pulledAt,     \* last_pull_at: the last successful pull, 0: never
    baseline,     \* reconcile_watermark_hub in sync_flags; NoRecord: none
    syncNow, writes,
    asked,        \* the hub's answer of a check under way, or NoRecord
    verdict,      \* the last judgement
    pulledNow,    \* history: a pull has run since the last judgement
    quietChecks   \* history: judgements since anything was written, each after a pull and on an answer still true

verdictVars == <<hubRecord, localRecord, outgoing, hubSeq, cursor, pulledAt, baseline, syncNow, writes,
                 asked, verdict, pulledNow, quietChecks>>

\* A vault may have a hole: a record that the node lacks although its cursor has passed it.
VerdictInit ==
    /\ \E held \in SUBSET SyncedRows, c \in Categories :
         /\ hubRecord = [r \in SyncedRows |-> IF r \in held THEN [category |-> c, seq |-> 1, own |-> FALSE] ELSE NoRecord]
         /\ localRecord \in {[r \in SyncedRows |-> IF r \in had THEN c ELSE NoRecord] : had \in SUBSET held}
    /\ outgoing = {} /\ hubSeq = 1 /\ cursor \in {0, 1} /\ pulledAt = 0 /\ baseline = NoRecord
    /\ syncNow = 1 /\ writes = 0 /\ asked = NoRecord /\ verdict = "none"
    /\ pulledNow = FALSE /\ quietChecks = 0

UnchangedCheck == UNCHANGED <<baseline, asked, verdict>>
Writes == writes < MaxRowWrites /\ writes' = writes + 1 /\ quietChecks' = 0

-----------------------------------------------------------------------------
(* The node, the other nodes, the synchronisation.                         *)
LocalWrite(r, c) ==
    /\ localRecord[r] # c /\ Writes
    /\ localRecord' = [localRecord EXCEPT ![r] = c] /\ outgoing' = outgoing \cup {r}
    /\ UNCHANGED <<hubRecord, hubSeq, cursor, pulledAt, syncNow, pulledNow>> /\ UnchangedCheck

OtherWrite(r, c) ==
    /\ Writes /\ hubSeq' = hubSeq + 1
    /\ hubRecord' = [hubRecord EXCEPT ![r] = [category |-> c, seq |-> hubSeq + 1, own |-> FALSE]]
    /\ UNCHANGED <<localRecord, outgoing, cursor, pulledAt, syncNow, pulledNow>> /\ UnchangedCheck

\* The last writer wins on the hub; what a node pushes here is later than what the hub has.
PushOne(r) ==
    /\ r \in outgoing /\ outgoing' = outgoing \ {r}
    /\ hubSeq' = hubSeq + 1
    /\ hubRecord' = [hubRecord EXCEPT ![r] = [category |-> localRecord[r], seq |-> hubSeq + 1, own |-> TRUE]]
    /\ quietChecks' = 0
    /\ UNCHANGED <<localRecord, cursor, pulledAt, syncNow, writes, pulledNow>> /\ UnchangedCheck

\* Every attempt that succeeds sets last_pull_at; only records move the cursor.
PullAll ==
    LET got == {r \in SyncedRows : hubRecord[r] # NoRecord /\ ~hubRecord[r].own /\ hubRecord[r].seq > cursor} IN
    /\ localRecord' = [r \in SyncedRows |-> IF r \in got \ outgoing THEN hubRecord[r].category ELSE localRecord[r]]
    /\ cursor' = IF got = {} THEN cursor
                 ELSE CHOOSE s \in {hubRecord[r].seq : r \in got} : \A r \in got : hubRecord[r].seq <= s
    /\ pulledAt' = syncNow /\ pulledNow' = TRUE
    /\ quietChecks' = IF got = {} THEN quietChecks ELSE 0
    /\ UNCHANGED <<hubRecord, outgoing, hubSeq, syncNow, writes>> /\ UnchangedCheck

VerdictTick ==
    /\ syncNow < MaxNow /\ syncNow' = syncNow + 1
    /\ UNCHANGED <<hubRecord, localRecord, outgoing, hubSeq, cursor, pulledAt, writes, pulledNow, quietChecks>>
    /\ UnchangedCheck

-----------------------------------------------------------------------------
(* reconcile_with_hub.                                                     *)
HubCount(c) == Cardinality({r \in SyncedRows : hubRecord[r] # NoRecord /\ hubRecord[r].category = c})
LocalCount(c) == Cardinality({r \in SyncedRows : localRecord[r] = c})

\* The request to the hub; the node's records are counted when the answer has arrived.
AskHub ==
    /\ asked = NoRecord /\ asked' = [c \in Categories |-> HubCount(c)]
    /\ UNCHANGED <<hubRecord, localRecord, outgoing, hubSeq, cursor, pulledAt, baseline, syncNow, writes,
                   verdict, pulledNow, quietChecks>>

\* The check with `quick`: one request for the totals; only if they agree is the rest not asked.
HubTotal == Cardinality({r \in SyncedRows : hubRecord[r] # NoRecord})
TotalsAgree == HubTotal = Cardinality({r \in SyncedRows : localRecord[r] # NoRecord})
QuickCheck ==
    /\ asked = NoRecord /\ TotalsAgree
    /\ verdict' = "in-sync"
    /\ UNCHANGED <<hubRecord, localRecord, outgoing, hubSeq, cursor, pulledAt, baseline, syncNow, writes,
                   asked, pulledNow, quietChecks>>

Drift(c) == asked[c] - LocalCount(c)
Drifts == {c \in Categories : Drift(c) # 0}

\* The cursor is never compared with what it was.
NeverStalled == FALSE
\* _cursor_progress, asked only when there is drift.
Stalled == Drifts # {} /\ baseline = cursor

Stale == pulledAt = 0 \/ syncNow - pulledAt > Grace

\* _verdict.
Judgement ==
    IF \E c \in Categories : Drift(c) < 0 THEN "node-ahead"
    ELSE IF Drifts = {} THEN "in-sync"
    ELSE IF Stale \/ Stalled THEN "fault" ELSE "pull-lag"

Judge_drift ==
    /\ asked # NoRecord /\ asked' = NoRecord
    /\ verdict' = Judgement
    /\ baseline' = IF Drifts # {} THEN cursor ELSE baseline
    /\ pulledNow' = FALSE
    /\ quietChecks' = IF pulledNow /\ asked = [c \in Categories |-> HubCount(c)] THEN quietChecks + 1 ELSE 0
    /\ quietChecks < 2
    /\ UNCHANGED <<hubRecord, localRecord, outgoing, hubSeq, cursor, pulledAt, syncNow, writes>>

\* The request fails, or the hub is too old or refuses: a status without a verdict.
NoAnswer ==
    /\ asked # NoRecord /\ asked' = NoRecord
    /\ UNCHANGED <<hubRecord, localRecord, outgoing, hubSeq, cursor, pulledAt, baseline, syncNow, writes,
                   verdict, pulledNow, quietChecks>>

VerdictNext ==
    \/ PullAll \/ VerdictTick \/ AskHub \/ QuickCheck \/ Judge_drift \/ NoAnswer
    \/ \E r \in SyncedRows : \/ PushOne(r)
                          \/ \E c \in Categories : LocalWrite(r, c) \/ OtherWrite(r, c)

VerdictSpec == VerdictInit /\ [][VerdictNext]_verdictVars

-----------------------------------------------------------------------------
\* A record of the hub that the node lacks and no pull will bring.
Hole(r) == /\ hubRecord[r] # NoRecord /\ localRecord[r] = NoRecord
           /\ ~hubRecord[r].own /\ hubRecord[r].seq <= cursor
Holed == \E r \in SyncedRows : Hole(r)

\* "Hub-ahead drift is the ordinary state of a healthy node between pulls", and a fault is a gap
\* that "will not close on its own".  The second of two checks, with a pull before each and no
\* write between and an answer still true, reports a hole although every pull succeeds (a hole
\* and a record still to be pushed can cancel out in one category's count), and reports a fault
\* only where there is a hole or the pulls are old.
FaultsAreHoles ==
    [][quietChecks = 1 /\ quietChecks' = 2
       => /\ Holed /\ outgoing = {} => verdict' \in {"fault", "node-ahead"}
          /\ verdict' = "fault" => Holed \/ Stale]_verdictVars
=============================================================================
