----------------------------- MODULE WikiCompile -----------------------------
(***************************************************************************)
(* The compile loop of the wiki (remind_me_wiki_compile): a brief shows    *)
(* the memories created since the watermark, the assistant writes pages    *)
(* from them, and a second call moves the watermark past "the surfaced     *)
(* batch".  The second call reads the pending memories anew.               *)
(*                                                                         *)
(* A memory is [created, live, sensitive]; synced and imported memories    *)
(* keep the creation time they have elsewhere.                             *)
(***************************************************************************)
EXTENDS Naturals, FiniteSets

CONSTANTS Sources,       \* memories
          BatchLimit,    \* the `limit` of a call
          MaxCompileTime, MaxSourceChanges   \* bounds

ASSUME BatchLimitNumber == BatchLimit \in Nat \ {0}

VARIABLES
    source,      \* the memories there are: [a subset of Sources -> [created, live, sensitive]]
    watermark,   \* last_compile_watermark; 0: never
    compileTime, sourceChanges,
    briefed,     \* the assistant has a brief it has not marked as integrated
    marked       \* history: memories a mark counted as integrated

compileVars == <<source, watermark, compileTime, sourceChanges, briefed, marked>>

CompileInit == /\ source = [m \in {} |-> 0] /\ watermark = 0 /\ compileTime = 1 /\ sourceChanges = 0
               /\ briefed = FALSE /\ marked = {}

Bounded == sourceChanges < MaxSourceChanges /\ sourceChanges' = sourceChanges + 1
UnchangedCompile == UNCHANGED <<watermark, compileTime, briefed, marked>>

\* A memory is added now, or arrives from another node or an export with an older time.
Added(m) ==
    /\ m \notin DOMAIN source
    /\ \E t \in 1..compileTime, private \in BOOLEAN :
          source' = [x \in DOMAIN source \cup {m} |->
                        IF x = m THEN [created |-> t, live |-> TRUE, sensitive |-> private] ELSE source[x]]
    /\ UNCHANGED sourceChanges /\ UnchangedCompile

\* It is superseded or deleted, comes back, becomes sensitive or ceases to be.
SourceChanged(m) ==
    /\ m \in DOMAIN source /\ Bounded
    /\ \/ source' = [source EXCEPT ![m].live = ~@]
       \/ source' = [source EXCEPT ![m].sensitive = ~@]
    /\ UnchangedCompile

CompileTick == /\ compileTime < MaxCompileTime /\ compileTime' = compileTime + 1
               /\ UNCHANGED <<source, watermark, sourceChanges, briefed, marked>>

Eligible(m) == m \in DOMAIN source /\ source[m].live /\ ~source[m].sensitive
\* Memories of the watermark's own time are pending again.
PendingAtAgain(w) == {m \in DOMAIN source : Eligible(m) /\ source[m].created >= w}
PendingAt(w) == {m \in DOMAIN source : Eligible(m) /\ source[m].created > w}

\* The batches a query may return: the first BatchLimit by creation time, ties either way.
Batches ==
    {b \in SUBSET PendingAt(watermark) :
        /\ Cardinality(b) = IF Cardinality(PendingAt(watermark)) < BatchLimit
                            THEN Cardinality(PendingAt(watermark)) ELSE BatchLimit
        /\ \A m \in b, n \in PendingAt(watermark) \ b : source[m].created <= source[n].created}

Brief == /\ briefed' = TRUE
         /\ PendingAt(watermark) # {}
         /\ UNCHANGED <<source, watermark, compileTime, sourceChanges, marked>>

\* "call this AFTER writing the pages".
MarkIntegrated ==
    /\ briefed /\ briefed' = FALSE
    /\ \E b \in Batches :
         /\ \E m \in b : /\ \A n \in b : source[n].created <= source[m].created
                        /\ watermark' = source[m].created
         /\ marked' = marked \cup b
    /\ UNCHANGED <<source, compileTime, sourceChanges>>

CompileNext == \/ CompileTick \/ Brief \/ MarkIntegrated
               \/ \E m \in Sources : Added(m) \/ SourceChanged(m)

CompileSpec == CompileInit /\ [][CompileNext]_compileVars

-----------------------------------------------------------------------------
\* "so they are not re-served next time": what a mark counted is never pending again, however
\* it changes afterwards (hidden and back, private and back).
NotServedAgain == marked \cap PendingAt(watermark) = {}
=============================================================================
