-------------------------------- MODULE Recall --------------------------------
(***************************************************************************)
(* remind_me_search and what it leaves behind (tools/search.py,            *)
(* retrieval.py, vitality.py): the keyword tier is read, then, after an    *)
(* await, the semantic tier; the dormant memories are dropped, the rest is *)
(* ranked by reciprocal rank fusion, adjusted by the feedback given, cut   *)
(* to the limit and the token budget, and expanded.  A thread counts the   *)
(* access of each memory shown, which raises its vitality, and a feedback  *)
(* raises or lowers it for ever; days without access lower it.             *)
(*                                                                         *)
(* Vitality is base_weight * (access_count + 1) ^ 0.5 * exp(-rate * days): *)
(* here its logarithm, in integers.  The reranker is off.                  *)
(***************************************************************************)
EXTENDS Naturals, Integers, Sequences, FiniteSets

CONSTANTS Remembrances, NoSearch,
          Orders,              \* the orders in which the keyword tier can match memories, each of them once
          ChunkOrders,         \* those in which the vectors can be near: a memory for each of its chunks
          Strategies,          \* of {"balanced", "keyword_favored", "semantic_favored", "temporal"}
          OptIns,              \* values of include_sensitive
          ResultLimit, Budget,       \* Budget: the token budget of some searches; 0: none
          OverFetch, Fanout,   \* 4 and _CHUNK_KNN_FANOUT in the code
          Bridge,              \* BRIDGE_THRESHOLD
          Created, Size,       \* [Remembrances -> Nat]
          SharesEntity, SameDocument,  \* sets of pairs
          MaxDays, MaxSearches, MaxRecallChanges   \* bounds

\* A row of memories_fts is a memory, one of memories_vec a chunk: a memory has any number of them.
ASSUME TiersAssumption ==
    /\ \A order \in Orders : order \in Seq(Remembrances) /\ \A i, j \in 1..Len(order) : order[i] = order[j] => i = j
    /\ ChunkOrders \subseteq Seq(Remembrances)
    /\ OptIns \subseteq BOOLEAN /\ Created \in [Remembrances -> Int]
    /\ ResultLimit \in Nat /\ OverFetch \in Nat \ {0} /\ Fanout \in Nat \ {0}

VARIABLES
    recall,    \* [Remembrances -> [count, last, weight, liked, hidden, sensitive]]
    recallDay,
    query,     \* the search under way, or NoSearch
    answer,    \* what the last step answered, or NoSearch
    counting,  \* threads that count accesses: [ids, read], read: the counts read, or NoSearch
    associations,  \* memory_associations: [pairs -> weight]
    searches, recallChanges

recallVars == <<recall, recallDay, query, answer, counting, associations, searches, recallChanges>>

MemoryPairs == {p \in SUBSET Remembrances : Cardinality(p) = 2}

\* Some memories have not been accessed for long.
RecallInit ==
    /\ recall \in [Remembrances -> [count : {0}, last : {-2, 0}, weight : {0}, liked : {0}, hidden : {FALSE}, sensitive : {FALSE}]]
    /\ recallDay = 0 /\ query = NoSearch /\ answer = NoSearch /\ counting = {}
    /\ associations = [p \in MemoryPairs |-> 0] /\ searches = 0 /\ recallChanges = 0

-----------------------------------------------------------------------------
(* Vitality: ln(x) * 10, a unit of time being 200 days of decay_rate 0.01. *)
MaxWeight == 11    \* ln 3.0
MinWeight == -23   \* ln 0.1
Floor == -30       \* ln 0.05

Gain(n) == CASE n = 0 -> 0 [] n = 1 -> 3 [] n = 2 -> 5 [] OTHER -> 7
DailyLoss(n) == IF n >= Bridge THEN 10 ELSE 20
VitalityOf(memory) == memory.weight + Gain(memory.count) - DailyLoss(memory.count) * (recallDay - memory.last)
Vitality(m) == VitalityOf(recall[m])
Dormant(v) == v < Floor

-----------------------------------------------------------------------------
(* The tiers.                                                              *)
FirstOf(s, n) == SubSeq(s, 1, IF Len(s) < n THEN Len(s) ELSE n)
IdsOf(s) == {s[i] : i \in 1..Len(s)}

\* What a sequence has at some of its places.
Picked(s, places) ==
    LET kept[i \in 0..Len(s)] == IF i = 0 THEN <<>> ELSE IF i \in places THEN Append(kept[i - 1], s[i]) ELSE kept[i - 1]
    IN  kept[Len(s)]

\* The members of a set that a sequence has, in its order; the places where a member is not met
\* again; the memories of the nearest chunks, each at its best one.
Only(s, S) == Picked(s, {i \in 1..Len(s) : s[i] \in S})
FirstPlaces(s) == {i \in 1..Len(s) : \A j \in 1..i - 1 : s[j] # s[i]}
Best(s) == Picked(s, FirstPlaces(s))

MayShow(m, opt) == ~recall[m].hidden /\ (opt \/ ~recall[m].sensitive)
Shown(opt) == {m \in Remembrances : MayShow(m, opt)}
Awake(vital, dormantToo) == {m \in Remembrances : dormantToo \/ ~Dormant(vital[m])}

\* The limit is raised where the rows read may be dropped afterwards.
FetchLimitOnce(dormantToo) == ResultLimit
FetchLimit(dormantToo) == IF dormantToo THEN ResultLimit ELSE ResultLimit * OverFetch

\* The filters are part of the keyword query; of the vectors the nearest are taken first, chunks of
\* one memory become one hit then, and those that may not be shown are dropped.
Keyword(order, opt, dormantToo) == FirstOf(Only(order, Shown(opt)), FetchLimit(dormantToo))
Semantic(chunks, opt, dormantToo) ==
    FirstOf(Only(Best(FirstOf(chunks, FetchLimit(dormantToo) * Fanout)), Shown(opt)), FetchLimit(dormantToo))

-----------------------------------------------------------------------------
(* rank_rrf.                                                               *)
Position(s, m) == CHOOSE i \in 1..Len(s) : s[i] = m
\* Not found is ranked before the first.
RankInZero(s, m) == IF m \in IdsOf(s) THEN Position(s, m) ELSE 0
\* A memory that a tier did not find has the rank after its last.
RankIn(s, m) == IF m \in IdsOf(s) THEN Position(s, m) ELSE Len(s) + 1

\* The order in which the merge sees the memories, which decides ties.
Seen(kw, sem, m) == IF m \in IdsOf(kw) THEN Position(kw, m) ELSE Len(kw) + Position(sem, m)

\* The rank of m by a value, the greatest first.
RankBy(kw, sem, value, m) ==
    1 + Cardinality({x \in IdsOf(kw) \cup IdsOf(sem) :
            \/ value[x] > value[m]
            \/ (value[x] = value[m] /\ Seen(kw, sem, x) < Seen(kw, sem, m))})

\* The weights of the tiers and of recency, doubled: choose_rrf_weights, resolve_strategy_weights.
Weights(strategy) ==
    CASE strategy = "keyword_favored"  -> <<3, 1, 2>>
      [] strategy = "semantic_favored" -> <<1, 3, 2>>
      [] strategy = "temporal"         -> <<2, 2, 3>>
      [] OTHER                         -> <<2, 2, 2>>

\* RRF_K is 1; 2520 is a multiple of every 1 + rank.
Share(rank) == 2520 \div (1 + rank)

Score(kw, sem, vital, strategy, m) ==
    LET w == Weights(strategy)
        bm25 == [x \in Remembrances |-> IF x \in IdsOf(kw) THEN -Position(kw, x) ELSE -(Len(kw) + 1)]
    IN  w[1] * Share(RankIn(kw, m)) + w[2] * Share(RankIn(sem, m))
        + w[3] * Share(RankBy(kw, sem, Created, m))
        + 2 * Share(RankBy(kw, sem, vital, m)) + 2 * Share(RankBy(kw, sem, bm25, m))

\* apply_feedback_adjustment: at most 40 % up or down.
Adjusted(score, liked) == score * (10 + 4 * liked)

\* All of them in the order of the adjusted scores, equal scores in the order they are seen.
Before(q, x, m) == q.score[x] > q.score[m] \/ (q.score[x] = q.score[m] /\ Seen(q.kw, q.sem, x) < Seen(q.kw, q.sem, m))
Ranked(q) ==
    LET found == IdsOf(q.kw) \cup IdsOf(q.sem) IN
    [i \in 1..Cardinality(found) |-> CHOOSE m \in found : Cardinality({x \in found : Before(q, x, m)}) = i - 1]

\* apply_token_budget: the first is always kept.
SizeOf(s) == LET sum[i \in 0..Len(s)] == IF i = 0 THEN 0 ELSE sum[i - 1] + Size[s[i]] IN sum[Len(s)]
Trimmed(s, budget) ==
    IF budget = 0 \/ s = <<>> THEN s
    ELSE LET fits == {n \in 1..Len(s) : \A i \in 2..n : SizeOf(FirstOf(s, i)) <= budget}
         IN  FirstOf(s, CHOOSE n \in fits : \A k \in fits : k <= n)

\* The memories that share an entity, a document or an earlier answer with one of those shown.
ViaEntities(ids, opt) == {m \in Remembrances \ ids : MayShow(m, opt) /\ \E s \in ids : {s, m} \in SharesEntity}
ViaNeighbors(ids, opt) == {m \in Remembrances \ ids : MayShow(m, opt) /\ \E s \in ids : {s, m} \in SameDocument}
ViaCoRetrieval(ids, opt) == {m \in Remembrances \ ids : MayShow(m, opt) /\ \E s \in ids : associations[{s, m}] > 0}
Expansion(ids, opt) == ViaEntities(ids, opt) \cup ViaNeighbors(ids, opt) \cup ViaCoRetrieval(ids, opt)

-----------------------------------------------------------------------------
(* A search.                                                               *)
BeginSearch(order, strategy, opt, dormantToo, budget) ==
    /\ query = NoSearch /\ searches < MaxSearches
    /\ query' = [at |-> "keyword", order |-> order, kw |-> Keyword(order, opt, dormantToo),
                 strategy |-> strategy, opt |-> opt, dormantToo |-> dormantToo, budget |-> budget, then |-> recall]
    /\ searches' = searches + 1 /\ answer' = NoSearch
    /\ UNCHANGED <<recall, recallDay, counting, associations, recallChanges>>

\* A thread is spawned for what is shown.
Counting(shown) == IF shown = <<>> THEN counting ELSE counting \cup {[ids |-> IdsOf(shown), read |-> NoSearch]}

\* The semantic tier, the dormant dropped from both, the fusion and the feedback.  Where both
\* tiers have a memory, the row of the keyword tier is kept; the vitality is that of the row read.
Fuse(chunks) ==
    LET had == [m \in Remembrances |-> VitalityOf(query.then[m])]
        now == [m \in Remembrances |-> Vitality(m)]
        kw == Only(query.kw, Awake(had, query.dormantToo))
        sem == Only(Semantic(chunks, query.opt, query.dormantToo), Awake(now, query.dormantToo))
        vital == [m \in Remembrances |-> IF m \in IdsOf(kw) THEN had[m] ELSE now[m]]
        score == [m \in Remembrances |-> IF m \in IdsOf(kw) \cup IdsOf(sem)
                                  THEN Adjusted(Score(kw, sem, vital, query.strategy, m), recall[m].liked) ELSE 0]
    IN  /\ query # NoSearch /\ query.at = "keyword" /\ answer' = NoSearch
        /\ query' = [at |-> "fused", order |-> query.order, chunks |-> chunks, kw |-> kw, sem |-> sem, vital |-> vital,
                     score |-> score, opt |-> query.opt, dormantToo |-> query.dormantToo,
                     budget |-> query.budget, then |-> query.then, after |-> recall]
        /\ UNCHANGED <<recall, recallDay, counting, associations, searches, recallChanges>>

\* After the await of the reranker.
Answer ==
    LET shown == Trimmed(FirstOf(Ranked(query), ResultLimit), query.budget)
    IN  /\ query # NoSearch /\ query.at = "fused"
        /\ answer' = [shown |-> shown, more |-> Expansion(IdsOf(shown), query.opt)]
        /\ query' = NoSearch
        /\ counting' = Counting(shown)
        /\ UNCHANGED <<recall, recallDay, associations, searches, recallChanges>>

\* subject:, predicate: and entity: queries: the filters come after the limit, and nothing is ranked.
\* The terms match the memories of the sequence; when none is left, the search goes on as text.
StructuredLookup(order, opt) == FirstOf(Only(order, Shown(opt)), ResultLimit)
AnswerStructured(order, opt, dormantToo) ==
    LET rows == StructuredLookup(order, opt)
        shown == Only(rows, Awake([m \in Remembrances |-> Vitality(m)], dormantToo))
    IN  /\ query = NoSearch /\ searches < MaxSearches /\ rows # <<>>
        /\ searches' = searches + 1 /\ answer' = NoSearch
        /\ counting' = Counting(shown)
        /\ UNCHANGED <<recall, recallDay, query, associations, recallChanges>>

\* record_co_retrieval; the cap of 50 is out of the bounds.
Associated(ids) == [p \in MemoryPairs |-> IF p \subseteq ids THEN associations[p] + 1 ELSE associations[p]]

\* record_accesses: the counts are read, then written, and record_co_retrieval adds the pairs.
ReadCounts(t) ==
    /\ t \in counting /\ t.read = NoSearch /\ answer' = NoSearch
    /\ counting' = (counting \ {t}) \cup {[t EXCEPT !.read = [m \in t.ids |-> recall[m].count]]}
    /\ UNCHANGED <<recall, recallDay, query, associations, searches, recallChanges>>

WriteCounts(t) ==
    /\ t \in counting /\ t.read # NoSearch /\ answer' = NoSearch
    /\ counting' = counting \ {t}
    /\ recall' = [m \in Remembrances |-> IF m \in t.ids
                                  THEN [recall[m] EXCEPT !.count = t.read[m] + 1, !.last = recallDay] ELSE recall[m]]
    /\ associations' = Associated(t.ids)
    /\ UNCHANGED <<recallDay, query, searches, recallChanges>>

-----------------------------------------------------------------------------
(* Feedback, and the world.                                                *)
RecallChanges == recallChanges < MaxRecallChanges /\ recallChanges' = recallChanges + 1
Rest == answer' = NoSearch /\ UNCHANGED <<recallDay, query, counting, associations, searches>>

\* Without a query the feedback changes base_weight, by 15 %.
Feedback(m, helpful) ==
    /\ RecallChanges /\ Rest
    /\ recall' = [recall EXCEPT ![m].weight =
                     IF helpful THEN (IF @ + 1 > MaxWeight THEN MaxWeight ELSE @ + 1)
                     ELSE (IF @ - 2 < MinWeight THEN MinWeight ELSE @ - 2)]

\* With one it counts for searches like it: the sum is capped.
FeedbackForQuery(m, helpful) ==
    /\ RecallChanges /\ Rest
    /\ recall' = [recall EXCEPT ![m].liked = IF helpful THEN (IF @ = 1 THEN 1 ELSE @ + 1)
                                             ELSE (IF @ = -1 THEN -1 ELSE @ - 1)]

Hide(m) == RecallChanges /\ Rest /\ ~recall[m].hidden /\ recall' = [recall EXCEPT ![m].hidden = TRUE]
MarkSensitive(m) ==
    RecallChanges /\ Rest /\ recall' = [recall EXCEPT ![m].sensitive = ~@]

RecallDay ==
    /\ recallDay < MaxDays /\ recallDay' = recallDay + 1 /\ answer' = NoSearch
    /\ UNCHANGED <<recall, query, counting, associations, searches, recallChanges>>

RecallNext ==
    \/ \E order \in Orders, strategy \in Strategies, opt \in OptIns, dormantToo \in BOOLEAN, budget \in {0, Budget} :
         BeginSearch(order, strategy, opt, dormantToo, budget)
    \/ \E chunks \in ChunkOrders : Fuse(chunks)
    \/ \E order \in Orders, opt \in OptIns, dormantToo \in BOOLEAN : AnswerStructured(order, opt, dormantToo)
    \/ Answer
    \/ \E t \in counting : ReadCounts(t) \/ WriteCounts(t)
    \/ \E m \in Remembrances : \/ Hide(m) \/ MarkSensitive(m)
                        \/ \E helpful \in BOOLEAN : Feedback(m, helpful) \/ FeedbackForQuery(m, helpful)
    \/ RecallDay

RecallSpec == RecallInit /\ [][RecallNext]_recallVars

-----------------------------------------------------------------------------
Answers == query # NoSearch /\ query.at = "fused" /\ query' = NoSearch

\* The memories that the search could show if nothing else were in the way.
Sleeps(m) == ~query.dormantToo /\ Dormant(Vitality(m))
LiveMatch(m) == MayShow(m, query.opt) /\ ~Sleeps(m)

\* More dormant memories than are fetched in excess of the limit; more chunks that bring no memory
\* to show, or one that an earlier chunk brought, than there is room for besides the limit.
DormantInTheWay(order) ==
    Cardinality({m \in IdsOf(order) : MayShow(m, query.opt) /\ Sleeps(m)}) > ResultLimit * (OverFetch - 1)
WastedPlaces(chunks) == {i \in 1..Len(chunks) : ~LiveMatch(chunks[i]) \/ i \notin FirstPlaces(chunks)}
ChunksInTheWay(chunks) ==
    Cardinality(WastedPlaces(chunks)) > FetchLimit(query.dormantToo) * Fanout - ResultLimit

\* "over-fetch when they can prune candidates", "so enough distinct memories survive the dedupe":
\* dormant, hidden and sensitive memories and the further chunks of long ones, which the tiers
\* match as well as the others, do not crowd the live ones out of the answer, as long as they are
\* not more than what is fetched in excess of the limit.
LiveNotCrowdedOut ==
    [][/\ Answers /\ query.then = recall /\ query.after = recall /\ query.budget = 0
       /\ ~DormantInTheWay(query.order) /\ ~DormantInTheWay(query.chunks) /\ ~ChunksInTheWay(query.chunks)
       => \/ Len(answer'.shown) = ResultLimit
          \/ \A m \in IdsOf(query.order) \cup IdsOf(query.chunks) : LiveMatch(m) => m \in IdsOf(answer'.shown)]_recallVars

\* The fusion of five ranks, ties included, respects a memory that is at least as good as another
\* in every signal, and better in one: it is never behind.
AsGood(q, a, b) ==
    LET place(s, m) == IF m \in IdsOf(s) THEN Position(s, m) ELSE Len(s) + 1 IN
    /\ place(q.kw, a) <= place(q.kw, b) /\ place(q.sem, a) <= place(q.sem, b)
    /\ Created[a] >= Created[b] /\ q.vital[a] >= q.vital[b] /\ q.then[a].liked = q.then[b].liked

DominantFirst ==
    query # NoSearch /\ query.at = "fused" /\ query.then = query.after
    => \A a, b \in IdsOf(query.kw) \cup IdsOf(query.sem) :
          AsGood(query, a, b) /\ ~AsGood(query, b, a) => Before(query, a, b)

\* Nothing that is sensitive or hidden is shown, in the answer or in one of its expansions,
\* without the opt-in, unless it became so after one of the tiers was read.
NothingHiddenShown ==
    [][Answers => \A m \in IdsOf(answer'.shown) \cup answer'.more :
                    MayShow(m, query.opt) \/ query.then[m] # recall[m] \/ query.after[m] # recall[m]]_recallVars

\* An answer holds what it should and nothing else.
AnswersRight == LiveNotCrowdedOut /\ NothingHiddenShown
=============================================================================
