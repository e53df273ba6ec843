----------------------------- MODULE SavedSearch -----------------------------
(***************************************************************************)
(* Saved searches that are watched (remind_me_mcp/saved_searches.py).  The *)
(* scheduler of each server polls them at an interval, and announces a     *)
(* memory that newly matches.  What a search has seen is kept per search   *)
(* and memory; a search that has seen nothing yet takes all it finds for   *)
(* seen, without announcing it.                                            *)
(*                                                                         *)
(* A poll looks at a limited number of matches.  Its search, the question  *)
(* whether anything is seen yet, the list of what is, and the record are   *)
(* statements of their own: the tools and another poller come in between.  *)
(***************************************************************************)
EXTENDS Naturals, FiniteSets

CONSTANTS Pollers,           \* processes with a scheduler, on one database
          Names,             \* names of saved searches
          Findable,          \* memories
          Initial,           \* memories that are there from the start
          Queries,           \* queries
          Match,             \* Match[q]: memories that match query q
          Saves,             \* [query, watch]: what users save under a name
          None,              \* no saved search
          PollLimit,         \* _POLL_RESULT_LIMIT
          MaxIds,            \* bound: saved searches created
          MaxSaves,          \* bound: saves
          MaxSearchFailures  \* bound: exceptions and crashes

ASSUME MatchAssumption == Match \in [Queries -> SUBSET Findable] /\ Initial \subseteq Findable
ASSUME SavesAssumption == Saves \subseteq [query : Queries, watch : BOOLEAN]
ASSUME NoneIsNoSearch == None \notin [id : Nat, query : Queries, watch : BOOLEAN]
ASSUME PollLimitAssumption == PollLimit \in Nat \ {0}
ASSUME SearchBounds == MaxIds \in Nat /\ MaxSaves \in Nat /\ MaxSearchFailures \in Nat

VARIABLES
    stored,    \* memories that are stored
    saved,     \* saved[n]: row of saved_searches, or None
    seen,      \* rows <<id, m>> of saved_search_seen_memories
    due,       \* has the interval passed since the watermark was set?
    pollAt,    \* where the scheduler of server s stands
    todo,      \* todo[s]: watched rows it has read and still has to poll
    cur,       \* cur[s]: the set of the row it polls
    results,   \* results[s]: what the search found
    news,      \* news[s]: what it still has to announce
    idsGiven,  \* ids given out
    saves, searchFailures,
    announced,    \* history: pairs announced
    reannounced,  \* history: pairs announced more than once
    base,         \* history: pairs that matched when a fresh watch began
    unrecorded,   \* history: announced, but a failure came before the record
    first,        \* history: pairs of the first poll that found something
    crowded       \* history: searches of which a poll did not see all matches

tables == <<stored, saved, seen>>
pollState == <<pollAt, todo, cur, results, news>>
searchHistory == <<announced, reannounced, base, unrecorded, first, crowded>>
searchVars == <<tables, due, pollState, idsGiven, saves, searchFailures, searchHistory>>

Ids == 1..MaxIds
Row == [id : Ids, query : Queries, watch : BOOLEAN]
Pairs == Ids \X Findable

SearchTypeOK ==
    /\ stored \subseteq Findable
    /\ saved \in [Names -> Row \cup {None}]
    /\ seen \subseteq Pairs
    /\ due \in BOOLEAN
    /\ pollAt \in [Pollers -> {"rest", "claim", "list", "poll", "look", "read", "announce"}]
    /\ todo \in [Pollers -> SUBSET {r \in Row : r.watch}]
    /\ \A s \in Pollers : cur[s] \subseteq Row /\ Cardinality(cur[s]) <= 1
    /\ results \in [Pollers -> SUBSET Findable]
    /\ \A s \in Pollers : news[s] \subseteq results[s]
    /\ idsGiven \in 0..MaxIds /\ saves \in 0..MaxSaves /\ searchFailures \in 0..MaxSearchFailures
    /\ reannounced \subseteq announced
    /\ announced \cup base \cup unrecorded \cup first \subseteq Pairs
    /\ crowded \subseteq Ids

SearchInit ==
    /\ stored = Initial
    /\ saved = [n \in Names |-> None]
    /\ seen = {}
    /\ due = TRUE
    /\ pollAt = [s \in Pollers |-> "rest"]
    /\ todo = [s \in Pollers |-> {}]
    /\ cur = [s \in Pollers |-> {}]
    /\ results = [s \in Pollers |-> {}]
    /\ news = [s \in Pollers |-> {}]
    /\ idsGiven = 0 /\ saves = 0 /\ searchFailures = 0
    /\ announced = {} /\ reannounced = {} /\ base = {}
    /\ unrecorded = {} /\ first = {} /\ crowded = {}

-----------------------------------------------------------------------------
(* The tools.                                                              *)

Found(q) == Match[q] \cap stored

AddMemory(m) ==
    /\ m \notin stored
    /\ stored' = stored \cup {m}
    /\ UNCHANGED <<saved, seen, due, pollState, idsGiven, saves, searchFailures, searchHistory>>

Seen(id) == {m \in Findable : <<id, m>> \in seen}

\* No poll of search id has found anything yet, nor is one about to.
Fresh(id) == Seen(id) = {} /\ \A s \in Pollers : \A r \in todo[s] \cup cur[s] : r.id # id

\* Does v begin a watch for a search that has seen nothing, or turn one to
\* another query?  (old is the row before, or None.)
BeginsFresh(id, old, v) ==
    /\ v.watch
    /\ old # None => Fresh(id) /\ (~old.watch \/ old.query # v.query)

\* What search id must not announce once v is saved: what matched when its
\* watch began.
Base(id, old, v) ==
    LET others == {p \in base : p[1] # id}
    IN  CASE BeginsFresh(id, old, v) -> others \cup ({id} \X Found(v.query))
          [] old # None /\ old.query # v.query /\ ~BeginsFresh(id, old, v) -> others
          [] OTHER -> base

\* save_search: insert a row, or update the row of that name in place.
Save(n, v) ==
    /\ saves < MaxSaves
    /\ saves' = saves + 1
    /\ saved[n] = None => idsGiven < MaxIds
    /\ LET id == IF saved[n] = None THEN idsGiven + 1 ELSE saved[n].id IN
          /\ idsGiven' = IF saved[n] = None THEN id ELSE idsGiven
          /\ saved' = [saved EXCEPT ![n] =
                          [id |-> id, query |-> v.query, watch |-> v.watch]]
          /\ base' = Base(id, saved[n], v)
    /\ UNCHANGED <<stored, seen, due, pollState, searchFailures, announced, reannounced, unrecorded, first, crowded>>

\* delete_saved_search: its seen rows go with it.
DeleteSearch(n) ==
    /\ saved[n] # None
    /\ seen' = {p \in seen : p[1] # saved[n].id}
    /\ saved' = [saved EXCEPT ![n] = None]
    /\ UNCHANGED <<stored, due, pollState, idsGiven, saves, searchFailures, searchHistory>>

-----------------------------------------------------------------------------
(* The scheduler of a server.                                              *)

Interval ==
    /\ ~due
    /\ due' = TRUE
    /\ UNCHANGED <<tables, pollState, idsGiven, saves, searchFailures, searchHistory>>

PollGoes(s, label) == pollAt' = [pollAt EXCEPT ![s] = label]

\* is_saved_search_poll_due
Check(s) ==
    /\ pollAt[s] = "rest"
    /\ due
    /\ PollGoes(s, "claim")
    /\ UNCHANGED <<tables, due, todo, cur, results, news, idsGiven, saves, searchFailures, searchHistory>>

\* _mark_polled
Claim(s) ==
    /\ pollAt[s] = "claim"
    /\ due' = FALSE
    /\ PollGoes(s, "list")
    /\ UNCHANGED <<tables, todo, cur, results, news, idsGiven, saves, searchFailures, searchHistory>>

\* poll_watched_saved_searches: read the watched rows.
List(s) ==
    /\ pollAt[s] = "list"
    /\ todo' = [todo EXCEPT ![s] = {saved[n] : n \in {k \in Names :
                                       saved[k] # None /\ saved[k].watch}}]
    /\ PollGoes(s, "poll")
    /\ UNCHANGED <<tables, due, cur, results, news, idsGiven, saves, searchFailures, searchHistory>>

TakeRow(s, r) ==
    /\ pollAt[s] = "poll"
    /\ r \in todo[s]
    /\ todo' = [todo EXCEPT ![s] = @ \ {r}]

\* Nothing is found, so no row is written: a search that has seen nothing yet
\* still has not.
LookEmpty(s, r) ==
    /\ TakeRow(s, r)
    /\ Found(r.query) = {}
    /\ UNCHANGED <<tables, due, pollAt, cur, results, news, idsGiven, saves, searchFailures, searchHistory>>

\* What a poll gets to see: all matches, or as many as the limit allows.
Hits(q) == IF Cardinality(Found(q)) <= PollLimit
             THEN {Found(q)}
             ELSE {hits \in SUBSET Found(q) : Cardinality(hits) = PollLimit}

\* execute_saved_search
Look(s, r) ==
    /\ TakeRow(s, r)
    /\ Found(r.query) # {}
    /\ cur' = [cur EXCEPT ![s] = {r}]
    /\ \E hits \in Hits(r.query) :
          /\ results' = [results EXCEPT ![s] = hits]
          /\ crowded' = IF hits = Found(r.query) THEN crowded ELSE crowded \cup {r.id}
    /\ PollGoes(s, "look")
    /\ UNCHANGED <<tables, due, news, idsGiven, saves, searchFailures, announced, reannounced, base,
                   unrecorded, first>>

\* Mutant of HasAnySeen: the first poll is like any other.
HasAnySeenAlways(s) ==
    /\ pollAt[s] = "look"
    /\ PollGoes(s, "read")
    /\ UNCHANGED <<tables, due, todo, cur, results, news, idsGiven, saves, searchFailures, searchHistory>>

\* _has_any_seen: at its first poll a search has no news.
HasAnySeen(s) ==
    /\ pollAt[s] = "look"
    /\ PollGoes(s, IF \E r \in cur[s] : Seen(r.id) # {} THEN "read" ELSE "announce")
    /\ UNCHANGED <<tables, due, todo, cur, results, news, idsGiven, saves, searchFailures, searchHistory>>

\* _seen_memory_ids: what is not among them is new.
SeenMemoryIds(s) ==
    /\ pollAt[s] = "read"
    /\ news' = [news EXCEPT ![s] = results[s] \ UNION {Seen(r.id) : r \in cur[s]}]
    /\ PollGoes(s, "announce")
    /\ UNCHANGED <<tables, due, todo, cur, results, idsGiven, saves, searchFailures, searchHistory>>

\* notifications.notify for one new match; it never raises.
Announce(s, m) ==
    /\ pollAt[s] = "announce"
    /\ m \in news[s]
    /\ news' = [news EXCEPT ![s] = @ \ {m}]
    /\ LET now == {<<r.id, m>> : r \in cur[s]} IN
          /\ reannounced' = reannounced \cup (announced \cap now)
          /\ announced' = announced \cup now
    /\ UNCHANGED <<tables, due, pollAt, todo, cur, results, idsGiven, saves, searchFailures,
                   base, unrecorded, first, crowded>>

\* The poll of the current row is over.
Done(s) ==
    /\ cur' = [cur EXCEPT ![s] = {}]
    /\ results' = [results EXCEPT ![s] = {}]
    /\ news' = [news EXCEPT ![s] = {}]

Polled(s) == {<<r.id, m>> : r \in cur[s], m \in results[s]}

\* Mutant of Mark: only the first poll is recorded.
MarkFirst(s) ==
    /\ pollAt[s] = "announce" /\ news[s] = {}
    /\ seen' = IF \E p \in Polled(s) : Seen(p[1]) # {} THEN seen ELSE seen \cup Polled(s)
    /\ first' = first \cup {p \in Polled(s) : Seen(p[1]) = {}}
    /\ PollGoes(s, "poll") /\ Done(s)
    /\ UNCHANGED <<stored, saved, due, todo, idsGiven, saves, searchFailures, announced, reannounced, base,
                   unrecorded, crowded>>

\* All is announced: record what was found as seen, and commit.
Mark(s) ==
    /\ pollAt[s] = "announce"
    /\ news[s] = {}
    /\ seen' = seen \cup Polled(s)
    /\ first' = first \cup {p \in Polled(s) : Seen(p[1]) = {}}
    /\ PollGoes(s, "poll")
    /\ Done(s)
    /\ UNCHANGED <<stored, saved, due, todo, idsGiven, saves, searchFailures,
                   announced, reannounced, base, unrecorded, crowded>>

PollOver(s) ==
    /\ pollAt[s] = "poll"
    /\ todo[s] = {}
    /\ PollGoes(s, "rest")
    /\ UNCHANGED <<tables, due, todo, cur, results, news, idsGiven, saves, searchFailures, searchHistory>>

SearchFailure == searchFailures < MaxSearchFailures /\ searchFailures' = searchFailures + 1

\* What the current poll has announced will be announced again.
Lose(s) == unrecorded' = unrecorded \cup {p \in Polled(s) \cap announced : p[2] \notin Seen(p[1])}

\* The search raises; the loop goes on with the next.
LookFails(s, r) ==
    /\ TakeRow(s, r)
    /\ SearchFailure
    /\ UNCHANGED <<tables, due, pollAt, cur, results, news, idsGiven, saves, searchHistory>>

\* The poll of one search raises later, at the latest when it records what it
\* saw; the loop goes on with the next.  The record is the first write of its
\* transaction, so that a lock it does not get leaves nothing of it behind.
PollFails(s) ==
    /\ pollAt[s] \in {"look", "read", "announce"}
    /\ SearchFailure
    /\ Lose(s)
    /\ PollGoes(s, "poll")
    /\ Done(s)
    /\ UNCHANGED <<tables, due, todo, idsGiven, saves, announced, reannounced, base, first, crowded>>

\* The server dies and is started again.
RestartPoller(s) ==
    /\ SearchFailure
    /\ Lose(s)
    /\ PollGoes(s, "rest")
    /\ todo' = [todo EXCEPT ![s] = {}]
    /\ Done(s)
    /\ UNCHANGED <<tables, due, idsGiven, saves, announced, reannounced, base, first, crowded>>

PollStep(s) ==
    \/ Check(s) \/ Claim(s) \/ List(s)
    \/ \E r \in Row : LookEmpty(s, r) \/ Look(s, r)
    \/ HasAnySeen(s) \/ SeenMemoryIds(s)
    \/ \E m \in Findable : Announce(s, m)
    \/ Mark(s) \/ PollOver(s)

SearchNext ==
    \/ \E m \in Findable : AddMemory(m)
    \/ \E n \in Names : DeleteSearch(n) \/ \E v \in Saves : Save(n, v)
    \/ Interval
    \/ \E s \in Pollers : \/ PollStep(s) \/ PollFails(s) \/ RestartPoller(s)
                           \/ \E r \in Row : LookFails(s, r)

SearchSpec == SearchInit /\ [][SearchNext]_searchVars

\* Time passes, and the scheduler threads run.
SearchFairSpec == SearchSpec /\ WF_searchVars(Interval) /\ \A s \in Pollers : WF_searchVars(PollStep(s))

-----------------------------------------------------------------------------
(* What must hold.                                                         *)

IsSaved(id) == \E n \in Names : saved[n] # None /\ saved[n].id = id

\* "recorded as seen so it never re-fires" (poll_saved_search): a match is
\* announced again only if a failure came between announcement and record, or
\* if the search was deleted, in the middle of a poll.
OncePerMatch == \A p \in reannounced : p \in unrecorded \/ ~IsSaved(p[1])

\* A match is not passed over: what counts as seen by a search that still
\* exists was announced, or belongs to the first that the search ever found.
AnnouncedOrFirst == \A p \in seen : IsSaved(p[1]) => p \in announced \cup first

\* "turning on watch=true on a saved search that already has matches must not
\* notify on all of them" (saved_searches.py): what matched when the watch of
\* a search without seen rows began is not announced, as long as the search
\* is there and its polls have seen all matches.
NoFlood ==
    [][\A p \in announced' \ announced : p \in base => ~IsSaved(p[1]) \/ p[1] \in crowded]_searchVars

\* Every match is announced, and once.
AnnouncedOnce == OncePerMatch /\ AnnouncedOrFirst

Watched(id, m) ==
    \E n \in Names : /\ saved[n] # None /\ saved[n].id = id
                     /\ saved[n].watch /\ m \in Found(saved[n].query)

\* A memory that comes to match a watched search which has had its first poll
\* is announced sooner or later, whatever fails, as long as it is watched, or
\* a poll of the search meets more matches than it looks at.
NewsArrive ==
    \A id \in Ids, m \in Findable :
        Watched(id, m) /\ Seen(id) # {} /\ m \notin Seen(id)
            ~> <<id, m>> \in announced \/ ~Watched(id, m) \/ id \in crowded

\* What is announced is news, and all news is.
NewsOnly == NoFlood /\ NewsArrive
=============================================================================
