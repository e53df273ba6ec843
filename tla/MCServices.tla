----------------------------- MODULE MCServices -----------------------------
(* The components of a server that keep their own state, on small          *)
(* instances, for TLC.  A behaviour is the behaviour of one of them, the   *)
(* `part` it begins with, while the others stay in one initial state.      *)
EXTENDS Migrations, SemanticIndex, Backups, Auth, Gate, WikiPages, WikiCompile, TrackedImports,
        SelfUpdate, ServerStart, ServerStop, PeriodicJobs, SyncVerdict, Recall, TLC

CONSTANTS Parts,        \* the components that run
          a, b,         \* two actors: servers, threads, updates
          m1, m2, m3,   \* three memories
          s1, s2        \* two wiki pages
VARIABLE part

-----------------------------------------------------------------------------
(* Values of the constants.                                                *)
\* One row of each kind that migrations treat in their own way.
MCKindOf == [r \in {"note", "drawer", "relates"} |->
                CASE r = "note" -> "memory" [] r = "drawer" -> "palace" [] r = "relates" -> "relation"]

\* A store of before release 8, or that two servers upgrade, is not opened a third time.
FewOpens == together \/ disk.version < 8 => opens <= 2

\* A tool runs in the process of the server, another one in one of its own.
MCPid == [w \in {"server"} \cup Tools |-> IF w \in {"server", "t1"} THEN "p1" ELSE "p2"]
FewMishaps == /\ Cardinality(expired) + authFaults + Cardinality(crossed) <= 1
              /\ crossed = {} \/ pairs <= 1

\* The secret and a key that may only read, at each of the three surfaces.
MCArriving ==
    {[surface |-> "remote", path |-> "mcp", changes |-> TRUE, cred |-> c, from |-> "here"] : c \in {"secret", "read"}}
    \cup {[surface |-> "webhook", path |-> "ingest", changes |-> TRUE, cred |-> "secret", from |-> "here"],
          [surface |-> "dashboard", path |-> "api", changes |-> TRUE, cred |-> "read", json |-> TRUE, from |-> "here"]}

\* Once two pages have had files, calls run one after the other (a transaction that one has left
\* stays) and the clock of the file system stands.
FewPages == (\A s \in Slugs : stamped[s] # {}) => wikiTime = 0 /\ \E c \in WikiCalls : wikiCall[c] = Ready

MCPullServer == [p \in Pulls |-> "server"]
MCStopOrder == <<"watcher", "peer", "sync">>

\* A search has one of the options; a second one comes when the first is counted, finds at most two
\* memories, by their words, and has none.
FewSearches ==
    query # NoSearch
    => /\ Cardinality({option \in {"sensitive", "dormant", "budget"} :
                          \/ option = "sensitive" /\ query.opt
                          \/ option = "dormant" /\ query.dormantToo
                          \/ option = "budget" /\ query.budget # 0}) <= IF searches = 1 THEN 1 ELSE 0
       /\ searches = 2 => /\ \E p \in MemoryPairs : associations[p] > 0
                          /\ Len(query.order) \in {1, 2} /\ (query.at = "fused" => query.chunks = <<>>)

\* Two memories of one day, a later one, which shares an entity with one of them.
MCOrders == {<<>>, <<m1>>, <<m2, m1>>, <<m1, m3>>, <<m3, m2, m1>>, <<m2, m3, m1>>}
\* A memory has one to four chunks near the query.
MCChunkOrders == {<<>>, <<m2, m3>>, <<m3, m2, m1>>, <<m1, m1, m1, m2>>, <<m1, m1, m1, m1, m2>>, <<m2, m2, m3, m3, m3, m3, m3, m1>>}
MCCreated == m1 :> 1 @@ m2 :> 1 @@ m3 :> 2
MCSize == [m \in Remembrances |-> 1]
MCShares == {{m1, m3}}
MCSame == {}

\* The actors of a component are alike, and no other constant of it is one of them.
Actors == Permutations({a, b}) \cup Permutations(Slugs)

-----------------------------------------------------------------------------
(* Where a component has several initial states, it has them in its own    *)
(* behaviours only.                                                        *)
ServicesInit ==
    /\ part \in Parts
    /\ MigInit /\ VecInit /\ BackupInit /\ AuthInit /\ GateInit /\ WikiInit /\ CompileInit /\ PullInit
    /\ UpdateInit /\ StartInit /\ StopInit /\ JobsInit /\ VerdictInit /\ RecallInit
    /\ part # "migrations" => ~together /\ sync /\ disk.version = 0
    /\ part # "verdict" => cursor = 0 /\ hubRecord = [r \in SyncedRows |-> NoRecord]
                           /\ localRecord = [r \in SyncedRows |-> NoRecord]
    /\ part # "recall" => \A m \in Remembrances : recall[m].last = 0

NoService == UNCHANGED <<part, updateVars, startVars, stopVars, jobVars, gateVars, authVars>>
NoStore == UNCHANGED <<part, migVars, vecVars, backupVars, pullVars, wikiVars, compileVars, verdictVars, recallVars>>

Upgrades == /\ part = "migrations" /\ MigNext /\ NoService
            /\ UNCHANGED <<vecVars, backupVars, pullVars, wikiVars, compileVars, verdictVars, recallVars>>
Indexes == /\ part = "vectors" /\ VecNext /\ NoService
           /\ UNCHANGED <<migVars, backupVars, pullVars, wikiVars, compileVars, verdictVars, recallVars>>
BacksUp == /\ part = "backups" /\ BackupNext /\ NoService
           /\ UNCHANGED <<migVars, vecVars, pullVars, wikiVars, compileVars, verdictVars, recallVars>>
PullsImports == /\ part = "tracked" /\ PullNext /\ NoService
                /\ UNCHANGED <<migVars, vecVars, backupVars, wikiVars, compileVars, verdictVars, recallVars>>
KeepsPages == /\ part = "pages" /\ WikiNext /\ NoService
              /\ UNCHANGED <<migVars, vecVars, backupVars, pullVars, compileVars, verdictVars, recallVars>>
Compiles == /\ part = "compile" /\ CompileNext /\ NoService
            /\ UNCHANGED <<migVars, vecVars, backupVars, pullVars, wikiVars, verdictVars, recallVars>>
Judges == /\ part = "verdict" /\ VerdictNext /\ NoService
          /\ UNCHANGED <<migVars, vecVars, backupVars, pullVars, wikiVars, compileVars, recallVars>>
Recalls == /\ part = "recall" /\ RecallNext /\ NoService
           /\ UNCHANGED <<migVars, vecVars, backupVars, pullVars, wikiVars, compileVars, verdictVars>>
UpdatesItself == /\ part = "update" /\ UpdateNext /\ NoStore
                 /\ UNCHANGED <<startVars, stopVars, jobVars, gateVars, authVars>>
Starts_up == /\ part = "start" /\ StartNext /\ NoStore
             /\ UNCHANGED <<updateVars, stopVars, jobVars, gateVars, authVars>>
Shuts_down == /\ part = "stop" /\ StopNext /\ NoStore
              /\ UNCHANGED <<updateVars, startVars, jobVars, gateVars, authVars>>
DoesJobs == /\ part = "jobs" /\ JobsNext /\ NoStore
            /\ UNCHANGED <<updateVars, startVars, stopVars, gateVars, authVars>>
Admits == /\ part = "gate" /\ GateNext /\ NoStore
          /\ UNCHANGED <<updateVars, startVars, stopVars, jobVars, authVars>>
Authorizes == /\ part = "auth" /\ AuthNext /\ NoStore
              /\ UNCHANGED <<updateVars, startVars, stopVars, jobVars, gateVars>>

ServicesNext ==
    \/ Upgrades \/ Indexes \/ BacksUp \/ PullsImports \/ KeepsPages \/ Compiles \/ Judges \/ Recalls
    \/ UpdatesItself \/ Starts_up \/ Shuts_down \/ DoesJobs \/ Admits \/ Authorizes

ServicesSpec == ServicesInit /\ [][ServicesNext]_<<part, migVars, vecVars, backupVars, pullVars, wikiVars,
    compileVars, verdictVars, recallVars, updateVars, startVars, stopVars, jobVars, gateVars, authVars>>
=============================================================================
