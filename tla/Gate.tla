-------------------------------- MODULE Gate --------------------------------
(***************************************************************************)
(* Who gets through to the program: the rate limiter and the checks of the *)
(* remote server (remote.py), of the dashboard's API (api.py) and of the   *)
(* webhook (webhook_server.py), up to the call of the handler behind them. *)
(*                                                                         *)
(* A request is [surface, path, changes, cred, from]: the class of its     *)
(* path, whether its method is a mutating one, what it presents            *)
(* ("secret": the configured token or key, "read" and "write": a named key *)
(* or an issued token, "wrong" or nothing) and its address.                *)
(***************************************************************************)
EXTENDS Naturals, FiniteSets

CONSTANTS Handlers,       \* threads that serve requests of the limited surfaces
          Addresses,      \* the addresses callers appear under
          Limit, Window,  \* RATE_LIMIT_REQUESTS, RATE_LIMIT_WINDOW_SECONDS
          PruneEvery,     \* prune_every
          OAuthMode,      \* an issuer is configured
          Arriving,       \* the requests that arrive
          MaxTicks, MaxRequests   \* bounds

ASSUME LimiterNumbers == Limit \in Nat \ {0} /\ Window \in Nat \ {0} /\ PruneEvery \in Nat \ {0}

VARIABLES
    buckets,     \* of each limiter, [bucket -> [start, count]], the buckets there are
    hits,        \* of each limiter, _hits_since_prune
    ticks,       \* time.monotonic()
    handling,    \* [Handlers -> a request with the time its handler has read, or NoRequest]
    called,      \* requests whose handler was called
    requests,
    admitted     \* history: the requests counted: [n, key, read, at, own, in]

gateVars == <<buckets, hits, ticks, handling, called, requests, admitted>>

Limiters == {"remote", "webhook"}
NoRequest == [surface |-> "none"]
Requests == [surface : {"remote"}, path : {"mcp", "secret", "open", "other"}, changes : {TRUE},
             cred : {"secret", "read", "wrong"}, from : Addresses]
            \cup [surface : {"webhook"}, path : {"ingest", "other"}, changes : BOOLEAN,
                  cred : {"secret", "wrong"}, from : Addresses]
            \cup [surface : {"dashboard"}, path : {"page", "ics", "api"}, changes : BOOLEAN,
                  cred : {"secret", "read", "write", "wrong"}, json : BOOLEAN, from : Addresses]

\* The buckets of addresses are named "ip:...".
ASSUME NoAddressIsKnown == "auth:known" \notin Addresses
ASSUME ArrivingRequests == Arriving \subseteq Requests

\* One bucket for the configured credential, one for each address otherwise.
resolve_key(r) == IF r.cred = "secret" THEN "auth:known" ELSE r.from

\* Only the MCP paths of the remote server and the POSTs of the webhook are counted.
Guarded(r) == CASE r.surface = "remote"    -> r.path \in {"mcp", "secret"}
                   [] r.surface = "webhook"   -> r.changes
                   [] r.surface = "dashboard" -> FALSE

InHandler(bucket, now) == now < bucket.start + Window
\* Every bucket is dropped.
PrunedAll(s, now) == [k \in {} |-> 0]
Pruned(s, now) == [k \in {k \in DOMAIN buckets[s] : InHandler(buckets[s][k], now)} |-> buckets[s][k]]
AfterPrune(s, now) == IF hits[s] + 1 < PruneEvery THEN buckets[s] ELSE Pruned(s, now)

\* The bucket a hit at `now` counts in.
Bucket(s, k, now) ==
    LET kept == AfterPrune(s, now)
        found == IF k \in DOMAIN kept THEN kept[k] ELSE [start |-> now, count |-> 0]
    IN IF InHandler(found, now) THEN found ELSE [start |-> now, count |-> 0]

GateInit ==
    /\ buckets = [s \in Limiters |-> [k \in {} |-> 0]] /\ hits = [s \in Limiters |-> 0] /\ ticks = 0
    /\ handling = [h \in Handlers |-> NoRequest]
    /\ called = {} /\ requests = 0 /\ admitted = {}

Tick == /\ ticks < MaxTicks /\ ticks' = ticks + 1
        /\ UNCHANGED <<buckets, hits, handling, called, requests, admitted>>

\* A request arrives and its thread reads the clock, before it takes the limiter's lock.
Arrive(h, r) ==
    /\ handling[h] = NoRequest /\ requests < MaxRequests
    /\ requests' = requests + 1
    /\ handling' = [handling EXCEPT ![h] = [req |-> r, now |-> ticks]]
    /\ UNCHANGED <<buckets, hits, ticks, called, admitted>>

\* What the checks behind the limiter make of a request: "in" or the status of the refusal.
RemoteCheck(r) ==
    CASE r.path = "open"   -> IF OAuthMode THEN "in" ELSE "404"
      [] r.path = "secret" -> IF r.cred = "secret" THEN "in" ELSE "404"
      [] r.path = "mcp"    -> IF r.cred = "secret" \/ (OAuthMode /\ r.cred = "read") THEN "in" ELSE "401"
      [] r.path = "other"  -> "404"
WebhookCheck(r) ==
    IF r.cred # "secret" THEN "401" ELSE IF r.path # "ingest" \/ ~r.changes THEN "404" ELSE "in"
\* The dashboard: the bearer check, then the content type.
DashboardCheck(r) ==
    IF r.path = "api" /\ r.cred \notin {"secret", "read", "write"} THEN "401"
    ELSE IF r.path = "api" /\ r.cred = "read" /\ r.changes THEN "403"
    ELSE IF r.path # "page" /\ r.changes /\ ~r.json THEN "415"
    ELSE "in"
Check(r) == CASE r.surface = "remote"    -> RemoteCheck(r)
              [] r.surface = "webhook"   -> WebhookCheck(r)
              [] r.surface = "dashboard" -> DashboardCheck(r)

\* The checks and the call of the handler, which refuses what it cannot use by itself.
Passed(h, r) ==
    /\ handling' = [handling EXCEPT ![h] = NoRequest]
    /\ called' = called \cup {q \in {r} : Check(r) = "in"}

\* The locked part of hit, and what follows it.
Hit(h) ==
    LET r == handling[h].req
        now == handling[h].now
        s == r.surface
        k == resolve_key(r)
        mine == Bucket(s, k, now)
        full == mine.count >= Limit
    IN /\ handling[h] # NoRequest /\ Guarded(r)
       /\ hits' = [hits EXCEPT ![s] = IF @ + 1 < PruneEvery THEN @ + 1 ELSE 0]
       /\ buckets' = [buckets EXCEPT ![s] =
                         [x \in DOMAIN AfterPrune(s, now) \cup {k} |->
                             IF x # k THEN AfterPrune(s, now)[x]
                             ELSE IF full THEN mine ELSE [mine EXCEPT !.count = @ + 1]]]
       /\ admitted' = admitted \cup {[n |-> Cardinality(admitted), key |-> <<s, k>>, read |-> now,
                                      at |-> ticks, own |-> r.cred = "secret", in |-> ~full]}
       /\ IF full THEN handling' = [handling EXCEPT ![h] = NoRequest] /\ UNCHANGED called
                  ELSE Passed(h, r)
       /\ UNCHANGED <<ticks, requests>>

Unlimited(h) ==
    LET r == handling[h].req IN
    /\ handling[h] # NoRequest /\ ~Guarded(r)
    /\ Passed(h, r)
    /\ UNCHANGED <<buckets, hits, ticks, requests, admitted>>

GateNext ==
    \/ Tick
    \/ \E h \in Handlers : \/ Hit(h) \/ Unlimited(h)
                           \/ \E r \in Arriving : Arrive(h, r)

GateSpec == GateInit /\ [][GateNext]_gateVars

-----------------------------------------------------------------------------
\* What a bucket lets through in the stretch of one window from t on.
Within(k, t) == {a \in admitted : a.in /\ a.key = k /\ a.at \in t .. t + Window - 1}
\* In no such stretch does a bucket let through more than two limits, one of the window that
\* ends and one of the window that begins, and one more for each request that had read the
\* clock before the stretch: such a one may begin a window that is as good as over.
WindowCap ==
    \A k \in {a.key : a \in admitted}, t \in 0..MaxTicks :
        Cardinality(Within(k, t)) <= (2 + Cardinality({a \in Within(k, t) : a.read < t})) * Limit

\* "retries from the server's own legitimate high-volume caller are never throttled by
\* unrelated traffic": a caller with the credential is refused only after a full limit of
\* requests with it in the window before.
OwnBucket ==
    \A a \in admitted : a.own /\ ~a.in =>
        Cardinality({b \in admitted : b.own /\ b.key[1] = a.key[1] /\ b.in /\ b.at <= a.at /\ a.read < b.at + Window})
            >= Limit

\* Whoever is let through or refused is so by what his own bucket has seen in one window.
LimitsHold == WindowCap /\ OwnBucket
=============================================================================
