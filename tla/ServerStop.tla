------------------------------ MODULE ServerStop ------------------------------
(***************************************************************************)
(* The lifespan of a server (server.py app_lifespan): it starts the        *)
(* background services, and at its end stops them one after the other,     *)
(* waiting at most ten seconds for each thread, before it closes every     *)
(* database connection of the process.  Lifespans of one process follow    *)
(* each other.                                                             *)
(*                                                                         *)
(* The loops of sync.py and scheduler.py are stopped by an Event of their  *)
(* module, which a start clears; a FolderWatcher has an Event of its own;  *)
(* the peer and webhook servers answer each request in a thread that       *)
(* nobody waits for.  A thread is <<service, lifespan that started it>>.   *)
(***************************************************************************)
EXTENDS Naturals, Sequences, FiniteSets

CONSTANTS Loops,      \* services with a loop and a module's Event
          Watchers,   \* services with a loop and an Event per start
          HttpServers,    \* services that answer requests
          StopOrder,  \* the services in the order in which they are stopped
          MaxLifespans, MaxJoinTimeouts   \* bounds

Services == Loops \cup Watchers \cup HttpServers

\* Each service is stopped, once.
ASSUME StopsEach == /\ StopOrder \in Seq(Services)
                    /\ \A s \in Services : \E i \in 1..Len(StopOrder) : StopOrder[i] = s
                    /\ \A i, j \in 1..Len(StopOrder) : StopOrder[i] = StopOrder[j] => i = j
ASSUME LifespansAssumption == MaxLifespans \in Nat

AllThreads == Services \X (1..MaxLifespans)

VARIABLES
    lifespan,    \* number of the current or last lifespan
    toStop,      \* services still to be stopped, <<>> when the connections are next; see phase
    phase,       \* "off", "serving", "stop" or "join"
    stopped,     \* Events that are set: of services and of threads
    current,     \* [Services -> its _thread, or none (0)]: the lifespan that started it
    threadStage,          \* [AllThreads -> "none", "wait", "work" or "gone"]
    opened,      \* [AllThreads -> the generation of the connection that its work holds]
    inHandler,    \* generations of the connections held by requests under way
    generation,  \* _db_generation
    joinTimeouts,
    abandoned,   \* history: threads whose join timed out
    misused      \* history: threads that used a closed connection

stopVars == <<lifespan, toStop, phase, stopped, current, threadStage, opened, inHandler, generation, joinTimeouts,
              abandoned, misused>>

StopInit ==
    /\ lifespan = 0 /\ toStop = <<>> /\ phase = "off" /\ stopped = {}
    /\ current = [s \in Services |-> 0] /\ threadStage = [t \in AllThreads |-> "none"]
    /\ opened = [t \in AllThreads |-> 0] /\ inHandler = {} /\ generation = 0
    /\ joinTimeouts = 0 /\ abandoned = {} /\ misused = {}

Goes_on(t) == threadStage[t] \in {"wait", "work"}
\* The Event that ends a thread.
EventOf(t) == IF t[1] \in Watchers THEN t ELSE <<t[1], 0>>

-----------------------------------------------------------------------------
\* start_sync_thread, start_scheduler, start_watcher, start_peer_server, start_webhook_server.
EnterLifespan ==
    /\ phase = "off" /\ lifespan < MaxLifespans
    /\ lifespan' = lifespan + 1 /\ phase' = "serving"
    /\ LET began == {<<s, lifespan + 1>> : s \in Services} IN
       /\ threadStage' = [t \in AllThreads |-> IF t \in began THEN "wait" ELSE threadStage[t]]
       /\ current' = [s \in Services |-> lifespan + 1]
       /\ stopped' = stopped \ {EventOf(t) : t \in began}
    /\ UNCHANGED <<toStop, opened, inHandler, generation, joinTimeouts, abandoned, misused>>

LeaveLifespan ==
    /\ phase = "serving" /\ phase' = "stop" /\ toStop' = StopOrder
    /\ UNCHANGED <<lifespan, stopped, current, threadStage, opened, inHandler, generation, joinTimeouts, abandoned, misused>>

\* stop_*: the Event is set and the service forgets its thread; a server stops accepting first.
StopService ==
    /\ phase = "stop" /\ toStop # <<>>
    /\ LET s == Head(toStop)
           t == <<s, current[s]>>
       IN /\ stopped' = stopped \cup {EventOf(t)}
          /\ current' = [current EXCEPT ![s] = 0]
          /\ threadStage' = IF s \in HttpServers THEN [threadStage EXCEPT ![t] = "gone"] ELSE threadStage
          /\ phase' = "join"
    /\ UNCHANGED <<lifespan, toStop, opened, inHandler, generation, joinTimeouts, abandoned, misused>>

NextService == phase' = "stop" /\ toStop' = Tail(toStop)

\* No thread is waited for.
ExitedAtOnce(t) == TRUE
Exited(t) == threadStage[t] = "gone"
Joined ==
    /\ phase = "join" /\ Exited(<<Head(toStop), lifespan>>)
    /\ NextService
    /\ UNCHANGED <<lifespan, stopped, current, threadStage, opened, inHandler, generation, joinTimeouts, abandoned, misused>>

JoinTimesOut ==
    /\ phase = "join" /\ ~Exited(<<Head(toStop), lifespan>>)
    /\ joinTimeouts < MaxJoinTimeouts /\ joinTimeouts' = joinTimeouts + 1
    /\ abandoned' = abandoned \cup {<<Head(toStop), lifespan>>}
    /\ NextService
    /\ UNCHANGED <<lifespan, stopped, current, threadStage, opened, inHandler, generation, misused>>

\* _close_db.
CloseDb ==
    /\ phase = "stop" /\ toStop = <<>> /\ phase' = "off"
    /\ generation' = generation + 1
    /\ UNCHANGED <<lifespan, toStop, stopped, current, threadStage, opened, inHandler, joinTimeouts, abandoned, misused>>

-----------------------------------------------------------------------------
UnchangedLifespan == UNCHANGED <<lifespan, toStop, phase, stopped, current, generation, joinTimeouts, abandoned>>

\* A loop looks at its Event, and works or ends.
LoopTurns(t) ==
    /\ t[1] \in Loops \cup Watchers /\ threadStage[t] = "wait"
    /\ IF EventOf(t) \in stopped
       THEN threadStage' = [threadStage EXCEPT ![t] = "gone"] /\ UNCHANGED opened
       ELSE threadStage' = [threadStage EXCEPT ![t] = "work"] /\ opened' = [opened EXCEPT ![t] = generation]
    /\ UnchangedLifespan /\ UNCHANGED <<inHandler, misused>>

\* The work ends with a write on the connection it began with.
LoopWrites(t) ==
    /\ threadStage[t] = "work" /\ threadStage' = [threadStage EXCEPT ![t] = "wait"]
    /\ misused' = IF opened[t] # generation THEN misused \cup {t} ELSE misused
    /\ UnchangedLifespan /\ UNCHANGED <<opened, inHandler>>

RequestBegins(s) ==
    /\ current[s] # 0 /\ threadStage[<<s, current[s]>>] = "wait"
    /\ inHandler' = inHandler \cup {<<s, generation>>}
    /\ UnchangedLifespan /\ UNCHANGED <<threadStage, opened, misused>>
RequestEnds(h) ==
    /\ inHandler' = inHandler \ {h}
    /\ misused' = IF h[2] # generation THEN misused \cup {h} ELSE misused
    /\ UnchangedLifespan /\ UNCHANGED <<threadStage, opened>>

StopNext == \/ EnterLifespan \/ LeaveLifespan \/ StopService \/ Joined \/ JoinTimesOut \/ CloseDb
            \/ \E t \in AllThreads : LoopTurns(t) \/ LoopWrites(t)
            \/ \E s \in HttpServers : RequestBegins(s)
            \/ \E h \in inHandler : RequestEnds(h)

StopSpec == StopInit /\ [][StopNext]_stopVars

-----------------------------------------------------------------------------
\* "stop the watcher, webhook, peer server, and sync threads *before* closing the database
\* connections" (SE-07): a loop that was joined in time never uses a closed connection.
ClosedLast == \A t \in misused : t[1] \in HttpServers \/ t \in abandoned

\* "so two concurrent callers can't both pass the liveness check and start two competing loops":
\* a service has one loop that will go on; the loop of a module's Event that a stop gave up
\* waiting for is revived by the next start.
OneLoop ==
    \A t, u \in AllThreads :
        /\ t[1] = u[1] /\ t[2] < u[2] /\ Goes_on(t) /\ Goes_on(u)
        /\ {EventOf(t), EventOf(u)} \cap stopped = {}
        => t \in abandoned /\ t[1] \in Loops

\* A lifespan ends all that it began before the connections go, and the next begins afresh.
StopsClean == ClosedLast /\ OneLoop
=============================================================================
