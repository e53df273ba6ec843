-------------------------- MODULE ReminderScheduler --------------------------
(***************************************************************************)
(* Delivery of reminders.  Every server process runs a scheduler thread on *)
(* the common database: it reads the reminders that are due, notifies the  *)
(* user of one after the other, records each in reminder_deliveries, and   *)
(* commits when the last is done (remind_me_mcp/scheduler.py).             *)
(*                                                                         *)
(* The first INSERT of a poll takes the write lock of SQLite and keeps it  *)
(* through the notifications that follow, until the commit.                *)
(***************************************************************************)
EXTENDS Naturals

CONSTANTS Servers,          \* server processes on one database
          NoServer,         \* nobody holds the write lock
          Mems,             \* memory ids
          MaxTime,          \* bound: moments that are told apart
          MaxChanges,       \* bound: what users set, clear and delete
          MaxServerCrashes  \* bound: crashes in all

ASSUME ServersAssumption == NoServer \notin Servers
ASSUME TimeAssumption    == MaxTime \in Nat /\ MaxChanges \in Nat /\ MaxServerCrashes \in Nat

VARIABLES
    now,           \* the time
    remindAt,      \* memories.remind_at, 0 for NULL
    gone,          \* the deleted memories
    changes,       \* changes by users so far
    delivered,     \* committed rows of reminder_deliveries
    dbWriter,      \* the server whose transaction holds the write lock
    schedulerAt,   \* where the scheduler thread of s stands in its loop
    rows,          \* rows[s]: reminders its poll still has to deliver
    inHand,        \* inHand[s]: the one it has notified and not recorded yet
    staged,        \* staged[s]: rows it has inserted and not committed
    sent,          \* history: reminders the user was notified of
    again,         \* history: those he was notified of more than once
    lost,          \* history: delivered, but the record was not made
    contended,     \* history: two servers had them in hand at once
    serverCrashes  \* crashes so far

schedulerState  == <<schedulerAt, rows, inHand, staged>>
users == <<now, remindAt, gone, changes>>
deliveryHistory == <<sent, again, lost, contended>>
reminderVars  == <<now, remindAt, gone, changes, delivered, dbWriter, schedulerAt, rows, inHand,
           staged, sent, again, lost, contended, serverCrashes>>

\* A reminder is a pair (memory_id, remind_at), the key of its delivery.
Reminders == [mem : Mems, at : 1..MaxTime]

ReminderTypeOK ==
    /\ now \in 0..MaxTime
    /\ remindAt \in [Mems -> 0..MaxTime]
    /\ gone \subseteq Mems
    /\ changes \in 0..MaxChanges
    /\ delivered \subseteq Reminders
    /\ dbWriter \in Servers \cup {NoServer}
    /\ schedulerAt \in [Servers -> {"off", "idle", "poll", "notified", "rest"}]
    /\ rows \in [Servers -> SUBSET Reminders]
    /\ inHand \in [Servers -> SUBSET Reminders]
    /\ staged \in [Servers -> SUBSET Reminders]
    /\ sent \subseteq Reminders
    /\ again \subseteq Reminders
    /\ lost \subseteq Reminders
    /\ contended \subseteq Reminders
    /\ serverCrashes \in 0..MaxServerCrashes

ReminderInit ==
    /\ now = 0
    /\ remindAt = [m \in Mems |-> 0]
    /\ gone = {}
    /\ changes = 0
    /\ delivered = {}
    /\ dbWriter = NoServer
    /\ schedulerAt = [s \in Servers |-> "idle"]
    /\ rows = [s \in Servers |-> {}]
    /\ inHand = [s \in Servers |-> {}]
    /\ staged = [s \in Servers |-> {}]
    /\ sent = {}
    /\ again = {}
    /\ lost = {}
    /\ contended = {}
    /\ serverCrashes = 0

-----------------------------------------------------------------------------
(* Time and users.  A write waits for the write lock, or fails.            *)

Tick ==
    /\ now < MaxTime
    /\ now' = now + 1
    /\ UNCHANGED <<remindAt, gone, changes, delivered, dbWriter, schedulerState, deliveryHistory, serverCrashes>>

Change ==
    /\ dbWriter = NoServer
    /\ changes < MaxChanges
    /\ changes' = changes + 1

\* A reminder must lie in the future.
SetReminder(m, t) ==
    /\ Change
    /\ m \notin gone
    /\ t > now
    /\ remindAt' = [remindAt EXCEPT ![m] = t]
    /\ UNCHANGED <<now, gone, delivered, dbWriter, schedulerState, deliveryHistory, serverCrashes>>

ClearReminder(m) ==
    /\ Change
    /\ m \notin gone
    /\ remindAt' = [remindAt EXCEPT ![m] = 0]
    /\ UNCHANGED <<now, gone, delivered, dbWriter, schedulerState, deliveryHistory, serverCrashes>>

DeleteMemory(m) ==
    /\ Change
    /\ m \notin gone
    /\ gone' = gone \cup {m}
    /\ UNCHANGED <<now, remindAt, delivered, dbWriter, schedulerState, deliveryHistory, serverCrashes>>

-----------------------------------------------------------------------------
(* poll_once, and the rest of the scheduler's loop.                        *)

SchedulerGoes(s, place) == schedulerAt' = [schedulerAt EXCEPT ![s] = place]

Set(r) == remindAt[r.mem] = r.at /\ r.mem \notin gone

\* Mutant of Due: every reminder whose time has come, delivered or not.
DueByTime == {r \in Reminders : Set(r) /\ r.at <= now}

\* The rows of the query: set, due, and without a record of delivery.
Due == {r \in Reminders : Set(r) /\ r.at <= now /\ r \notin delivered}

\* What server t is delivering and has not committed.
Hand(t) == rows[t] \cup inHand[t] \cup staged[t]

\* The reminders that another server has in hand when s reads them too.
Contend(s) ==
    contended' = contended \cup {r \in Due : \E t \in Servers \ {s} : r \in Hand(t)}

\* Mutant of StartPoll: only reminders that have just come due are polled.
StartPollLate(s) ==
    /\ schedulerAt[s] = "idle"
    /\ rows' = [rows EXCEPT ![s] = {r \in Due : r.at = now}]
    /\ SchedulerGoes(s, IF {r \in Due : r.at = now} = {} THEN "rest" ELSE "poll")
    /\ Contend(s)
    /\ UNCHANGED <<users, delivered, dbWriter, inHand, staged, sent, again, lost, serverCrashes>>

StartPoll(s) ==
    /\ schedulerAt[s] = "idle"
    /\ rows' = [rows EXCEPT ![s] = Due]
    /\ SchedulerGoes(s, IF Due = {} THEN "rest" ELSE "poll")
    /\ Contend(s)
    /\ UNCHANGED <<users, delivered, dbWriter, inHand, staged, sent, again, lost, serverCrashes>>

\* The delivery hook: log and notify, earliest reminder first.  It never
\* raises, and whether a channel has taken the message is not asked.
Notify(s) ==
    /\ schedulerAt[s] = "poll"
    /\ \E r \in rows[s] :
          /\ \A o \in rows[s] : r.at <= o.at
          /\ inHand' = [inHand EXCEPT ![s] = {r}]
          /\ rows' = [rows EXCEPT ![s] = @ \ {r}]
          /\ sent' = sent \cup {r}
          /\ again' = again \cup ({r} \cap sent)
    /\ SchedulerGoes(s, "notified")
    /\ UNCHANGED <<users, delivered, dbWriter, staged, lost, contended, serverCrashes>>

\* What is inserted becomes visible, and the write lock is free.
CommitDeliveries(s, new) ==
    /\ delivered' = delivered \cup new
    /\ staged' = [staged EXCEPT ![s] = {}]
    /\ dbWriter' = IF dbWriter = s THEN NoServer ELSE dbWriter

\* Insert the record of the delivery; commit after the last one.
Record(s) ==
    /\ schedulerAt[s] = "notified"
    /\ dbWriter \in {NoServer, s}
    /\ inHand[s] \cap delivered = {}
    /\ IF rows[s] = {}
          THEN /\ CommitDeliveries(s, staged[s] \cup inHand[s])
               /\ SchedulerGoes(s, "rest")
          ELSE /\ staged' = [staged EXCEPT ![s] = @ \cup inHand[s]]
               /\ dbWriter' = s
               /\ SchedulerGoes(s, "poll")
               /\ UNCHANGED delivered
    /\ inHand' = [inHand EXCEPT ![s] = {}]
    /\ UNCHANGED <<users, rows, deliveryHistory, serverCrashes>>

\* The INSERT raises and ends the poll: another process holds the write lock
\* for longer than busy_timeout, or has recorded the same reminder (the key
\* is unique); then the transaction stays open.
RecordFails(s) ==
    /\ schedulerAt[s] = "notified"
    /\ \/ dbWriter \notin {NoServer, s} /\ UNCHANGED dbWriter
       \/ /\ dbWriter \in {NoServer, s}
          /\ inHand[s] \cap delivered # {}
          /\ dbWriter' = s
    /\ rows' = [rows EXCEPT ![s] = {}]
    /\ inHand' = [inHand EXCEPT ![s] = {}]
    /\ lost' = lost \cup (inHand[s] \ delivered)
    /\ SchedulerGoes(s, "rest")
    /\ UNCHANGED <<users, delivered, staged, sent, again, contended, serverCrashes>>

\* Digest, saved searches, compaction: the next commit of the thread takes
\* what the poll has left open with it.
RestOfLoop(s) ==
    /\ schedulerAt[s] = "rest"
    /\ CommitDeliveries(s, staged[s])
    /\ SchedulerGoes(s, "idle")
    /\ UNCHANGED <<users, rows, inHand, deliveryHistory, serverCrashes>>

-----------------------------------------------------------------------------
\* The process dies: SQLite rolls back what was not committed.
CrashServer(s) ==
    /\ schedulerAt[s] # "off"
    /\ serverCrashes < MaxServerCrashes
    /\ serverCrashes' = serverCrashes + 1
    /\ SchedulerGoes(s, "off")
    /\ rows' = [rows EXCEPT ![s] = {}]
    /\ inHand' = [inHand EXCEPT ![s] = {}]
    /\ staged' = [staged EXCEPT ![s] = {}]
    /\ dbWriter' = IF dbWriter = s THEN NoServer ELSE dbWriter
    /\ lost' = lost \cup staged[s] \cup inHand[s]
    /\ UNCHANGED <<users, delivered, sent, again, contended>>

RestartServer(s) ==
    /\ schedulerAt[s] = "off"
    /\ SchedulerGoes(s, "idle")
    /\ UNCHANGED <<users, delivered, dbWriter, rows, inHand, staged, deliveryHistory, serverCrashes>>

SchedulerStep(s) ==
    \/ StartPoll(s) \/ Notify(s) \/ Record(s) \/ RecordFails(s) \/ RestOfLoop(s)
    \/ RestartServer(s)

ReminderNext ==
    \/ Tick
    \/ \E m \in Mems : \/ \E t \in 1..MaxTime : SetReminder(m, t)
                       \/ ClearReminder(m) \/ DeleteMemory(m)
    \/ \E s \in Servers : SchedulerStep(s) \/ CrashServer(s)

ReminderSpec == ReminderInit /\ [][ReminderNext]_reminderVars

\* The scheduler thread polls for ever and survives every exception, and a
\* server that has died is started again.
ReminderFairSpec == ReminderSpec /\ \A s \in Servers : WF_reminderVars(SchedulerStep(s))

-----------------------------------------------------------------------------
(* What must hold.                                                         *)

\* No reminder is "silently dropped": what counts as delivered was delivered.
RecordedAreSent == \A r \in delivered : r \in sent

\* The scheduler "delivers each exactly once".  A reminder fires a second time
\* only if its first delivery went without a record, the server having died
\* or met a locked database in between, or if two servers had it in hand at
\* once: no query claims the reminders it finds.
DeliveredOnce == again \subseteq lost \cup contended

\* The record of a delivery and the delivery come together, if only one server has it in hand.
DeliveriesRight == RecordedAreSent /\ DeliveredOnce

\* What keeps a reminder from firing on every later poll, crashes or not: one
\* that is recorded as delivered is not delivered any more, but by a server
\* that had it in hand when another did.
SilentOnceRecorded ==
    [][\A r \in delivered : r \in again' => r \in again \cup contended]_reminderVars

\* A reminder that comes due fires, also when its time was missed while the
\* server was down, unless it is taken back before.
NoneForgotten ==
    \A r \in Reminders : (Set(r) /\ r.at <= now) ~> (r \in sent \/ ~Set(r))
=============================================================================
