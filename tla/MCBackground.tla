---------------------------- MODULE MCBackground -----------------------------
(* What the threads of the servers do at the same time on one database:    *)
(* imports, the folder watcher and the delivery of reminders, on small     *)
(* instances, for TLC.  A behaviour is the behaviour of the `part` it      *)
(* begins with, and the fairness is the one of that part.                  *)
EXTENDS ContentImport, ReminderScheduler, FolderWatch, TLC

CONSTANTS Parts,  \* the parts that run
          p1
VARIABLE part

\* All workers are threads of one process.
OneProcess == [w \in Workers |-> p1]

all == <<part, vars, reminderVars, watchVars>>

\* The path the watcher remembers before its first import says nothing.
BackgroundInit ==
    /\ part \in Parts /\ Init /\ ReminderInit /\ WatchInit
    /\ path = CHOOSE f \in Files : TRUE

Imports == part = "imports" /\ Next /\ UNCHANGED <<part, reminderVars, watchVars>>
Reminds == part = "reminders" /\ ReminderNext /\ UNCHANGED <<part, vars, watchVars>>
Watches == part = "watch" /\ WatchNext /\ UNCHANGED <<part, vars, reminderVars>>

BackgroundNext == Imports \/ Reminds \/ Watches

BackgroundFairSpec ==
    /\ BackgroundInit /\ [][BackgroundNext]_all
    /\ \A w \in Workers : WF_vars(part = "imports" /\ WorkerStep(w))
    /\ \A s \in Servers : WF_reminderVars(part = "reminders" /\ SchedulerStep(s))
    /\ WF_watchVars(part = "watch" /\ ScanStep)
    /\ \A f \in Files :
          /\ SF_watchVars(part = "watch" /\ GracePasses(f))
          /\ WF_watchVars(part = "watch" /\ f \in BeingWritten /\ \E c \in Texts : Write(f, c))
=============================================================================
