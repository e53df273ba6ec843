------------------------------ MODULE ServerStart ------------------------------
(***************************************************************************)
(* The single-instance lock of the server (pid.py, __main__.py): a process *)
(* that starts with --serve-mcp reads the pid file, exits when it names a  *)
(* living process, and else writes its own; --restore only reads it.  A    *)
(* reader removes a file that is malformed or names a dead process.  The   *)
(* file is removed by the signal handler and again at exit.  Reading,      *)
(* removing and writing are separate steps.                                *)
(*                                                                         *)
(* The pid file is None, or [pid]: a process, or None while it is empty.   *)
(***************************************************************************)
EXTENDS Naturals, FiniteSets

CONSTANTS Starts,     \* runs of the program that serve
          Restores,   \* runs of the program that restore a backup
          NoServer,   \* no file, or none in it
          MaxKills    \* bound

ASSUME NoServerIsNone == /\ NoServer \notin Starts \cup Restores
                         /\ NoServer \notin [pid : Starts \cup Restores \cup {NoServer}]

VARIABLES
    pidFile,
    step,      \* [Starts \cup Restores -> where it is]
    seenPid,   \* what it read: None or [pid]
    holds,     \* processes whose open file is the pid file, not one removed meanwhile
    kills,
    met        \* history: two processes were between two steps on the file at the same time

startVars == <<pidFile, step, seenPid, holds, kills, met>>

Runs == Starts \cup Restores
Alive(p) == step[p] \notin {"new", "refused", "ended"}
IsServing(p) == step[p] \in {"handlers", "serving", "stopping"}
Restoring(p) == step[p] = "restoring"
\* p is between two of its steps on the file.
Amid(p) == step[p] \in {"judge", "write", "fill", "handlers", "stopping"}

StartInit == /\ pidFile = NoServer /\ step = [p \in Runs |-> "new"] /\ seenPid = [p \in Runs |-> NoServer]
             /\ holds = {} /\ kills = 0 /\ met = FALSE

\* p goes to `to`.
Turns(p, to) ==
    /\ step' = [step EXCEPT ![p] = to]
    /\ met' = (met \/ \E q \in Runs \ {p} : Amid(q))
Unlinked == pidFile' = NoServer /\ holds' = {}
FileKept == UNCHANGED <<pidFile, holds>>

-----------------------------------------------------------------------------
\* _read_pid_file: the file is read.
ReadPid(p) ==
    /\ step[p] = "new"
    /\ seenPid' = [seenPid EXCEPT ![p] = pidFile]
    /\ Turns(p, IF pidFile = NoServer THEN IF p \in Starts THEN "write" ELSE "restoring" ELSE "judge")
    /\ FileKept /\ UNCHANGED kills

\* Every process that a file names is taken for dead.
LivesUnchecked(q) == FALSE
\* _pid_is_alive.
Lives(q) == q # NoServer /\ Alive(q)

\* Another living process: exit.  A dead one or a malformed file: the file, whichever it is by
\* now, is removed.
Judge(p) ==
    /\ step[p] = "judge"
    /\ IF Lives(seenPid[p].pid) THEN Turns(p, "refused") /\ FileKept
       ELSE Turns(p, IF p \in Starts THEN "write" ELSE "restoring") /\ Unlinked
    /\ UNCHANGED <<seenPid, kills>>

\* _write_pid_file: write_text creates or truncates the file, then fills it.
Truncate(p) ==
    /\ step[p] = "write"
    /\ pidFile' = [pid |-> NoServer] /\ holds' = holds \cup {p}
    /\ Turns(p, "fill") /\ UNCHANGED <<seenPid, kills>>

FillIn(p) ==
    /\ step[p] = "fill"
    /\ pidFile' = IF p \in holds THEN [pid |-> p] ELSE pidFile
    /\ holds' = holds \ {p}
    /\ Turns(p, "handlers") /\ UNCHANGED <<seenPid, kills>>

Registers(p) ==
    /\ step[p] = "handlers" /\ Turns(p, "serving")
    /\ FileKept /\ UNCHANGED <<seenPid, kills>>

\* The end of a server: the signal handler removes the file, the rest of the exit follows, and
\* the handler of the exit removes it again.
Signalled(p) ==
    /\ step[p] = "serving" /\ Turns(p, "stopping")
    /\ Unlinked /\ UNCHANGED <<seenPid, kills>>
AtExit(p) ==
    /\ step[p] = "stopping" /\ Turns(p, "ended")
    /\ Unlinked /\ UNCHANGED <<seenPid, kills>>

RestoreEnds(p) ==
    /\ Restoring(p) /\ Turns(p, "ended")
    /\ FileKept /\ UNCHANGED <<seenPid, kills>>

\* kill -9, power failure.
Killed(p) ==
    /\ Alive(p) /\ kills < MaxKills /\ kills' = kills + 1
    /\ step' = [step EXCEPT ![p] = "ended"] /\ holds' = holds \ {p}
    /\ UNCHANGED <<pidFile, seenPid, met>>

StartNext == \E p \in Runs : \/ ReadPid(p) \/ Judge(p) \/ Truncate(p) \/ FillIn(p) \/ Registers(p)
                             \/ Signalled(p) \/ AtExit(p) \/ RestoreEnds(p) \/ Killed(p)

StartSpec == StartInit /\ [][StartNext]_startVars

-----------------------------------------------------------------------------
\* _acquire_mcp_lock, "Refuse to start a second MCP server process against the same DB", and
\* "--restore: The server must not be running": one server at a time, and none when a restore
\* begins, through kills at any step and files left behind, unless two processes were between
\* two steps on the file at the same time.  (A server may start while a restore runs.)
ServesAlone ==
    [][~met' => /\ \A p, q \in Starts : IsServing(p)' /\ IsServing(q)' => p = q
                /\ \A r \in Restores : ~Restoring(r) /\ Restoring(r)' => \A p \in Starts : ~IsServing(p)
      ]_startVars
=============================================================================
