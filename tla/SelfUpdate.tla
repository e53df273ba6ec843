------------------------------ MODULE SelfUpdate ------------------------------
(***************************************************************************)
(* Self-update (updater.py perform_update): several server processes share *)
(* one git checkout and one virtual environment.  An update notes the      *)
(* current commit, takes the lock of the checkout, pulls, reinstalls, and  *)
(* resets the checkout to the commit it noted when the reinstall fails.    *)
(* Each of these runs a git or an installer as a child process, which goes *)
(* on when the server is killed, without the lock.                         *)
(*                                                                         *)
(* Commits are numbered along origin/main.  The package is the commit that *)
(* the environment's metadata and dependencies were installed from.        *)
(***************************************************************************)
EXTENDS Naturals, FiniteSets

CONSTANTS Updates,              \* the updates that may be run
          Nobody,
          MaxCommit, MaxUpdateFaults   \* bounds

ASSUME NobodyAssumption == Nobody \notin Updates

VARIABLES
    origin,     \* the latest commit of origin/main
    tree,       \* the commit that is checked out
    package,    \* the commit that is installed, or Broken
    edited,     \* there are uncommitted changes
    repoLock,   \* the update that holds remind_me_update.lock, or Nobody
    update,     \* [Updates -> [at, forced, previous, found, late, alone]]: where it is, the
                \* commit it noted (or Unknown), the commit it found with the lock held, edits
                \* made since, no orphan at work then
    orphans,    \* child processes at work whose update is over: <<update, step>>
    updateFaults,
    divergent,  \* history: since the last clean reinstall, an update ended in a way that may
                \* leave checkout and package apart: killed, pull timed out, an install that
                \* failed in the middle or could not be run, rollback failed, or rolled back to
                \* another commit than it found
    destroyed   \* history: the updates that discarded changes which were there before they began

updateVars == <<origin, tree, package, edited, repoLock, update, orphans, updateFaults, divergent, destroyed>>

Broken  == 0     \* as a package: parts of several commits
Unknown == 0     \* as a noted commit: it could not be read

Children == {"pull", "install", "rollback"}     \* the steps that run a child that writes
Began == Children \cup {"check", "report"}

UpdateInit ==
    /\ origin = 1 /\ tree = 1 /\ package = 1 /\ edited = FALSE /\ repoLock = Nobody
    /\ update = [u \in Updates |-> [at |-> "new", forced |-> FALSE, previous |-> 1, found |-> 1, late |-> FALSE,
                                 alone |-> TRUE]]
    /\ orphans = {} /\ updateFaults = 0 /\ divergent = FALSE /\ destroyed = {}

UnchangedRepo == UNCHANGED <<origin, tree, package, edited>>
UnchangedUpdateHistory == UNCHANGED <<orphans, updateFaults, divergent, destroyed>>
Goes(u, to) == update' = [update EXCEPT ![u].at = to]
Faulty == updateFaults < MaxUpdateFaults /\ updateFaults' = updateFaults + 1

-----------------------------------------------------------------------------
(* Around the updates: somebody pushes to origin, somebody edits the       *)
(* checkout or puts it in order.                                           *)
Pushed_upstream ==
    /\ origin < MaxCommit /\ origin' = origin + 1
    /\ UNCHANGED <<tree, package, edited, repoLock, update>> /\ UnchangedUpdateHistory

EditTree ==
    /\ edited' = ~edited
    /\ update' = [u \in Updates |-> [update[u] EXCEPT !.late = @ \/ update[u].at \notin {"new", "lock"}]]
    /\ UNCHANGED <<origin, tree, package, repoLock>> /\ UnchangedUpdateHistory

-----------------------------------------------------------------------------
(* perform_update.                                                         *)
\* The commit a failure goes back to is read first; the call refuses another origin before.
NotePrevious(u, forced) ==
    /\ update[u].at = "new"
    /\ \E previous \in {tree, Unknown} :
          /\ update' = [update EXCEPT ![u] = [at |-> "lock", forced |-> forced, previous |-> previous,
                                              found |-> tree, late |-> FALSE, alone |-> TRUE]]
          /\ updateFaults' = updateFaults + (IF previous = Unknown THEN 1 ELSE 0)
          /\ updateFaults' <= MaxUpdateFaults
    /\ UnchangedRepo /\ UNCHANGED <<repoLock, orphans, divergent, destroyed>>

\* No lock (no fcntl, or the lock file cannot be opened).
Unlocked(u) == TRUE
\* _update_lock: taken at once or refused.
Locked(u) == repoLock = Nobody
LockRepo(u) ==
    /\ update[u].at = "lock"
    /\ IF Locked(u) THEN /\ repoLock' = u
                         /\ update' = [update EXCEPT ![u].at = "check", ![u].found = tree,
                                                  ![u].alone = orphans = {}]
       ELSE Goes(u, "refused") /\ UNCHANGED repoLock
    /\ UnchangedRepo /\ UnchangedUpdateHistory

Leave(u, outcome) == Goes(u, outcome) /\ repoLock' = IF repoLock = u THEN Nobody ELSE repoLock

AcceptsTree(u) == update[u].forced \/ ~edited
CheckTree(u) ==
    /\ update[u].at = "check"
    /\ \/ AcceptsTree(u) /\ Goes(u, "pull") /\ UNCHANGED repoLock
       \/ ~update[u].forced /\ Leave(u, "refused")    \* changes, or no status
    /\ UnchangedRepo /\ UnchangedUpdateHistory

\* `git pull --ff-only`: refused by git (offline, changes in the way), or done.
PullTree(u) ==
    /\ update[u].at = "pull"
    /\ \/ tree' = origin /\ Goes(u, "install") /\ UNCHANGED repoLock
       \/ UNCHANGED tree /\ Leave(u, "failed")
    /\ UNCHANGED <<origin, package, edited>> /\ UnchangedUpdateHistory

\* It is killed after 60 s, but not the merge it may have started; nothing is rolled back.
PullTimesOut(u) ==
    /\ update[u].at = "pull" /\ Faulty
    /\ orphans' = orphans \cup {<<u, "pull">>}
    /\ divergent' = TRUE
    /\ Leave(u, "failed")
    /\ UnchangedRepo /\ UNCHANGED destroyed

\* It installs what is checked out.  An install that fails, or is killed after 120 s, may have
\* changed the package before; one that cannot be run at all is not rolled back.
Reinstall(u) ==
    /\ update[u].at = "install"
    /\ \/ /\ package' = tree /\ Goes(u, "report")
          /\ divergent' = (divergent /\ ~update[u].alone)
          /\ UNCHANGED <<repoLock, updateFaults>>
       \/ /\ Faulty /\ Goes(u, "rollback") /\ UNCHANGED repoLock
          /\ package' \in {package, tree, Broken}
          /\ divergent' = (divergent \/ package' # package)
       \/ Faulty /\ Leave(u, "failed") /\ divergent' = TRUE /\ UNCHANGED package
    /\ UNCHANGED <<origin, tree, edited, orphans, destroyed>>

\* `git reset --hard previous_commit`.
Reset(u) ==
    /\ update[u].previous # Unknown
    /\ tree' = update[u].previous /\ edited' = FALSE
    /\ destroyed' = IF edited /\ ~update[u].late THEN destroyed \cup {u} ELSE destroyed

Rollback(u) ==
    /\ update[u].at = "rollback"
    /\ Reset(u)
    /\ divergent' = (divergent \/ update[u].previous # update[u].found)
    /\ Leave(u, "rolled back")
    /\ UNCHANGED <<origin, package, orphans, updateFaults>>

\* The reset fails too: the caller is told that the checkout is ahead of the package.
RollbackFails(u) ==
    /\ update[u].at = "rollback"
    /\ \/ update[u].previous = Unknown /\ UNCHANGED updateFaults
       \/ Faulty
    /\ divergent' = TRUE /\ Leave(u, "ahead")
    /\ UnchangedRepo /\ UNCHANGED <<orphans, destroyed>>

\* Success: the commit that is reported is the one checked out.
Report(u) ==
    /\ update[u].at = "report"
    /\ Leave(u, "updated")
    /\ UnchangedRepo /\ UnchangedUpdateHistory

\* The process is killed; the operating system releases the lock.  The child runs on.
UpdateKilled(u) ==
    /\ update[u].at \in Began /\ Faulty
    /\ Leave(u, "failed")
    /\ IF update[u].at \in Children THEN orphans' = orphans \cup {<<u, update[u].at>>} /\ divergent' = TRUE
       ELSE UNCHANGED <<orphans, divergent>>
    /\ UnchangedRepo /\ UNCHANGED destroyed

\* A child without a parent ends: done, failed, or stopped in the middle.
OrphanEnds(o) ==
    /\ orphans' = orphans \ {o}
    /\ \/ UNCHANGED <<tree, package, edited, destroyed>>
       \/ o[2] = "pull" /\ tree' \in tree..origin /\ UNCHANGED <<package, edited, destroyed>>
       \/ o[2] = "install" /\ package' \in {tree, Broken} /\ UNCHANGED <<tree, edited, destroyed>>
       \/ o[2] = "rollback" /\ Reset(o[1]) /\ UNCHANGED package
    /\ UNCHANGED <<origin, repoLock, update, updateFaults, divergent>>

UpdateNext ==
    \/ Pushed_upstream \/ EditTree \/ \E o \in orphans : OrphanEnds(o)
    \/ \E u \in Updates : \/ LockRepo(u) \/ CheckTree(u) \/ PullTree(u) \/ PullTimesOut(u) \/ Reinstall(u) \/ Rollback(u)
                          \/ RollbackFails(u) \/ Report(u) \/ UpdateKilled(u)
                          \/ \E forced \in BOOLEAN : NotePrevious(u, forced)

UpdateSpec == UpdateInit /\ [][UpdateNext]_updateVars

-----------------------------------------------------------------------------
\* _update_lock, "leaving the venv's installed metadata out of sync with what either call
\* reported": when no update is under way, and when one is about to report success, the package
\* is the one of the checkout, whatever failed, unless an update ended in a divergence that no
\* reinstall has mended since, with no child of another one at work.
InStep ==
    (repoLock = Nobody \/ update[repoLock].at = "report") /\ ~divergent => package = tree

\* "Since the dirty-tree check above already guarantees nothing uncommitted exists to lose": an
\* update that is not forced never discards changes made before it began.
EditsSafe == \A u \in destroyed : update[u].forced

\* An update, however it ends, leaves a checkout that is installed and edits that are not lost.
UpdatesSafe == InStep /\ EditsSafe
=============================================================================
