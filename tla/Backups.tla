------------------------------- MODULE Backups -------------------------------
(***************************************************************************)
(* Backups of the database and the restore of one (backup.py): the online  *)
(* backup of a running server, the pruning of old backups, and `--restore`,*)
(* which works on the files of a stopped server, may be killed between any *)
(* two of its steps and holds nothing that keeps a server from starting.   *)
(*                                                                         *)
(* The database is its main file and the write-ahead log next to it.  A    *)
(* content is the number of the last commit it has; a log holds a later    *)
(* content of the main file it was written for, and gives garbage on top   *)
(* of any other.  A server keeps the files it has opened, whatever happens *)
(* to their names.  The clock orders modification times.                   *)
(***************************************************************************)
EXTENDS Naturals, FiniteSets

CONSTANTS Garbage, NoLog,  \* no content; no write-ahead log
          Unopened,         \* no server
          Retention,       \* BACKUP_RETENTION_COUNT
          MaxCommits, MaxBackupClock   \* bounds

ASSUME RetentionCount == Retention \in Nat \ {0}
ASSUME NoContent == Garbage \notin Nat /\ NoLog \notin [of : Nat, content : Nat \cup {Garbage}]
ASSUME NotOpen == Unopened \notin [file : Nat, content : Nat \cup {Garbage}, linked : BOOLEAN]

VARIABLES
    main,      \* the main file: [id, content, mtime]
    wal,       \* NoLog or [of, content]
    handle,    \* Unopened, or what the server has open: [file, content, linked],
               \* linked if its log still has its name
    files,     \* *.db in BACKUP_DIR: [id, label, content, whole, mtime]
    restoring, \* the restore process: [at, from, had, bare, snapshot],
               \* bare if it found no log
    commits, clock,
    replaced,  \* history: what a restore since the last backup has replaced, if its
               \* snapshot could hold it
    halfway    \* history: between the replacement and the removal of the log a restore was
               \* killed or the database opened

backupVars == <<main, wal, handle, files, restoring, commits, clock, replaced, halfway>>

NotRestoring == [at |-> "no"]
Content == IF wal = NoLog THEN main.content ELSE IF wal.of = main.id THEN wal.content ELSE Garbage
Stamp == clock < MaxBackupClock /\ clock' = clock + 1

BackupInit ==
    /\ main = [id |-> 0, content |-> 0, mtime |-> 0] /\ wal = NoLog
    /\ handle = [file |-> 0, content |-> 0, linked |-> TRUE] /\ files = {} /\ restoring = NotRestoring
    /\ commits = 0 /\ clock = 0 /\ replaced = {} /\ halfway = FALSE

-----------------------------------------------------------------------------
(* The server.                                                             *)
OpenDatabase ==
    /\ handle = Unopened
    /\ handle' = [file |-> main.id, content |-> Content, linked |-> TRUE]
    /\ halfway' = (halfway \/ restoring.at = "log")
    /\ UNCHANGED <<main, wal, files, restoring, commits, clock, replaced>>

CommitToLog ==
    /\ handle # Unopened /\ handle.content # Garbage /\ commits < MaxCommits
    /\ commits' = commits + 1
    /\ handle' = [handle EXCEPT !.content = commits + 1]
    /\ wal' = IF handle.linked THEN [of |-> handle.file, content |-> commits + 1] ELSE wal
    /\ UNCHANGED <<main, files, restoring, clock, replaced, halfway>>

\* Into the file the server has open, which may have lost its name.
Flushed ==
    IF handle.file = main.id /\ handle.content # main.content
    THEN Stamp /\ main' = [main EXCEPT !.content = handle.content, !.mtime = clock + 1]
    ELSE UNCHANGED <<main, clock>>
Checkpoint ==
    /\ handle # Unopened /\ Flushed
    /\ wal' = IF handle.linked THEN NoLog ELSE wal
    /\ UNCHANGED <<handle, files, restoring, commits, replaced, halfway>>

\* The last connection checkpoints as it closes, and removes the log by its name.
CloseDatabase ==
    /\ handle # Unopened /\ Flushed
    /\ handle' = Unopened /\ wal' = NoLog
    /\ UNCHANGED <<files, restoring, commits, replaced, halfway>>
ServerDies ==
    /\ handle # Unopened /\ handle' = Unopened
    /\ UNCHANGED <<main, wal, files, restoring, commits, clock, replaced, halfway>>

-----------------------------------------------------------------------------
(* create_backup: Connection.backup() into a .tmp file, os.replace, prune. *)
\* list_backups, newest first.
NewerThan(f, all) == {g \in all : g.mtime > f.mtime \/ (g.mtime = f.mtime /\ g.id > f.id)}
\* _prune_old_backups
PrunedFiles(all) == {f \in all : Cardinality(NewerThan(f, all)) < Retention}

Backup ==
    /\ handle # Unopened /\ Stamp
    /\ \E all \in {files \cup {[id |-> clock + 1, label |-> "manual", content |-> handle.content,
                               whole |-> TRUE, mtime |-> clock + 1]}} :
          \/ files' = PrunedFiles(all) /\ UNCHANGED handle
          \/ files' = all /\ handle' = Unopened       \* killed before the pruning
    /\ replaced' = {}
    /\ UNCHANGED <<main, wal, restoring, commits, halfway>>

-----------------------------------------------------------------------------
(* restore_backup, after the check of the pid file.                        *)
TakeSnapshot == [id |-> clock + 1, label |-> "pre-restore", content |-> main.content, whole |-> FALSE,
             mtime |-> clock + 1]

\* _validate_backup_file, and the first bytes of the snapshot.
BeginRestore(f) ==
    /\ handle = Unopened /\ restoring = NotRestoring /\ Stamp
    /\ f.whole /\ f.content # Garbage
    /\ files' = files \cup {TakeSnapshot}
    /\ restoring' = [at |-> "snapshot", from |-> f, had |-> Content, bare |-> wal = NoLog,
                     snapshot |-> clock + 1]
    /\ UNCHANGED <<main, wal, handle, commits, replaced, halfway>>

\* shutil.copy2: the snapshot gets the modification time of the database, whose pages a
\* server may be writing as they are read.
SnapshotDone ==
    /\ restoring.at = "snapshot"
    /\ \E f \in files : \E c \in {f.content, main.content, Garbage} :
          /\ f.id = restoring.snapshot
          /\ f.content = main.content => c = main.content
          /\ files' = (files \ {f}) \cup {[f EXCEPT !.whole = TRUE, !.content = c, !.mtime = main.mtime]}
    /\ restoring' = [restoring EXCEPT !.at = "replace"]
    /\ UNCHANGED <<main, wal, handle, commits, clock, replaced, halfway>>

\* os.replace of a copy of the backup, which keeps its modification time too.
ReplaceLogFirst ==
    /\ restoring.at = "replace" /\ wal' = NoLog /\ wal # NoLog
    /\ UNCHANGED <<main, handle, files, restoring, commits, clock, replaced, halfway>>
Replace ==
    /\ restoring.at = "replace" /\ Stamp
    /\ main' = [id |-> clock + 1, content |-> restoring.from.content, mtime |-> restoring.from.mtime]
    /\ replaced' = IF restoring.bare /\ Content = restoring.had THEN {restoring.had} ELSE {}
    /\ restoring' = [restoring EXCEPT !.at = "log"]
    /\ UNCHANGED <<wal, handle, files, commits, halfway>>

\* os.replace fails, as the file is still open, or a copy does: a server's backup has
\* pruned the backup to be restored, or the snapshot as it was taken.
ReplaceFails ==
    /\ \/ restoring.at = "replace"
       \/ restoring.at = "snapshot" /\ \A f \in files : f.id # restoring.snapshot
    /\ restoring' = NotRestoring
    /\ UNCHANGED <<main, wal, handle, files, commits, clock, replaced, halfway>>

\* The -wal and -shm files belonged to the file that is gone; a server keeps what it has open.
RemoveLog ==
    /\ restoring.at = "log"
    /\ wal' = NoLog /\ restoring' = NotRestoring
    /\ handle' = IF handle = Unopened THEN handle ELSE [handle EXCEPT !.linked = FALSE]
    /\ UNCHANGED <<main, files, commits, clock, replaced, halfway>>

RestoreKilled ==
    /\ restoring # NotRestoring
    /\ halfway' = (halfway \/ restoring.at = "log")
    /\ restoring' = NotRestoring
    /\ UNCHANGED <<main, wal, handle, files, commits, clock, replaced>>

BackupNext ==
    \/ CommitToLog \/ Checkpoint \/ CloseDatabase \/ ServerDies \/ OpenDatabase \/ Backup
    \/ \E f \in files : BeginRestore(f)
    \/ SnapshotDone \/ Replace \/ ReplaceFails \/ RemoveLog \/ RestoreKilled

BackupSpec == BackupInit /\ [][BackupNext]_backupVars

-----------------------------------------------------------------------------
(* What a restore has replaced is in a whole backup, so that the restore   *)
(* can be undone.  Not so what a killed server had only in its log, what a *)
(* server has committed since the restore began, and not for long: the     *)
(* snapshot is as old as the file it was copied from, so the very next     *)
(* backup may push it out.                                                 *)
RestoreUndoable ==
    \A c \in replaced : c # Garbage => \E f \in files : f.whole /\ f.content = c

(* Until its replacement a restore, whether it goes on, fails or is killed *)
(* later, leaves the database with all that was committed, also with what  *)
(* was only in the log of a killed server and with what a server that has  *)
(* started since commits; then with the backup's content.  The database is *)
(* never in pieces but between the replacement and the removal of the log, *)
(* or once a restore was killed or the database opened right there.        *)
RestoreWhole ==
    /\ restoring.at \in {"snapshot", "replace"} => Content \in {restoring.had, commits}
    /\ Content = Garbage => halfway \/ restoring.at = "log"

(* A restore loses nothing it can be asked to keep: what it replaces can be *)
(* restored, and what it does not replace is whole, with the exceptions     *)
(* that the two parts name.                                                 *)
RestoreSafe == RestoreUndoable /\ RestoreWhole
=============================================================================
