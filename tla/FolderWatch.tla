----------------------------- MODULE FolderWatch -----------------------------
(***************************************************************************)
(* The folder watcher (remind_me_mcp/watcher.py).  One thread polls the    *)
(* watched files, imports what is new or has changed, and marks the        *)
(* memories of the version before as superseded.                           *)
(*                                                                         *)
(* Content is imported once only (ContentImport), so an import is known by *)
(* its content.  Files are written and removed at any moment, also between *)
(* the stat of a file and its import, and may have any content again, or   *)
(* that of another file.                                                   *)
(*                                                                         *)
(* An import that raises rolls nothing back: the memories it has inserted  *)
(* stay in the transaction of the thread's connection, and the thread's    *)
(* next commit makes them permanent.                                       *)
(***************************************************************************)
EXTENDS Naturals, FiniteSets

CONSTANTS Files,             \* watched paths
          Texts,             \* contents of files that are complete
          Drafts,            \* contents of files in the middle of a write
          Absent,            \* there is no such file
          NoImport,          \* the watcher knows no import of a path
          MaxWrites,         \* bound: writes and removals
          MaxWatchFaults     \* bound: restarts of the server, and exceptions

FileContents == Texts \cup Drafts

ASSUME ContentAssumption == Texts \cap Drafts = {} /\ {Absent, NoImport} \cap FileContents = {}
ASSUME WatchBounds == MaxWrites \in Nat /\ MaxWatchFaults \in Nat

VARIABLES
    disk,      \* disk[f]: content of the file
    sig,       \* sig[f]: what stat says of it (mtime, size)
    age,       \* age[f]: "old", within the grace period, or after `now'
    writes,    \* changes of files so far
    used,      \* contents that files have had
    imports,   \* imported contents and the paths they came from
    hidden,    \* imports whose memories are superseded
    strays,    \* memories of imports that raised and are not recorded
    leftover,  \* the same, in the open transaction of the watcher's connection
    scanAt,    \* the watcher rests, scans, imports or supersedes
    toScan,    \* files this scan has still to look at
    scanned,   \* files this scan has found
    path,      \* the file that is being ingested
    found,     \* its signature, and the content imported from it
    pending,   \* _pending: signatures too fresh to ingest
    ingested,  \* _ingested: signatures of the last import attempts
    current,   \* _import_ids: the current import of each path
    watchFaults,
    forgotten,  \* history: imports dropped from _import_ids, not superseded
    abandoned,  \* history: signatures whose import raised
    shared      \* history: contents that came a second time, or to a second file

files == <<disk, sig, age, writes, used>>
database == <<imports, hidden, strays, leftover>>
scan == <<scanAt, toScan, scanned, path, found>>
memory == <<pending, ingested, current>>
watchHistory == <<forgotten, abandoned, shared>>
watchVars == <<files, database, scan, memory, watchFaults, watchHistory>>

Signatures == 0..MaxWrites  \* 0: none

Imported == {i.content : i \in imports}

WatchTypeOK ==
    /\ disk \in [Files -> FileContents \cup {Absent}]
    /\ sig \in [Files -> Signatures]
    /\ age \in [Files -> {"old", "fresh", "ahead"}]
    /\ writes \in Signatures
    /\ used \subseteq FileContents
    /\ imports \subseteq [content : FileContents, path : Files]
    /\ hidden \subseteq Imported
    /\ scanAt \in {"rest", "scan", "import", "supersede"}
    /\ toScan \subseteq Files /\ scanned \subseteq Files /\ path \in Files
    /\ found \in [sig : Signatures, content : FileContents \cup {Absent}]
    /\ pending \in [Files -> Signatures] /\ ingested \in [Files -> Signatures]
    /\ current \in [Files -> Imported \cup {NoImport}]
    /\ watchFaults \in 0..MaxWatchFaults
    /\ forgotten \subseteq Imported /\ abandoned \subseteq Signatures /\ shared \subseteq used
    /\ strays \cup leftover \subseteq [content : FileContents, path : Files]

ForgetAll ==
    /\ pending' = [f \in Files |-> 0]
    /\ ingested' = [f \in Files |-> 0]
    /\ current' = [f \in Files |-> NoImport]

WatchInit ==
    /\ disk = [f \in Files |-> Absent]
    /\ sig = [f \in Files |-> 0]
    /\ age = [f \in Files |-> "old"]
    /\ writes = 0
    /\ used = {}
    /\ imports = {} /\ hidden = {} /\ strays = {} /\ leftover = {}
    /\ scanAt = "rest" /\ toScan = {} /\ scanned = {} /\ path \in Files
    /\ found = [sig |-> 0, content |-> Absent]
    /\ pending = [f \in Files |-> 0]
    /\ ingested = [f \in Files |-> 0]
    /\ current = [f \in Files |-> NoImport]
    /\ watchFaults = 0
    /\ forgotten = {} /\ abandoned = {} /\ shared = {}

-----------------------------------------------------------------------------
(* The files.                                                              *)

IsThere(f) == disk[f] # Absent

BeingWritten == {f \in Files : disk[f] \in Drafts}

\* A file gets a new content, and with it a new signature.  While a scan
\* runs, its time lies after the `now' of the scan.  (The bound leaves room
\* to complete what is being written.)
Write(f, c) ==
    /\ LET Unfinished == IF c \in Drafts THEN BeingWritten \cup {f} ELSE BeingWritten \ {f}
       IN writes + Cardinality(Unfinished) < MaxWrites
    /\ c # disk[f]
    /\ writes' = writes + 1
    /\ disk' = [disk EXCEPT ![f] = c]
    /\ sig' = [sig EXCEPT ![f] = writes + 1]
    /\ age' = [age EXCEPT ![f] = IF scanAt = "rest" THEN "fresh" ELSE "ahead"]
    /\ used' = used \cup {c}
    /\ shared' = shared \cup (used \cap {c})
    /\ UNCHANGED <<database, scan, memory, watchFaults, forgotten, abandoned>>

Remove(f) ==
    /\ IsThere(f)
    /\ disk[f] \in Texts
    /\ writes + Cardinality(BeingWritten) < MaxWrites
    /\ writes' = writes + 1
    /\ disk' = [disk EXCEPT ![f] = Absent]
    /\ UNCHANGED <<sig, age, used, database, scan, memory, watchFaults, watchHistory>>

\* The grace period of a file passes between two scans.  Whoever writes the
\* file is quicker than that.
GracePasses(f) ==
    /\ scanAt = "rest"
    /\ age[f] # "old"
    /\ f \notin BeingWritten
    /\ age' = [age EXCEPT ![f] = "old"]
    /\ UNCHANGED <<disk, sig, writes, used, database, scan, memory, watchFaults, watchHistory>>

-----------------------------------------------------------------------------
(* A scan.                                                                 *)

\* scan_once: take the time and list the files.  The interval between scans
\* is longer than any write: no draft is met by a second scan.
StartScan ==
    /\ scanAt = "rest"
    /\ \A f \in BeingWritten : pending[f] # sig[f]
    /\ scanAt' = "scan"
    /\ toScan' = {f \in Files : IsThere(f)}
    /\ scanned' = {}
    /\ age' = [f \in Files |-> IF age[f] = "ahead" THEN "fresh" ELSE age[f]]
    /\ UNCHANGED <<disk, sig, writes, used, database, path, found, memory, watchFaults, watchHistory>>

\* Go over to file f of the scan.
TakeFile(f) ==
    /\ scanAt = "scan"
    /\ f \in toScan
    /\ toScan' = toScan \ {f}

Unchanged(f) == ingested[f] = sig[f]

\* The file was written within the grace period, and with other data than a
\* scan before has seen.  A time in the future does not count as fresh.
TooFresh(f) == age[f] = "fresh" /\ pending[f] # sig[f]

\* The file is gone by now.
Vanished(f) ==
    /\ TakeFile(f)
    /\ ~IsThere(f)
    /\ UNCHANGED <<files, database, scanAt, scanned, path, found, memory, watchFaults, watchHistory>>

\* Mutant of PassOver: the modification time is not looked at.
PassOverKnown(f) ==
    /\ TakeFile(f)
    /\ IsThere(f) /\ ingested[f] # 0
    /\ scanned' = scanned \cup {f}
    /\ UNCHANGED <<files, database, scanAt, path, found, memory, watchFaults, watchHistory>>

\* stat: nothing new since the last import attempt.
PassOver(f) ==
    /\ TakeFile(f)
    /\ IsThere(f) /\ Unchanged(f)
    /\ scanned' = scanned \cup {f}
    /\ UNCHANGED <<files, database, scanAt, path, found, memory, watchFaults, watchHistory>>

\* stat: wait until a later scan sees the same signature.
Debounce(f) ==
    /\ TakeFile(f)
    /\ IsThere(f) /\ ~Unchanged(f) /\ TooFresh(f)
    /\ scanned' = scanned \cup {f}
    /\ pending' = [pending EXCEPT ![f] = sig[f]]
    /\ UNCHANGED <<files, database, scanAt, path, found, ingested, current, watchFaults, watchHistory>>

\* stat: new and stable, as far as one can tell.
Choose(f) ==
    /\ TakeFile(f)
    /\ IsThere(f) /\ ~Unchanged(f) /\ ~TooFresh(f)
    /\ scanned' = scanned \cup {f}
    /\ scanAt' = "import"
    /\ path' = f
    /\ found' = [sig |-> sig[f], content |-> Absent]
    /\ UNCHANGED <<files, database, memory, watchFaults, watchHistory>>

\* _ingest is done with the file; a pending signature is dropped.
Ingested ==
    /\ scanAt' = "scan"
    /\ pending' = [pending EXCEPT ![path] = 0]

\* import_chat_file reads the file as it is now; its content is new.  The
\* memories are stored and committed, and with them what is left over.
ImportNew ==
    /\ scanAt = "import"
    /\ IsThere(path) /\ disk[path] \notin Imported
    /\ imports' = imports \cup {[content |-> disk[path], path |-> path]}
    /\ found' = [found EXCEPT !.content = disk[path]]
    /\ ingested' = [ingested EXCEPT ![path] = found.sig]
    /\ strays' = strays \cup leftover
    /\ leftover' = {}
    /\ scanAt' = "supersede"
    /\ UNCHANGED <<files, hidden, toScan, scanned, path, pending, current, watchFaults, watchHistory>>

\* The import that the path has had so far.
Old(f) == {current[f]} \ {NoImport}

\* import_chat_file skips content it has imported before: that import counts
\* as the current one of the path.  The one before is not superseded.
ImportKnown ==
    /\ scanAt = "import"
    /\ IsThere(path) /\ disk[path] \in Imported
    /\ ingested' = [ingested EXCEPT ![path] = found.sig]
    /\ current' = [current EXCEPT ![path] = disk[path]]
    /\ forgotten' = forgotten \cup (Old(path) \ {disk[path]})
    /\ Ingested
    /\ UNCHANGED <<files, database, toScan, scanned, path, found, watchFaults, abandoned, shared>>

\* import_chat_file does not find the file.
ImportGone ==
    /\ scanAt = "import"
    /\ ~IsThere(path)
    /\ ingested' = [ingested EXCEPT ![path] = found.sig]
    /\ Ingested
    /\ UNCHANGED <<files, database, toScan, scanned, path, found, current, watchFaults, watchHistory>>

WatchFault == watchFaults < MaxWatchFaults /\ watchFaults' = watchFaults + 1

\* import_chat_file raises before its commit, and may have inserted memories.
ImportFails ==
    /\ scanAt = "import"
    /\ IsThere(path)
    /\ WatchFault
    /\ leftover' \in {leftover} \cup
            {leftover \cup {[content |-> c, path |-> path]} : c \in {disk[path]} \ Imported}
    /\ abandoned' = abandoned \cup {found.sig}
    /\ ingested' = [ingested EXCEPT ![path] = found.sig]
    /\ Ingested
    /\ UNCHANGED <<files, imports, hidden, strays, toScan, scanned, path, found, current, forgotten,
                   shared>>

\* Neither the new import nor the one before is replaced by a later version.
ForgetBoth == forgotten' = forgotten \cup {found.content} \cup Old(path)

\* import_chat_file raises after its commit, while it embeds: the import is
\* there, but the watcher takes it for failed.
EmbedFails ==
    /\ scanAt = "supersede"
    /\ WatchFault
    /\ ForgetBoth
    /\ Ingested
    /\ UNCHANGED <<files, database, toScan, scanned, path, found, ingested, current, abandoned,
                   shared>>

\* _supersede_import for the import before, and remember the new one.
Supersede ==
    /\ scanAt = "supersede"
    /\ hidden' = hidden \cup Old(path)
    /\ current' = [current EXCEPT ![path] = found.content]
    /\ Ingested
    /\ UNCHANGED <<files, imports, strays, leftover, toScan, scanned, path, found, ingested,
                   watchFaults, watchHistory>>

\* The UPDATE raises.  Nobody catches that before the loop of the thread, so
\* the scan is over.
SupersedeFails ==
    /\ scanAt = "supersede"
    /\ Old(path) # {}
    /\ WatchFault
    /\ ForgetBoth
    /\ scanAt' = "rest"
    /\ UNCHANGED <<files, database, toScan, scanned, path, found, memory, abandoned, shared>>

\* Mutant of EndScan: the import of a file that has vanished is forgotten.
EndScanForgets ==
    /\ scanAt = "scan" /\ toScan = {}
    /\ pending' = [f \in Files |-> IF f \in scanned THEN pending[f] ELSE 0]
    /\ ingested' = [f \in Files |-> IF f \in scanned THEN ingested[f] ELSE 0]
    /\ current' = [f \in Files |-> IF f \in scanned THEN current[f] ELSE NoImport]
    /\ scanAt' = "rest"
    /\ UNCHANGED <<files, database, toScan, scanned, path, found, watchFaults, watchHistory>>

\* All files are done: forget the signatures of those that have vanished.
EndScan ==
    /\ scanAt = "scan" /\ toScan = {}
    /\ pending' = [f \in Files |-> IF f \in scanned THEN pending[f] ELSE 0]
    /\ ingested' = [f \in Files |-> IF f \in scanned THEN ingested[f] ELSE 0]
    /\ scanAt' = "rest"
    /\ UNCHANGED <<files, database, toScan, scanned, path, found, current, watchFaults, watchHistory>>

\* The server dies at any moment and is started again.  What is not committed
\* is lost.
RestartWatcher ==
    /\ WatchFault
    /\ scanAt' = "rest"
    /\ ForgetAll
    /\ forgotten' = forgotten \cup Imported
    /\ leftover' = {}
    /\ UNCHANGED <<files, imports, hidden, strays, toScan, scanned, path, found, abandoned,
                   shared>>

-----------------------------------------------------------------------------
FileStep(f) == Vanished(f) \/ PassOver(f) \/ Debounce(f) \/ Choose(f)

ScanStep ==
    \/ StartScan \/ EndScan
    \/ \E f \in Files : FileStep(f)
    \/ ImportNew \/ ImportKnown \/ ImportGone \/ ImportFails
    \/ EmbedFails \/ Supersede \/ SupersedeFails

WatchNext ==
    \/ \E f \in Files : \/ \E c \in FileContents : Write(f, c)
                        \/ Remove(f) \/ GracePasses(f)
    \/ ScanStep
    \/ RestartWatcher

WatchSpec == WatchInit /\ [][WatchNext]_watchVars

\* The thread scans again and again.  Time passes, and a write that has begun
\* is completed.
WatchFairSpec ==
    /\ WatchSpec
    /\ WF_watchVars(ScanStep)
    /\ \A f \in Files : /\ SF_watchVars(GracePasses(f))
                        /\ WF_watchVars(f \in BeingWritten /\ \E c \in Texts : Write(f, c))

-----------------------------------------------------------------------------
(* What must hold.                                                         *)

Visible == {i \in imports : i.content \notin hidden}

\* Outside of _ingest, of all imports from a path only its current one is
\* found by a search: "stale chunks from the old version of a changed file
\* drop out of search results" (watcher.py, module comment).  Excepted are the
\* imports that _import_ids no longer has and nothing superseded: a restart, an
\* exception after the commit, or a file that went back to a known content.
StaleHidden ==
    scanAt \in {"rest", "scan"} =>
        \A i \in Visible : current[i.path] = i.content \/ i.content \in forgotten

\* The watcher takes the file for unchanged since an import that did not raise.
TakenIn(f) == IsThere(f) /\ Unchanged(f) /\ sig[f] \notin abandoned

IsFound(c) == \E i \in Visible : i.content = c

\* What a file says is found by a search as soon as the watcher has taken it
\* in, if no other file says or said the same, nor this one before.
CurrentVisible == \A f \in Files : TakenIn(f) /\ disk[f] \notin shared => IsFound(disk[f])

\* The same of every file.  It does not hold: files with the same content share
\* one import.
TwinsVisible == \A f \in Files : TakenIn(f) => IsFound(disk[f])

\* A version drops out of the search results only for a later version of the
\* same file, whatever fails: no path loses all that was imported from it,
\* unless it shared an import.
HiddenIsReplaced ==
    \A i \in imports : \/ \E v \in Visible : v.path = i.path
                       \/ \E j \in imports : j.path = i.path /\ j.content \in shared

\* What the files say is what a search finds of them.
FoundAsTheyAre == StaleHidden /\ CurrentVisible /\ HiddenIsReplaced

\* When the files come to rest, then sooner or later a search finds of every
\* file exactly what it says, but for the exceptions above and for the strays
\* that imports left which raised.
Settles ==
    <>[](\A f \in Files : IsThere(f) /\ sig[f] \notin abandoned =>
            LET Shown == {i.content : i \in {j \in Visible \cup strays : j.path = f}}
            IN  /\ disk[f] \in Shown \cup shared
                /\ Shown \subseteq {disk[f]} \cup forgotten \cup {i.content : i \in strays})
=============================================================================
