------------------------------ MODULE WikiPages ------------------------------
(***************************************************************************)
(* The wiki (wiki.py, tools/wiki.py): pages are files that the program and *)
(* the owner's editor both write, and a table of the database caches them; *)
(* a row is renewed when the modification time of its file differs.  Calls *)
(* run in threads (and in other processes) and interleave between their    *)
(* accesses to the files and the table.  index.md and log.md are written   *)
(* and never read by the program: they are left out.                       *)
(*                                                                         *)
(* A thread keeps its connection, and a call that raises rolls nothing     *)
(* back: rows it has written stay, with the write lock, until the next     *)
(* commit on the thread; after a write refused because another has the     *)
(* lock, what the thread reads next is what it reads until then.           *)
(*                                                                         *)
(* A page is [text, mtime] or Gone, as a file and as a row.                *)
(***************************************************************************)
EXTENDS Naturals, FiniteSets

CONSTANTS Slugs, WikiCalls,   \* page names; threads that run a call
          Gone,
          MaxTexts, MaxWikiTime, MaxWikiEdits   \* bounds; the last one also on faults

ASSUME GoneIsNoPage == Gone \notin Nat /\ Gone \notin [text : Nat, mtime : Nat]

VARIABLES
    pageFile,  \* [Slugs -> [text, mtime] or Gone]
    pageRow,   \* [Slugs -> [text, mtime] or Gone], committed
    wikiTxn,   \* [WikiCalls -> [is, rows]: "none"; "begun" and nothing read; a "snapshot" of the
               \* rows; or a "write" transaction, the rows as it has changed them]
    wikiCall,  \* [WikiCalls -> the call under way]
    wikiTime, wikiEdits, texts,
    seenSince, \* history: [WikiCalls -> what the file of the page it reads has been, and what
               \* other calls have committed for it, since the call began]
    stamped,   \* history: [Slugs -> the times its files have had]
    blurred    \* history: pages whose file was written between two accesses of one indexing, or
               \* twice with the same time

wikiVars == <<pageFile, pageRow, wikiTxn, wikiCall, wikiTime, wikiEdits, texts, seenSince, stamped, blurred>>

Ready == [op |-> "none"]
NoPages == [s \in Slugs |-> Gone]
Closed == [is |-> "none", rows |-> NoPages]
TextOf(page) == IF page = Gone THEN Gone ELSE page.text
TimeOf(page) == IF page = Gone THEN Gone ELSE page.mtime
ReadsPage(c, s) == wikiCall[c].op = "read" /\ wikiCall[c].for = s

WikiInit ==
    /\ pageFile = NoPages /\ pageRow = NoPages
    /\ wikiTxn = [c \in WikiCalls |-> Closed] /\ wikiCall = [c \in WikiCalls |-> Ready]
    /\ wikiTime = 0 /\ wikiEdits = 0 /\ texts = 0
    /\ seenSince = [c \in WikiCalls |-> {}]
    /\ stamped = [s \in Slugs |-> {}] /\ blurred = {}

-----------------------------------------------------------------------------
(* The files.                                                              *)
\* c has read the text of s for the table and not yet its modification time.
Indexing(s) == \E c \in WikiCalls : wikiCall[c].op # "none" /\ wikiCall[c].at = "stat" /\ wikiCall[c].page = s

\* The file of s becomes `page`.
FileIs(s, page) ==
    /\ pageFile' = [pageFile EXCEPT ![s] = page]
    /\ seenSince' = [c \in WikiCalls |->
                        IF ReadsPage(c, s) THEN seenSince[c] \cup {TextOf(page)} ELSE seenSince[c]]
    /\ stamped' = IF page = Gone THEN stamped ELSE [stamped EXCEPT ![s] = @ \cup {page.mtime}]
    /\ blurred' = IF Indexing(s) \/ (page # Gone /\ page.mtime \in stamped[s])
                  THEN blurred \cup {s} ELSE blurred

NewText == texts < MaxTexts /\ texts' = texts + 1
WikiFault == wikiEdits < MaxWikiEdits /\ wikiEdits' = wikiEdits + 1

\* The owner writes a page, removes it, or puts back an old file with its old time.
Edited(s) ==
    /\ WikiFault
    /\ \/ NewText /\ FileIs(s, [text |-> texts + 1, mtime |-> wikiTime])
       \/ NewText /\ \E t \in 0..wikiTime : FileIs(s, [text |-> texts + 1, mtime |-> t])
       \/ UNCHANGED texts /\ FileIs(s, Gone)
    /\ UNCHANGED <<pageRow, wikiTxn, wikiCall, wikiTime>>

WikiClock == /\ wikiTime < MaxWikiTime /\ wikiTime' = wikiTime + 1
             /\ UNCHANGED <<pageFile, pageRow, wikiTxn, wikiCall, wikiEdits, texts, seenSince, stamped, blurred>>

-----------------------------------------------------------------------------
(* The table.                                                              *)
UnchangedPageFiles == UNCHANGED <<pageFile, wikiTime, texts, stamped, blurred>>
UnchangedWorld == UnchangedPageFiles /\ UNCHANGED <<wikiEdits, seenSince>>
To(c, changes) == wikiCall' = [wikiCall EXCEPT ![c] = changes]

\* The table as the thread c reads it.
PageRows(c) == IF wikiTxn[c].is \in {"snapshot", "write"} THEN wikiTxn[c].rows ELSE pageRow

\* The first read in a transaction that has only begun is what it goes on reading.
Selects(c) == wikiTxn' = IF wikiTxn[c].is = "begun" THEN [wikiTxn EXCEPT ![c] = [is |-> "snapshot", rows |-> pageRow]]
                         ELSE wikiTxn

\* A write is refused while another has the lock, and to a snapshot that is not the latest.
MayEdit(c) == /\ \A d \in WikiCalls \ {c} : wikiTxn[d].is # "write"
              /\ wikiTxn[c].is = "snapshot" => wikiTxn[c].rows = pageRow

\* db.commit() of the thread c: the table becomes `rows`.
CommitPages(c, rows) ==
    /\ pageRow' = rows
    /\ wikiTxn' = [wikiTxn EXCEPT ![c] = Closed]
    /\ seenSince' = [d \in WikiCalls |-> seenSince[d] \cup
                        {TextOf(rows[p]) : p \in {q \in Slugs : d # c /\ ReadsPage(d, q) /\ rows[q] # pageRow[q]}}]

\* The next commit or rollback on a thread that a call has left in a transaction.
TxnEnds(c) ==
    /\ wikiCall[c] = Ready /\ wikiTxn[c] # Closed
    /\ \/ wikiTxn[c].is = "write" /\ CommitPages(c, wikiTxn[c].rows)
       \/ wikiTxn' = [wikiTxn EXCEPT ![c] = Closed] /\ UNCHANGED <<pageRow, seenSince>>
    /\ UNCHANGED <<wikiCall, wikiEdits>> /\ UnchangedPageFiles

-----------------------------------------------------------------------------
(* Reading pages.                                                          *)
\* reconcile lists the files,
StartRead(c, s) ==
    /\ wikiCall[c] = Ready
    /\ To(c, [op |-> "read", page |-> s, for |-> s, at |-> "rows", text |-> Gone, indexed |-> FALSE, lost |-> {},
              cached |-> [p \in {q \in Slugs : pageFile[q] # Gone} |-> Gone]])
    /\ seenSince' = [seenSince EXCEPT ![c] = {TextOf(pageFile[s])}]
    /\ UNCHANGED <<pageRow, wikiTxn, wikiEdits>> /\ UnchangedPageFiles

\* and reads the cached times; a row without a file listed is of a page that is gone.
ReadCached(c) ==
    LET call == wikiCall[c] IN
    /\ call.op = "read" /\ call.at = "rows"
    /\ To(c, [call EXCEPT !.at = "check", !.cached = [p \in DOMAIN @ |-> TimeOf(PageRows(c)[p])],
                          !.lost = {p \in Slugs \ DOMAIN call.cached : PageRows(c)[p] # Gone}])
    /\ Selects(c)
    /\ UNCHANGED pageRow /\ UnchangedWorld

\* Only a file newer than its row is indexed.
PageOutOfDateIfNewer(time, file) == time = Gone \/ time < file.mtime

\* A file is indexed when it is not cached with its time.
PageOutOfDate(time, file) == time = Gone \/ time # file.mtime

\* The next file of the list: skipped when it is gone or cached, else its text is read.
CheckPage(c) ==
    LET call == wikiCall[c] IN
    /\ call.op = "read" /\ call.at = "check"
    /\ \E p \in DOMAIN call.cached :
         LET rest == [q \in DOMAIN call.cached \ {p} |-> call.cached[q]]
         IN To(c, IF pageFile[p] # Gone /\ PageOutOfDate(call.cached[p], pageFile[p])
                  THEN [call EXCEPT !.cached = rest, !.page = p, !.at = "stat", !.text = pageFile[p].text]
                  ELSE [call EXCEPT !.cached = rest])
    /\ UNCHANGED <<pageRow, wikiTxn>> /\ UnchangedWorld

\* The rest of _index_page: the time of the file, then the row, in the open transaction.  A
\* file that has gone in between raises, and the transaction stays.
Upsert(c, next) ==
    LET p == wikiCall[c].page IN
    \/ pageFile[p] = Gone /\ To(c, Ready) /\ UNCHANGED wikiTxn
    \/ /\ pageFile[p] # Gone /\ MayEdit(c)
       /\ wikiTxn' = [wikiTxn EXCEPT ![c] = [is |-> "write",
                          rows |-> [PageRows(c) EXCEPT ![p] = [text |-> wikiCall[c].text, mtime |-> pageFile[p].mtime]]]]
       /\ To(c, next)
StatPage(c) ==
    /\ wikiCall[c].op = "read" /\ wikiCall[c].at = "stat"
    /\ Upsert(c, [wikiCall[c] EXCEPT !.at = "check", !.indexed = TRUE, !.text = Gone, !.page = wikiCall[c].for])
    /\ UNCHANGED pageRow /\ UnchangedWorld

\* When no file is left: the rows of vanished files go, and what changed is committed.
CommitReconcile(c) ==
    LET call == wikiCall[c] IN
    /\ call.op = "read" /\ call.at = "check" /\ DOMAIN call.cached = {}
    /\ IF call.indexed \/ call.lost # {}
       THEN MayEdit(c) /\ CommitPages(c, [p \in Slugs |-> IF p \in call.lost THEN Gone ELSE PageRows(c)[p]])
       ELSE UNCHANGED <<pageRow, wikiTxn, seenSince>>
    /\ To(c, [call EXCEPT !.at = "select"])
    /\ UNCHANGED wikiEdits /\ UnchangedPageFiles

\* read_page, list_pages, search_pages and load_wiki select from the table afterwards.
SelectPage(c) ==
    LET call == wikiCall[c] IN
    /\ call.op = "read" /\ call.at = "select"
    /\ seenSince' = [seenSince EXCEPT ![c] = {}]
    /\ To(c, Ready)
    /\ UNCHANGED <<pageRow, wikiTxn, wikiEdits>> /\ UnchangedPageFiles

-----------------------------------------------------------------------------
(* Writing and deleting a page.                                            *)
write_page(c, s) ==
    /\ wikiCall[c] = Ready /\ NewText
    /\ FileIs(s, [text |-> texts + 1, mtime |-> wikiTime])
    /\ To(c, [op |-> "write", page |-> s, at |-> "text", text |-> Gone])
    /\ UNCHANGED <<pageRow, wikiTxn, wikiTime, wikiEdits>>

\* _index_page reads the file that was just written back.
ReadBack(c) ==
    LET call == wikiCall[c] IN
    /\ call.op = "write" /\ call.at = "text"
    /\ To(c, IF pageFile[call.page] = Gone THEN Ready
             ELSE [call EXCEPT !.at = "stat", !.text = pageFile[call.page].text])
    /\ UNCHANGED <<pageRow, wikiTxn>> /\ UnchangedWorld

StatWritten(c) ==
    /\ wikiCall[c].op = "write" /\ wikiCall[c].at = "stat"
    /\ Upsert(c, [wikiCall[c] EXCEPT !.at = "commit"])
    /\ UNCHANGED pageRow /\ UnchangedWorld

CommitWritten(c) ==
    /\ wikiCall[c].op = "write" /\ wikiCall[c].at = "commit"
    /\ CommitPages(c, PageRows(c))
    /\ To(c, Ready)
    /\ UNCHANGED wikiEdits /\ UnchangedPageFiles

\* The row is looked at; the file goes first, then the row.
delete_page(c, s) ==
    /\ wikiCall[c] = Ready /\ (pageFile[s] # Gone \/ PageRows(c)[s] # Gone)
    /\ Selects(c)
    /\ FileIs(s, Gone)
    /\ To(c, [op |-> "delete", page |-> s, at |-> "row"])
    /\ UNCHANGED <<pageRow, wikiTime, wikiEdits, texts>>
DeleteRow(c) ==
    /\ wikiCall[c].op = "delete" /\ MayEdit(c)
    /\ CommitPages(c, [PageRows(c) EXCEPT ![wikiCall[c].page] = Gone])
    /\ To(c, Ready)
    /\ UNCHANGED wikiEdits /\ UnchangedPageFiles

\* A write is refused after the busy time-out, at once to an old snapshot: the call raises, in
\* the transaction that was begun for it.
WritesPages(call) ==
    \/ call.op \in {"read", "write"} /\ call.at = "stat"
    \/ call.op = "read" /\ call.at = "check" /\ DOMAIN call.cached = {} /\ call.lost # {}
    \/ call.op = "delete"
WriteRefused(c) ==
    /\ WritesPages(wikiCall[c])
    /\ \/ ~MayEdit(c) /\ UNCHANGED wikiEdits
       \/ wikiTxn[c].is # "write" /\ WikiFault
    /\ To(c, Ready)
    /\ wikiTxn' = IF wikiTxn[c].is = "none" THEN [wikiTxn EXCEPT ![c].is = "begun"] ELSE wikiTxn
    /\ UNCHANGED <<pageRow, seenSince>> /\ UnchangedPageFiles

\* The process of a call dies; SQLite rolls its transaction back.
WikiCallDies(c) ==
    /\ wikiCall[c] # Ready /\ WikiFault
    /\ To(c, Ready)
    /\ wikiTxn' = [wikiTxn EXCEPT ![c] = Closed]
    /\ UNCHANGED <<pageRow, seenSince>> /\ UnchangedPageFiles

WikiNext ==
    \/ WikiClock
    \/ \E s \in Slugs : Edited(s)
    \/ \E c \in WikiCalls : \/ ReadCached(c) \/ CheckPage(c) \/ StatPage(c) \/ CommitReconcile(c) \/ SelectPage(c)
                            \/ ReadBack(c) \/ StatWritten(c) \/ CommitWritten(c) \/ DeleteRow(c)
                            \/ WriteRefused(c) \/ TxnEnds(c) \/ WikiCallDies(c)
                            \/ \E s \in Slugs : StartRead(c, s) \/ write_page(c, s) \/ delete_page(c, s)

WikiSpec == WikiInit /\ [][WikiNext]_wikiVars

-----------------------------------------------------------------------------
\* "files are canonical": a read returns what the file of the page was at some moment since
\* the call began, or what another call committed since: through edits from outside, older
\* files put back, calls that raise and leave their rows, their lock or an old snapshot to the
\* thread, and crashes, unless the file once changed between two accesses of one indexing or
\* had two texts with the same time, or vanished while the call ran.
ReadsAreFresh ==
    \A c \in WikiCalls :
        LET call == wikiCall[c]
            had == seenSince[c]
        IN call.op = "read" /\ call.at = "select" /\ call.for \notin blurred
              /\ (Gone \notin had \/ had = {Gone})
              => TextOf(PageRows(c)[call.for]) \in had
=============================================================================
