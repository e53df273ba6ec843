-------------------------------- MODULE Auth --------------------------------
(***************************************************************************)
(* The credential files of the remote server and the dashboard: the OAuth  *)
(* provider and its state file (oauth.py), the named API keys              *)
(* (api_keys.py) and the tools that edit both (tools/admin.py).            *)
(*                                                                         *)
(* A file is a set of items and is read anew by every operation.  A change *)
(* reads it, writes a temporary file named after the process and renames   *)
(* it into place, four steps of one writer.  The server's event loop is    *)
(* one writer; every call of a tool is another one, with a store object    *)
(* and so a lock of its own.  Time is the set of what has expired.         *)
(***************************************************************************)
EXTENDS Naturals, FiniteSets, Sequences

CONSTANTS Apps, KeyNames,    \* client ids; names of API keys
          Tools,             \* threads that run a tool
          Pid,               \* [{"server"} \cup Tools -> processes]
          Half, Missing,     \* a file that does not parse; no temporary file
          MaxApps,           \* MAX_REGISTERED_CLIENTS
          MaxPairs, MaxExpired, MaxAuthFaults   \* bounds

ASSUME ToolsApart == "server" \notin Tools

Writers == {"server"} \cup Tools
Stores == {"oauth", "keys"}

VARIABLES
    credentials,  \* [Stores -> a set of items, or Half]
    temporary,    \* [Stores -> [processes -> a set of items, Half or Missing]]
    writing,      \* [Writers -> the change under way]
    consents, codes, \* _pending and _codes of the provider, at most one for a client
    expired,      \* what has outlived its time
    pairs,        \* token pairs handed out so far
    authFaults,
    given,        \* history: what a caller was told is valid
    retired,      \* history: what a caller was told is no longer valid
    crossed       \* history: stores that two writers changed at the same time

authVars == <<credentials, temporary, writing, consents, codes, expired, pairs, authFaults,
              given, retired, crossed>>

Resting == [step |-> "rest"]
Client(c) == [kind |-> "client", of |-> c]
Access(c, n) == [kind |-> "access_tokens", of |-> c, n |-> n]
Refresh(c, n) == [kind |-> "refresh_tokens", of |-> c, n |-> n]
Key(k) == [kind |-> "key", of |-> k]

\* What a file may hold; one that does not parse is none of these.
FileItems == {Client(c) : c \in Apps} \cup {Key(k) : k \in KeyNames}
         \cup {Access(c, n) : c \in Apps, n \in 1..MaxPairs} \cup {Refresh(c, n) : c \in Apps, n \in 1..MaxPairs}
ASSUME HalfIsNoFile == MaxPairs \in Nat /\ \A items \in SUBSET FileItems : items # Half

\* A file that does not parse counts as empty.
Read(s) == IF credentials[s] = Half THEN {} ELSE credentials[s]
TokensOf(c, items) == {i \in items : i.kind \in {"access_tokens", "refresh_tokens"} /\ i.of = c}

\* What an operation leaves of a file's items.
Changed(op, items) ==
    CASE op.do = "put"    -> items \cup {op.item}
      [] op.do = "delete" -> items \ {op.item}
      [] op.do = "drop"   -> items \ TokensOf(op.of, items)
      [] op.do = "revoke" -> IF Client(op.of) \in items
                             THEN items \ ({Client(op.of)} \cup TokensOf(op.of, items)) ELSE items

AuthInit ==
    /\ credentials = [s \in Stores |-> {}]
    /\ temporary = [s \in Stores |-> [p \in {Pid[w] : w \in Writers} |-> Missing]]
    /\ writing = [w \in Writers |-> Resting]
    /\ consents = {} /\ codes = {} /\ expired = {} /\ pairs = 0 /\ authFaults = 0
    /\ given = {} /\ retired = {} /\ crossed = {}

-----------------------------------------------------------------------------
(* A change of a file.                                                     *)
\* w starts the operations `ops` on s; the caller is told of `news` when all are done and
\* that `ends` are void.
Busy(w, s) == writing[w] # Resting /\ writing[w].store = s
Start(w, s, ops, news, ends) ==
    /\ writing' = [writing EXCEPT ![w] = [step |-> "read", store |-> s, todo |-> ops, news |-> news,
                                          ends |-> ends, items |-> {}, fd |-> "none"]]
    /\ crossed' = crossed \cup {t \in {s} : \E v \in Writers \ {w} : Busy(v, s)}

UnchangedProvider == UNCHANGED <<consents, codes, expired, pairs>>

\* The state after the first of w's operations is done or was not needed.
Next1(w) == [writing[w] EXCEPT !.todo = Tail(@), !.step = "read"]
ToolEnded(w) == /\ given' = (given \ writing[w].ends) \cup (writing[w].news \ expired)
            /\ retired' = retired \cup writing[w].ends

ReadState(w) ==
    LET r == writing[w]
        new == Changed(Head(r.todo), Read(r.store)) IN
    /\ r.step = "read"
    /\ IF new = Read(r.store) /\ Head(r.todo).do # "put"
       THEN IF Len(r.todo) = 1 THEN writing' = [writing EXCEPT ![w] = Resting] /\ ToolEnded(w)
                               ELSE writing' = [writing EXCEPT ![w] = Next1(w)] /\ UNCHANGED <<given, retired>>
       ELSE /\ writing' = [writing EXCEPT ![w].step = "open", ![w].items = new]
            /\ UNCHANGED <<given, retired>>
    /\ UNCHANGED <<credentials, temporary, authFaults, crossed>> /\ UnchangedProvider

\* The old file is removed first, as where a rename does not replace.
OpenRemovingOld(w) ==
    LET r == writing[w] IN
    /\ r.step = "open"
    /\ credentials' = [credentials EXCEPT ![r.store] = {}]
    /\ temporary' = [temporary EXCEPT ![r.store][Pid[w]] = Half]
    /\ writing' = [writing EXCEPT ![w].step = "write", ![w].fd = "temporary"]
    /\ UNCHANGED <<authFaults, given, retired, crossed>> /\ UnchangedProvider

\* Opening truncates, also a file of that name another thread of the process is writing.
OpenTemporary(w) ==
    LET r == writing[w] IN
    /\ r.step = "open"
    /\ temporary' = [temporary EXCEPT ![r.store][Pid[w]] = Half]
    /\ writing' = [writing EXCEPT ![w].step = "write", ![w].fd = "temporary"]
    /\ UNCHANGED <<credentials, authFaults, given, retired, crossed>> /\ UnchangedProvider

\* What a write leaves of a file: over the text of another writer, perhaps no JSON.
Overlaid(was, items) == {items} \cup (IF was \in {Half, Missing} THEN {} ELSE {Half})

WriteTemporary(w) ==
    LET r == writing[w] IN
    /\ r.step = "write"
    /\ CASE r.fd = "temporary" -> \E c \in Overlaid(temporary[r.store][Pid[w]], r.items) :
                /\ temporary' = [temporary EXCEPT ![r.store][Pid[w]] = c]
                /\ UNCHANGED credentials
         [] r.fd = "path" -> \E c \in Overlaid(credentials[r.store], r.items) :
                /\ credentials' = [credentials EXCEPT ![r.store] = c]
                /\ UNCHANGED temporary
         [] OTHER -> UNCHANGED <<credentials, temporary>>
    /\ writing' = [writing EXCEPT ![w].step = "replace"]
    /\ UNCHANGED <<authFaults, given, retired, crossed>> /\ UnchangedProvider

\* The rename: what other threads have open under the name is the file itself from now on.
\* Without the temporary file (another thread renamed it) the operation raises.
Renamed(w) ==
    LET r == writing[w] IN
    [v \in Writers |->
        IF v = w THEN IF Len(r.todo) = 1 THEN Resting ELSE Next1(w)
        ELSE IF ~Busy(v, r.store) THEN writing[v]
        ELSE IF writing[v].fd = "path" THEN [writing[v] EXCEPT !.fd = "gone"]
        ELSE IF writing[v].fd = "temporary" /\ Pid[v] = Pid[w] THEN [writing[v] EXCEPT !.fd = "path"]
        ELSE writing[v]]

Replaced(w) ==
    LET r == writing[w] IN
    /\ credentials' = [credentials EXCEPT ![r.store] = temporary[r.store][Pid[w]]]
    /\ temporary' = [temporary EXCEPT ![r.store][Pid[w]] = Missing]
    /\ writing' = Renamed(w)
ReplaceFile(w) ==
    LET r == writing[w] IN
    /\ r.step = "replace"
    /\ IF temporary[r.store][Pid[w]] # Missing
       THEN /\ Replaced(w)
            /\ IF Len(r.todo) = 1 THEN ToolEnded(w) ELSE UNCHANGED <<given, retired>>
       ELSE /\ writing' = [writing EXCEPT ![w] = Resting]
            /\ UNCHANGED <<credentials, temporary, given, retired>>
    /\ UNCHANGED <<authFaults, crossed>> /\ UnchangedProvider

\* The write fails (a full disk): the temporary file is removed and the caller gets an error.
WriteFails(w) ==
    LET r == writing[w] IN
    /\ r.step \in {"write", "replace"} /\ authFaults < MaxAuthFaults
    /\ authFaults' = authFaults + 1
    /\ temporary' = [temporary EXCEPT ![r.store][Pid[w]] = Missing]
    /\ writing' = [writing EXCEPT ![w] = Resting]
    /\ UNCHANGED <<credentials, given, retired, crossed>> /\ UnchangedProvider

\* A process dies: its writers stop where they are; the server's one forgets its consents
\* and codes.
ProcessDies(p) ==
    /\ authFaults < MaxAuthFaults /\ authFaults' = authFaults + 1
    /\ writing' = [w \in Writers |-> IF Pid[w] = p THEN Resting ELSE writing[w]]
    /\ IF p = Pid["server"] THEN consents' = {} /\ codes' = {} ELSE UNCHANGED <<consents, codes>>
    /\ UNCHANGED <<credentials, temporary, expired, pairs, given, retired, crossed>>

-----------------------------------------------------------------------------
(* The provider.  Its handlers run one after the other on the event loop.  *)
Serving == writing["server"] = Resting
Known(c) == Client(c) \in Read("oauth")
UnchangedFiles == UNCHANGED <<credentials, temporary, authFaults>>

\* The SDK draws a new id for each registration.
register_client(c) ==
    /\ Serving /\ Client(c) \notin given \cup retired
    /\ Cardinality({i \in Read("oauth") : i.kind = "client"}) < MaxApps
    /\ Start("server", "oauth", <<[do |-> "put", item |-> Client(c)]>>, {Client(c)}, {})
    /\ UNCHANGED <<consents, codes, expired, pairs, given, retired>> /\ UnchangedFiles

\* What is outstanding and has not expired, with a new one for c.
Fresh(kind, c, outstanding) == (outstanding \ expired) \cup {[kind |-> kind, of |-> c]}

authorize(c) ==
    /\ Serving /\ Known(c)
    /\ consents' = Fresh("consent", c, consents)
    /\ expired' = expired \ {[kind |-> "consent", of |-> c]}
    /\ UNCHANGED <<writing, crossed, codes, pairs, given, retired>> /\ UnchangedFiles

\* The owner answers a consent page: it is used up, whatever the answer.
handle_consent_submit(txn, approved) ==
    /\ Serving /\ txn \in consents
    /\ consents' = consents \ {txn}
    /\ IF txn \in expired \/ ~approved THEN UNCHANGED <<codes, expired>>
       ELSE /\ codes' = Fresh("code", txn.of, codes)
            /\ expired' = expired \ {[kind |-> "code", of |-> txn.of]}
    /\ UNCHANGED <<writing, crossed, pairs, given, retired>> /\ UnchangedFiles

Issue(c, before, ends) ==
    /\ pairs < MaxPairs /\ pairs' = pairs + 1
    /\ Start("server", "oauth",
             before \o <<[do |-> "put", item |-> Access(c, pairs')],
                         [do |-> "put", item |-> Refresh(c, pairs')]>>,
             {Access(c, pairs'), Refresh(c, pairs')}, ends)

\* The token endpoint authenticates the client, loads the code and exchanges it.
exchange_authorization_code(c, code) ==
    /\ Serving /\ Known(c) /\ code \in codes \ expired /\ code.of = c
    /\ codes' = codes \ {code}
    /\ Issue(c, <<>>, {})
    /\ UNCHANGED <<consents, expired, given, retired>> /\ UnchangedFiles

exchange_refresh_token(c, token) ==
    /\ Serving /\ Known(c) /\ token \in Read("oauth") \ expired
    /\ token.kind = "refresh_tokens" /\ token.of = c
    /\ Issue(c, <<[do |-> "drop", of |-> c]>>, TokensOf(c, given))
    /\ given' = given \ TokensOf(c, given)
    /\ UNCHANGED <<consents, codes, expired, retired>> /\ UnchangedFiles

revoke_token(c, token) ==
    /\ Serving /\ Known(c) /\ token \in TokensOf(c, Read("oauth")) \ expired
    /\ Start("server", "oauth", <<[do |-> "drop", of |-> c]>>, {}, TokensOf(c, given))
    /\ given' = given \ TokensOf(c, given)
    /\ UNCHANGED <<consents, codes, expired, pairs, retired>> /\ UnchangedFiles

\* An expired token that is presented is deleted.
LoadExpired(token) ==
    /\ Serving /\ token \in Read("oauth") \cap expired
    /\ Start("server", "oauth", <<[do |-> "delete", item |-> token]>>, {}, {})
    /\ UNCHANGED <<consents, codes, expired, pairs, given, retired>> /\ UnchangedFiles

Expire(x) ==
    /\ x \notin expired /\ Cardinality(expired) < MaxExpired /\ expired' = expired \cup {x}
    /\ given' = given \ {x}
    /\ UNCHANGED <<writing, crossed, consents, codes, pairs, retired>> /\ UnchangedFiles

-----------------------------------------------------------------------------
(* The tools.                                                              *)
HadBy(c) == {Client(c)} \cup TokensOf(c, given)
\* Without effect when the client is not there; what it takes away is void once it returns.
revoke_client(w, c) ==
    /\ writing[w] = Resting /\ Known(c)
    /\ Start(w, "oauth", <<[do |-> "revoke", of |-> c]>>, {}, HadBy(c))
    /\ given' = given \ HadBy(c)
    /\ UNCHANGED <<consents, codes, expired, pairs, retired>> /\ UnchangedFiles

create_key(w, k) ==
    /\ writing[w] = Resting /\ Key(k) \notin Read("keys") \cup given \cup retired
    /\ Start(w, "keys", <<[do |-> "put", item |-> Key(k)]>>, {Key(k)}, {})
    /\ UNCHANGED <<consents, codes, expired, pairs, given, retired>> /\ UnchangedFiles

revoke_key(w, k) ==
    /\ writing[w] = Resting /\ Key(k) \in Read("keys")
    /\ Start(w, "keys", <<[do |-> "delete", item |-> Key(k)]>>, {}, {Key(k)})
    /\ given' = given \ {Key(k)}
    /\ UNCHANGED <<consents, codes, expired, pairs, retired>> /\ UnchangedFiles

AuthNext ==
    \/ \E w \in Writers : \/ ReadState(w) \/ OpenTemporary(w) \/ WriteTemporary(w)
                          \/ ReplaceFile(w) \/ WriteFails(w)
    \/ \E p \in {Pid[w] : w \in Writers} : ProcessDies(p)
    \/ \E c \in Apps : \/ register_client(c) \/ authorize(c)
                       \/ \E code \in codes : exchange_authorization_code(c, code)
                       \/ \E t \in Read("oauth") : exchange_refresh_token(c, t) \/ revoke_token(c, t)
                       \/ \E w \in Tools : revoke_client(w, c)
    \/ \E txn \in consents, ok \in BOOLEAN : handle_consent_submit(txn, ok)
    \/ \E t \in Read("oauth") : LoadExpired(t)
    \/ \E x \in consents \cup codes \cup (Read("oauth") \ {Client(c) : c \in Apps}) : Expire(x)
    \/ \E w \in Tools, k \in KeyNames : create_key(w, k) \/ revoke_key(w, k)

AuthSpec == AuthInit /\ [][AuthNext]_authVars

-----------------------------------------------------------------------------
\* What was handed out (a registration, a token pair, a key) stays valid until it expires,
\* is rotated or is revoked, through crashes and failed writes at any step of a change,
\* unless two writers changed the file at once.
Remembered ==
    \A s \in Stores \ crossed :
        {i \in given : (i.kind = "key") <=> (s = "keys")} \subseteq Read(s)

\* What was revoked or rotated is never accepted again: not when the server was in the
\* middle of something else, not after a crash.
LockedOut == \A s \in Stores \ crossed : retired \cap Read(s) = {}
             /\ \A i \in Read("oauth") : "oauth" \notin crossed /\ i.kind # "client"
                                         => Client(i.of) \in Read("oauth")

\* A credential is accepted from when it is handed out until it is withdrawn.
CredentialsHold == Remembered /\ LockedOut
=============================================================================
