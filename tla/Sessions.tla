------------------------------- MODULE Sessions -------------------------------
(***************************************************************************)
(* The session side of api/features/auth: the two tables its SQL touches,   *)
(* the requests that run Register, Login, Logout and VerifySession behind   *)
(* net/http, the goroutine VerifySession leaves behind to push the idle     *)
(* expiry, the hourly cleanup, and the browsers' cookie jars.               *)
(*                                                                         *)
(* One SQL statement is one step: the handlers open no transaction, so      *)
(* anything may happen between two statements, and between time.Now() and   *)
(* the statement that stores it.  Any statement may fail (a cancelled       *)
(* request context, a locked table).  An account is named by its owner: two  *)
(* requests of one person carry the same username and e-mail.               *)
(***************************************************************************)
EXTENDS Integers, FiniteSets

CONSTANTS
    Persons,          \* account owners, each with a browser of its own
    Tokens,           \* the tokens rand.Text can return
    Requests,         \* bound: requests the server handles at a time
    Refreshers,       \* bound: refresh goroutines alive at a time
    SessionDuration,  \* sessionDuration, 24h in the code
    IdleDuration,     \* sessionIdleDuration, 30min in the code
    Zone,             \* the server's offset from UTC
    MaxTime,          \* bound: the clock stops here
    None              \* nothing: no row, no request, no cookie

\* A row of the sessions table, the primary key apart.
Row == [user : Persons, absolute : Int, idle : Int]

ASSUME SessionAssumption ==
    /\ SessionDuration \in Nat /\ IdleDuration \in Nat
    /\ Zone \in Int /\ MaxTime \in Nat
    /\ None \notin Tokens \cup Persons /\ None \notin Row

VARIABLES
    now,       \* UTC, what datetime('now') returns
    accounts,  \* rows of the users table
    sessions,  \* rows of the sessions table, by token
    used,      \* tokens drawn so far
    req,       \* requests being served
    refresh,   \* refresh goroutines
    jar,       \* the session cookie each browser keeps
    born,      \* history: the instant a token's expiries were computed from
    renewed,   \* history: the instant its stored idle expiry was computed from
    ended      \* history: tokens whose DELETE was answered 200

vars == <<now, accounts, sessions, used, req, refresh, jar, born, renewed, ended>>
history == <<born, renewed, ended>>

Ops == {"register", "login", "logout", "me"}

(***************************************************************************)
(* The driver writes a time.Time as the text of its local wall clock        *)
(* followed by fraction and offset; datetime('now') is UTC text cut to the  *)
(* second.  SQLite compares the two as text, so a stored instant counts as  *)
(* later than an equal second, and the zone shifts every comparison.        *)
(***************************************************************************)
Stored(instant) == instant + Zone
Later(stamp) == stamp >= now

\* Mutant: The query forgets the idle expiry.
LiveUntilCeiling(row) == Later(row.absolute)

Live(row) == Later(row.absolute) /\ Later(row.idle)

Rows == {t \in Tokens : sessions[t] # None}

NewRow(person, instant) ==
    [user     |-> person,
     absolute |-> Stored(instant + SessionDuration),
     idle     |-> Stored(instant + IdleDuration)]

FirstStep(op) ==
    CASE op = "register" -> "create"
      [] op = "login"    -> "find"
      [] op = "logout"   -> "delete"
      [] op = "me"       -> "get"

Init ==
    /\ now = 0
    /\ accounts = {}
    /\ sessions = [t \in Tokens |-> None]
    /\ used = {}
    /\ req = [r \in Requests |-> None]
    /\ refresh = [f \in Refreshers |-> None]
    /\ jar = [p \in Persons |-> None]
    /\ born = [t \in Tokens |-> 0]
    /\ renewed = [t \in Tokens |-> 0]
    /\ ended = {}

-----------------------------------------------------------------------------
At(r, step) == req[r] # None /\ req[r].at = step

GoOn(r, step, instant) ==
    req' = [req EXCEPT ![r] = [@ EXCEPT !.at = step, !.stamp = instant]]

\* writeError or the handler's writer: the status and the cookie it sets, None
\* when the response carries no Set-Cookie.
Answer(r, status, cookie) ==
    req' = [req EXCEPT ![r] = [op |-> @.op, who |-> @.who, at |-> "answered",
                               status |-> status, set |-> cookie]]

\* Only RequireAuth and LogoutHandler look at the cookie.
Shown(op, cookie) == IF op \in {"me", "logout"} THEN cookie ELSE None

\* A browser sends a request with the cookie it has now.
Send(r, p, op) ==
    /\ req[r] = None
    /\ req' = [req EXCEPT ![r] = [op |-> op, who |-> p, cookie |-> Shown(op, jar[p]),
                                  at |-> FirstStep(op), stamp |-> 0]]
    /\ UNCHANGED <<now, accounts, sessions, used, refresh, jar, history>>

\* runDecode: a body that does not parse or does not validate goes no further.
Invalid(r) ==
    /\ At(r, "find") \/ At(r, "create")
    /\ Answer(r, 400, None)
    /\ UNCHANGED <<now, accounts, sessions, used, refresh, jar, history>>

\* FindPrincipalByEmailOrUsername and VerifyPassword, which may both say no.
FindPrincipal(r) ==
    /\ At(r, "find")
    /\ \/ req[r].who \in accounts /\ GoOn(r, "stamp", 0)
       \/ Answer(r, 401, None)
    /\ UNCHANGED <<now, accounts, sessions, used, refresh, jar, history>>

\* CreatePrincipal: the UNIQUE columns make a second INSERT fail, and that error
\* has no mapping of its own.
CreatePrincipal(r) ==
    /\ At(r, "create")
    /\ IF req[r].who \in accounts
         THEN Answer(r, 500, None) /\ UNCHANGED accounts
         ELSE GoOn(r, "stamp", 0) /\ accounts' = accounts \cup {req[r].who}
    /\ UNCHANGED <<now, sessions, used, refresh, jar, history>>

\* CreateSession reads the clock ...
StampSession(r) ==
    /\ At(r, "stamp")
    /\ GoOn(r, "insert", now)
    /\ UNCHANGED <<now, accounts, sessions, used, refresh, jar, history>>

\* ... and inserts a row under a token nobody had before.
InsertSession(r) ==
    /\ At(r, "insert")
    /\ \E t \in Tokens \ used :
         /\ used' = used \cup {t}
         /\ sessions' = [sessions EXCEPT ![t] = NewRow(req[r].who, req[r].stamp)]
         /\ born' = [born EXCEPT ![t] = req[r].stamp]
         /\ renewed' = [renewed EXCEPT ![t] = req[r].stamp]
         /\ Answer(r, IF req[r].op = "register" THEN 201 ELSE 200, t)
    /\ UNCHANGED <<now, accounts, refresh, jar, ended>>

\* Mutant: The guard for the missing cookie is forgotten.
DeleteUnguarded(r) ==
    /\ At(r, "delete")
    /\ Answer(r, 200, None)
    /\ sessions' = [sessions EXCEPT ![req[r].cookie] = None]
    /\ ended' = ended \cup {req[r].cookie}
    /\ UNCHANGED <<now, accounts, used, refresh, jar, born, renewed>>

\* Logout: without a cookie nothing is deleted.  The handler writes the status
\* before it sets the clearing cookie, so the response carries no Set-Cookie.
DeleteSession(r) ==
    /\ At(r, "delete")
    /\ Answer(r, 200, None)
    /\ IF req[r].cookie = None
         THEN UNCHANGED <<sessions, ended>>
         ELSE /\ sessions' = [sessions EXCEPT ![req[r].cookie] = None]
              /\ ended' = ended \cup {req[r].cookie}
    /\ UNCHANGED <<now, accounts, used, refresh, jar, born, renewed>>

\* Mutant: The look-up finds the row, expired or not.
AcceptableExpired(r) == req[r].cookie # None /\ sessions[req[r].cookie] # None

Acceptable(r) ==
    /\ req[r].cookie # None
    /\ sessions[req[r].cookie] # None
    /\ Live(sessions[req[r].cookie])

\* RequireAuth over VerifySession: GetSession's row is accepted, the refresh is
\* left to a goroutine of its own, and the principal is answered.
Accept(r) ==
    /\ At(r, "get") /\ Acceptable(r)
    /\ Answer(r, 200, None)
    /\ \E f \in Refreshers :
         /\ refresh[f] = None
         /\ refresh' = [refresh EXCEPT ![f] = [token |-> req[r].cookie, at |-> "stamp", instant |-> 0]]
    /\ UNCHANGED <<now, accounts, sessions, used, jar, history>>

Reject(r) ==
    /\ At(r, "get") /\ ~Acceptable(r)
    /\ Answer(r, 401, None)
    /\ UNCHANGED <<now, accounts, sessions, used, refresh, jar, history>>

\* A statement fails.  Login, Logout and Register answer 500; RequireAuth
\* answers 401 to whatever error VerifySession returns.
Fail(r) ==
    /\ \E step \in {"find", "create", "insert", "delete", "get"} : At(r, step)
    /\ Answer(r, IF req[r].op = "me" THEN 401 ELSE 500, None)
    /\ UNCHANGED <<now, accounts, sessions, used, refresh, jar, history>>

\* The response reaches the browser, which keeps the cookie it sets, or is lost.
Receive(r) ==
    /\ At(r, "answered")
    /\ req' = [req EXCEPT ![r] = None]
    /\ jar' = IF req[r].set = None THEN jar ELSE [jar EXCEPT ![req[r].who] = req[r].set]
    /\ UNCHANGED <<now, accounts, sessions, used, refresh, history>>

Lose(r) ==
    /\ At(r, "answered")
    /\ req' = [req EXCEPT ![r] = None]
    /\ UNCHANGED <<now, accounts, sessions, used, refresh, jar, history>>

-----------------------------------------------------------------------------
RefreshAt(f, step) == refresh[f] # None /\ refresh[f].at = step

\* RefreshSession reads the clock ...
StampRefresh(f) ==
    /\ RefreshAt(f, "stamp")
    /\ refresh' = [refresh EXCEPT ![f] = [@ EXCEPT !.at = "update", !.instant = now]]
    /\ UNCHANGED <<now, accounts, sessions, used, req, jar, history>>

\* Mutant: The refresh moves both expiries.
RenewedWhole(row, instant) == NewRow(row.user, instant)

Renewed(row, instant) == [row EXCEPT !.idle = Stored(instant + IdleDuration)]

\* Mutant: The refresh writes the whole row it was spawned for, deleted or not.
UpsertIdle(f) ==
    /\ RefreshAt(f, "update")
    /\ \E p \in accounts : sessions' = [sessions EXCEPT ![refresh[f].token] = NewRow(p, refresh[f].instant)]
    /\ renewed' = [renewed EXCEPT ![refresh[f].token] = refresh[f].instant]
    /\ refresh' = [refresh EXCEPT ![f] = None]
    /\ UNCHANGED <<now, accounts, used, req, jar, born, ended>>

\* ... and updates whatever row has the token, if one still has.
UpdateIdle(f) ==
    /\ RefreshAt(f, "update")
    /\ LET t == refresh[f].token IN
         IF t \in Rows
           THEN /\ sessions' = [sessions EXCEPT ![t] = Renewed(@, refresh[f].instant)]
                /\ renewed' = [renewed EXCEPT ![t] = refresh[f].instant]
           ELSE UNCHANGED <<sessions, renewed>>
    /\ refresh' = [refresh EXCEPT ![f] = None]
    /\ UNCHANGED <<now, accounts, used, req, jar, born, ended>>

\* The UPDATE fails; the goroutine logs it and ends.
FailRefresh(f) ==
    /\ RefreshAt(f, "update")
    /\ refresh' = [refresh EXCEPT ![f] = None]
    /\ UNCHANGED <<now, accounts, sessions, used, req, jar, history>>

\* Mutant: The cleanup's comparison is not strict.
ExpiredAtOnce(row) == row.absolute <= now \/ row.idle <= now

\* Mutant: The cleanup waits for both expiries.
ExpiredTwice(row) == row.absolute < now /\ row.idle < now

Expired(row) == row.absolute < now \/ row.idle < now

\* The session-cleanup job: one DELETE.  A failed run changes nothing.
DeleteExpiredSessions ==
    /\ \E t \in Rows : Expired(sessions[t])
    /\ sessions' = [t \in Tokens |->
                      IF t \in Rows /\ Expired(sessions[t]) THEN None ELSE sessions[t]]
    /\ UNCHANGED <<now, accounts, used, req, refresh, jar, history>>

\* The process dies and is started again: the tables are on disk.
Restart ==
    /\ \E r \in Requests, f \in Refreshers : req[r] # None \/ refresh[f] # None
    /\ req' = [r \in Requests |-> None]
    /\ refresh' = [f \in Refreshers |-> None]
    /\ UNCHANGED <<now, accounts, sessions, used, jar, history>>

Tick ==
    /\ now < MaxTime
    /\ now' = now + 1
    /\ UNCHANGED <<accounts, sessions, used, req, refresh, jar, history>>

Handle(r) ==
    \/ Invalid(r) \/ FindPrincipal(r) \/ CreatePrincipal(r)
    \/ StampSession(r) \/ InsertSession(r)
    \/ DeleteSession(r)
    \/ Accept(r) \/ Reject(r)

RefreshStep(f) == StampRefresh(f) \/ UpdateIdle(f)

Next ==
    \/ \E r \in Requests, p \in Persons, op \in Ops : Send(r, p, op)
    \/ \E r \in Requests : Handle(r) \/ Fail(r) \/ Receive(r) \/ Lose(r)
    \/ \E f \in Refreshers : RefreshStep(f) \/ FailRefresh(f)
    \/ DeleteExpiredSessions
    \/ Restart
    \/ Tick

Spec == Init /\ [][Next]_vars

\* A goroutine that can run runs, and the hourly job, retried after a failure,
\* gets its DELETE through while there is something to delete.
FairSpec ==
    /\ Spec
    /\ \A f \in Refreshers : WF_vars(RefreshStep(f))
    /\ WF_vars(DeleteExpiredSessions)
    /\ WF_vars(Tick)

-----------------------------------------------------------------------------
(***************************************************************************)
(* Properties.                                                             *)
(***************************************************************************)
Working ==
    [op : Ops, who : Persons, cookie : Tokens \cup {None},
     at : {"find", "create", "stamp", "insert", "delete", "get"}, stamp : Nat]

Answered ==
    [op : Ops, who : Persons, at : {"answered"}, status : {200, 201, 400, 401, 500}, set : Tokens \cup {None}]

Refreshing == [token : Tokens, at : {"stamp", "update"}, instant : Nat]

\* Type correctness of the tables, requests, goroutines and jars.
TypeOK ==
    /\ now \in 0..MaxTime
    /\ accounts \subseteq Persons
    /\ sessions \in [Tokens -> Row \cup {None}]
    /\ used \subseteq Tokens /\ ended \subseteq Tokens
    /\ req \in [Requests -> Working \cup Answered \cup {None}]
    /\ refresh \in [Refreshers -> Refreshing \cup {None}]
    /\ jar \in [Persons -> Tokens \cup {None}]
    /\ born \in [Tokens -> Nat] /\ renewed \in [Tokens -> Nat]

\* Once a logout has been answered 200 its session is gone for good, whatever
\* refresh was still under way when the row was deleted.
LogoutIsFinal == \A t \in ended : sessions[t] = None

Accepted(r) ==
    /\ At(r, "get")
    /\ req'[r] # None /\ req'[r].at = "answered" /\ req'[r].status = 200

\* The absolute expiry is a ceiling counted from creation: no request is accepted
\* on a session older than sessionDuration, however often it was refreshed.
CeilingHolds ==
    [][\A r \in Requests :
         Accepted(r) => now <= born[req[r].cookie] + SessionDuration]_vars

\* A session is accepted only within sessionIdleDuration of the instant it was
\* created or last refreshed, also when refreshes end out of order.
IdleWindowCloses ==
    [][\A r \in Requests :
         Accepted(r) => now <= renewed[req[r].cookie] + IdleDuration]_vars

\* The session of a token is over: it has no row or an expired one, and no refresh
\* of it is under way.
Lapsed(t) ==
    /\ t \in used
    /\ t \in Rows => ~Live(sessions[t])
    /\ \A f \in Refreshers : refresh[f] # None => refresh[f].token # t

\* A late refresh may bring an expired row back that has not been cleaned up, but
\* only one of a request that was accepted in time: a session that is over when
\* the last such refresh has been written is over for good, whatever requests are
\* sent with its cookie, in whatever order and across restarts (VerifySession,
\* RefreshSession).
LapsedIsFinal == [][\A t \in Tokens : Lapsed(t) => Lapsed(t)']_vars

\* The cleanup never removes a session that would still be accepted: a row that
\* goes away was logged out, or no request could have used it any more.
CleanupSparesUsable ==
    [][\A t \in Rows :
         sessions'[t] = None => t \in ended' \/ ~Live(sessions[t])]_vars

\* Every row past its ceiling is removed in the end, even while late refreshes
\* keep moving its idle expiry.
ExpiredRowsGo == \A t \in Tokens : (t \in Rows /\ sessions[t].absolute < now) ~> t \notin Rows

\* Logout clears the cookie: the browser that gets the 200 of a logout has no
\* session cookie afterwards.
LogoutClearsCookie ==
    [][\A r \in Requests :
         Receive(r) /\ req[r].op = "logout" /\ req[r].status = 200
             => jar'[req[r].who] = None]_vars

(***************************************************************************)
(* What the callers of the service may rely on (SessionService): a request  *)
(* is a single step there, taken where the statement that decides it is,    *)
(* and a session is granted while its row exists.                           *)
(***************************************************************************)
Promised(q) ==
    IF q = None THEN None
    ELSE IF q.at = "answered"
      THEN [op |-> q.op, who |-> q.who, at |-> "answered", ok |-> q.status \in {200, 201}, set |-> q.set]
      ELSE [op |-> q.op, who |-> q.who, at |-> "asked",
            cookie |-> q.cookie]

Service ==
    INSTANCE SessionService WITH
        granted <- Rows, req <- [r \in Requests |-> Promised(req[r])]

ASSUME PromiseAssumption ==
    None \notin Working \cup Answered \cup Service!Asked \cup Service!Replied

\* The sessions implement the service: no interleaving of statements, clock,
\* refreshes and restarts shows a caller anything the service does not promise.
KeepsService == Service!Spec
=============================================================================
