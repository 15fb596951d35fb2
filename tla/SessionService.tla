---------------------------- MODULE SessionService ----------------------------
(***************************************************************************)
(* What api/features/auth promises to whoever calls it: a session is        *)
(* granted under a token nobody had before, a principal is only admitted    *)
(* while the session its cookie names has not been taken away, and a        *)
(* session that is gone never comes back.  Every request may be refused,    *)
(* and a session may be withdrawn at any time.  The module Sessions         *)
(* implements this with its clock, its statements and its goroutines.       *)
(***************************************************************************)
EXTENDS FiniteSets

CONSTANTS
    Persons,        \* account owners, each with a browser of its own
    Tokens,         \* the tokens that can be drawn
    Requests,       \* bound: requests served at a time
    None            \* nothing: no request, no cookie

Ops == {"register", "login", "logout", "me"}

\* A request whose fate is open, and one that is answered.
Asked == [op : Ops, who : Persons, cookie : Tokens \cup {None}, at : {"asked"}]
Replied == [op : Ops, who : Persons, at : {"answered"}, ok : BOOLEAN, set : Tokens \cup {None}]

ASSUME ServiceAssumption == None \notin Tokens /\ None \notin Asked \cup Replied

VARIABLES
    granted,        \* the tokens that name a session
    used,           \* the tokens drawn so far
    req,            \* requests being served
    jar             \* the session cookie each browser keeps

serviceVars == <<granted, used, req, jar>>

Init ==
    /\ granted = {}
    /\ used = {}
    /\ req = [r \in Requests |-> None]
    /\ jar = [p \in Persons |-> None]

At(r, step) == req[r] # None /\ req[r].at = step

\* The response: whether it is a success, and the cookie it sets.
Answer(r, ok, cookie) ==
    req' = [req EXCEPT ![r] = [op |-> @.op, who |-> @.who, at |-> "answered",
                               ok |-> ok, set |-> cookie]]

\* Login and Register do not look at the cookie.
Shown(op, cookie) == IF op \in {"me", "logout"} THEN cookie ELSE None

Send(r, p, op) ==
    /\ req[r] = None
    /\ req' = [req EXCEPT ![r] = [op |-> op, who |-> p, cookie |-> Shown(op, jar[p]), at |-> "asked"]]
    /\ UNCHANGED <<granted, used, jar>>

\* Login and Register.
Grant(r) ==
    /\ At(r, "asked") /\ req[r].op \in {"login", "register"}
    /\ \E t \in Tokens \ used :
         /\ used' = used \cup {t}
         /\ granted' = granted \cup {t}
         /\ Answer(r, TRUE, t)
    /\ UNCHANGED jar

\* Logout.
Revoke(r) ==
    /\ At(r, "asked") /\ req[r].op = "logout"
    /\ granted' = granted \ {req[r].cookie}
    /\ Answer(r, TRUE, None)
    /\ UNCHANGED <<used, jar>>

\* RequireAuth and Me.
Admit(r) ==
    /\ At(r, "asked") /\ req[r].op = "me"
    /\ req[r].cookie \in granted
    /\ Answer(r, TRUE, None)
    /\ UNCHANGED <<granted, used, jar>>

Refuse(r) ==
    /\ At(r, "asked")
    /\ Answer(r, FALSE, None)
    /\ UNCHANGED <<granted, used, jar>>

\* Expired sessions are cleaned up.
Withdraw ==
    /\ \E gone \in (SUBSET granted) \ {{}} : granted' = granted \ gone
    /\ UNCHANGED <<used, req, jar>>

Receive(r) ==
    /\ At(r, "answered")
    /\ req' = [req EXCEPT ![r] = None]
    /\ jar' = IF req[r].set = None THEN jar ELSE [jar EXCEPT ![req[r].who] = req[r].set]
    /\ UNCHANGED <<granted, used>>

Lose(r) ==
    /\ At(r, "answered")
    /\ req' = [req EXCEPT ![r] = None]
    /\ UNCHANGED <<granted, used, jar>>

Restart ==
    /\ \E r \in Requests : req[r] # None
    /\ req' = [r \in Requests |-> None]
    /\ UNCHANGED <<granted, used, jar>>

Serve(r) == Grant(r) \/ Revoke(r) \/ Admit(r) \/ Refuse(r)

Next ==
    \/ \E r \in Requests, p \in Persons, op \in Ops : Send(r, p, op)
    \/ \E r \in Requests : Serve(r) \/ Receive(r) \/ Lose(r)
    \/ Withdraw
    \/ Restart

Spec == Init /\ [][Next]_serviceVars
=============================================================================
