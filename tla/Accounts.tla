------------------------------- MODULE Accounts -------------------------------
(***************************************************************************)
(* The accounts of api/features/auth: the users table, the pipeline of      *)
(* httpbind (decode, validate, execute, answer) that its requests go        *)
(* through, and the account each session is opened for.  Sessions           *)
(* themselves are what SessionService promises.                             *)
(*                                                                         *)
(* People register under any username and e-mail, and log in with any       *)
(* token.  A person has one password, and nobody else has it: a row is      *)
(* known by the owner of the password in it.                                *)
(***************************************************************************)
EXTENDS SessionService, Naturals, Sequences

CONSTANTS
    Names,          \* what is put in for a username, an e-mail or a login token
    Addresses,      \* the names mail.ParseAddress accepts
    Passwords,      \* what is put in for a new password
    Roles           \* what is put in for a role

Kinds == {"upper", "lower", "digit", "special"}

\* The bodies; None is a field that is missing or blank.
RegisterRequest ==
    [username : Names \cup {None}, email : Names \cup {None}, password : Passwords, role : Roles]

\* The password of the person, or some other.
LoginRequest == [token : Names \cup {None}, password : {"own", "wrong", None}]

\* Where a handler is, with what it has in hand.
Task ==
    [at : {"decode", "me", "logout"}]
      \cup [at : {"create"}, body : RegisterRequest]
      \cup [at : {"find"}, body : LoginRequest]
      \cup [at : {"session"}, account : Nat]
      \cup [at : {"done"}, status : {200, 201, 400, 401, 406, 500}, principal : Nat]

ASSUME AccountAssumption ==
    /\ Addresses \subseteq Names /\ None \notin Names \cup Task
    /\ Passwords \subseteq [bytes : Nat, kinds : SUBSET Kinds]

VARIABLES
    users,          \* the users table: the row with id i is users[i]
    opened,         \* the user_id of each row of sessions
    task            \* where the handler of each request is

accountVars == <<users, opened, task>>
accountsVars == <<serviceVars, accountVars>>

AccountsInit ==
    /\ Init
    /\ users = <<>>
    /\ opened = [t \in Tokens |-> 0]
    /\ task = [r \in Requests |-> None]

-----------------------------------------------------------------------------
(***************************************************************************)
(* The rules of the bodies.                                                *)
(***************************************************************************)
UserRoles == {"ADMIN", "STUDENT", "TUTOR"}

Required(value) == value # None

Email(value) == value \in Addresses

\* Mutant: only the shortest length is checked.
PasswordAnyLength(value) == value.bytes >= 8 /\ value.kinds = Kinds

Password(value) == value.bytes \in 8..72 /\ value.kinds = Kinds

ValidRegistration(body) ==
    /\ Required(body.username)
    /\ Required(body.email) /\ Email(body.email)
    /\ Password(body.password)
    /\ body.role \in UserRoles

ValidLogin(body) == Required(body.token) /\ Required(body.password)

(***************************************************************************)
(* An error is the set of errors that errors.Is and errors.AsType find in   *)
(* it.                                                                      *)
(***************************************************************************)
DecodeErrors == {{"contentType"}, {"emptyBody"}, {"parse"}, {"parse", "syntax"}}

\* writeError.
Status(err) ==
    CASE "validation" \in err -> 400
      [] err \cap {"emptyBody", "parse", "syntax"} # {} -> 400
      [] "notFound" \in err -> 404
      [] "unauthorized" \in err -> 401
      [] "forbidden" \in err -> 403
      [] "contentType" \in err -> 406
      [] OTHER -> 500

-----------------------------------------------------------------------------
(***************************************************************************)
(* The handlers.                                                           *)
(***************************************************************************)
TaskAt(r, step) == task[r] # None /\ task[r].at = step

Proceed(r, next) == task' = [task EXCEPT ![r] = next]

\* The response, and the principal in its body if any.
Done(status, principal) == [at |-> "done", status |-> status, principal |-> principal]

Fail(r, err) ==
    /\ Refuse(r)
    /\ Proceed(r, Done(Status(err), 0))

FirstStep(op) == IF op \in {"register", "login"} THEN "decode" ELSE op

Submit(r, p, op) ==
    /\ Send(r, p, op)
    /\ Proceed(r, [at |-> FirstStep(op)])
    /\ UNCHANGED <<users, opened>>

Undecodable(r) ==
    /\ TaskAt(r, "decode")
    /\ \E err \in DecodeErrors : Fail(r, err)
    /\ UNCHANGED <<users, opened>>

\* runDecode: the body is decoded and, if it validates, handed to the service.
DecodeRegister(r) ==
    /\ TaskAt(r, "decode") /\ req[r].op = "register"
    /\ \/ \E body \in {b \in RegisterRequest : ValidRegistration(b)} :
            Proceed(r, [at |-> "create", body |-> body]) /\ UNCHANGED serviceVars
       \/ \E body \in RegisterRequest :
            ~ValidRegistration(body) /\ Fail(r, {"validation"})
    /\ UNCHANGED <<users, opened>>

DecodeLogin(r) ==
    /\ TaskAt(r, "decode") /\ req[r].op = "login"
    /\ \/ \E body \in {b \in LoginRequest : ValidLogin(b)} :
            Proceed(r, [at |-> "find", body |-> body]) /\ UNCHANGED serviceVars
       \/ \E body \in LoginRequest :
            ~ValidLogin(body) /\ Fail(r, {"validation"})
    /\ UNCHANGED <<users, opened>>

\* bcrypt refuses what is longer than 72 bytes.
Hashable(password) == password.bytes <= 72

\* The columns of users: NOT NULL, the CHECK on role, and UNIQUE.
Fits(body) ==
    /\ body.username # None /\ body.email # None
    /\ body.role \in {"ADMIN", "STUDENT", "TUTOR"}

Taken(body) ==
    \E i \in DOMAIN users : users[i].username = body.username \/ users[i].email = body.email

\* Mutant: The id is read before the row is there.
CreatePrincipalIdTooSoon(r) ==
    /\ TaskAt(r, "create")
    /\ LET body == task[r].body IN
         IF Hashable(body.password) /\ Fits(body) /\ ~Taken(body)
           THEN /\ users' = Append(users, [owner |-> req[r].who, username |-> body.username,
                                           email |-> body.email, role |-> body.role])
                /\ Proceed(r, [at |-> "session", account |-> Len(users)])
                /\ UNCHANGED serviceVars
           ELSE Fail(r, {"constraint"}) /\ UNCHANGED users
    /\ UNCHANGED opened

\* Register hashes the password and inserts the account; what speaks against
\* the row has no mapping of its own in writeError.
CreatePrincipal(r) ==
    /\ TaskAt(r, "create")
    /\ LET body == task[r].body IN
         IF Hashable(body.password) /\ Fits(body) /\ ~Taken(body)
           THEN /\ users' = Append(users, [owner |-> req[r].who, username |-> body.username,
                                           email |-> body.email, role |-> body.role])
                /\ Proceed(r, [at |-> "session", account |-> Len(users) + 1])
                /\ UNCHANGED serviceVars
           ELSE Fail(r, {"constraint"}) /\ UNCHANGED users
    /\ UNCHANGED opened

Matches(row, token) == row.email = token \/ row.username = token

VerifyPassword(row, person, password) == row.owner = person /\ password = "own"

\* Mutant: The look-up is joined to the sessions, and misses an account that never
\* had one.
FindPrincipalWithSession(r) ==
    /\ TaskAt(r, "find")
    /\ LET body  == task[r].body
           found == {i \in DOMAIN users :
                       Matches(users[i], body.token) /\ \E t \in Tokens : opened[t] = i} IN
         \/ found = {} /\ Fail(r, {"unauthorized"})
         \/ \E i \in found :
              IF VerifyPassword(users[i], req[r].who, body.password)
                THEN Proceed(r, [at |-> "session", account |-> i]) /\ UNCHANGED serviceVars
                ELSE Fail(r, {"unauthorized"})
    /\ UNCHANGED <<users, opened>>

\* Login: LIMIT 1 takes one of the rows that match, in no stated order.
FindPrincipal(r) ==
    /\ TaskAt(r, "find")
    /\ LET body  == task[r].body
           found == {i \in DOMAIN users : Matches(users[i], body.token)} IN
         \/ found = {} /\ Fail(r, {"unauthorized"})
         \/ \E i \in found :
              IF VerifyPassword(users[i], req[r].who, body.password)
                THEN Proceed(r, [at |-> "session", account |-> i]) /\ UNCHANGED serviceVars
                ELSE Fail(r, {"unauthorized"})
    /\ UNCHANGED <<users, opened>>

\* Mutant: The session is opened for the row inserted last.
OpenSessionForNewest(r) ==
    /\ TaskAt(r, "session")
    /\ Grant(r)
    /\ opened' = [opened EXCEPT ![req'[r].set] = Len(users)]
    /\ Proceed(r, Done(IF req[r].op = "register" THEN 201 ELSE 200, 0))
    /\ UNCHANGED users

\* CreateSession, the second INSERT of a registration.
OpenSession(r) ==
    /\ TaskAt(r, "session")
    /\ Grant(r)
    /\ opened' = [opened EXCEPT ![req'[r].set] = task[r].account]
    /\ Proceed(r, Done(IF req[r].op = "register" THEN 201 ELSE 200, 0))
    /\ UNCHANGED users

Logout(r) ==
    /\ TaskAt(r, "logout")
    /\ Revoke(r)
    /\ Proceed(r, Done(200, 0))
    /\ UNCHANGED <<users, opened>>

\* RequireAuth puts the principal of the session into the context, MeHandler
\* answers it.
Me(r) ==
    /\ TaskAt(r, "me")
    /\ Admit(r)
    /\ Proceed(r, Done(200, opened[req[r].cookie]))
    /\ UNCHANGED <<users, opened>>

\* RequireAuth: no session, or whatever else went wrong in looking it up.
NotMe(r) ==
    /\ TaskAt(r, "me")
    /\ Fail(r, {"unauthorized"})
    /\ UNCHANGED <<users, opened>>

\* A statement fails, the second INSERT of a registration too.
StatementFails(r) ==
    /\ \E step \in {"create", "find", "session", "logout"} : TaskAt(r, step)
    /\ Fail(r, {"sql"})
    /\ UNCHANGED <<users, opened>>

Handle(r) ==
    \/ Undecodable(r) \/ DecodeRegister(r) \/ DecodeLogin(r)
    \/ CreatePrincipal(r) \/ FindPrincipal(r) \/ OpenSession(r)
    \/ Logout(r) \/ Me(r) \/ NotMe(r) \/ StatementFails(r)

Delivered(r) ==
    /\ Receive(r) \/ Lose(r)
    /\ Proceed(r, None)
    /\ UNCHANGED <<users, opened>>

Expire == Withdraw /\ UNCHANGED accountVars

\* The tables are on disk; the handlers are gone.
Crash ==
    /\ Restart
    /\ task' = [r \in Requests |-> None]
    /\ UNCHANGED <<users, opened>>

AccountsNext ==
    \/ \E r \in Requests, p \in Persons, op \in Ops : Submit(r, p, op)
    \/ \E r \in Requests : Handle(r) \/ Delivered(r)
    \/ Expire
    \/ Crash

AccountsSpec == AccountsInit /\ [][AccountsNext]_accountsVars

-----------------------------------------------------------------------------
(***************************************************************************)
(* Properties.                                                             *)
(***************************************************************************)
Account == [owner : Persons, username : Names, email : Addresses, role : UserRoles]
Ids == DOMAIN users

\* Types; the references between the tables hold: every session is opened for
\* an account that exists, and so is every answer (the foreign key user_id).
AccountsTypeOK ==
    /\ req \in [Requests -> Asked \cup Replied \cup {None}]
    /\ granted \subseteq used /\ used \subseteq Tokens
    /\ jar \in [Persons -> used \cup {None}]
    /\ users \in Seq(Account)
    /\ opened \in [Tokens -> Ids \cup {0}]
    /\ \A t \in granted : opened[t] \in Ids
    /\ task \in [Requests -> Task \cup {None}]
    /\ \A r \in Requests :
         /\ task[r] = None <=> req[r] = None
         /\ TaskAt(r, "session") => task[r].account \in Ids
         /\ TaskAt(r, "done") => task[r].principal \in Ids \cup {0}

\* "Return current principal" (docs/features/auth.md): what /auth/me answers to
\* a person is an account of that person, whatever logins, logouts and
\* registrations of others it raced with, whichever of the responses that set
\* cookies were lost or came late, and whatever the tables have in common.
MeIsOwn ==
    \A r \in Requests :
      TaskAt(r, "done") /\ task[r].status = 200 /\ req[r].op = "me" =>
        users[task[r].principal].owner = req[r].who

\* What Validate lets through, bcrypt and the schema accept: a registration
\* gets no 500 but for a name that is taken or a statement that fails
\* (RegisterRequest.Validate, HashPassword, the columns of users).
ValidatedIsStorable ==
    \A r \in Requests :
      TaskAt(r, "create") => Hashable(task[r].body.password) /\ Fits(task[r].body)

\* The person's login with the right password is refused.
Rejected(r) ==
    /\ TaskAt(r, "find") /\ task[r].body.password = "own"
    /\ TaskAt(r, "done")' /\ task'[r].status = 401

Carries(i, token) == token \in {users[i].username, users[i].email}
Owns(p, i, token) == users[i].owner = p /\ Carries(i, token)

\* An account once inserted can be logged in to under each of its names that no
\* other account carries, also when its registration was answered 500, was
\* never answered, or was repeated and refused (Register without a transaction).
KnownCanLogIn ==
    [][\A r \in Requests : Rejected(r) =>
         \A i \in Ids : Owns(req[r].who, i, task[r].body.token) =>
           \E k \in Ids \ {i} : Carries(k, task[r].body.token)]_accountsVars

\* "`Token` is username or email.  Returns 401 on bad credentials" and "username
\* required and not an email address" (docs/features/auth.md): good credentials
\* are never refused.
GoodCredentialsAdmit ==
    [][\A r \in Requests : Rejected(r) =>
         \A i \in Ids : ~Owns(req[r].who, i, task[r].body.token)]_accountsVars
=============================================================================
