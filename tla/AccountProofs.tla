---------------------------- MODULE AccountProofs ----------------------------
(***************************************************************************)
(* Proofs about Accounts, for any persons, names, passwords and roles, and  *)
(* any number of tokens and of requests at a time.                          *)
(***************************************************************************)
EXTENDS Accounts, TLAPS

\* The token names a session that was opened for an account of the person.
OpenedFor(p, t) == t \in used /\ opened[t] \in Ids /\ users[opened[t]].owner = p

\* A request shows, obtains and is answered what is its person's own.
RequestAgrees(r) ==
    /\ At(r, "asked") /\ req[r].cookie # None => OpenedFor(req[r].who, req[r].cookie)
    /\ At(r, "answered") /\ req[r].set # None => OpenedFor(req[r].who, req[r].set)
    /\ TaskAt(r, "session") => users[task[r].account].owner = req[r].who
    /\ TaskAt(r, "done") /\ task[r].status = 200 /\ req[r].op = "me" =>
         task[r].principal \in Ids /\ users[task[r].principal].owner = req[r].who

\* What was opened stays with its owner on every way a token takes.
OwnersAgree ==
    /\ \A t \in used : opened[t] \in Ids
    /\ \A p \in Persons : jar[p] # None => OpenedFor(p, jar[p])
    /\ \A r \in Requests : RequestAgrees(r)

\* What reaches the INSERT has passed Validate.
Validated == \A r \in Requests : TaskAt(r, "create") => ValidRegistration(task[r].body)

AccountsInv == AccountsTypeOK /\ OwnersAgree /\ Validated

-----------------------------------------------------------------------------
(***************************************************************************)
(* The table of accounts only grows, so what was said of its rows stays.    *)
(***************************************************************************)
LEMMA AppendKeeps ==
    ASSUME NEW S, NEW seq \in Seq(S), NEW e \in S
    PROVE  /\ Append(seq, e) \in Seq(S)
           /\ DOMAIN Append(seq, e) = DOMAIN seq \cup {Len(seq) + 1}
           /\ \A i \in DOMAIN seq : Append(seq, e)[i] = seq[i]
           /\ Append(seq, e)[Len(seq) + 1] = e
           /\ Len(seq) + 1 \in Nat /\ Len(seq) + 1 \notin DOMAIN seq
           /\ DOMAIN seq \subseteq Nat
  OBVIOUS

LEMMA IdsAreNumbers ==
    ASSUME AccountsTypeOK
    PROVE  Ids \subseteq Nat /\ Ids \subseteq Nat \ {0} /\ \A i \in Ids : users[i] \in Account
  BY DEF AccountsTypeOK, Ids

Grows ==
    /\ used \subseteq used' /\ Ids \subseteq Ids'
    /\ \A i \in Ids : users'[i] = users[i]
    /\ \A t \in used : opened'[t] = opened[t]

LEMMA OwnersStay ==
    ASSUME Grows, NEW p, NEW t, OpenedFor(p, t)
    PROVE  OpenedFor(p, t)'
  BY DEF Grows, OpenedFor

LEMMA NothingNew ==
    ASSUME UNCHANGED <<used, users, opened>>
    PROVE  Grows
  BY DEF Grows, Ids

\* Nothing is at a step and without a request.
LEMMA TaskHasRequest ==
    ASSUME AccountsTypeOK, NEW r \in Requests, NEW step, TaskAt(r, step)
    PROVE  req[r] # None /\ req[r] \in Asked \cup Replied /\ task[r] \in Task
  BY DEF AccountsTypeOK, TaskAt

LEMMA AskedRequest ==
    ASSUME AccountsTypeOK, NEW r \in Requests, At(r, "asked")
    PROVE  req[r] \in Asked
  BY DEF AccountsTypeOK, At, Asked, Replied

LEMMA RepliedRequest ==
    ASSUME AccountsTypeOK, NEW r \in Requests, At(r, "answered")
    PROVE  req[r] \in Replied
  BY DEF AccountsTypeOK, At, Asked, Replied

LEMMA StatusRange ==
    ASSUME NEW err \in DecodeErrors \cup {{"validation"}, {"unauthorized"}, {"constraint"}, {"sql"}}
    PROVE  /\ Status(err) \in {400, 401, 406, 500}
           /\ Status({"sql"}) = 500
  BY DEF Status, DecodeErrors

-----------------------------------------------------------------------------
(***************************************************************************)
(* The steps, by what they do.                                             *)
(***************************************************************************)
LEMMA InvInit == AccountsInit => AccountsInv
<1> SUFFICES ASSUME AccountsInit
             PROVE  AccountsInv
  OBVIOUS
<1> USE DEF AccountsInit, Init
<1>1. users \in Seq(Account) /\ Ids = {}
  BY DEF Ids
<1>2. AccountsTypeOK
  BY <1>1 DEF AccountsTypeOK, TaskAt
<1>3. OwnersAgree
  BY DEF OwnersAgree, RequestAgrees, At, TaskAt
<1>4. Validated
  BY DEF Validated, TaskAt
<1> QED
  BY <1>2, <1>3, <1>4 DEF AccountsInv

\* A response without a cookie.
LEMMA FailKeeps ==
    ASSUME AccountsInv, NEW r \in Requests,
           NEW err \in DecodeErrors \cup {{"validation"}, {"unauthorized"}, {"constraint"}, {"sql"}},
           Fail(r, err), UNCHANGED <<users, opened>>
    PROVE  AccountsInv'
<1>1. AccountsTypeOK /\ OwnersAgree /\ Validated
  BY DEF AccountsInv
<1> DEFINE reply == [op |-> req[r].op, who |-> req[r].who, at |-> "answered",
                     ok |-> FALSE, set |-> None]
           done == Done(Status(err), 0)
<1>2. /\ req' = [req EXCEPT ![r] = reply] /\ task' = [task EXCEPT ![r] = done]
      /\ UNCHANGED <<granted, used, jar, users, opened>>
  BY DEF Fail, Refuse, Answer, Proceed
<1>3. reply \in Replied /\ reply # None
  <2>1. At(r, "asked")
    BY DEF Fail, Refuse
  <2>2. req[r] \in Asked
    BY <1>1, <2>1, AskedRequest
  <2>3. reply \in Replied
    BY <2>2 DEF Asked, Replied
  <2> QED
    BY <2>3, ServiceAssumption
<1>4. done \in Task /\ done # None /\ done.at = "done" /\ done.principal = 0
        /\ done.status \in {400, 401, 406, 500}
  BY StatusRange, AccountAssumption DEF Done, Task
<1>5. Ids' = Ids
  BY <1>2 DEF Ids
<1> HIDE DEF reply, done
<1>6. AccountsTypeOK'
  BY <1>1, <1>2, <1>3, <1>4, <1>5 DEF AccountsTypeOK, TaskAt
<1>7. OwnersAgree'
  <2>1. reply.set = None /\ reply.at = "answered"
    BY DEF reply
  <2>2. /\ \A s \in Requests \ {r} : req'[s] = req[s] /\ task'[s] = task[s]
        /\ req'[r] = reply /\ task'[r] = done
    BY <1>1, <1>2 DEF AccountsTypeOK
  <2>3. \A p, t : OpenedFor(p, t)' <=> OpenedFor(p, t)
    BY <1>2, <1>5 DEF OpenedFor
  <2> QED
    BY <1>1, <1>2, <1>4, <1>5, <2>1, <2>2, <2>3 DEF OwnersAgree, RequestAgrees, At, TaskAt
<1>8. Validated'
  BY <1>1, <1>2, <1>4 DEF Validated, TaskAt, AccountsTypeOK
<1> QED
  BY <1>6, <1>7, <1>8 DEF AccountsInv

\* A handler goes on to its next step.
LEMMA MoveKeeps ==
    ASSUME AccountsInv, NEW r \in Requests, req[r] # None, NEW next \in Task,
           Proceed(r, next), UNCHANGED serviceVars, UNCHANGED <<users, opened>>,
           next.at \in {"create", "find", "session"},
           next.at = "create" => ValidRegistration(next.body),
           next.at = "session" =>
             next.account \in Ids /\ users[next.account].owner = req[r].who
    PROVE  AccountsInv'
<1>1. AccountsTypeOK /\ OwnersAgree /\ Validated
  BY DEF AccountsInv
<1>2. task' = [task EXCEPT ![r] = next] /\ UNCHANGED <<req, granted, used, jar, users, opened>>
  BY DEF Proceed, serviceVars
<1>3. next # None
  BY AccountAssumption
<1>4. Ids' = Ids
  BY <1>2 DEF Ids
<1>5. AccountsTypeOK'
  BY <1>1, <1>2, <1>3, <1>4 DEF AccountsTypeOK, TaskAt
<1>6. OwnersAgree'
  <2>1. \A s \in Requests \ {r} : task'[s] = task[s]
    BY <1>1, <1>2 DEF AccountsTypeOK
  <2>2. task'[r] = next
    BY <1>1, <1>2 DEF AccountsTypeOK
  <2>3. \A p, t : OpenedFor(p, t)' <=> OpenedFor(p, t)
    BY <1>2, <1>4 DEF OpenedFor
  <2> QED
    BY <1>1, <1>2, <1>4, <2>1, <2>2, <2>3 DEF OwnersAgree, RequestAgrees, At, TaskAt
<1>7. Validated'
  BY <1>1, <1>2 DEF Validated, TaskAt, AccountsTypeOK
<1> QED
  BY <1>5, <1>6, <1>7 DEF AccountsInv

\* A request ends, and its browser keeps a cookie the response set.
LEMMA DeliveredKeeps ==
    ASSUME AccountsInv, NEW r \in Requests, Delivered(r)
    PROVE  AccountsInv'
<1>1. AccountsTypeOK /\ OwnersAgree /\ Validated
  BY DEF AccountsInv
<1>2. /\ At(r, "answered")
      /\ req' = [req EXCEPT ![r] = None] /\ task' = [task EXCEPT ![r] = None]
      /\ jar' = jar \/ (req[r].set # None /\ jar' = [jar EXCEPT ![req[r].who] = req[r].set])
      /\ UNCHANGED <<granted, used, users, opened>>
  BY DEF Delivered, Receive, Lose, Proceed
<1>3. req[r] \in Replied
  BY <1>1, <1>2, RepliedRequest
<1>4. Ids' = Ids
  BY <1>2 DEF Ids
<1>5. req[r].set # None => OpenedFor(req[r].who, req[r].set)
  BY <1>1, <1>2 DEF OwnersAgree, RequestAgrees
<1>6. AccountsTypeOK'
  <2>1. jar' \in [Persons -> used \cup {None}]
    BY <1>1, <1>2, <1>3, <1>5 DEF AccountsTypeOK, Replied, OpenedFor
  <2> QED
    BY <1>1, <1>2, <1>4, <2>1 DEF AccountsTypeOK, TaskAt
<1>7. OwnersAgree'
  <2>1. \A s \in Requests \ {r} : req'[s] = req[s] /\ task'[s] = task[s]
    BY <1>1, <1>2 DEF AccountsTypeOK
  <2>2. req'[r] = None /\ task'[r] = None
    BY <1>1, <1>2 DEF AccountsTypeOK
  <2>3. \A p, t : OpenedFor(p, t)' <=> OpenedFor(p, t)
    BY <1>2, <1>4 DEF OpenedFor
  <2>4. \A p \in Persons : jar'[p] # None => OpenedFor(p, jar'[p])
    BY <1>1, <1>2, <1>3, <1>5 DEF OwnersAgree, AccountsTypeOK
  <2> QED
    BY <1>1, <1>2, <1>4, <2>1, <2>2, <2>3, <2>4 DEF OwnersAgree, RequestAgrees, At, TaskAt
<1>8. Validated'
  BY <1>1, <1>2 DEF Validated, TaskAt, AccountsTypeOK
<1> QED
  BY <1>6, <1>7, <1>8 DEF AccountsInv

-----------------------------------------------------------------------------
(***************************************************************************)
(* The steps that open sessions and insert accounts.                        *)
(***************************************************************************)
\* While tables only grow, the other requests keep what they have.
LEMMA OthersAgree ==
    ASSUME AccountsInv, Grows, jar' = jar, NEW r \in Requests,
           \A s \in Requests \ {r} : req'[s] = req[s] /\ task'[s] = task[s],
           \A t \in used' \ used : opened'[t] \in Ids',
           RequestAgrees(r)'
    PROVE  OwnersAgree'
<1>1. AccountsTypeOK /\ OwnersAgree
  BY DEF AccountsInv
<1>2. \A t \in used' : opened'[t] \in Ids'
  BY <1>1 DEF OwnersAgree, Grows
<1>3. (\A p \in Persons : jar[p] # None => OpenedFor(p, jar[p]))'
  BY <1>1 DEF OwnersAgree, OpenedFor, Grows
<1>4. ASSUME NEW s \in Requests \ {r}
      PROVE  RequestAgrees(s)'
  <2>1. RequestAgrees(s) /\ req'[s] = req[s] /\ task'[s] = task[s]
    BY <1>1, <1>4 DEF OwnersAgree
  <2>2. \A p, t : OpenedFor(p, t) => OpenedFor(p, t)'
    BY OwnersStay
  <2>3. TaskAt(s, "session") => task[s].account \in Ids
    BY <1>1 DEF AccountsTypeOK
  <2> QED
    BY <2>1, <2>2, <2>3 DEF RequestAgrees, At, TaskAt, Grows
<1> QED
  <2>1. (\A t \in used : opened[t] \in Ids)' /\ (\A s \in Requests : RequestAgrees(s))'
    BY <1>2, <1>4
  <2> QED
    BY <1>3, <2>1 DEF OwnersAgree

LEMMA SubmitKeeps ==
    ASSUME AccountsInv, NEW r \in Requests, NEW p \in Persons, NEW op \in Ops, Submit(r, p, op)
    PROVE  AccountsInv'
<1>1. AccountsTypeOK /\ OwnersAgree /\ Validated
  BY DEF AccountsInv
<1> DEFINE new == [op |-> op, who |-> p, cookie |-> Shown(op, jar[p]), at |-> "asked"]
           first == [at |-> FirstStep(op)]
<1>2. /\ req' = [req EXCEPT ![r] = new] /\ task' = [task EXCEPT ![r] = first]
      /\ UNCHANGED <<granted, used, jar, users, opened>>
  BY DEF Submit, Send, Proceed
<1>3. Shown(op, jar[p]) \in {jar[p], None} /\ jar[p] \in Tokens \cup {None}
  BY <1>1 DEF Shown, AccountsTypeOK
<1>4. new \in Asked /\ new # None
  BY <1>3, ServiceAssumption DEF Asked
<1>5. first \in Task /\ first # None /\ first.at \in {"decode", "me", "logout"}
  BY AccountAssumption DEF FirstStep, Task, Ops
<1>6. Ids' = Ids
  BY <1>2 DEF Ids
<1>7. new.who = p /\ new.cookie \in {jar[p], None} /\ new.at = "asked"
  BY <1>3
<1> HIDE DEF new, first
<1>8. AccountsTypeOK'
  BY <1>1, <1>2, <1>4, <1>5, <1>6 DEF AccountsTypeOK, TaskAt
<1>9. OwnersAgree'
  <2>1. req'[r] = new /\ task'[r] = first
    BY <1>1, <1>2 DEF AccountsTypeOK
  <2>2. jar[p] # None => OpenedFor(p, jar[p])'
    BY <1>1, <1>2, NothingNew, OwnersStay DEF OwnersAgree
  <2>3. RequestAgrees(r)'
    <3>1. jar[p] # None =>
            jar[p] \in used' /\ opened'[jar[p]] \in Ids' /\ users'[opened'[jar[p]]].owner = p
      BY <1>2, <2>2 DEF OpenedFor
    <3>2. (At(r, "asked") /\ req[r].cookie # None => OpenedFor(req[r].who, req[r].cookie))'
      BY <2>1, <3>1, <1>7 DEF At, OpenedFor
    <3>3. ~At(r, "answered")' /\ ~TaskAt(r, "session")' /\ ~TaskAt(r, "done")'
      BY <2>1, <1>5, <1>7 DEF At, TaskAt
    <3> QED
      BY <3>2, <3>3 DEF RequestAgrees
  <2>4. \A s \in Requests \ {r} : req'[s] = req[s] /\ task'[s] = task[s]
    BY <1>1, <1>2 DEF AccountsTypeOK
  <2> QED
    BY <1>2, <2>3, <2>4, NothingNew, OthersAgree
<1>10. Validated'
  BY <1>1, <1>2, <1>5 DEF Validated, TaskAt, AccountsTypeOK
<1> QED
  BY <1>8, <1>9, <1>10 DEF AccountsInv

\* The row that CreatePrincipal inserts.
LEMMA InsertKeeps ==
    ASSUME AccountsInv, NEW r \in Requests, TaskAt(r, "create"),
           users' = Append(users, [owner |-> req[r].who, username |-> task[r].body.username,
                                   email |-> task[r].body.email, role |-> task[r].body.role]),
           Proceed(r, [at |-> "session", account |-> Len(users) + 1]),
           UNCHANGED serviceVars, UNCHANGED opened
    PROVE  AccountsInv'
<1>1. AccountsTypeOK /\ OwnersAgree /\ Validated
  BY DEF AccountsInv
<1> DEFINE body == task[r].body
           row == [owner |-> req[r].who, username |-> body.username,
                   email |-> body.email, role |-> body.role]
           next == [at |-> "session", account |-> Len(users) + 1]
<1>2. ValidRegistration(body) /\ body \in RegisterRequest
  BY <1>1, TaskHasRequest DEF Validated, Task, TaskAt
<1>3. row \in Account /\ row.owner = req[r].who
  <2>1. req[r].who \in Persons
    BY <1>1, TaskHasRequest DEF Asked, Replied
  <2>2. body.username \in Names /\ body.email \in Addresses /\ body.role \in UserRoles
    BY <1>2 DEF ValidRegistration, RegisterRequest, Required, Email
  <2> QED
    BY <2>1, <2>2 DEF Account
<1> HIDE DEF row, body
<1>4. /\ users' = Append(users, row) /\ task' = [task EXCEPT ![r] = next]
      /\ UNCHANGED <<req, granted, used, jar, opened>>
  BY DEF row, body, Proceed, serviceVars
<1>5. /\ users' \in Seq(Account) /\ Ids' = Ids \cup {Len(users) + 1}
      /\ \A i \in Ids : users'[i] = users[i]
      /\ users'[Len(users) + 1] = row
      /\ Len(users) + 1 \in Nat
  BY <1>1, <1>3, <1>4, AppendKeeps DEF AccountsTypeOK, Ids
<1>6. next \in Task /\ next # None /\ next.at = "session" /\ next.account = Len(users) + 1
  BY <1>5, AccountAssumption DEF Task
<1> HIDE DEF next
<1>7. AccountsTypeOK'
  BY <1>1, <1>4, <1>5, <1>6 DEF AccountsTypeOK, TaskAt
<1>8. OwnersAgree'
  <2>1. Grows
    BY <1>4, <1>5 DEF Grows
  <2>2. task'[r] = next /\ req'[r] = req[r]
    BY <1>1, <1>4 DEF AccountsTypeOK
  <2>3. RequestAgrees(r)
    BY <1>1 DEF OwnersAgree
  <2>4. \A p, t : OpenedFor(p, t) => OpenedFor(p, t)'
    BY <2>1, OwnersStay
  <2>5. RequestAgrees(r)'
    BY <1>3, <1>5, <1>6, <2>2, <2>3, <2>4 DEF RequestAgrees, At, TaskAt
  <2>6. \A s \in Requests \ {r} : req'[s] = req[s] /\ task'[s] = task[s]
    BY <1>1, <1>4 DEF AccountsTypeOK
  <2> QED
    BY <1>4, <2>1, <2>5, <2>6, OthersAgree
<1>9. Validated'
  BY <1>1, <1>4, <1>6 DEF Validated, TaskAt, AccountsTypeOK
<1> QED
  BY <1>7, <1>8, <1>9 DEF AccountsInv

\* A session is opened for the account the handler has in hand.
LEMMA OpenKeeps ==
    ASSUME AccountsInv, NEW r \in Requests, OpenSession(r)
    PROVE  AccountsInv'
<1>1. AccountsTypeOK /\ OwnersAgree /\ Validated
  BY DEF AccountsInv
<1>2. PICK t \in Tokens \ used :
        used' = used \cup {t} /\ granted' = granted \cup {t} /\ Answer(r, TRUE, t)
  BY DEF OpenSession, Grant
<1> DEFINE reply == [op |-> req[r].op, who |-> req[r].who, at |-> "answered",
                     ok |-> TRUE, set |-> t]
           done == Done(IF req[r].op = "register" THEN 201 ELSE 200, 0)
           account == task[r].account
<1>3. /\ TaskAt(r, "session") /\ At(r, "asked") /\ req[r].op \in {"login", "register"}
      /\ req' = [req EXCEPT ![r] = reply] /\ task' = [task EXCEPT ![r] = done]
      /\ opened' = [opened EXCEPT ![req'[r].set] = account]
      /\ UNCHANGED <<jar, users>>
  BY <1>2 DEF OpenSession, Grant, Answer, Proceed
<1>4. reply \in Replied /\ reply # None
  <2>1. req[r] \in Asked
    BY <1>1, <1>3, AskedRequest
  <2>2. reply \in Replied
    BY <2>1 DEF Asked, Replied
  <2> QED
    BY <2>2, ServiceAssumption
<1>5. done \in Task /\ done # None /\ done.at = "done" /\ done.principal = 0
  BY AccountAssumption DEF Done, Task
<1>6. /\ reply.set = t /\ reply.at = "answered" /\ reply.op \in {"login", "register"}
      /\ reply.who = req[r].who
  BY <1>3
<1> HIDE DEF reply, done
<1>7. req'[r] = reply /\ task'[r] = done
  BY <1>1, <1>3 DEF AccountsTypeOK
<1>8. Ids' = Ids /\ account \in Ids /\ users[account].owner = req[r].who
  BY <1>1, <1>3 DEF Ids, AccountsTypeOK, OwnersAgree, RequestAgrees
<1>9. opened' = [opened EXCEPT ![t] = account] /\ opened \in [Tokens -> Ids \cup {0}]
  BY <1>1, <1>3, <1>6, <1>7 DEF AccountsTypeOK
<1> HIDE DEF account
<1>10. opened'[t] = account /\ \A u \in used : opened'[u] = opened[u]
  BY <1>1, <1>9 DEF AccountsTypeOK
<1>11. AccountsTypeOK'
  <2>1. opened' \in [Tokens -> Ids \cup {0}]
    BY <1>8, <1>9
  <2>2. \A u \in granted' : opened'[u] \in Ids
    BY <1>1, <1>2, <1>8, <1>10 DEF AccountsTypeOK
  <2> QED
    BY <1>1, <1>2, <1>3, <1>4, <1>5, <1>8, <2>1, <2>2 DEF AccountsTypeOK, TaskAt
<1>12. OwnersAgree'
  <2>1. Grows
    BY <1>2, <1>3, <1>8, <1>10 DEF Grows
  <2>2. RequestAgrees(r)'
    BY <1>2, <1>3, <1>5, <1>6, <1>7, <1>8, <1>10 DEF RequestAgrees, OpenedFor, At, TaskAt
  <2>3. \A s \in Requests \ {r} : req'[s] = req[s] /\ task'[s] = task[s]
    BY <1>1, <1>3 DEF AccountsTypeOK
  <2>4. \A u \in used' \ used : opened'[u] \in Ids'
    BY <1>2, <1>8, <1>10
  <2> QED
    BY <1>3, <2>1, <2>2, <2>3, <2>4, OthersAgree
<1>13. Validated'
  BY <1>1, <1>3, <1>5 DEF Validated, TaskAt, AccountsTypeOK
<1> QED
  BY <1>11, <1>12, <1>13 DEF AccountsInv

\* Logout and Me: a session is taken away, or its principal is answered.
LEMMA AnswerKeeps ==
    ASSUME AccountsInv, NEW r \in Requests, Logout(r) \/ Me(r)
    PROVE  AccountsInv'
<1>1. AccountsTypeOK /\ OwnersAgree /\ Validated
  BY DEF AccountsInv
<1> DEFINE reply == [op |-> req[r].op, who |-> req[r].who, at |-> "answered",
                     ok |-> TRUE, set |-> None]
           answer == IF Me(r) THEN opened[req[r].cookie] ELSE 0
           done == Done(200, answer)
<1>2. At(r, "asked") /\ (req[r].op = "me" <=> Me(r))
  BY DEF Logout, Me, Revoke, Admit
<1>3. /\ req' = [req EXCEPT ![r] = reply] /\ task' = [task EXCEPT ![r] = done]
      /\ granted' \subseteq granted /\ UNCHANGED <<used, jar, users, opened>>
  BY <1>2 DEF Logout, Me, Revoke, Admit, Answer, Proceed
<1>4. reply \in Replied /\ reply # None
  <2>1. req[r] \in Asked
    BY <1>1, <1>2, AskedRequest
  <2>2. reply \in Replied
    BY <2>1 DEF Asked, Replied
  <2> QED
    BY <2>2, ServiceAssumption
<1>5. Me(r) => answer \in Ids /\ users[answer].owner = req[r].who
  <2>1. Me(r) => req[r].cookie \in granted /\ req[r].cookie \in Tokens
    BY <1>1 DEF Me, Admit, AccountsTypeOK
  <2>2. Me(r) => OpenedFor(req[r].who, req[r].cookie)
    BY <1>1, <1>2, <2>1, ServiceAssumption DEF OwnersAgree, RequestAgrees
  <2> QED
    BY <2>2 DEF OpenedFor
<1>6. answer \in Ids \cup {0} /\ answer \in Nat
  BY <1>1, <1>5, IdsAreNumbers
<1>7. Ids' = Ids
  BY <1>3 DEF Ids
<1> HIDE DEF answer
<1>8. done \in Task /\ done # None /\ done.at = "done" /\ done.principal = answer
  BY <1>6, AccountAssumption DEF Done, Task
<1>9. reply.set = None /\ reply.at = "answered" /\ reply.op = req[r].op /\ reply.who = req[r].who
  OBVIOUS
<1> HIDE DEF reply, done
<1>10. req'[r] = reply /\ task'[r] = done
  BY <1>1, <1>3 DEF AccountsTypeOK
<1>11. AccountsTypeOK'
  BY <1>1, <1>3, <1>4, <1>6, <1>7, <1>8 DEF AccountsTypeOK, TaskAt
<1>12. OwnersAgree'
  <2>1. RequestAgrees(r)'
    BY <1>2, <1>3, <1>5, <1>7, <1>8, <1>9, <1>10 DEF RequestAgrees, At, TaskAt
  <2>2. \A s \in Requests \ {r} : req'[s] = req[s] /\ task'[s] = task[s]
    BY <1>1, <1>3 DEF AccountsTypeOK
  <2> QED
    BY <1>3, <2>1, <2>2, NothingNew, OthersAgree
<1>13. Validated'
  BY <1>1, <1>3, <1>8 DEF Validated, TaskAt, AccountsTypeOK
<1> QED
  BY <1>11, <1>12, <1>13 DEF AccountsInv

\* Sessions are withdrawn, the process restarts, or nothing happens.
LEMMA RestKeeps ==
    ASSUME AccountsInv, Expire \/ Crash \/ UNCHANGED accountsVars
    PROVE  AccountsInv'
<1>1. AccountsTypeOK /\ OwnersAgree /\ Validated
  BY DEF AccountsInv
<1>2. /\ granted' \subseteq granted /\ UNCHANGED <<used, jar, users, opened>>
      /\ \/ UNCHANGED <<req, task>>
         \/ req' = [r \in Requests |-> None] /\ task' = [r \in Requests |-> None]
  BY DEF Expire, Withdraw, Crash, Restart, accountVars, accountsVars, serviceVars
<1>3. Ids' = Ids
  BY <1>2 DEF Ids
<1>4. CASE UNCHANGED <<req, task>>
  BY <1>1, <1>2, <1>3, <1>4
  DEF AccountsInv, AccountsTypeOK, OwnersAgree, RequestAgrees, OpenedFor, Validated, At, TaskAt
<1>5. CASE req' = [r \in Requests |-> None] /\ task' = [r \in Requests |-> None]
  BY <1>1, <1>2, <1>3, <1>5
  DEF AccountsInv, AccountsTypeOK, OwnersAgree, RequestAgrees, OpenedFor, Validated, At, TaskAt
<1> QED
  BY <1>2, <1>4, <1>5

-----------------------------------------------------------------------------
(***************************************************************************)
(* The handlers, and the invariant.                                        *)
(***************************************************************************)
LEMMA DecodeKeeps ==
    ASSUME AccountsInv, NEW r \in Requests, DecodeRegister(r) \/ DecodeLogin(r)
    PROVE  AccountsInv'
<1>1. req[r] # None /\ UNCHANGED <<users, opened>>
  BY TaskHasRequest DEF AccountsInv, DecodeRegister, DecodeLogin
<1>2. ASSUME Fail(r, {"validation"})
      PROVE  AccountsInv'
  BY <1>1, <1>2, FailKeeps
<1>3. ASSUME NEW body \in RegisterRequest, ValidRegistration(body), UNCHANGED serviceVars,
             Proceed(r, [at |-> "create", body |-> body])
      PROVE  AccountsInv'
  <2>1. [at |-> "create", body |-> body] \in Task
    BY DEF Task
  <2> QED
    BY <1>1, <1>3, <2>1, MoveKeeps
<1>4. ASSUME NEW body \in LoginRequest, UNCHANGED serviceVars,
             Proceed(r, [at |-> "find", body |-> body])
      PROVE  AccountsInv'
  <2>1. [at |-> "find", body |-> body] \in Task
    BY DEF Task
  <2> QED
    BY <1>1, <1>4, <2>1, MoveKeeps
<1> QED
  BY <1>2, <1>3, <1>4 DEF DecodeRegister, DecodeLogin

LEMMA CreateKeeps ==
    ASSUME AccountsInv, NEW r \in Requests, CreatePrincipal(r)
    PROVE  AccountsInv'
<1>1. CASE Fail(r, {"constraint"}) /\ UNCHANGED users
  BY <1>1, FailKeeps DEF CreatePrincipal
<1>2. CASE ~(Fail(r, {"constraint"}) /\ UNCHANGED users)
  BY <1>2, InsertKeeps DEF CreatePrincipal
<1> QED
  BY <1>1, <1>2

LEMMA FindKeeps ==
    ASSUME AccountsInv, NEW r \in Requests, FindPrincipal(r)
    PROVE  AccountsInv'
<1>1. req[r] # None /\ UNCHANGED <<users, opened>>
  BY TaskHasRequest DEF AccountsInv, FindPrincipal
<1>2. CASE Fail(r, {"unauthorized"})
  BY <1>1, <1>2, FailKeeps
<1>3. CASE ~Fail(r, {"unauthorized"})
  <2>1. PICK i \in Ids : /\ users[i].owner = req[r].who
                         /\ Proceed(r, [at |-> "session", account |-> i])
                         /\ UNCHANGED serviceVars
    BY <1>3 DEF FindPrincipal, VerifyPassword, Ids
  <2>2. [at |-> "session", account |-> i] \in Task
    BY IdsAreNumbers DEF AccountsInv, Task
  <2> QED
    BY <1>1, <2>1, <2>2, MoveKeeps
<1> QED
  BY <1>2, <1>3

LEMMA HandleKeeps ==
    ASSUME AccountsInv, NEW r \in Requests, Handle(r)
    PROVE  AccountsInv'
<1>1. CASE Undecodable(r) \/ NotMe(r) \/ StatementFails(r)
  <2>1. PICK err \in DecodeErrors \cup {{"validation"}, {"unauthorized"}, {"constraint"}, {"sql"}} :
          Fail(r, err)
    BY <1>1 DEF Undecodable, NotMe, StatementFails
  <2> QED
    BY <1>1, <2>1, FailKeeps DEF Undecodable, NotMe, StatementFails
<1> QED
  BY <1>1, DecodeKeeps, CreateKeeps, FindKeeps, OpenKeeps, AnswerKeeps DEF Handle

LEMMA InvStep == AccountsInv /\ [AccountsNext]_accountsVars => AccountsInv'
<1> SUFFICES ASSUME AccountsInv, [AccountsNext]_accountsVars
             PROVE  AccountsInv'
  OBVIOUS
<1>1. ASSUME NEW r \in Requests, NEW p \in Persons, NEW op \in Ops, Submit(r, p, op)
      PROVE  AccountsInv'
  BY <1>1, SubmitKeeps
<1>2. ASSUME NEW r \in Requests, Handle(r) \/ Delivered(r)
      PROVE  AccountsInv'
  BY <1>2, HandleKeeps, DeliveredKeeps
<1> QED
  BY <1>1, <1>2, RestKeeps DEF AccountsNext

LEMMA InvAlways == AccountsSpec => []AccountsInv
  BY InvInit, InvStep, PTL DEF AccountsSpec

\* The references between the tables hold in every interleaving of
\* registrations, logins, failures and restarts (schema of users and sessions).
THEOREM AccountsTypeTheorem == AccountsSpec => []AccountsTypeOK
  BY InvAlways, PTL DEF AccountsInv

\* Nobody is answered another person's principal, whoever registers under
\* whatever names (RequireAuth, MeHandler, Login, Register).
THEOREM OwnTheorem == AccountsSpec => []MeIsOwn
<1>1. AccountsInv => MeIsOwn
  BY DEF AccountsInv, OwnersAgree, RequestAgrees, MeIsOwn
<1> QED
  BY <1>1, InvAlways, PTL

\* For any lengths, kinds and roles put in, what passes Validate is accepted by
\* bcrypt and the columns (RegisterRequest.Validate).
THEOREM StorableTheorem == AccountsSpec => []ValidatedIsStorable
<1>1. AccountsInv => ValidatedIsStorable
  <2> SUFFICES ASSUME AccountsInv, NEW r \in Requests, TaskAt(r, "create")
               PROVE  Hashable(task[r].body.password) /\ Fits(task[r].body)
    BY DEF ValidatedIsStorable
  <2> DEFINE body == task[r].body
  <2>1. ValidRegistration(body)
    BY DEF AccountsInv, Validated
  <2> HIDE DEF body
  <2>2. body.username # None /\ body.email # None /\ body.role \in UserRoles
    BY <2>1, AccountAssumption DEF ValidRegistration, Required
  <2>3. body.password.bytes <= 72
    BY <2>1 DEF ValidRegistration, Password
  <2>4. Hashable(body.password) /\ Fits(body)
    BY <2>2, <2>3 DEF Hashable, Fits, UserRoles
  <2> QED
    BY <2>4 DEF body
<1> QED
  BY <1>1, InvAlways, PTL

\* Only the look-up turns a login with the right password into a 401.
LEMMA RejectedByFind ==
    ASSUME AccountsInv, [AccountsNext]_accountsVars, NEW r \in Requests, Rejected(r)
    PROVE  FindPrincipal(r) /\ Fail(r, {"unauthorized"})
<1>1. AccountsTypeOK
  BY DEF AccountsInv
<1>2. /\ task[r] # None /\ task[r].at = "find"
      /\ task'[r] # None /\ task'[r].at = "done" /\ task'[r].status = 401
  BY DEF Rejected, TaskAt
<1>3. req[r] # None
  BY <1>1, <1>2 DEF AccountsTypeOK
<1>4. ASSUME NEW s \in Requests, NEW next, Proceed(s, next)
      PROVE  s = r /\ next = task'[r]
  BY <1>1, <1>2, <1>4 DEF Proceed, AccountsTypeOK
<1>5. ASSUME NEW s \in Requests, NEW p \in Persons, NEW op \in Ops, Submit(s, p, op)
      PROVE  FALSE
  BY <1>3, <1>4, <1>5 DEF Submit, Send
<1>6. ASSUME NEW s \in Requests, Delivered(s)
      PROVE  FALSE
  BY <1>2, <1>4, <1>6 DEF Delivered
<1>7. ~(Expire \/ Crash \/ UNCHANGED accountsVars)
  BY <1>2 DEF Expire, Crash, accountVars, accountsVars
<1>8. PICK s \in Requests : Handle(s)
  BY <1>5, <1>6, <1>7 DEF AccountsNext
<1>9. s = r
  BY <1>4, <1>8 DEF Handle, Undecodable, DecodeRegister, DecodeLogin, CreatePrincipal,
       FindPrincipal, OpenSession, Logout, Me, NotMe, StatementFails, Fail
<1>10. ~StatementFails(r)
  BY <1>2, <1>4, StatusRange DEF StatementFails, Fail, Done
<1>11. FindPrincipal(r)
  BY <1>2, <1>8, <1>9, <1>10 DEF Handle, Undecodable, DecodeRegister, DecodeLogin,
       CreatePrincipal, OpenSession, Logout, Me, NotMe, TaskAt
<1>12. \A i : ~Proceed(r, [at |-> "session", account |-> i])
  BY <1>2, <1>4
<1> QED
  BY <1>11, <1>12 DEF FindPrincipal

\* An account can be logged in to under every name that is its own alone, also
\* after a registration that failed half-way (Register, Login).
THEOREM LoginTheorem == AccountsSpec => KnownCanLogIn
<1>1. ASSUME AccountsInv, [AccountsNext]_accountsVars, NEW r \in Requests, Rejected(r),
             NEW i \in Ids, Owns(req[r].who, i, task[r].body.token)
      PROVE  \E k \in Ids \ {i} : Carries(k, task[r].body.token)
  <2> DEFINE token == task[r].body.token
  <2>1. FindPrincipal(r) /\ Fail(r, {"unauthorized"}) /\ task[r].body.password = "own"
    BY <1>1, RejectedByFind DEF Rejected
  <2>2. i \in {k \in DOMAIN users : Matches(users[k], token)}
    BY <1>1 DEF Owns, Carries, Matches, Ids
  <2>3. UNCHANGED serviceVars => FALSE
    BY <1>1, <2>1, AskedRequest DEF AccountsInv, AccountsTypeOK, Fail, Refuse, Answer, At,
         Asked, serviceVars
  <2>4. PICK k \in Ids : Matches(users[k], token)
                           /\ ~VerifyPassword(users[k], req[r].who, task[r].body.password)
    BY <2>1, <2>2, <2>3 DEF FindPrincipal, Ids
  <2>5. users[k].owner # req[r].who
    BY <2>1, <2>4 DEF VerifyPassword
  <2>6. k # i
    BY <1>1, <2>5 DEF Owns
  <2> QED
    BY <2>4, <2>6 DEF Matches, Carries
<1>2. AccountsInv /\ [AccountsNext]_accountsVars =>
        [\A r \in Requests : Rejected(r) =>
           \A i \in Ids : Owns(req[r].who, i, task[r].body.token) =>
             \E k \in Ids \ {i} : Carries(k, task[r].body.token)]_accountsVars
  BY <1>1
<1> QED
  BY <1>2, InvAlways, PTL DEF AccountsSpec, KnownCanLogIn

-----------------------------------------------------------------------------
(***************************************************************************)
(* The pipeline of the handlers on top of the promise.                     *)
(***************************************************************************)

\* Each step of a handler is a step of the promise or invisible to it.
LEMMA HandleIsServed ==
    ASSUME NEW r \in Requests, Handle(r)
    PROVE  Serve(r) \/ UNCHANGED serviceVars
<1>1. (\E err : Fail(r, err)) => Serve(r)
  BY DEF Fail, Serve
<1>2. CASE Undecodable(r) \/ DecodeRegister(r) \/ DecodeLogin(r)
  BY <1>1, <1>2 DEF Undecodable, DecodeRegister, DecodeLogin
<1>3. CASE CreatePrincipal(r) \/ FindPrincipal(r)
  BY <1>1, <1>3 DEF CreatePrincipal, FindPrincipal
<1>4. CASE OpenSession(r) \/ Logout(r) \/ Me(r)
  BY <1>4 DEF OpenSession, Logout, Me, Serve
<1>5. CASE NotMe(r) \/ StatementFails(r)
  BY <1>1, <1>5 DEF NotMe, StatementFails
<1> QED
  BY <1>2, <1>3, <1>4, <1>5 DEF Handle

\* The handlers keep the promise of SessionService, decoding, hashing, the
\* look-up and every error included: whatever is proved of a session there holds
\* for the accounts (httpbind, auth.service).
THEOREM AccountsKeepService == AccountsSpec => Spec
<1>1. AccountsInit => Init
  BY DEF AccountsInit
<1>2. [AccountsNext]_accountsVars => [Next]_serviceVars
  <2>1. ASSUME NEW r \in Requests, NEW p \in Persons, NEW op \in Ops, Submit(r, p, op)
        PROVE  Next
    BY <2>1 DEF Submit, Next
  <2>2. ASSUME NEW r \in Requests, Handle(r) \/ Delivered(r)
        PROVE  [Next]_serviceVars
    BY <2>2, HandleIsServed DEF Delivered, Next
  <2>3. Expire \/ Crash => Next
    BY DEF Expire, Crash, Next
  <2>4. UNCHANGED accountsVars => UNCHANGED serviceVars
    BY DEF accountsVars
  <2> QED
    BY <2>1, <2>2, <2>3, <2>4 DEF AccountsNext
<1> QED
  BY <1>1, <1>2, PTL DEF AccountsSpec, Spec
=============================================================================
