----------------------------- MODULE ClientProofs -----------------------------
(***************************************************************************)
(* The safety of the web client, for every set of tabs, browsers, persons,  *)
(* tokens and requests: what a tab knows of its session after a sign-out,   *)
(* and which answers may enter its cache.                                   *)
(***************************************************************************)
EXTENDS Client, TLAPS

(***************************************************************************)
(* The inductive invariant.                                                *)
(***************************************************************************)

\* A request names tokens that have been drawn, and only a successful sign-in
\* sets a cookie.
RequestsNameUsed ==
    \A r \in Requests :
      /\ At(r, "asked") => req[r].cookie \in used \cup {None}
      /\ At(r, "answered") => /\ req[r].set \in used \cup {None}
                              /\ req[r].set # None <=> req[r].ok /\ req[r].op \in Forms

\* The request under a call is the call's own, from the browser of its tab.
CallsAreTheirs ==
    \A r \in Requests :
      call[r] # None /\ req[r] # None =>
        req[r].op = call[r].op /\ req[r].who = BrowserOf[call[r].tab]

\* Every mutation that would make an awaited fetch out of date has cancelled it.
FetchesAreCurrent ==
    \A r \in Requests : call[r] # None /\ call[r].op = "me" => ~call[r].overtaken

\* The cookie of a browser names no session once one of its sign-outs has been
\* answered, unless a cookie has come in since the sign-out was asked for.
SignoutsRevoke ==
    \A r \in Requests :
      LET cookie == jar[BrowserOf[call[r].tab]] IN
      call[r] # None /\ call[r].op = "logout" /\ ~call[r].overtaken =>
        /\ At(r, "asked") => req[r].cookie = cookie
        /\ At(r, "answered") /\ req[r].ok => cookie \notin granted

\* While a tab is signed out its browser's cookie names no session, and no fetch
\* it awaits can be answered with a principal.
SignedOutHasNoSession ==
    \A b \in Tabs :
      signedOut[b] =>
        /\ jar[BrowserOf[b]] \notin granted
        /\ \A r \in Calls(b, "me") : /\ At(r, "asked") => req[r].cookie \notin granted
                                     /\ At(r, "answered") => ~req[r].ok

\* A login and a sign-out leave no entry, and no answer that is out of date comes in.
NothingOutdated == outdated = {}

ClientInv ==
    /\ ClientTypeOK
    /\ RequestsNameUsed
    /\ CallsAreTheirs
    /\ FetchesAreCurrent
    /\ SignoutsRevoke
    /\ SignedOutHasNoSession
    /\ SignedOutStaysOut
    /\ NothingOutdated

(***************************************************************************)
(* The server takes part only as SessionService promises.                  *)
(***************************************************************************)

LEMMA AnswerIsReceived ==
    ASSUME NEW r \in Requests,
           FetchAnswered(r) \/ LoginAnswered(r) \/ RegisterAnswered(r) \/ SignoutAnswered(r)
    PROVE  Receive(r)
  BY DEF FetchAnswered, LoginAnswered, RegisterAnswered, SignoutAnswered, Reply

LEMMA NextIsServed ==
    ASSUME ClientTypeOK, ClientNext
    PROVE  [Next]_serviceVars
<1>1. ASSUME NEW b \in Tabs, NEW op \in Ops, NEW r \in Requests, Request(b, op, r)
      PROVE  [Next]_serviceVars
  BY <1>1, ClientAssumption DEF Request, Next
<1>2. ASSUME NEW b \in Tabs, Route(b) \/ Preload(b) \/ Collect(b) \/ Signout(b)
      PROVE  [Next]_serviceVars
  BY <1>1, <1>2 DEF Route, Query, Decide, Preload, Collect, Signout, Ops
<1>3. ASSUME NEW b \in Tabs, NEW route \in Routes, Navigate(b, route) \/ Reload(b, route)
      PROVE  [Next]_serviceVars
  BY <1>3 DEF Navigate, Reload
<1>4. ASSUME NEW b \in Tabs, NEW form \in Forms, Submit(b, form)
      PROVE  [Next]_serviceVars
  BY <1>1, <1>4 DEF Submit, Forms, Ops
<1>5. ASSUME NEW r \in Requests, Respond(r)
      PROVE  [Next]_serviceVars
  BY <1>5, AnswerIsReceived DEF Respond, NoAnswer, Unawaited, Next
<1>6. ASSUME NEW r \in Requests, Server(Serve(r))
      PROVE  [Next]_serviceVars
  BY <1>6 DEF Server, Next
<1>7. CASE Server(Withdraw) \/ Server(Restart)
  BY <1>7 DEF Server, Next
<1> QED
  BY <1>2, <1>3, <1>4, <1>5, <1>6, <1>7 DEF ClientNext

(***************************************************************************)
(* The service's part of the invariant.                                    *)
(***************************************************************************)

ServiceTypes ==
    /\ req \in [Requests -> Asked \cup Replied \cup {None}]
    /\ granted \subseteq used /\ used \subseteq Tokens
    /\ jar \in [Persons -> used \cup {None}]

ServiceInv == ServiceTypes /\ RequestsNameUsed

\* What a request is, by how far it is.
LEMMA AskedRequest ==
    ASSUME ServiceInv, NEW r \in Requests, At(r, "asked")
    PROVE  req[r] \in Asked /\ req[r].cookie \in used \cup {None}
  BY DEF ServiceInv, ServiceTypes, RequestsNameUsed, At, Replied

LEMMA AnsweredRequest ==
    ASSUME ServiceInv, NEW r \in Requests, At(r, "answered")
    PROVE  /\ req[r] \in Replied
           /\ req[r].set \in used \cup {None}
           /\ req[r].set # None <=> req[r].ok /\ req[r].op \in Forms
  BY DEF ServiceInv, ServiceTypes, RequestsNameUsed, At, Asked

\* Answering a request with a cookie only if it is a sign-in.
LEMMA AnswerServed ==
    ASSUME ServiceInv, NEW r \in Requests, At(r, "asked"),
           NEW ok \in BOOLEAN, NEW cookie \in used' \cup {None}, Answer(r, ok, cookie),
           cookie # None <=> ok /\ req[r].op \in Forms,
           used \subseteq used', used' \subseteq Tokens, granted' \subseteq used',
           UNCHANGED jar
    PROVE  ServiceInv'
<1> DEFINE reply == [op |-> req[r].op, who |-> req[r].who, at |-> "answered",
                     ok |-> ok, set |-> cookie]
<1>1. reply \in Replied
  BY AskedRequest DEF Asked, Replied
<1>2. req' = [req EXCEPT ![r] = reply]
  BY DEF Answer
<1>3. /\ reply.at = "answered" /\ reply.set = cookie /\ reply.ok = ok
      /\ reply.op = req[r].op
  OBVIOUS
<1> HIDE DEF reply
<1>4. ServiceTypes'
  BY <1>1, <1>2 DEF ServiceInv, ServiceTypes
<1>5. RequestsNameUsed'
  BY <1>2, <1>3 DEF ServiceInv, ServiceTypes, RequestsNameUsed, At
<1> QED
  BY <1>4, <1>5 DEF ServiceInv

LEMMA SendServed ==
    ASSUME ServiceInv, NEW r \in Requests, NEW p \in Persons, NEW op \in Ops, Send(r, p, op)
    PROVE  ServiceInv'
<1> DEFINE asked == [op |-> op, who |-> p, cookie |-> Shown(op, jar[p]), at |-> "asked"]
<1>1. asked \in Asked /\ asked.cookie \in used \cup {None}
  BY DEF ServiceInv, ServiceTypes, Shown, Asked
<1>2. req' = [req EXCEPT ![r] = asked] /\ asked.at = "asked"
  BY DEF Send
<1> HIDE DEF asked
<1>3. ServiceTypes'
  BY <1>1, <1>2 DEF ServiceInv, ServiceTypes, Send
<1>4. RequestsNameUsed'
  BY <1>1, <1>2 DEF ServiceInv, ServiceTypes, RequestsNameUsed, At, Send
<1> QED
  BY <1>3, <1>4 DEF ServiceInv

LEMMA NextServed ==
    ASSUME ServiceInv, [Next]_serviceVars
    PROVE  ServiceInv'
<1>1. ASSUME NEW r \in Requests, Grant(r)
      PROVE  ServiceInv'
  <2>1. PICK t \in Tokens \ used : /\ used' = used \cup {t} /\ granted' = granted \cup {t}
                                   /\ Answer(r, TRUE, t)
    BY <1>1 DEF Grant
  <2> QED
    BY <1>1, <2>1, AnswerServed, ServiceAssumption DEF Grant, ServiceInv, ServiceTypes, Forms
<1>2. ASSUME NEW r \in Requests, Revoke(r)
      PROVE  ServiceInv'
  BY <1>2, AnswerServed DEF Revoke, ServiceInv, ServiceTypes, Forms
<1>3. ASSUME NEW r \in Requests, Admit(r) \/ Refuse(r)
      PROVE  ServiceInv'
  BY <1>3, AnswerServed DEF Admit, Refuse, ServiceInv, ServiceTypes, Forms
<1>4. ASSUME NEW r \in Requests, Receive(r) \/ Lose(r)
      PROVE  ServiceInv'
  <2>1. req' = [req EXCEPT ![r] = None] /\ UNCHANGED <<granted, used>>
    BY <1>4 DEF Receive, Lose
  <2>2. jar' \in [Persons -> used \cup {None}]
    BY <1>4, AnsweredRequest DEF Receive, Lose, ServiceInv, ServiceTypes, Replied
  <2> QED
    BY <2>1, <2>2 DEF ServiceInv, ServiceTypes, RequestsNameUsed, At
<1>5. CASE Withdraw
  BY <1>5 DEF Withdraw, ServiceInv, ServiceTypes, RequestsNameUsed, At
<1>6. CASE Restart
  BY <1>6 DEF Restart, ServiceInv, ServiceTypes, RequestsNameUsed, At
<1>7. CASE UNCHANGED serviceVars
  BY <1>7 DEF serviceVars, ServiceInv, ServiceTypes, RequestsNameUsed, At
<1> QED
  BY <1>1, <1>2, <1>3, <1>4, <1>5, <1>6, <1>7, SendServed DEF Next, Serve

(***************************************************************************)
(* The calls.  What a tab does to the calls it and the others await is to   *)
(* forget some and to note of others that their component is gone or that   *)
(* they are out of date.                                                    *)
(***************************************************************************)

CallTypes ==
    /\ call \in [Requests -> Awaited \cup {None}]
    /\ signedOut \in [Tabs -> BOOLEAN]

CallInv ==
    /\ CallTypes
    /\ CallsAreTheirs
    /\ FetchesAreCurrent
    /\ SignoutsRevoke
    /\ SignedOutHasNoSession

\* Calls that come from the present ones in that way.
Keeps(calls) ==
    /\ calls \in [Requests -> Awaited \cup {None}]
    /\ \A r \in Requests :
         calls[r] # None =>
           /\ call[r] # None
           /\ calls[r].tab = call[r].tab
           /\ calls[r].op = call[r].op
           /\ call[r].overtaken => calls[r].overtaken
           /\ calls[r].op = "me" => calls[r].overtaken = call[r].overtaken

LEMMA SameKept ==
    ASSUME CallTypes
    PROVE  Keeps(call)
  BY DEF Keeps, CallTypes

LEMMA FinishedKept ==
    ASSUME CallTypes, NEW r \in Requests
    PROVE  Keeps(Finished(r)) /\ Finished(r)[r] = None
  BY DEF Keeps, CallTypes, Finished

LEMMA UnmountedKept ==
    ASSUME CallTypes, NEW b \in Tabs, NEW calls, Keeps(calls)
    PROVE  /\ Keeps(Unmounted(b, calls))
           /\ \A r \in Requests : calls[r] = None => Unmounted(b, calls)[r] = None
<1> DEFINE gone == Unmounted(b, calls)
<1>1. ASSUME NEW r \in Requests
      PROVE  /\ gone[r] \in Awaited \cup {None}
             /\ calls[r] = None => gone[r] = None
             /\ gone[r] # None => /\ calls[r] # None
                                  /\ gone[r].tab = calls[r].tab
                                  /\ gone[r].op = calls[r].op
                                  /\ gone[r].overtaken = calls[r].overtaken
  <2>1. CASE calls[r] # None /\ calls[r].tab = b
    <3>1. gone[r] = [calls[r] EXCEPT !.mounted = FALSE] /\ calls[r] \in Awaited
      BY <2>1 DEF Unmounted, Keeps
    <3> QED
      BY <2>1, <3>1 DEF Awaited
  <2>2. CASE ~(calls[r] # None /\ calls[r].tab = b)
    <3>1. gone[r] = calls[r]
      BY <2>2 DEF Unmounted
    <3> QED
      BY <3>1 DEF Keeps
  <2> QED
    BY <2>1, <2>2
<1>2. gone \in [Requests -> Awaited \cup {None}]
  <2>1. gone = [r \in Requests |-> gone[r]]
    BY DEF Unmounted
  <2> QED
    BY <1>1, <2>1
<1> QED
  BY <1>1, <1>2 DEF Keeps

\* Marking a call keeps whose it is and what it asks.
LEMMA UnmountedSame ==
    ASSUME NEW b \in Tabs, NEW calls \in [Requests -> Awaited \cup {None}],
           NEW r \in Requests, calls[r] # None
    PROVE  LET gone == Unmounted(b, calls)[r] IN
           /\ gone # None /\ gone.tab = calls[r].tab /\ gone.op = calls[r].op
           /\ gone.overtaken = calls[r].overtaken
<1>1. CASE calls[r].tab = b
  <2>1. [calls[r] EXCEPT !.mounted = FALSE] \in Awaited /\ calls[r] \in Awaited
    BY DEF Awaited
  <2>2. Unmounted(b, calls)[r] = [calls[r] EXCEPT !.mounted = FALSE]
    BY <1>1 DEF Unmounted
  <2> QED
    BY <2>1, <2>2, ClientAssumption DEF Awaited
<1>2. CASE calls[r].tab # b
  BY <1>2 DEF Unmounted
<1> QED
  BY <1>1, <1>2

LEMMA SucceededSame ==
    ASSUME CallTypes, NEW r \in Requests, NEW cancelled, NEW x \in Requests,
           call[x] # None, x # r, x \notin cancelled
    PROVE  LET after == Succeeded(r, cancelled)[x] IN
           after # None /\ after.tab = call[x].tab /\ after.op = call[x].op
<1>1. CASE Overtakes(call[r], call[x])
  <2>1. [call[x] EXCEPT !.overtaken = TRUE] \in Awaited /\ call[x] \in Awaited
    BY DEF Awaited, CallTypes
  <2>2. Succeeded(r, cancelled)[x] = [call[x] EXCEPT !.overtaken = TRUE]
    BY <1>1 DEF Succeeded
  <2> QED
    BY <2>1, <2>2, ClientAssumption DEF Awaited
<1>2. CASE ~Overtakes(call[r], call[x])
  BY <1>2 DEF Succeeded
<1> QED
  BY <1>1, <1>2

\* A mutation that cancels the fetches it makes out of date keeps the rest.
LEMMA SucceededKept ==
    ASSUME CallTypes, NEW r \in Requests, NEW cancelled,
           \A x \in Requests : call[x] # None /\ call[x].op = "me" /\ Overtakes(call[r], call[x])
                                 => x \in cancelled
    PROVE  /\ Keeps(Succeeded(r, cancelled))
           /\ \A x \in Requests : x = r \/ x \in cancelled => Succeeded(r, cancelled)[x] = None
<1> DEFINE calls == Succeeded(r, cancelled)
<1>1. ASSUME NEW x \in Requests
      PROVE  /\ calls[x] \in Awaited \cup {None}
             /\ calls[x] # None => /\ call[x] # None
                                   /\ calls[x].tab = call[x].tab
                                   /\ calls[x].op = call[x].op
                                   /\ call[x].overtaken => calls[x].overtaken
                                   /\ call[x].op = "me" => calls[x].overtaken = call[x].overtaken
  <2>1. CASE x = r \/ x \in cancelled
    BY <2>1 DEF Succeeded
  <2>2. CASE ~(x = r \/ x \in cancelled) /\ call[x] # None /\ Overtakes(call[r], call[x])
    <3>1. calls[x] = [call[x] EXCEPT !.overtaken = TRUE] /\ call[x] \in Awaited
      BY <2>2 DEF Succeeded, CallTypes
    <3> QED
      BY <2>2, <3>1 DEF Awaited
  <2>3. CASE ~(x = r \/ x \in cancelled) /\ ~(call[x] # None /\ Overtakes(call[r], call[x]))
    BY <2>3 DEF Succeeded, CallTypes
  <2> QED
    BY <2>1, <2>2, <2>3
<1>2. calls \in [Requests -> Awaited \cup {None}]
  <2>1. calls = [x \in Requests |-> calls[x]]
    BY DEF Succeeded
  <2> QED
    BY <1>1, <2>1
<1> QED
  BY <1>1, <1>2 DEF Keeps, Succeeded

(***************************************************************************)
(* The kinds of steps, by what they do to the calls and to the sessions.   *)
(***************************************************************************)

\* Requests end, sessions are withdrawn and calls are forgotten.
LEMMA QuietStep ==
    ASSUME ServiceInv, CallInv, Keeps(call'),
           \A r \in Requests : req'[r] = req[r] \/ req'[r] = None,
           granted' \subseteq granted, UNCHANGED <<jar, signedOut>>
    PROVE  CallInv'
<1> USE DEF CallInv, Keeps, At
<1>1. CallTypes'
  BY DEF CallTypes
<1>2. CallsAreTheirs'
  BY DEF CallsAreTheirs
<1>3. FetchesAreCurrent'
  BY DEF FetchesAreCurrent
<1>4. SignoutsRevoke'
  BY DEF SignoutsRevoke
<1>5. SignedOutHasNoSession'
  BY DEF SignedOutHasNoSession, Calls
<1> QED
  BY <1>1, <1>2, <1>3, <1>4, <1>5

\* A call is made, with the cookie its browser has now.
LEMMA RequestStep ==
    ASSUME ServiceInv, CallInv, NEW b \in Tabs, NEW op \in Ops, NEW r \in Requests,
           Request(b, op, r), UNCHANGED signedOut
    PROVE  CallInv'
<1> DEFINE new == [tab |-> b, op |-> op, mounted |-> op \in Forms, overtaken |-> FALSE]
<1>1. call' = [call EXCEPT ![r] = new] /\ new \in Awaited /\ call[r] = None /\ req[r] = None
  BY DEF Request, Awaited
<1>2. /\ UNCHANGED <<granted, used, jar>>
      /\ \A x \in Requests \ {r} : req'[x] = req[x]
      /\ \/ req'[r] = None
         \/ req'[r] = [op |-> op, who |-> BrowserOf[b],
                       cookie |-> Shown(op, jar[BrowserOf[b]]), at |-> "asked"]
  BY DEF Request, Send, serviceVars, ServiceInv, ServiceTypes
<1>3. new.tab = b /\ new.op = op /\ ~new.overtaken /\ new # None
  BY <1>1, ClientAssumption
<1> HIDE DEF new
<1> USE DEF CallInv, At
<1>4. CallTypes'
  BY <1>1 DEF CallTypes
<1>5. CallsAreTheirs'
  BY <1>1, <1>2, <1>3 DEF CallsAreTheirs, CallTypes
<1>6. FetchesAreCurrent'
  BY <1>1, <1>3 DEF FetchesAreCurrent, CallTypes
<1>7. SignoutsRevoke'
  BY <1>1, <1>2, <1>3 DEF SignoutsRevoke, CallTypes, Shown
<1>8. SignedOutHasNoSession'
  BY <1>1, <1>2, <1>3 DEF SignedOutHasNoSession, CallTypes, Shown, Calls
<1> QED
  BY <1>4, <1>5, <1>6, <1>7, <1>8

\* A cookie comes in.
LEMMA SignInStep ==
    ASSUME ServiceInv, CallInv, NEW r \in Requests, Receive(r), req[r].set # None,
           Keeps(call'), signedOut' = SignedIn(req[r].who),
           \A x \in Requests : call'[x] # None /\ call'[x].op = "logout"
                                 /\ BrowserOf[call'[x].tab] = req[r].who => call'[x].overtaken
    PROVE  CallInv'
<1>1. req[r].who \in Persons
  BY AnsweredRequest DEF Receive, Replied
<1>2. /\ UNCHANGED <<granted, used>>
      /\ \A x \in Requests : req'[x] = req[x] \/ req'[x] = None
      /\ \A p \in Persons : p # req[r].who => jar'[p] = jar[p]
  BY <1>1 DEF Receive, ServiceInv, ServiceTypes
<1>3. \A b \in Tabs : signedOut'[b] => BrowserOf[b] # req[r].who /\ signedOut[b]
  BY DEF SignedIn, CallInv, CallTypes
<1> USE DEF CallInv, Keeps, At
<1>4. CallTypes'
  BY DEF CallTypes, SignedIn
<1>5. CallsAreTheirs'
  BY <1>2 DEF CallsAreTheirs
<1>6. FetchesAreCurrent'
  BY DEF FetchesAreCurrent
<1>7. SignoutsRevoke'
  <2> SUFFICES ASSUME NEW x \in Requests, call'[x] # None, call'[x].op = "logout",
                      ~call'[x].overtaken
               PROVE  LET cookie == jar'[BrowserOf[call'[x].tab]] IN
                      /\ At(x, "asked")' => req'[x].cookie = cookie
                      /\ At(x, "answered")' /\ req'[x].ok => cookie \notin granted'
    BY DEF SignoutsRevoke
  <2>1. BrowserOf[call[x].tab] \in Persons /\ jar'[BrowserOf[call[x].tab]] = jar[BrowserOf[call[x].tab]]
    BY <1>2, ClientAssumption DEF CallTypes, Awaited
  <2> QED
    BY <1>2, <2>1 DEF SignoutsRevoke
<1>8. SignedOutHasNoSession'
  BY <1>2, <1>3, ClientAssumption DEF SignedOutHasNoSession, Calls
<1> QED
  BY <1>4, <1>5, <1>6, <1>7, <1>8

\* A sign-out has been answered.
LEMMA SignOutStep ==
    ASSUME ServiceInv, CallInv, NEW r \in Requests, Reply(r, "logout"), req[r].ok,
           Keeps(call'), \A x \in Calls(call[r].tab, "me") : call'[x] = None,
           signedOut' = [signedOut EXCEPT ![call[r].tab] = @ \/ ~call[r].overtaken]
    PROVE  CallInv'
<1> DEFINE b == call[r].tab
<1>1. b \in Tabs /\ call[r] # None /\ At(r, "answered")
  BY DEF Reply, Receive, CallInv, CallTypes, Awaited
<1>2. /\ UNCHANGED <<granted, used, jar>>
      /\ \A x \in Requests : req'[x] = req[x] \/ req'[x] = None
  <2>1. req[r].op = "logout"
    BY <1>1 DEF Reply, CallInv, CallsAreTheirs, At
  <2>2. req[r].set = None
    BY <1>1, <2>1, AnsweredRequest DEF Forms
  <2> QED
    BY <2>2 DEF Reply, Receive, ServiceInv, ServiceTypes
<1>3. ~call[r].overtaken => jar[BrowserOf[b]] \notin granted
  BY <1>1 DEF Reply, CallInv, SignoutsRevoke
<1> USE DEF CallInv, Keeps, At
<1>4. CallTypes'
  BY <1>1 DEF CallTypes, Awaited
<1>5. CallsAreTheirs'
  BY <1>2 DEF CallsAreTheirs
<1>6. FetchesAreCurrent'
  BY DEF FetchesAreCurrent
<1>7. SignoutsRevoke'
  BY <1>2 DEF SignoutsRevoke
<1>8. SignedOutHasNoSession'
  BY <1>1, <1>2, <1>3 DEF SignedOutHasNoSession, Calls, CallTypes
<1> QED
  BY <1>4, <1>5, <1>6, <1>7, <1>8

\* The service decides a request: no session named before is granted anew.
LEMMA ServeStep ==
    ASSUME ServiceInv, CallInv, NEW r \in Requests, Serve(r), UNCHANGED <<call, signedOut>>
    PROVE  CallInv'
<1> USE DEF CallInv, At
<1>0. \E reply \in Replied : /\ req' = [req EXCEPT ![r] = reply]
                             /\ reply.op = req[r].op /\ reply.who = req[r].who
  <2>1. \E ok \in BOOLEAN, cookie \in Tokens \cup {None} : Answer(r, ok, cookie)
    BY DEF Serve, Grant, Revoke, Admit, Refuse
  <2>2. PICK ok \in BOOLEAN, cookie \in Tokens \cup {None} : Answer(r, ok, cookie)
    BY <2>1
  <2>3. req[r].op \in Ops /\ req[r].who \in Persons
    BY AskedRequest DEF Serve, Grant, Revoke, Admit, Refuse, Asked
  <2> DEFINE reply == [op |-> req[r].op, who |-> req[r].who, at |-> "answered",
                       ok |-> ok, set |-> cookie]
  <2>4. reply \in Replied
    BY <2>3 DEF Replied
  <2>5. req' = [req EXCEPT ![r] = reply] /\ reply.op = req[r].op /\ reply.who = req[r].who
    BY <2>2 DEF Answer
  <2> HIDE DEF reply
  <2> QED
    BY <2>4, <2>5
<1>1. /\ \A x \in Requests \ {r} : req'[x] = req[x]
      /\ req'[r] # None /\ req'[r].at = "answered"
      /\ req'[r].op = req[r].op /\ req'[r].who = req[r].who
  BY <1>0, ServiceAssumption DEF Replied, ServiceInv, ServiceTypes
<1>2. UNCHANGED jar
  BY DEF Serve, Grant, Revoke, Admit, Refuse
<1>3. \A c \in used \cup {None} : c \notin granted => c \notin granted'
  BY ServiceAssumption
     DEF Serve, Grant, Revoke, Admit, Refuse, ServiceInv, ServiceTypes
<1>4. req[r].op = "logout" /\ req'[r].ok => req[r].cookie \notin granted'
  BY DEF Serve, Grant, Revoke, Admit, Refuse, Answer, ServiceInv, ServiceTypes
<1>5. req[r].op = "me" /\ req'[r].ok => req[r].cookie \in granted
  BY DEF Serve, Grant, Revoke, Admit, Refuse, Answer, ServiceInv, ServiceTypes
<1>6. At(r, "asked") /\ \A p \in Persons : jar[p] \in used \cup {None}
  BY DEF Serve, Grant, Revoke, Admit, Refuse, ServiceInv, ServiceTypes
<1>7. CallTypes'
  BY DEF CallTypes
<1>8. CallsAreTheirs'
  BY <1>1, <1>6 DEF CallsAreTheirs
<1>9. FetchesAreCurrent'
  BY DEF FetchesAreCurrent
<1>10. SignoutsRevoke'
  <2> SUFFICES ASSUME NEW x \in Requests, call[x] # None, call[x].op = "logout",
                      ~call[x].overtaken
               PROVE  LET cookie == jar[BrowserOf[call[x].tab]] IN
                      /\ At(x, "asked")' => req'[x].cookie = cookie
                      /\ At(x, "answered")' /\ req'[x].ok => cookie \notin granted'
    BY <1>2 DEF SignoutsRevoke
  <2>1. jar[BrowserOf[call[x].tab]] \in used \cup {None}
    BY <1>6, ClientAssumption DEF CallTypes, Awaited
  <2>2. CASE x = r
    BY <1>1, <1>4, <1>6, <2>2 DEF SignoutsRevoke, CallsAreTheirs
  <2>3. CASE x # r
    BY <1>1, <1>3, <2>1, <2>3 DEF SignoutsRevoke
  <2> QED
    BY <2>2, <2>3
<1>11. SignedOutHasNoSession'
  <2> SUFFICES ASSUME NEW b \in Tabs, signedOut[b]
               PROVE  /\ jar[BrowserOf[b]] \notin granted'
                      /\ \A x \in Calls(b, "me") : /\ At(x, "asked")' => req'[x].cookie \notin granted'
                                                   /\ At(x, "answered")' => ~req'[x].ok
    BY <1>2 DEF SignedOutHasNoSession, Calls
  <2>1. jar[BrowserOf[b]] \notin granted'
    BY <1>3, <1>6, ClientAssumption DEF SignedOutHasNoSession
  <2>2. ASSUME NEW x \in Calls(b, "me")
        PROVE  /\ At(x, "asked")' => req'[x].cookie \notin granted'
               /\ At(x, "answered")' => ~req'[x].ok
    <3>1. /\ At(x, "asked") => req[x].cookie \notin granted /\ req[x].cookie \in used \cup {None}
          /\ At(x, "answered") => ~req[x].ok
      BY AskedRequest DEF SignedOutHasNoSession, Calls
    <3>2. CASE x = r
      BY <1>1, <1>5, <1>6, <3>1, <3>2 DEF CallsAreTheirs, Calls
    <3>3. CASE x # r
      BY <1>1, <1>3, <3>1, <3>3 DEF Calls
    <3> QED
      BY <3>2, <3>3
  <2> QED
    BY <2>1, <2>2
<1> QED
  BY <1>7, <1>8, <1>9, <1>10, <1>11

\* What the tabs do to the calls keeps them.
LEMMA CallStep ==
    ASSUME ServiceInv, CallInv, ClientNext
    PROVE  CallInv'
<1> USE DEF CallInv
<1>1. ASSUME Keeps(call'), UNCHANGED <<serviceVars, signedOut>>
      PROVE  CallInv'
  BY <1>1, QuietStep DEF serviceVars
<1>2. ASSUME NEW b \in Tabs, Query(b) \/ Preload(b) \/ Signout(b)
      PROVE  CallInv'
  BY <1>1, <1>2, RequestStep, SameKept DEF Query, Preload, Signout, Ops
<1>3. ASSUME NEW b \in Tabs, NEW form \in Forms, Submit(b, form)
      PROVE  CallInv'
  BY <1>3, RequestStep DEF Submit, Forms, Ops
<1>4. ASSUME NEW b \in Tabs, Decide(b)
      PROVE  CallInv'
  BY <1>1, <1>4, SameKept, UnmountedKept DEF Decide, Show
<1>5. ASSUME NEW b \in Tabs, Collect(b)
      PROVE  CallInv'
  BY <1>1, <1>5, SameKept DEF Collect
<1>6. ASSUME NEW b \in Tabs, NEW route \in Routes, Navigate(b, route)
      PROVE  CallInv'
  BY <1>1, <1>6, SameKept DEF Navigate
<1>7. ASSUME NEW b \in Tabs, NEW route \in Routes, Reload(b, route)
      PROVE  CallInv'
  <2>1. Keeps(call')
    BY <1>7 DEF Reload, Keeps, CallTypes
  <2> QED
    BY <1>1, <1>7, <2>1 DEF Reload
<1>8. ASSUME NEW r \in Requests, Receive(r), req[r].set = None, Keeps(call'), UNCHANGED signedOut
      PROVE  CallInv'
  BY <1>8, QuietStep DEF Receive, ServiceInv, ServiceTypes
<1>9. ASSUME NEW r \in Requests, Lose(r) \/ UNCHANGED serviceVars, Keeps(call'), UNCHANGED signedOut
      PROVE  CallInv'
  BY <1>9, QuietStep DEF Lose, ServiceInv, ServiceTypes, serviceVars
<1>10. ASSUME NEW r \in Requests, NEW op \in Ops, Reply(r, op)
       PROVE  /\ Receive(r) /\ call[r].tab \in Tabs
              /\ req[r].who = BrowserOf[call[r].tab]
              /\ req[r].set # None <=> req[r].ok /\ op \in Forms
  BY <1>10, AnsweredRequest DEF Reply, Receive, At, CallsAreTheirs, CallTypes, Awaited
<1>11. ASSUME NEW r \in Requests, FetchAnswered(r)
       PROVE  CallInv'
  BY <1>8, <1>10, <1>11, FinishedKept DEF FetchAnswered, Forms, Ops
<1>12. ASSUME NEW r \in Requests, NoAnswer(r)
       PROVE  CallInv'
  <2>1. call[r].tab \in Tabs
    BY <1>12 DEF NoAnswer, CallTypes, Awaited
  <2>2. Keeps(call') /\ UNCHANGED signedOut /\ (Lose(r) \/ UNCHANGED serviceVars)
    BY <1>12, <2>1, FinishedKept, UnmountedKept DEF NoAnswer, Show
  <2> QED
    BY <1>9, <2>2
<1>13. ASSUME NEW r \in Requests, LoginAnswered(r)
       PROVE  CallInv'
  <2> DEFINE b == call[r].tab
             calls == Succeeded(r, Cancelled(b))
  <2>1. Reply(r, "login") /\ call[r].op = "login" /\ "login" \in Ops
    BY <1>13 DEF LoginAnswered, Reply, Ops
  <2>2. CASE ~req[r].ok
    BY <1>8, <1>10, <1>13, <2>1, <2>2, FinishedKept DEF LoginAnswered
  <2>3. CASE req[r].ok
    <3>1. Keeps(calls) /\ calls[r] = None
      BY <2>1, SucceededKept DEF Overtakes, Cancelled, Calls, Forms
    <3>2. \A x \in Requests : calls[x] # None /\ calls[x].op = "logout"
                                /\ BrowserOf[calls[x].tab] = req[r].who => calls[x].overtaken
      BY <1>10, <2>1, <3>1 DEF Succeeded, Overtakes, Forms, CallTypes, Awaited, Keeps
    <3>3. /\ call' = calls \/ call' = Unmounted(b, calls)
          /\ signedOut' = SignedIn(req[r].who)
      BY <1>13, <2>3 DEF LoginAnswered, Show
    <3>4. Keeps(call')
      BY <1>10, <2>1, <3>1, <3>3, UnmountedKept
    <3>5. \A x \in Requests : call'[x] # None => /\ calls[x] # None
                                                 /\ call'[x].op = calls[x].op
                                                 /\ call'[x].tab = calls[x].tab
                                                 /\ call'[x].overtaken = calls[x].overtaken
      <4>1. CASE call' = calls
        BY <4>1
      <4>2. CASE call' = Unmounted(b, calls)
        <5>1. call' \in [Requests -> Awaited \cup {None}] /\ calls \in [Requests -> Awaited \cup {None}]
          BY <3>1, <3>4 DEF Keeps
        <5>2. \A x \in Requests : call'[x] # None => calls[x] # None
          BY <3>1, <4>2, UnmountedKept, <1>10, <2>1
        <5> HIDE DEF calls
        <5> QED
          BY <4>2, <5>1, <5>2, UnmountedSame, <1>10, <2>1
      <4> QED
        BY <3>3, <4>1, <4>2
    <3> QED
      BY <1>10, <2>1, <2>3, <3>2, <3>3, <3>4, <3>5, SignInStep DEF Forms
  <2> QED
    BY <2>2, <2>3
<1>14. ASSUME NEW r \in Requests, RegisterAnswered(r)
       PROVE  CallInv'
  <2>1. Reply(r, "register") /\ call[r].op = "register" /\ "register" \in Ops
    BY <1>14 DEF RegisterAnswered, Reply, Ops
  <2>2. CASE ~req[r].ok
    BY <1>8, <1>10, <1>14, <2>1, <2>2, FinishedKept DEF RegisterAnswered
  <2>3. CASE req[r].ok
    <3>1. Keeps(call') /\ call' = Succeeded(r, {}) /\ signedOut' = SignedIn(req[r].who)
      BY <1>14, <2>1, <2>3, SucceededKept DEF RegisterAnswered, Overtakes, Forms
    <3>2. \A x \in Requests : call'[x] # None /\ call'[x].op = "logout"
                                /\ BrowserOf[call'[x].tab] = req[r].who => call'[x].overtaken
      BY <1>10, <2>1, <3>1 DEF Succeeded, Overtakes, Forms, CallTypes, Awaited, Keeps
    <3> QED
      BY <1>10, <2>1, <2>3, <3>1, <3>2, SignInStep DEF Forms
  <2> QED
    BY <2>2, <2>3
<1>15. ASSUME NEW r \in Requests, SignoutAnswered(r)
       PROVE  CallInv'
  <2>1. Reply(r, "logout") /\ call[r].op = "logout" /\ "logout" \in Ops
    BY <1>15 DEF SignoutAnswered, Reply, Ops
  <2>2. CASE ~req[r].ok
    BY <1>8, <1>10, <1>15, <2>1, <2>2, FinishedKept DEF SignoutAnswered
  <2>3. CASE req[r].ok
    <3>1. /\ Keeps(Succeeded(r, Cancelled(call[r].tab)))
          /\ \A x \in Calls(call[r].tab, "me") : Succeeded(r, Cancelled(call[r].tab))[x] = None
      BY <2>1, SucceededKept DEF Overtakes, Cancelled, Calls, Forms
    <3> QED
      BY <1>15, <2>1, <2>3, <3>1, SignOutStep DEF SignoutAnswered
  <2> QED
    BY <2>2, <2>3
<1>16. ASSUME NEW r \in Requests, Unawaited(r)
       PROVE  CallInv'
  <2> DEFINE out(x) == call[x] # None /\ call[x].op = "logout"
                         /\ BrowserOf[call[x].tab] = req[r].who
             late == [x \in Requests |-> IF out(x) THEN [call[x] EXCEPT !.overtaken = TRUE]
                                                  ELSE call[x]]
  <2>1. CASE Lose(r) /\ UNCHANGED clientVars
    BY <1>9, <2>1, SameKept DEF clientVars
  <2>2. CASE Receive(r) /\ req[r].set = None /\ signedOut' = signedOut
               /\ call' = [x \in Requests |-> call[x]]
    BY <1>8, <2>2, SameKept DEF CallTypes
  <2>3. CASE Receive(r) /\ req[r].set # None /\ signedOut' = SignedIn(req[r].who)
               /\ call' = late
    <3>1. ASSUME NEW x \in Requests
          PROVE  /\ late[x] \in Awaited \cup {None}
                 /\ late[x] # None => /\ call[x] # None
                                      /\ late[x].tab = call[x].tab
                                      /\ late[x].op = call[x].op
                                      /\ late[x].overtaken = (call[x].overtaken \/ out(x))
      <4>1. CASE out(x)
        <5>1. late[x] = [call[x] EXCEPT !.overtaken = TRUE] /\ call[x] \in Awaited
          BY <4>1 DEF CallTypes
        <5> QED
          BY <4>1, <5>1 DEF Awaited
      <4>2. CASE ~out(x)
        BY <4>2 DEF CallTypes, Awaited
      <4> QED
        BY <4>1, <4>2
    <3>2. Keeps(late)
      BY <3>1 DEF Keeps, CallTypes, Awaited
    <3>3. \A x \in Requests : late[x] # None /\ late[x].op = "logout"
                                /\ BrowserOf[late[x].tab] = req[r].who => late[x].overtaken
      BY <3>1
    <3> HIDE DEF late
    <3> QED
      BY <2>3, <3>2, <3>3, SignInStep
  <2> QED
    BY <1>16, <2>1, <2>2, <2>3 DEF Unawaited
<1>17. CASE Server(Withdraw) \/ Server(Restart)
  BY <1>17, SameKept, QuietStep DEF Server, Withdraw, Restart, clientVars
<1>18. ASSUME NEW r \in Requests, Server(Serve(r))
       PROVE  CallInv'
  BY <1>18, ServeStep DEF Server, clientVars
<1> QED
  BY <1>2, <1>3, <1>4, <1>5, <1>6, <1>7, <1>11, <1>12, <1>13, <1>14, <1>15, <1>16, <1>17, <1>18
     DEF ClientNext, Route, Respond

(***************************************************************************)
(* The tabs.                                                               *)
(***************************************************************************)

TabTypes ==
    /\ cache \in [Tabs -> Entries]
    /\ page \in [Tabs -> Pages]
    /\ target \in [Tabs -> Routes \cup {None}]
    /\ waiting \subseteq {b \in Tabs : target[b] # None /\ Calls(b, "me") # {}}

\* The waiting tabs still wait for a fetch: those whose calls were forgotten wait
\* no more.
LEMMA StillWaiting ==
    ASSUME CallTypes, TabTypes,
           waiting' \subseteq waiting,
           \A b \in waiting' : /\ target'[b] # None
                               /\ \A r \in Calls(b, "me") : call'[r] # None /\ call'[r].tab = b
                                                              /\ call'[r].op = "me"
    PROVE  waiting' \subseteq {b \in Tabs : target'[b] # None /\ Calls(b, "me")' # {}}
<1> SUFFICES ASSUME NEW b \in waiting'
             PROVE  b \in Tabs /\ target'[b] # None /\ Calls(b, "me")' # {}
  OBVIOUS
<1>1. b \in Tabs /\ Calls(b, "me") # {}
  BY DEF TabTypes
<1>2. PICK r \in Requests : r \in Calls(b, "me")
  BY <1>1 DEF Calls
<1>3. r \in Calls(b, "me")'
  BY <1>2 DEF Calls
<1> QED
  BY <1>1, <1>3

TabInv == TabTypes /\ SignedOutStaysOut

\* What a tab that is signed out may do: its entry does not become a principal,
\* and it leaves the home page.
LEMMA StaysOut ==
    ASSUME TabInv, CallTypes,
           \A b \in Tabs : signedOut'[b] =>
             \/ signedOut[b] /\ cache'[b] = cache[b] /\ page'[b] = page[b] /\ target'[b] = target[b]
             \/ cache'[b] # "principal" /\ (page'[b] = "home" => target'[b] # None)
    PROVE  SignedOutStaysOut'
  BY DEF TabInv, SignedOutStaysOut

\* Nothing of the tabs changes, and the fetches they wait for go on.
LEMMA SameTabs ==
    ASSUME TabInv, CallTypes, UNCHANGED tabVars,
           \A b \in Tabs : signedOut'[b] => signedOut[b],
           \A r \in Requests : call[r] # None /\ call[r].op = "me" =>
             call'[r] # None /\ call'[r].tab = call[r].tab /\ call'[r].op = "me"
    PROVE  TabInv'
<1> USE DEF TabInv, tabVars
<1>1. SignedOutStaysOut'
  BY StaysOut
<1>2. waiting' \subseteq {b \in Tabs : target'[b] # None /\ Calls(b, "me")' # {}}
  BY StillWaiting DEF TabTypes, Calls
<1> QED
  BY <1>1, <1>2 DEF TabTypes

\* One tab goes elsewhere; the others are left alone.
LEMMA OneTab ==
    ASSUME TabInv, CallTypes, NEW b \in Tabs,
           NEW entry \in Entries, NEW shown \in Pages, NEW route \in Routes \cup {None},
           cache' = [cache EXCEPT ![b] = entry], page' = [page EXCEPT ![b] = shown],
           target' = [target EXCEPT ![b] = route],
           waiting' = waiting \/ waiting' = waiting \ {b},
           b \in waiting' => route # None,
           \A t \in Tabs \ {b} : signedOut'[t] => signedOut[t],
           signedOut'[b] => entry # "principal" /\ (shown = "home" => route # None),
           \A r \in Requests : call[r] # None /\ call[r].op = "me" /\ call[r].tab \in waiting' =>
             call'[r] # None /\ call'[r].tab = call[r].tab /\ call'[r].op = "me"
    PROVE  TabInv'
<1> USE DEF TabInv
<1>1. SignedOutStaysOut'
  BY StaysOut DEF TabTypes
<1>2. waiting' \subseteq {t \in Tabs : target'[t] # None /\ Calls(t, "me")' # {}}
  BY StillWaiting DEF TabTypes, Calls
<1> QED
  BY <1>1, <1>2 DEF TabTypes

LEMMA RequestKeepsFetches ==
    ASSUME CallTypes, NEW b \in Tabs, NEW op \in Ops, NEW r \in Requests, Request(b, op, r)
    PROVE  /\ \A x \in Requests : call[x] # None => call'[x] = call[x]
           /\ call'[r] # None /\ call'[r].tab = b /\ call'[r].op = op
<1> DEFINE new == [tab |-> b, op |-> op, mounted |-> op \in Forms, overtaken |-> FALSE]
<1>1. call' = [call EXCEPT ![r] = new] /\ new \in Awaited /\ call[r] = None
  BY DEF Request, Awaited
<1> QED
  BY <1>1, ClientAssumption DEF CallTypes

LEMMA QueryTab ==
    ASSUME TabInv, CallTypes, NEW b \in Tabs, Query(b)
    PROVE  TabInv'
<1> USE DEF TabInv
<1>1. SignedOutStaysOut'
  BY StaysOut DEF Query
<1>2. Calls(b, "me")' # {} /\ \A t \in Tabs : Calls(t, "me") # {} => Calls(t, "me")' # {}
  <2>1. CASE Calls(b, "me") = {}
    <3>1. PICK r \in Requests : Request(b, "me", r)
      BY <2>1 DEF Query
    <3> QED
      BY <3>1, RequestKeepsFetches DEF Calls, Ops
  <2>2. CASE Calls(b, "me") # {}
    BY <2>2 DEF Query, Calls
  <2> QED
    BY <2>1, <2>2
<1>3. waiting' \subseteq {t \in Tabs : target'[t] # None /\ Calls(t, "me")' # {}}
  BY <1>2 DEF Query, TabTypes
<1> QED
  BY <1>1, <1>3 DEF Query, TabTypes

\* An answer is for a tab of the client, and tells it what the service decided.
LEMMA AnsweredCall ==
    ASSUME ServiceInv, CallInv, NEW r \in Requests, NEW op \in Ops, Reply(r, op)
    PROVE  /\ call[r] # None /\ call[r].op = op /\ call[r].tab \in Tabs
           /\ At(r, "answered")
           /\ req[r].ok \in BOOLEAN
           /\ req[r].who = BrowserOf[call[r].tab]
  BY AnsweredRequest DEF Reply, Receive, At, CallInv, CallTypes, CallsAreTheirs, Awaited, Replied

LEMMA FetchTab ==
    ASSUME ServiceInv, CallInv, TabInv, NEW r \in Requests, FetchAnswered(r)
    PROVE  TabInv'
<1> DEFINE b == call[r].tab
<1>1. b \in Tabs /\ call[r] # None /\ call[r].op = "me" /\ At(r, "answered")
  BY AnsweredCall DEF FetchAnswered, Ops
<1>2. signedOut[b] => ~req[r].ok
  BY <1>1 DEF CallInv, SignedOutHasNoSession, Calls
<1>3. PICK entry \in Entries : /\ cache' = [cache EXCEPT ![b] = entry]
                               /\ ~req[r].ok => entry # "principal"
  BY DEF FetchAnswered, Entries
<1>4. /\ page' = [page EXCEPT ![b] = page[b]] /\ target' = [target EXCEPT ![b] = target[b]]
      /\ page[b] \in Pages /\ target[b] \in Routes \cup {None}
      /\ waiting' = waiting \ {b} /\ signedOut' = signedOut
  BY <1>1 DEF FetchAnswered, TabInv, TabTypes
<1>5. \A x \in Requests : x # r => call'[x] = call[x]
  BY DEF FetchAnswered, Finished, CallInv, CallTypes
<1> HIDE DEF b
<1>6. signedOut'[b] => entry # "principal" /\ (page[b] = "home" => target[b] # None)
  BY <1>1, <1>2, <1>3, <1>4 DEF TabInv, SignedOutStaysOut
<1>7. \A x \in Requests : call[x] # None /\ call[x].op = "me" /\ call[x].tab \in waiting' =>
        call'[x] # None /\ call'[x].tab = call[x].tab /\ call'[x].op = "me"
  BY <1>4, <1>5 DEF b
<1> QED
  BY <1>1, <1>3, <1>4, <1>6, <1>7, OneTab DEF CallInv

LEMMA MutationTab ==
    ASSUME ServiceInv, CallInv, TabInv, NEW r \in Requests,
           LoginAnswered(r) \/ RegisterAnswered(r) \/ SignoutAnswered(r)
    PROVE  TabInv'
<1> DEFINE b == call[r].tab
<1>1. /\ b \in Tabs /\ call[r] # None /\ call[r].op # "me" /\ req[r].ok \in BOOLEAN
      /\ req[r].who = BrowserOf[b]
  BY AnsweredCall DEF LoginAnswered, RegisterAnswered, SignoutAnswered, Ops
<1>2. CASE ~req[r].ok
  <2>1. call' = Finished(r) /\ UNCHANGED <<tabVars, signedOut>>
    BY <1>2 DEF LoginAnswered, RegisterAnswered, SignoutAnswered
  <2>2. \A x \in Requests : x # r => call'[x] = call[x]
    BY <2>1 DEF Finished, CallInv, CallTypes
  <2> QED
    BY <1>1, <2>1, <2>2, SameTabs DEF CallInv
<1>3. CASE req[r].ok
  <2>1. /\ page[b] \in Pages /\ target[b] \in Routes \cup {None}
        /\ page = [page EXCEPT ![b] = page[b]] /\ target = [target EXCEPT ![b] = target[b]]
    BY <1>1 DEF TabInv, TabTypes
  <2>2. CASE LoginAnswered(r)
    <3> DEFINE calls == Succeeded(r, Cancelled(b))
    <3>1. /\ cache' = [cache EXCEPT ![b] = "undefined"]
          /\ ~signedOut'[b] /\ \A t \in Tabs : signedOut'[t] => signedOut[t]
          /\ call' = calls \/ call' = Unmounted(b, calls)
      BY <1>1, <1>3, <2>2 DEF LoginAnswered, Evict, SignedIn, CallInv, CallTypes, Show
    <3>2. \/ page' = page /\ target' = [target EXCEPT ![b] = "home"] /\ waiting' = waiting \ {b}
          \/ /\ page' = [page EXCEPT ![b] = "error"] /\ target' = [target EXCEPT ![b] = None]
             /\ waiting' = waiting \ {b}
          \/ page' = page /\ target' = target /\ waiting' = waiting /\ b \notin waiting
      BY <1>3, <2>2 DEF LoginAnswered, GoTo, Show, TabInv, TabTypes, Cancelled
    <3>3. Keeps(calls)
      BY <1>1, <2>2, SucceededKept, AnsweredCall
         DEF CallInv, LoginAnswered, Overtakes, Cancelled, Calls, Forms, Ops
    <3>4. \A x \in Requests : call[x] # None /\ call[x].op = "me" /\ call[x].tab # b =>
            calls[x] # None /\ calls[x].tab = call[x].tab /\ calls[x].op = "me"
      BY <1>1, SucceededSame DEF Cancelled, Calls, CallInv
    <3> HIDE DEF calls, b
    <3>5. \A x \in Requests : call[x] # None /\ call[x].op = "me" /\ call[x].tab \in waiting' =>
            call'[x] # None /\ call'[x].tab = call[x].tab /\ call'[x].op = "me"
      BY <1>1, <3>1, <3>2, <3>3, <3>4, UnmountedSame DEF Keeps
    <3>6. PICK shown \in Pages, route \in Routes \cup {None} :
            /\ page' = [page EXCEPT ![b] = shown] /\ target' = [target EXCEPT ![b] = route]
            /\ waiting' = waiting \ {b}
      BY <2>1, <3>2 DEF Pages, Routes
    <3>7. "undefined" \in Entries /\ b \notin waiting'
      BY <3>6 DEF Entries
    <3> QED
      BY <1>1, <3>1, <3>5, <3>6, <3>7, OneTab DEF CallInv
  <2>3. CASE RegisterAnswered(r)
    <3>1. /\ cache' = [cache EXCEPT ![b] = "principal"] /\ page' = page
          /\ ~signedOut'[b] /\ \A t \in Tabs : signedOut'[t] => signedOut[t]
          /\ call' = Succeeded(r, {})
          /\ \/ target' = [target EXCEPT ![b] = "home"] /\ waiting' = waiting \ {b}
             \/ target' = target /\ waiting' = waiting
      BY <1>1, <1>3, <2>3 DEF RegisterAnswered, SignedIn, GoTo, CallInv, CallTypes
    <3>2. \A x \in Requests : call[x] # None /\ call[x].op = "me" =>
            call'[x] # None /\ call'[x].tab = call[x].tab /\ call'[x].op = "me"
      BY <1>1, <3>1, SucceededSame DEF CallInv
    <3>3. b \in waiting => target[b] # None
      BY DEF TabInv, TabTypes
    <3> HIDE DEF b
    <3>4. PICK route \in Routes \cup {None} :
            /\ target' = [target EXCEPT ![b] = route]
            /\ waiting' = waiting \/ waiting' = waiting \ {b}
            /\ b \in waiting' => route # None
      BY <2>1, <3>1, <3>3 DEF Routes
    <3>5. "principal" \in Entries /\ page' = [page EXCEPT ![b] = page[b]]
      BY <2>1, <3>1 DEF Entries
    <3> QED
      BY <1>1, <2>1, <3>1, <3>2, <3>4, <3>5, OneTab DEF CallInv
  <2>4. CASE SignoutAnswered(r)
    <3>1. /\ cache' = [cache EXCEPT ![b] = "undefined"] /\ page' = page
          /\ target' = [target EXCEPT ![b] = "login"] /\ waiting' = waiting \ {b}
          /\ \A t \in Tabs \ {b} : signedOut'[t] => signedOut[t]
          /\ call' = Succeeded(r, Cancelled(b))
      BY <1>1, <1>3, <2>4 DEF SignoutAnswered, GoTo, Forget, CallInv, CallTypes, TabInv, TabTypes
    <3>2. \A x \in Requests : call[x] # None /\ call[x].op = "me" /\ call[x].tab # b =>
            call'[x] # None /\ call'[x].tab = call[x].tab /\ call'[x].op = "me"
      BY <1>1, <3>1, SucceededSame DEF Cancelled, Calls, CallInv
    <3>3. "undefined" \in Entries /\ "login" \in Routes /\ "login" # None
      BY ClientAssumption DEF Entries, Routes
    <3> HIDE DEF b
    <3> QED
      BY <1>1, <2>1, <3>1, <3>2, <3>3, OneTab DEF CallInv
  <2> QED
    BY <2>2, <2>3, <2>4
<1> QED
  BY <1>1, <1>2, <1>3

LEMMA FailedTab ==
    ASSUME CallInv, TabInv, NEW r \in Requests, NoAnswer(r)
    PROVE  TabInv'
<1> DEFINE b == call[r].tab
<1>1. b \in Tabs /\ call[r] # None
  BY DEF NoAnswer, CallInv, CallTypes, Awaited
<1>2. /\ \A x \in Requests : x # r => Finished(r)[x] = call[x]
      /\ Finished(r) \in [Requests -> Awaited \cup {None}]
  BY DEF Finished, CallInv, CallTypes
<1>3. CASE call[r].op = "me" /\ b \in waiting
  <2>1. /\ cache' = [cache EXCEPT ![b] = cache[b]] /\ page' = [page EXCEPT ![b] = "error"]
        /\ target' = [target EXCEPT ![b] = None] /\ waiting' = waiting \ {b}
        /\ signedOut' = signedOut
        /\ call' = Finished(r) \/ call' = Unmounted(b, Finished(r))
        /\ cache[b] \in Entries /\ (signedOut[b] => cache[b] # "principal")
    BY <1>1, <1>3 DEF NoAnswer, Show, TabInv, TabTypes, SignedOutStaysOut
  <2> HIDE DEF b
  <2>2. \A x \in Requests : call[x] # None /\ call[x].op = "me" /\ call[x].tab \in waiting' =>
          call'[x] # None /\ call'[x].tab = call[x].tab /\ call'[x].op = "me"
    <3>1. b = call[r].tab
      BY DEF b
    <3> QED
      BY <1>1, <1>2, <2>1, <3>1, UnmountedSame
  <2>3. "error" \in Pages
    BY DEF Pages
  <2> QED
    BY <1>1, <2>1, <2>2, <2>3, OneTab DEF CallInv
<1>4. CASE ~(call[r].op = "me" /\ b \in waiting)
  <2>1. UNCHANGED <<tabVars, signedOut>> /\ call' = Finished(r)
    BY <1>4 DEF NoAnswer, tabVars
  <2>2. /\ cache' = [cache EXCEPT ![b] = cache[b]] /\ page' = [page EXCEPT ![b] = page[b]]
        /\ target' = [target EXCEPT ![b] = target[b]] /\ waiting' = waiting
        /\ cache[b] \in Entries /\ page[b] \in Pages /\ target[b] \in Routes \cup {None}
        /\ b \in waiting => target[b] # None
        /\ signedOut[b] => cache[b] # "principal" /\ (page[b] = "home" => target[b] # None)
    BY <1>1, <2>1 DEF tabVars, TabInv, TabTypes, SignedOutStaysOut
  <2>3. \A x \in Requests : call[x] # None /\ call[x].op = "me" /\ call[x].tab \in waiting' =>
          call'[x] # None /\ call'[x].tab = call[x].tab /\ call'[x].op = "me"
    BY <1>2, <1>4, <2>1, <2>2
  <2> HIDE DEF b
  <2> QED
    BY <1>1, <2>1, <2>2, <2>3, OneTab DEF CallInv
<1> QED
  BY <1>3, <1>4

\* The steps of the router and of the visitor.
LEMMA RouteTab ==
    ASSUME CallInv, TabInv, NEW b \in Tabs, NEW route \in Routes,
           Decide(b) \/ Navigate(b, route) \/ Reload(b, route) \/ Collect(b)
    PROVE  TabInv'
<1> USE DEF CallInv
<1>1. /\ cache = [cache EXCEPT ![b] = cache[b]] /\ cache[b] \in Entries
      /\ page = [page EXCEPT ![b] = page[b]] /\ page[b] \in Pages
      /\ target = [target EXCEPT ![b] = target[b]] /\ target[b] \in Routes \cup {None}
      /\ b \in waiting => target[b] # None
      /\ signedOut[b] => cache[b] # "principal" /\ (page[b] = "home" => target[b] # None)
  BY DEF TabInv, TabTypes, SignedOutStaysOut
<1>2. route # None /\ "home" # None /\ "login" # None
  BY ClientAssumption DEF Routes
<1>3. CASE Navigate(b, route)
  BY <1>1, <1>2, <1>3, OneTab DEF Navigate, GoTo
<1>4. CASE Reload(b, route)
  <2>1. \A x \in Requests : call[x] # None /\ call[x].tab # b => call'[x] = call[x]
    BY <1>4 DEF Reload
  <2>2. /\ cache' = [cache EXCEPT ![b] = "undefined"] /\ page' = [page EXCEPT ![b] = "blank"]
        /\ target' = [target EXCEPT ![b] = route] /\ waiting' = waiting \ {b}
        /\ signedOut' = signedOut /\ "undefined" \in Entries /\ "blank" \in Pages
    BY <1>4 DEF Reload, GoTo, Entries, Pages
  <2> QED
    BY <2>1, <2>2, OneTab
<1>5. CASE Collect(b)
  <2>1. /\ cache' = [cache EXCEPT ![b] = "undefined"] /\ "undefined" \in Entries
        /\ UNCHANGED <<page, target, waiting, call, signedOut>> /\ b \notin waiting
    BY <1>5 DEF Collect, Entries, TabInv, TabTypes
  <2> QED
    BY <1>1, <2>1, OneTab
<1>6. CASE Decide(b) /\ Admits(target[b], cache[b])
  <2>1. /\ page' = [page EXCEPT ![b] = target[b]] /\ target' = [target EXCEPT ![b] = None]
        /\ waiting' = waiting \ {b} /\ UNCHANGED <<cache, signedOut>>
        /\ call' = call \/ call' = Unmounted(b, call)
        /\ target[b] \in Pages
    BY <1>1, <1>6 DEF Decide, Show, Pages
  <2>2. signedOut[b] => target[b] # "home"
    BY <1>1, <1>6 DEF Admits
  <2>3. \A x \in Requests : call[x] # None /\ call[x].op = "me" /\ call[x].tab \in waiting' =>
          call'[x] # None /\ call'[x].tab = call[x].tab /\ call'[x].op = "me"
    BY <2>1, UnmountedSame DEF CallTypes
  <2> QED
    BY <1>1, <2>1, <2>2, <2>3, OneTab
<1>7. CASE Decide(b) /\ ~Admits(target[b], cache[b])
  <2>1. PICK goal \in {"login", "home"} :
          /\ target' = [target EXCEPT ![b] = goal] /\ waiting' = waiting \ {b}
          /\ UNCHANGED <<cache, page, call, signedOut>>
    BY <1>7 DEF Decide, GoTo
  <2>2. goal \in Routes /\ goal # None
    BY <1>2 DEF Routes
  <2> QED
    BY <1>1, <2>1, <2>2, OneTab
<1> QED
  BY <1>3, <1>4, <1>5, <1>6, <1>7

LEMMA TabStep ==
    ASSUME ServiceInv, CallInv, TabInv, ClientNext
    PROVE  TabInv'
<1> USE DEF CallInv
<1>1. ASSUME NEW b \in Tabs, NEW op \in Ops, NEW r \in Requests, Request(b, op, r),
             UNCHANGED <<tabVars, signedOut>>
      PROVE  TabInv'
  BY <1>1, RequestKeepsFetches, SameTabs
<1>2. ASSUME NEW b \in Tabs, Route(b) \/ Preload(b) \/ Collect(b) \/ Signout(b)
      PROVE  TabInv'
  BY <1>1, <1>2, QueryTab, RouteTab DEF Route, Preload, Signout, Ops, Routes
<1>3. ASSUME NEW b \in Tabs, NEW route \in Routes, Navigate(b, route) \/ Reload(b, route)
      PROVE  TabInv'
  BY <1>3, RouteTab
<1>4. ASSUME NEW b \in Tabs, NEW form \in Forms, Submit(b, form)
      PROVE  TabInv'
  BY <1>1, <1>4 DEF Submit, Forms, Ops
<1>5. ASSUME NEW r \in Requests, Unawaited(r)
      PROVE  TabInv'
  <2>1. UNCHANGED tabVars /\ \A t \in Tabs : signedOut'[t] => signedOut[t]
    BY <1>5 DEF Unawaited, SignedIn, clientVars, tabVars, CallTypes
  <2>2. \A x \in Requests : call[x] # None /\ call[x].op = "me" => call'[x] = call[x]
    BY <1>5 DEF Unawaited, clientVars
  <2> QED
    BY <2>1, <2>2, SameTabs
<1>6. CASE Server(Withdraw) \/ Server(Restart) \/ \E r \in Requests : Server(Serve(r))
  <2>1. UNCHANGED clientVars
    BY <1>6 DEF Server
  <2> QED
    BY <2>1, SameTabs DEF clientVars, tabVars
<1> QED
  BY <1>2, <1>3, <1>4, <1>5, <1>6, FetchTab, MutationTab, FailedTab DEF ClientNext, Respond

(***************************************************************************)
(* The entries.                                                            *)
(***************************************************************************)

LEMMA CurrentStep ==
    ASSUME CallInv, NothingOutdated, ClientNext
    PROVE  NothingOutdated'
<1> USE DEF NothingOutdated
<1>1. ASSUME NEW b \in Tabs, Route(b) \/ Preload(b) \/ Collect(b) \/ Signout(b)
      PROVE  outdated' = {}
  BY <1>1 DEF Route, Query, Decide, Preload, Collect, Signout
<1>2. ASSUME NEW b \in Tabs, NEW route \in Routes, Navigate(b, route) \/ Reload(b, route)
      PROVE  outdated' = {}
  BY <1>2 DEF Navigate, Reload
<1>3. ASSUME NEW b \in Tabs, NEW form \in Forms, Submit(b, form)
      PROVE  outdated' = {}
  BY <1>3 DEF Submit
<1>4. ASSUME NEW r \in Requests, FetchAnswered(r)
      PROVE  outdated' = {}
  <2>1. ~call[r].overtaken
    BY <1>4 DEF FetchAnswered, Reply, CallInv, FetchesAreCurrent
  <2> QED
    BY <1>4, <2>1 DEF FetchAnswered
<1>5. ASSUME NEW r \in Requests, LoginAnswered(r)
      PROVE  outdated' = {}
  BY <1>5 DEF LoginAnswered, Outdates, Evict
<1>6. ASSUME NEW r \in Requests, SignoutAnswered(r)
      PROVE  outdated' = {}
  BY <1>6 DEF SignoutAnswered, Outdates, Forget
<1>7. ASSUME NEW r \in Requests, RegisterAnswered(r) \/ NoAnswer(r)
      PROVE  outdated' = {}
  BY <1>7 DEF RegisterAnswered, NoAnswer
<1>8. ASSUME NEW r \in Requests, Unawaited(r)
      PROVE  outdated' = {}
  BY <1>8 DEF Unawaited, clientVars
<1>9. CASE Server(Withdraw) \/ Server(Restart) \/ \E r \in Requests : Server(Serve(r))
  <2>1. UNCHANGED clientVars
    BY <1>9 DEF Server
  <2> QED
    BY <2>1 DEF clientVars
<1> QED
  BY <1>1, <1>2, <1>3, <1>4, <1>5, <1>6, <1>7, <1>8, <1>9 DEF ClientNext, Respond

(***************************************************************************)
(* The client.                                                             *)
(***************************************************************************)

LEMMA ClientInvParts == ClientInv <=> ServiceInv /\ CallInv /\ TabInv /\ NothingOutdated
  BY DEF ClientInv, ClientTypeOK, ServiceInv, ServiceTypes, CallInv, CallTypes, TabInv, TabTypes,
         NothingOutdated

LEMMA ClientInvInit == ClientInit => ClientInv
<1> SUFFICES ASSUME ClientInit
             PROVE  ServiceInv /\ CallInv /\ TabInv /\ NothingOutdated
  BY ClientInvParts
<1>1. ServiceInv
  BY DEF ClientInit, Init, ServiceInv, ServiceTypes, RequestsNameUsed, At
<1>2. CallInv
  BY DEF ClientInit, CallInv, CallTypes, CallsAreTheirs, FetchesAreCurrent, SignoutsRevoke,
         SignedOutHasNoSession
<1>3. TabInv
  BY DEF ClientInit, TabInv, TabTypes, SignedOutStaysOut, Entries, Pages, Routes
<1>4. NothingOutdated
  BY DEF ClientInit, NothingOutdated
<1> QED
  BY <1>1, <1>2, <1>3, <1>4

LEMMA ClientInvStep == ClientInv /\ [ClientNext]_allVars => ClientInv'
<1>1. ASSUME ClientInv, ClientNext
      PROVE  ClientInv'
  <2>1. ServiceInv /\ CallInv /\ TabInv /\ NothingOutdated
    BY <1>1, ClientInvParts
  <2>2. [Next]_serviceVars
    BY <1>1, NextIsServed DEF ClientInv
  <2>3. ServiceInv' /\ CallInv' /\ TabInv' /\ NothingOutdated'
    BY <1>1, <2>1, <2>2, NextServed, CallStep, TabStep, CurrentStep
  <2> QED
    BY <2>3 DEF ClientInv, ClientTypeOK, ServiceInv, ServiceTypes, CallInv, CallTypes,
                TabInv, TabTypes, NothingOutdated
<1>2. ASSUME ClientInv, UNCHANGED allVars
      PROVE  ClientInv'
  BY <1>2 DEF allVars, clientVars, serviceVars, ClientInv, ClientTypeOK, RequestsNameUsed,
              CallsAreTheirs, FetchesAreCurrent, SignoutsRevoke, SignedOutHasNoSession,
              SignedOutStaysOut, NothingOutdated, At, Calls
<1> QED
  BY <1>1, <1>2

LEMMA SpecClient == ClientSpec => []ClientInv
  BY ClientInvInit, ClientInvStep, PTL DEF ClientSpec

\* The client's variables have their types, and a guard never waits for a fetch
\* that nobody awaits any more (ensureQueryData).
THEOREM ClientTypes == ClientSpec => []ClientTypeOK
  BY SpecClient, PTL DEF ClientInv

\* The server side of the client is the service of SessionService, whatever the
\* tabs do (lib/api.ts).
THEOREM UsesService == ClientSpec => Spec
<1>1. ClientInit => Init
  BY DEF ClientInit
<1>2. ClientInv /\ [ClientNext]_allVars => [Next]_serviceVars
  BY NextIsServed DEF ClientInv, allVars
<1> QED
  BY <1>1, <1>2, SpecClient, PTL DEF ClientSpec, Spec

\* A tab that has signed out knows no principal and does not stay on the home
\* page, whatever other tabs, fetches and lost answers do, until a cookie comes in
\* (useSignout, the guards).
THEOREM SignOutHolds == ClientSpec => []SignedOutStaysOut
  BY SpecClient, PTL DEF ClientInv

\* No guard decides on an answer that was asked for before its tab's last sign-in
\* by login or its last sign-out, for any number of tabs, calls and lost answers
\* (useLogin, useSignout, the guards).
THEOREM GuardsStayCurrent == ClientSpec => GuardsDecideOnCurrent
<1>1. ClientInv /\ [ClientNext]_allVars
        => [\A b \in Tabs : Decide(b) => b \notin outdated]_allVars
  BY DEF ClientInv, NothingOutdated
<1> QED
  BY <1>1, SpecClient, PTL DEF ClientSpec, GuardsDecideOnCurrent
=============================================================================
