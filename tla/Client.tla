-------------------------------- MODULE Client --------------------------------
(***************************************************************************)
(* The web client's side of a session (web/src): the entry ["auth", "me"]   *)
(* of the query cache, the route guards that read it before a page is       *)
(* shown, and the three mutations that change it, in tabs that share the    *)
(* cookie jar of their browser.  The server is what SessionService promises: *)
(* a call of lib/api.ts is one of its requests, unless it never gets there. *)
(*                                                                         *)
(* The query cache and the router are libraries.  ensureQueryData returns   *)
(* what is cached, however old, and else joins or starts a fetch; removing  *)
(* an entry cancels its fetch, writing it does not; an entry nobody reads   *)
(* is collected in the end.  A navigation to another route replaces the one *)
(* under way, and the old page stays until the new one's guard has decided. *)
(***************************************************************************)
EXTENDS SessionService

CONSTANTS
    Tabs,           \* the open tabs
    BrowserOf       \* the jar each of them uses

Routes == {"home", "login", "register"}
Pages == Routes \cup {"blank", "error"}
Entries == {"undefined", "nobody", "principal"}
Forms == {"login", "register"}

\* A call: the tab that made it, whether the component that made it is still
\* there, and (history) whether a mutation has made it out of date.
Awaited == [tab : Tabs, op : Ops, mounted : BOOLEAN, overtaken : BOOLEAN]

ASSUME ClientAssumption ==
    /\ BrowserOf \in [Tabs -> Persons]
    /\ None \notin Routes \cup Awaited

VARIABLES
    cache,          \* the entry ["auth", "me"] of each tab
    page,           \* the page each tab shows
    target,         \* the route it is navigating to, None if it is not
    waiting,        \* the tabs whose guard awaits the fetch
    call,           \* the calls of lib/api.ts that await a response, by request
    signedOut,      \* history: the tab has signed out, nobody has signed in since
    outdated        \* history: the tabs whose entry was asked for before their
                    \* last sign-in by login, or their last sign-out

clientVars == <<cache, page, target, waiting, call, signedOut, outdated>>
tabVars == <<cache, page, target, waiting>>
allVars == <<serviceVars, clientVars>>

Calls(b, op) == {r \in Requests : call[r] # None /\ call[r].tab = b /\ call[r].op = op}

ClientInit ==
    /\ Init
    /\ cache = [b \in Tabs |-> "undefined"]
    /\ page = [b \in Tabs |-> "blank"]
    /\ target = [b \in Tabs |-> "home"]
    /\ waiting = {}
    /\ call = [r \in Requests |-> None]
    /\ signedOut = [b \in Tabs |-> FALSE]
    /\ outdated = {}

\* request(): the browser adds the cookie it has now; offline, the call goes
\* nowhere.
Request(b, op, r) ==
    /\ call[r] = None /\ req[r] = None
    /\ Send(r, BrowserOf[b], op) \/ UNCHANGED serviceVars
    /\ call' = [call EXCEPT ![r] = [tab |-> b, op |-> op, mounted |-> op \in Forms, overtaken |-> FALSE]]

-----------------------------------------------------------------------------
\* The component that made a call is gone once its page is: the callbacks it
\* passed to mutate() will not run.
Unmounted(b, calls) ==
    [r \in Requests |-> IF calls[r] # None /\ calls[r].tab = b
                          THEN [calls[r] EXCEPT !.mounted = FALSE]
                          ELSE calls[r]]

Show(b, p, calls) ==
    /\ page' = [page EXCEPT ![b] = p]
    /\ target' = [target EXCEPT ![b] = None]
    /\ waiting' = waiting \ {b}
    /\ call' = IF p = page[b] THEN calls ELSE Unmounted(b, calls)

\* Mutant: the guard of the navigation that is replaced is still waited for.
GoToAwaiting(b, route) ==
    /\ target' = [target EXCEPT ![b] = route]
    /\ UNCHANGED waiting

\* A navigation starts, and replaces the one under way.
GoTo(b, route) ==
    /\ target' = [target EXCEPT ![b] = route]
    /\ waiting' = waiting \ {b}

\* A link, or the browser's back and forward, also while another navigation is
\* under way.
Navigate(b, route) ==
    /\ page[b] # "blank" /\ target[b] # route
    /\ GoTo(b, route)
    /\ UNCHANGED <<serviceVars, cache, page, call, signedOut, outdated>>

\* The tab is loaded anew, in the middle of a navigation too: what was cached and
\* awaited is gone.
Reload(b, route) ==
    /\ page[b] # "blank" /\ target[b] \in {None, route}
    /\ cache' = [cache EXCEPT ![b] = "undefined"]
    /\ page' = [page EXCEPT ![b] = "blank"]
    /\ GoTo(b, route)
    /\ call' = [r \in Requests |-> IF call[r] # None /\ call[r].tab = b THEN None ELSE call[r]]
    /\ outdated' = outdated \ {b}
    /\ UNCHANGED <<serviceVars, signedOut>>

\* The guard's ensureQueryData finds nothing cached and awaits a fetch, one of
\* its own unless another is under way.
Query(b) ==
    /\ target[b] # None /\ b \notin waiting
    /\ cache[b] = "undefined"
    /\ waiting' = waiting \cup {b}
    /\ IF Calls(b, "me") = {}
         THEN \E r \in Requests : Request(b, "me", r)
         ELSE UNCHANGED <<serviceVars, call>>
    /\ UNCHANGED <<cache, page, target, signedOut, outdated>>

\* The links between the two guest pages preload: their guards run on intent.
Preload(b) ==
    /\ page[b] \in Forms /\ target[b] = None
    /\ cache[b] = "undefined" /\ Calls(b, "me") = {}
    /\ \E r \in Requests : Request(b, "me", r)
    /\ UNCHANGED <<tabVars, signedOut, outdated>>

\* Mutant: null counts as a user on the guest pages.
AdmitsUndefined(route, entry) == route = "home" /\ entry = "principal"

\* Home is for a principal, the guest pages for nobody.
Admits(route, entry) == (route = "home") = (entry = "principal")

\* The guard has an answer: the page is shown or the visitor redirected.
Decide(b) ==
    /\ target[b] # None /\ b \notin waiting
    /\ cache[b] # "undefined"
    /\ IF Admits(target[b], cache[b])
         THEN Show(b, target[b], call)
         ELSE /\ GoTo(b, IF target[b] = "home" THEN "login" ELSE "home")
              /\ UNCHANGED <<page, call>>
    /\ UNCHANGED <<serviceVars, cache, signedOut, outdated>>

\* The entry has not been fetched or written for gcTime, minutes in which any
\* navigation has ended.
Collect(b) ==
    /\ cache[b] # "undefined" /\ target[b] = None /\ Calls(b, "me") = {}
    /\ cache' = [cache EXCEPT ![b] = "undefined"]
    /\ outdated' = outdated \ {b}
    /\ UNCHANGED <<serviceVars, page, target, waiting, call, signedOut>>

-----------------------------------------------------------------------------
\* A form's button is disabled while the mutation of its component is pending.
Submit(b, form) ==
    /\ page[b] = form
    /\ \A r \in Calls(b, form) : ~call[r].mounted
    /\ \E r \in Requests : Request(b, form, r)
    /\ UNCHANGED <<tabVars, signedOut, outdated>>

\* The home page's button is not.
Signout(b) ==
    /\ page[b] = "home"
    /\ \E r \in Requests : Request(b, "logout", r)
    /\ UNCHANGED <<tabVars, signedOut, outdated>>

Reply(r, op) == call[r] # None /\ call[r].op = op /\ Receive(r)

\* removeQueries and clear cancel the fetch of the entry they remove.
Cancelled(b) == Calls(b, "me")

\* History: what a mutation that has succeeded makes out of date.
Overtakes(c, d) ==
    \/ c.op \in {"login", "logout"} /\ d.op = "me" /\ d.tab = c.tab
    \/ c.op \in Forms /\ d.op = "logout"
         /\ BrowserOf[d.tab] = BrowserOf[c.tab]

Succeeded(r, cancelled) ==
    [x \in Requests |->
       IF x = r \/ x \in cancelled THEN None
       ELSE IF call[x] # None /\ Overtakes(call[r], call[x])
              THEN [call[x] EXCEPT !.overtaken = TRUE]
              ELSE call[x]]

\* History: a login or sign-out of the tab has succeeded, and left it this entry.
Outdates(b, entry) ==
    outdated' = IF entry = "undefined" THEN outdated \ {b} ELSE outdated \cup {b}

Finished(r) == [call EXCEPT ![r] = None]

\* A cookie has come in: nobody in that browser is signed out any more.
SignedIn(p) == [b \in Tabs |-> IF BrowserOf[b] = p THEN FALSE ELSE signedOut[b]]

\* getMe: 401 is an answer, not an error.
FetchAnswered(r) ==
    LET b == call[r].tab IN
    /\ Reply(r, "me")
    /\ cache' = [cache EXCEPT ![b] = IF req[r].ok THEN "principal" ELSE "nobody"]
    /\ waiting' = waiting \ {b}
    /\ call' = Finished(r)
    /\ outdated' = IF call[r].overtaken THEN outdated \cup {b} ELSE outdated \ {b}
    /\ UNCHANGED <<page, target, signedOut>>

\* A fetch that fails ends the navigation that awaits it on the error page.
NoAnswer(r) ==
    LET b == call[r].tab IN
    /\ call[r] # None
    /\ Lose(r) \/ (req[r] = None /\ UNCHANGED serviceVars)
    /\ IF call[r].op = "me" /\ b \in waiting
         THEN Show(b, "error", Finished(r))
         ELSE call' = Finished(r) /\ UNCHANGED <<page, target, waiting>>
    /\ UNCHANGED <<cache, signedOut, outdated>>

\* Mutant: invalidateQueries instead, which keeps the entry.
KeepEntry(entry) == entry

\* removeQueries.
Evict(entry) == "undefined"

\* useLogin: the entry goes, and the form, if it is still there, leads on; a
\* guard that awaits the cancelled fetch fails otherwise.
LoginAnswered(r) ==
    LET b == call[r].tab
        calls == Succeeded(r, Cancelled(b))
    IN
    /\ Reply(r, "login")
    /\ IF req[r].ok
         THEN /\ cache' = [cache EXCEPT ![b] = Evict(@)]
              /\ Outdates(b, Evict(cache[b]))
              /\ IF call[r].mounted
                   THEN GoTo(b, "home") /\ call' = calls /\ UNCHANGED page
                   ELSE IF b \in waiting /\ Cancelled(b) # {}
                     THEN Show(b, "error", calls)
                     ELSE call' = calls /\ UNCHANGED <<page, target, waiting>>
              /\ signedOut' = SignedIn(req[r].who)
         ELSE call' = Finished(r) /\ UNCHANGED <<tabVars, signedOut, outdated>>

\* useRegister: the entry is written, and a fetch under way goes on.
RegisterAnswered(r) ==
    LET b == call[r].tab IN
    /\ Reply(r, "register")
    /\ IF req[r].ok
         THEN /\ cache' = [cache EXCEPT ![b] = "principal"]
              /\ call' = Succeeded(r, {})
              /\ IF call[r].mounted THEN GoTo(b, "home") ELSE UNCHANGED <<target, waiting>>
              /\ signedOut' = SignedIn(req[r].who)
              /\ outdated' = outdated \ {b}
              /\ UNCHANGED page
         ELSE call' = Finished(r) /\ UNCHANGED <<tabVars, signedOut, outdated>>

\* Mutant: only the navigation is left of onSuccess.
ForgetNothing(entry) == entry

\* setQueryData(null), then clear().
Forget(entry) == "undefined"

\* useSignout: its onSuccess runs wherever the tab is by then.
SignoutAnswered(r) ==
    LET b == call[r].tab IN
    /\ Reply(r, "logout")
    /\ IF req[r].ok
         THEN /\ cache' = [cache EXCEPT ![b] = Forget(@)]
              /\ Outdates(b, Forget(cache[b]))
              /\ call' = Succeeded(r, Cancelled(b))
              /\ GoTo(b, "login")
              /\ signedOut' = [signedOut EXCEPT ![b] = @ \/ ~call[r].overtaken]
              /\ UNCHANGED page
         ELSE call' = Finished(r) /\ UNCHANGED <<tabVars, signedOut, outdated>>

\* Nobody awaits the response any more, but the browser keeps its cookie.
Unawaited(r) ==
    /\ call[r] = None
    /\ \/ Lose(r) /\ UNCHANGED clientVars
       \/ /\ Receive(r)
          /\ LET signIn == req[r].set # None IN
               /\ signedOut' = IF signIn THEN SignedIn(req[r].who) ELSE signedOut
               /\ call' = [x \in Requests |->
                    IF signIn /\ call[x] # None /\ call[x].op = "logout"
                         /\ BrowserOf[call[x].tab] = req[r].who
                      THEN [call[x] EXCEPT !.overtaken = TRUE]
                      ELSE call[x]]
          /\ UNCHANGED <<tabVars, outdated>>

Respond(r) ==
    \/ FetchAnswered(r) \/ LoginAnswered(r) \/ RegisterAnswered(r) \/ SignoutAnswered(r)
    \/ NoAnswer(r) \/ Unawaited(r)

Route(b) == Query(b) \/ Decide(b)

\* The server's own steps.
Server(A) == A /\ UNCHANGED clientVars

ClientNext ==
    \/ \E b \in Tabs : Route(b) \/ Preload(b) \/ Collect(b) \/ Signout(b)
    \/ \E b \in Tabs, route \in Routes : Navigate(b, route) \/ Reload(b, route)
    \/ \E b \in Tabs, form \in Forms : Submit(b, form)
    \/ \E r \in Requests : Respond(r) \/ Server(Serve(r))
    \/ Server(Withdraw)
    \/ Server(Restart)

ClientSpec == ClientInit /\ [][ClientNext]_allVars

\* The event loop runs what it can, the server answers every request, and every
\* request ends with a response or an error.
ClientFairSpec ==
    /\ ClientSpec
    /\ \A b \in Tabs : WF_allVars(Route(b))
    /\ \A r \in Requests : WF_allVars(Server(Serve(r)) \/ Respond(r))

-----------------------------------------------------------------------------
(***************************************************************************)
(* Properties.                                                             *)
(***************************************************************************)

\* Types; a guard waits only on behalf of a navigation, and for a fetch of its
\* own tab that is still awaited (ensureQueryData).
ClientTypeOK ==
    /\ req \in [Requests -> Asked \cup Replied \cup {None}]
    /\ granted \subseteq used /\ used \subseteq Tokens
    /\ jar \in [Persons -> used \cup {None}]
    /\ cache \in [Tabs -> Entries]
    /\ page \in [Tabs -> Pages]
    /\ target \in [Tabs -> Routes \cup {None}]
    /\ call \in [Requests -> Awaited \cup {None}]
    /\ signedOut \in [Tabs -> BOOLEAN]
    /\ outdated \subseteq Tabs
    /\ waiting \subseteq {b \in Tabs : target[b] # None /\ Calls(b, "me") # {}}

\* Once a tab has signed out, and until somebody signs in in that browser, it
\* knows no principal and shows the home page only while it is leaving it:
\* neither a fetch begun before nor the cookie the browser keeps brings the user
\* back (useSignout, the guards).
SignedOutStaysOut ==
    \A b \in Tabs :
      signedOut[b] => /\ cache[b] # "principal"
                      /\ page[b] = "home" => target[b] # None

\* "Remove the pre-login null from cache so the next ensureQueryData fetches
\* fresh" (mutations.ts:48): no guard decides on an answer that was asked for
\* before the tab's last sign-in by login, or its last sign-out, whether it was
\* cached by then or arrived afterwards (useLogin, useSignout, the guards).
GuardsDecideOnCurrent ==
    [][\A b \in Tabs : Decide(b) => b \notin outdated]_allVars

\* Unless the user goes on signing in or out or choosing other routes, every
\* navigation ends, on a page or on the error page: the two guards never send a visitor to
\* and fro, and none waits for a fetch that a mutation has cancelled (the guards,
\* router.tsx).
NavigationSettles ==
    \A b \in Tabs :
      (/\ <>[][FALSE]_used
       /\ <>[](Calls(b, "logout") = {})
       /\ <>[][\A route \in Routes : ~Navigate(b, route)]_target)
      => (target[b] # None ~> target[b] = None)
=============================================================================
