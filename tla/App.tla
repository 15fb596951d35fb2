--------------------------------- MODULE App ---------------------------------
(***************************************************************************)
(* The program of api/main.go and api/server.go: main, the goroutine that  *)
(* serves HTTP, the requests in flight, and the scheduler, which is the    *)
(* module Scheduler itself with main as the only caller of Shutdown.  The  *)
(* context given to Start is appCtx: its cause is "signal" when the OS     *)
(* signal cancelled it through signalCtx and "fatal" when the OnFatal hook *)
(* called cancelApp, so Hook = "cancelParent".                             *)
(*                                                                         *)
(* A process that has exited takes no step.  The budget of the shutdown is *)
(* one context.WithTimeout for the scheduler and for the HTTP server.      *)
(***************************************************************************)
EXTENDS Scheduler, Configuration

CONSTANT Requests       \* HTTP requests that may arrive, once each

ASSUME AppAssumption == Callers = {"main"} /\ Deadlines = {"main"} /\ Hook = "cancelParent"

VARIABLES
  main,         \* where main is
  isFatal,      \* main's local of that name
  server,       \* the http.Server: "new", "listening" or "shut"
  draining,     \* isShuttingDownServer
  request,      \* each request: "none", "inFlight" or "answered"
  expired,      \* shutdownCtx has reached its deadline
  db,           \* what has been done with the database: "open", "memory", "migrated"
  exit          \* "running", or how the process ended

appVars == <<main, isFatal, server, draining, request, expired, db, exit>>
allVars == <<vars, appVars>>

\* The program points of main, in order.
MainState ==
  {"setup", "wire", "wait", "stop", "cause", "shutdown", "drain",
   "close", "poll", "select", "end", "return", "gone"}

\* How the process may end: main returns (0), the four exit codes main.go
\* names and uses, and a signal that is no longer caught.
ExitState ==
  {"running", "ok", "serverClosed", "serverShutdown", "setupDb", "fatalTask", "killed"}

InFlight == {r \in Requests : request[r] = "inFlight"}

AppInit ==
  /\ Init
  /\ main = "setup"
  /\ isFatal = FALSE
  /\ server = "new"
  /\ draining = FALSE
  /\ request = [r \in Requests |-> "none"]
  /\ expired = FALSE
  /\ db = {}
  /\ exit = "running"

Running == exit = "running"
MainAt(p) == Running /\ main = p
MainGoes(p) == main' = p

(***************************************************************************)
(* Starting.                                                               *)
(***************************************************************************)

Opened ==
  {"open"} \cup (IF InMemory THEN {"memory"} ELSE {})
           \cup (IF AutoMigrates THEN {"migrated"} ELSE {})

\* Mutant: the error of setupDb is logged and main goes on.
SetupDbUnchecked ==
  /\ MainAt("setup")
  /\ db' \in {{}, Opened}
  /\ MainGoes("wire")
  /\ UNCHANGED <<vars, isFatal, server, draining, request, expired, exit>>

\* setupDb opens the database and brings its schema up to date, or fails on the
\* way, and main exits.
SetupDb ==
  /\ MainAt("setup")
  /\ \/ exit' = "setupDb" /\ MainGoes("gone") /\ UNCHANGED db
     \/ db' = Opened /\ MainGoes("wire") /\ UNCHANGED exit
  /\ UNCHANGED <<vars, isFatal, server, draining, request, expired>>

\* InitModule registers the jobs; without an API base path nothing is registered.
Wire(j) ==
  /\ MainAt("wire")
  /\ Add(j)
  /\ UNCHANGED appVars

StartScheduler ==
  /\ MainAt("wire")
  /\ Start
  /\ MainGoes("wait")
  /\ UNCHANGED <<isFatal, server, draining, request, expired, db, exit>>

(***************************************************************************)
(* The goroutine of startServer and the requests.                          *)
(***************************************************************************)

Listen ==
  /\ Running
  /\ main \notin {"setup", "wire"}
  /\ server = "new"
  /\ server' = "listening"
  /\ UNCHANGED <<vars, main, isFatal, draining, request, expired, db, exit>>

\* ListenAndServe fails to listen or to accept; after server.Shutdown it
\* returns ErrServerClosed instead, which is no failure.
ServeFails ==
  /\ Running
  /\ main \notin {"setup", "wire"}
  /\ server # "shut"
  /\ exit' = "serverClosed"
  /\ UNCHANGED <<vars, main, isFatal, server, draining, request, expired, db>>

Accept(r) ==
  /\ Running
  /\ server = "listening"
  /\ request[r] = "none"
  /\ request' = [request EXCEPT ![r] = "inFlight"]
  /\ UNCHANGED <<vars, main, isFatal, server, draining, expired, db, exit>>

Respond(r) ==
  /\ Running
  /\ request[r] = "inFlight"
  /\ request' = [request EXCEPT ![r] = "answered"]
  /\ UNCHANGED <<vars, main, isFatal, server, draining, expired, db, exit>>

(***************************************************************************)
(* Signals and the deadline.                                               *)
(***************************************************************************)

\* The first signal cancels signalCtx and with it appCtx.
Signal ==
  /\ Running
  /\ main \in {"setup", "wire", "wait", "stop"}
  /\ CancelParent
  /\ UNCHANGED appVars

\* After stop() a signal has its default effect.
UncaughtSignal ==
  /\ Running
  /\ main \notin {"setup", "wire", "wait", "stop"}
  /\ exit' = "killed"
  /\ UNCHANGED <<vars, main, isFatal, server, draining, request, expired, db>>

Expire ==
  /\ Running
  /\ main \in {"drain", "close", "poll", "select"}
  /\ ~expired
  /\ expired' = TRUE
  /\ UNCHANGED <<vars, main, isFatal, server, draining, request, db, exit>>

(***************************************************************************)
(* The shutdown path of main.                                              *)
(***************************************************************************)

\* <-appCtx.Done()
Wake ==
  /\ MainAt("wait")
  /\ parent # None
  /\ MainGoes("stop")
  /\ UNCHANGED <<vars, isFatal, server, draining, request, expired, db, exit>>

StopSignals ==
  /\ MainAt("stop")
  /\ MainGoes("cause")
  /\ UNCHANGED <<vars, isFatal, server, draining, request, expired, db, exit>>

\* Mutant: any fatal job counts, also one that failed after the signal.
ReadFatal ==
  /\ MainAt("cause")
  /\ cause # None
  /\ isFatal' = (fatal # {})
  /\ MainGoes("shutdown")
  /\ UNCHANGED <<vars, server, draining, request, expired, db, exit>>

\* context.Cause takes the mutex that the cancellation of appCtx holds until
\* the contexts derived from it are cancelled.
ReadCause ==
  /\ MainAt("cause")
  /\ cause # None
  /\ isFatal' = (parent = "fatal")
  /\ MainGoes("shutdown")
  /\ UNCHANGED <<vars, server, draining, request, expired, db, exit>>

\* shutdownCtx is created and sched.Shutdown called.
BeginDrain ==
  /\ MainAt("shutdown")
  /\ ShutdownBegin("main")
  /\ MainGoes("drain")
  /\ UNCHANGED <<isFatal, server, draining, request, expired, db, exit>>

\* Mutant: Shutdown is given a context without a deadline.
BudgetSpentNever == FALSE

\* shutdownCtx has reached its deadline.
BudgetSpent == expired

\* Within Shutdown, which gives up only when the budget is spent.
Drain ==
  /\ MainAt("drain")
  /\ \/ ShutdownCancel("main") \/ ShutdownDrained("main")
     \/ BudgetSpent /\ ShutdownTimeout("main")
  /\ UNCHANGED appVars

\* Mutant: main goes on to the HTTP server without waiting for Shutdown.
SchedulerAsked == shut["main"] # "idle"

\* Shutdown has returned; its error is only logged.
SchedulerAnswered == shut["main"] \in {"drained", "timeout", "notStarted"}

RaiseFlag ==
  /\ MainAt("drain")
  /\ SchedulerAnswered
  /\ draining' = TRUE
  /\ MainGoes("close")
  /\ UNCHANGED <<vars, isFatal, server, request, expired, db, exit>>

\* server.Shutdown closes the listener before it looks at the connections.
CloseListener ==
  /\ MainAt("close")
  /\ server' = "shut"
  /\ MainGoes("poll")
  /\ UNCHANGED <<vars, isFatal, draining, request, expired, db, exit>>

\* Mutant: server.Close instead of server.Shutdown.
AllIdle == TRUE

Idle == InFlight = {}

\* It polls the connections, and looks at the deadline only if some are busy.
Poll ==
  /\ MainAt("poll")
  /\ MainGoes(IF Idle THEN "end" ELSE "select")
  /\ UNCHANGED <<vars, isFatal, server, draining, request, expired, db, exit>>

PollAgain ==
  /\ MainAt("select")
  /\ MainGoes("poll")
  /\ UNCHANGED <<vars, isFatal, server, draining, request, expired, db, exit>>

DrainFails ==
  /\ MainAt("select")
  /\ expired
  /\ exit' = "serverShutdown"
  /\ MainGoes("gone")
  /\ UNCHANGED <<vars, isFatal, server, draining, request, expired, db>>

\* The connections are idle, and Shutdown returns the error that closing the
\* listener came to.
CloseFails ==
  /\ MainAt("poll")
  /\ Idle
  /\ exit' = "serverShutdown"
  /\ MainGoes("gone")
  /\ UNCHANGED <<vars, isFatal, server, draining, request, expired, db>>

\* stopRequestContext; then os.Exit(5), which runs no deferred call, ...
ExitFatal ==
  /\ MainAt("end")
  /\ isFatal
  /\ exit' = "fatalTask"
  /\ MainGoes("gone")
  /\ UNCHANGED <<vars, isFatal, server, draining, request, expired, db>>

\* ... or the deferred db.Close and the end of main.
CloseDb ==
  /\ MainAt("end")
  /\ ~isFatal
  /\ db' = db \ {"open"}
  /\ MainGoes("return")
  /\ UNCHANGED <<vars, isFatal, server, draining, request, expired, exit>>

Return ==
  /\ MainAt("return")
  /\ exit' = "ok"
  /\ MainGoes("gone")
  /\ UNCHANGED <<vars, isFatal, server, draining, request, expired, db>>

Main ==
  \/ SetupDb \/ StartScheduler \/ Wake \/ StopSignals \/ ReadCause \/ BeginDrain \/ Drain
  \/ RaiseFlag \/ CloseListener \/ Poll \/ PollAgain \/ DrainFails \/ CloseFails
  \/ ExitFatal \/ CloseDb \/ Return

\* The scheduler's own goroutines.
Background(A) == Running /\ A /\ UNCHANGED appVars

AppNext ==
  \/ Main
  \/ \E j \in Jobs : Wire(j) \/ Background(Runner(j)) \/ Background(Returns(j))
  \/ Background(PropagateCancel)
  \/ Background(Tick)
  \/ Listen \/ ServeFails \/ Signal \/ UncaughtSignal \/ Expire
  \/ \E r \in Requests : Accept(r) \/ Respond(r)

AppSpec == AppInit /\ [][AppNext]_allVars

(***************************************************************************)
(* Fairness: main and the runners run, a cancellation propagates, the      *)
(* deadline comes, and a poll that keeps finding the deadline passed stops *)
(* polling.  Neither jobs nor handlers need ever return.                   *)
(***************************************************************************)
AppFairSpec ==
  /\ AppSpec
  /\ WF_allVars(Main)
  /\ SF_allVars(DrainFails)
  /\ WF_allVars(Expire)
  /\ WF_allVars(Background(PropagateCancel))
  /\ \A j \in Jobs : WF_allVars(Background(Runner(j)))

(***************************************************************************)
(* Properties.                                                             *)
(***************************************************************************)

\* Types; and the database is open while main uses it (setupDb).
AppTypeOK ==
  /\ main \in MainState
  /\ isFatal \in BOOLEAN
  /\ server \in {"new", "listening", "shut"}
  /\ draining \in BOOLEAN
  /\ request \in [Requests -> {"none", "inFlight", "answered"}]
  /\ expired \in BOOLEAN
  /\ db \subseteq {"open", "memory", "migrated"}
  /\ exit \in ExitState
  /\ main \notin {"setup", "return", "gone"} => "open" \in db

\* A process that reports an orderly end, code 0 or 5, has answered every
\* request it accepted (shutdownServer): an interrupted one is never hidden
\* behind these codes.
CleanExit ==
  exit \in {"ok", "fatalTask"} => server = "shut" /\ InFlight = {}

\* The exit code tells what began the shutdown: 5 only if a fatal job was
\* first, 0 only if a signal was (main).
ExitTellsCause ==
  /\ exit = "fatalTask" => parent = "fatal" /\ fatal # {}
  /\ exit = "ok" => parent = "signal"

\* "Stop background jobs first": the listener is closed only after Shutdown has
\* answered and the health endpoint says 503, so while requests drain no job
\* runs unless the budget is spent (main, shutdownServer).
JobsBeforeHttp ==
  server = "shut" =>
    /\ draining
    /\ Live = {} \/ (expired /\ shut["main"] = "timeout") \/ ~started

\* The database outlives its users: when it is closed no request is in flight,
\* and no job runs if Shutdown said so (main, the order of the deferred calls).
DbOutlivesUsers ==
  main = "return" => /\ InFlight = {}
                     /\ shut["main"] = "drained" => Live = {}

\* "Both share a single ShutdownTimeout budget so total shutdown cannot exceed
\* it" (main.go:92-93): once the application context is cancelled the process
\* ends, though neither jobs nor handlers may ever return.
ShutdownEnds == parent # None ~> exit # "running"

\* A fatal error ends the process, whatever the other jobs do.
FatalEndsProcess == fatal # {} ~> exit # "running"

\* "`dev`, `prod`, or `test`.  Controls auto-migration, in-memory DB, and the
\* cookie `Secure` flag" (README.md:129): while it serves, a process started with
\* APP_ENV=prod has migrated nothing and its cookies are for HTTPS only, and one
\* started with APP_ENV=test has its database in memory.
ModeIsObeyed ==
  main = "wait" =>
    /\ AppEnv = "prod" => "migrated" \notin db /\ SecureCookie
    /\ AppEnv = "test" => "memory" \in db

\* "ErrSchedulerClosed is the cancellation cause used when Shutdown stops the
\* running jobs.  It lets jobs distinguish a normal shutdown" (job.go:55-57):
\* jobs drained in a shutdown that a signal began were told so.
NormalShutdownIsTold ==
  shut["main"] = "drained" /\ parent = "signal" => cause = "closed"
=============================================================================
