# Verification of MrTutor

TLA+ models of MrTutor's API (`src/api`, Go) and of its web client's side of a
session (`src/web`, React). The modules are translated from the code. TLC checks
them on small instances; TLAPS proves the theorems of the `*Proofs` modules for
every value of the constants.

1. [Inventory](#1-inventory)
2. [Modules and how they correspond to the code](#2-modules)
3. [Runs: what is checked, with which bounds](#3-runs)
4. [Fairness](#4-fairness)
5. [What the code does differently from what is said of it](#5-findings)
6. [Theorems](#6-theorems)
7. [What is not modelled](#7-not-modelled)
8. [Plan](#8-plan)

## 1. Inventory

| Component | State it keeps | Operations | Talks to |
|---|---|---|---|
| **Schedules** `scheduler/schedule.go` | anchor, "asked already", "delay handed out" of one schedule value | `Next` of `Periodic`, `PeriodicAt`, `Once`, `OnceAt`, `Delayed` | called by one runner |
| **Scheduler** `scheduler/scheduler.go`, `job.go`, `clock.go` | `started`, `jobs`, `wg`, `runCtx`/`cancel`, `fatalOnce`, one goroutine per job | `Add`, `Start`, `Shutdown`, `run`, `invoke`, `call`, `triggerFatal`, the `OnFatal` hook | schedules, job functions, the parent context |
| **Application** `main.go`, `server.go`, `routes.go` | `signalCtx`, `appCtx`, the HTTP server, `isShuttingDownServer`, the database handle, the exit code | setup, wiring, serving, signal or fatal task, scheduler drain, HTTP drain, exit | scheduler, `net/http`, OS signals, database |
| **Sessions** `features/auth/{service,repository,controller,domain}.go`, `db/queries/session_queries.sql` | the `sessions` table, one goroutine per accepted request, the cookies of the browsers | register, login, logout, `VerifySession`/`RequireAuth`, refresh, cleanup | SQLite, scheduler (the `session-cleanup` job), browsers |
| **Accounts** `features/auth/{service,repository,mapper,context}.go`, `db/queries/user_queries.sql` | the `users` table, the `user_id` of each session | create, find by e-mail or username, verify a password, answer the principal | sessions, bcrypt |
| **Roles** `features/auth/rules.go` | none | `HasRole`, `RequireRole`, used by no route yet | |
| **Transport** `transport/httpbind`, `errors` | none | decode, validate, execute, encode; error to status | handlers |
| **Validation** `validation` | none | rules on strings | transport |
| **Configuration** `config` | the environment, read once | `parseAppMode`, duration and DSN parsing | application, cookies |
| **Database** `db`, `db/migrations`, `cmd/migrate` | SQLite file or `:memory:` | open, migrate | everything above |
| **Web client** `web/src/{features/auth,routes,lib,router.tsx}` | per tab: the entry `["auth", "me"]` of the query cache, the page, the navigation under way; per browser: the cookie | the guards of `/`, `/auth/login` and `/auth/register`, `useLogin`, `useRegister`, `useSignout`, preloading, reloading | the API, TanStack Query and Router (libraries) |
| Generated queries, logging, middlewares, static files, pages | none of their own | | |

### What is hard in it

* *Concurrency in the scheduler.* A runner is in a `select` on a timer and on a
  cancelled context, both of which may be ready. Several jobs may fail fatally
  together, so that all but one block in `sync.Once` while the first is in a
  hook that cancels the scheduler's own parent context. `Shutdown` may be called
  by several goroutines, before, during and after `Start`.
* *Time.* `Clock.Now().In(loc)` drops Go's monotonic reading while the timer
  runs on it, so a step of the wall clock separates the two; the slot formula
  truncates toward zero, saturates and wraps.
* *The end of the process.* Signal, fatal job, failing listener, stuck job, stuck
  handler and one shared budget race for the exit code, and a second signal
  after `stop()` kills the process.
* *Sessions.* The handlers use no transaction and `VerifySession` leaves a
  goroutine behind, so the refresh of a session races with its logout, its
  cleanup, other refreshes and the end of the process; time is read before the
  statement that stores it, and the comparison is one of texts in two zones.
  Responses that carry cookies are lost and reordered.
* *Accounts.* A registration is two INSERTs without a transaction, and other
  requests run between validation and the first, and between the two. What a
  login is looked up by lives in two columns, each unique only in itself.
* *The client's cache.* The guards ask `ensureQueryData`, which returns what is
  cached whatever its age. A fetch begun before a sign-in or a sign-out may be
  answered after it; a mutation may be answered when its page is gone or while a
  guard waits for the fetch that the mutation cancels.

The hazards, each at its line and with the properties that would catch it going
wrong, are listed in `PROJECT.json`.

### What makes each component correct

* Schedules: the answer of a recurring schedule is the first aligned slot
  strictly after the question; delays come first, then a one-shot its planned
  instant, once, whatever the sign of its delay.
* Scheduler: exactly the jobs that `Add` accepted before `Start` run, one runner per
  name; one run per slot, nothing begun early; a
  failing job keeps its schedule; a fatal one always escalates, hook first;
  a drained scheduler is silent for good; cancelled schedulers drain.
* Application: the exit code tells what began the shutdown and does not hide an
  interrupted request; jobs are drained before HTTP and the database closed
  after both; the shutdown ends within its budget.
* Client: a tab that has signed out knows no principal; no guard decides on an
  answer that was asked for before the last login or sign-out; every navigation ends.
* Sessions: a logout is final; no session is accepted past either expiry, and none
  comes back once its last refresh has been written; the
  cleanup takes only what is unusable and takes it in the end.
* Accounts: `/auth/me` answers a person an account of that person, whatever
  raced; what is validated can be stored; an account that was inserted can be logged in
  to, also when its registration failed half-way.
* Configuration: the mode the environment names is the mode the program runs in.

## 2. Modules

```
Schedules  <---- ScheduleDriver <---- MCScheduleDriver
    ^   ^              ^
    |   |              +------------------- DriverProofs
    |   |                                        |
    |   +------- ScheduleProofs <----------------+
    |                 ^
    |                 +------------ SchedulerProofs <---- SlotProofs, AppProofs
    |                                     |
Scheduler  <---- SchedulerProperties <---- MCScheduler
    ^                 |          ^        |
    |                 |          +--------+
    |                 +-- INSTANCE Supervision   (the abstract specification)
    |
   App     <---- MCApp, AppProofs
    |
    v
Configuration

Sessions   <---- MCSessions
    ^   ^
    |   +------- SessionProofs
    |
    +-- INSTANCE SessionService      (the abstract specification)
                  ^       ^
                  |       |
               Client   Accounts  <---- MCAccounts, AccountProofs
                  ^
                  |
               MCClient, ClientProofs
```

An arrow leads from a module to one that it extends. The `MC` modules give the constants their values for
TLC; the `*Proofs` modules hold the theorems of section 6.

**`Schedules`** is pure: `NextFire(schedule, after)` is `Schedule.Next`, and
returns the new state of the schedule with the two results. A nest of
`Delayed` schedules is the sequence of delays not yet handed out in front of the
innermost schedule, so that the `started` flag of a `delayedSchedule` is the
removal of its delay. `Sub` saturates and `Wrapped` wraps like a `time.Duration`,
whose width is the constant `MaxDuration`; `Quotient` truncates toward zero.
What the code leaves to its caller (`interval > 0`) is the set `Interval`.

**`ScheduleDriver`** asks one schedule at instants that stand still, advance,
jump over slots or go back, and keeps the history of the calls, which the
properties compare with slots found by counting.

**`Scheduler`** has one action per operation. `Add`, `Start` and the first half
of `Shutdown` hold the mutex from end to end and are one step each. The runner of
job `j` is a program counter `pc[j]`; what it does between two blocking points is one
step:

| `pc[j]` | in the code | leaves by |
|---|---|---|
| `entry` | `run`, before the first `Next` | `First` |
| `select` | timer armed, entering the `select` | `SelectDone`, `SelectTimer`, `Park` |
| `parked` | blocked in the `select` | `SelectTimer`, or woken by `CancelRun` |
| `call` | in the job's function | `CallReturns` |
| `fatal`, `hook`, `hooked`, `cancel` | `triggerFatal`: before `Do`, in it before the hook, in the hook, after it | `FatalEnter`/`FatalSkip`, `CallHook`, `HookReturns`, `FatalCancel` |
| `rearm` | back in `run` | `Rearm` |
| `leave` | returning | `Exit` (the deferred `wg.Done`) |

`now` is the monotonic clock that timers use and `now + offset` the wall clock
that schedules are asked with. Contexts are external code: `cause` is the first
cause `runCtx` was cancelled with, `parent` that of the context given to `Start`,
and `PropagateCancel` the step by which the one reaches the other. `begun`,
`fatal` and `hookCalls` are history.

**`Supervision`** is what the scheduler promises, with no clocks, contexts or
wait groups: runners are launched once, never retired inside a run, nor before
the stop unless their schedule is finite; `drained` is said only when no
runner is left. `SchedulerProperties!Promise` is the refinement mapping: `live`
is the set of runners not gone, `busy` those in `invoke` (escalation included), the
phase is read off `started` and `cause`. `KeepsPromise` is `Promise!Spec`.

**`App`** extends `Scheduler` and drives it: `Wire` is `Add`, `StartScheduler` is
`Start`, `BeginDrain` and `Drain` are the one call of `Shutdown`. `main` is at a
program point; `os.Exit` and the end of `main` set `exit`, after which nothing
steps. `parent` is the cause of `appCtx`: `"signal"` or `"fatal"`.
`server.Shutdown` is modelled by what it does (external): close the listener, poll for
idle connections, look at the deadline only between two polls, and once idle return the error
of closing the listener, if there was one (`CloseFails`). `db` is what `setupDb` has
done with the database in the mode that **`Configuration`** computes from `AppEnv`:
`parseAppMode` with its empty cases, and the three things that depend on it.

**`Sessions`** has one step per SQL statement and one per reading of the clock
whose value is stored later. A request is a record with its program point `at`:

| operation | steps |
|---|---|
| `Register` | `Invalid` or `CreatePrincipal`, `StampSession`, `InsertSession` |
| `Login` | `Invalid` or `FindPrincipal`, `StampSession`, `InsertSession` |
| `Logout` | `DeleteSession` |
| `RequireAuth` + `MeHandler` | `Accept` (which launches a refresh) or `Reject` |
| refresh goroutine | `StampRefresh`, `UpdateIdle` or `FailRefresh` |
| cleanup job | `DeleteExpiredSessions` |

`Fail` is a statement that fails, `Receive` and `Lose` the fate of a response,
`Restart` a crash between any two steps. `jar` holds each browser's cookie. An
account is named by its owner (a person's requests carry the same username and
e-mail), which is all the session properties tell apart.

**`SessionService`** is what the sessions promise their callers, with no clock, rows,
statements or goroutines: a session is granted under a token nobody had before,
a request is admitted only while the session its cookie names has not been taken away,
what is gone never comes back, and any request may be refused and any session
withdrawn. `Sessions!Service` is the refinement mapping: `granted` is the set of
rows, a request is `asked` until it is answered, a status is success or not.
`KeepsService` is `Service!Spec`.

**`Accounts`** extends `SessionService` as well: it adds the `users` table, the account each
session is opened for (`opened`), and for each request the step its handler is at
(`task`), so that a request of the promise is refined by the pipeline of `httpbind`:

| step | in the code | leaves by |
|---|---|---|
| `decode` | `runDecode`: the JSON decoder, then `Validate` | `Undecodable`, `DecodeRegister`, `DecodeLogin` |
| `create` | `Register`: bcrypt and the INSERT into `users` | `CreatePrincipal` |
| `find` | `Login`: the look-up and `VerifyPassword` | `FindPrincipal` |
| `session` | `CreateSession` | `OpenSession`, which is `Grant` |
| `logout`, `me` | `LogoutHandler`; `RequireAuth` and `MeHandler` | `Logout` (`Revoke`), `Me` (`Admit`), `NotMe` |
| `done` | answered, with status and principal | `Delivered` |

`StatementFails` is an SQL error at any of these steps. An error is the set of errors that
`errors.Is` and `errors.AsType` find in it, and `Status` is `writeError`, in its order. A
name, an e-mail address and a login token are values of one set, so that they may collide;
a password is its length in bytes and the kinds of characters in it, and a login has the
person's password or a wrong one. `Hashable` (external) is bcrypt's limit, `Fits` and
`Taken` the columns' constraints. With `ServiceTheorem` what holds here over the promise holds
over the sessions that keep it.

**`Client`** extends `SessionService`: its server is the promise and not the
implementation, so that nothing the client is checked for rests on how the sessions
keep it. A tab is

| variable | in the code |
|---|---|
| `cache[b]` | the entry `["auth", "me"]`: `"undefined"`, `"nobody"` (null) or `"principal"` |
| `page[b]`, `target[b]` | the page shown and the route being navigated to; the page stays until the guard of the target has decided |
| `waiting` | the tabs whose guard awaits the fetch in `ensureQueryData` |
| `call[r]` | a call of `request()` (lib/api.ts) that awaits a response, and whether the component that made it is still mounted: the callbacks given to `mutate()` only run if it is, those given to `useMutation` always |
| `signedOut`, `outdated`, `overtaken` | history |

`Query` and `Decide` are a guard before and after its `await`; `FetchAnswered`,
`LoginAnswered`, `RegisterAnswered` and `SignoutAnswered` are a response with the whole
`onSuccess` it triggers; `NoAnswer` a call that throws; `Unawaited` a response to a tab that
was reloaded meanwhile, whose cookie the browser keeps. The query cache and
the router are libraries and modelled from how the code uses them: `removeQueries` and
`clear` cancel the fetch under way (`Cancelled`) and `setQueryData` does not.

*Time in the tables.* `go-sqlite3` (external) writes a `time.Time` as the text of its own
zone's wall clock followed by the fraction and the offset, and the queries compare it as text
with `datetime('now')`, which is UTC and ends at the second. So `Stored` adds
the offset `Zone` of the server, and `Later` is `>=` in whole units: a stored text with the
same second is longer, hence greater. The time unit of the model is the
resolution of that comparison.

## 3. Runs

| Run | What it asks | Instance |
|---|---|---|
| `ScheduleContract` | Does every schedule keep the contract of `Next`, against slots found by counting? | every kind of schedule, plain, delayed and twice delayed, positive, zero and negative delays, instants -2..5 in any order, four calls; `MaxDuration` 12 |
| `SchedulerSafety` | Types, wait-group count, drained means quiet, escalation, hook before cancel, schedules kept, and the refinement of `Supervision`. If jobs return: cancelled schedulers drain, every `Shutdown` returns. If they do not: `Shutdown` with a deadline returns, other jobs go on | a periodic and a one-shot job that may both fail fatally, two callers of `Shutdown` (one with a deadline), a parent cancelled at any time, `MaxTime` 2 |
| `SchedulerSlots` | One run per slot, none early, although runs overrun; one-shots run once; do exactly the jobs that `Add` accepted before `Start` run? | a `Periodic`, a delayed `PeriodicAt` whose first instant is past and a delayed `OnceAt` of the same name, a `Once` without a name, a job with nil arguments; the wall clock stepped by 1 either way; `MaxTime` 3 |
| `AppShutdown` | Exit codes and order of the shutdown; the process ends within its budget though nothing returns | two jobs, a request, every signal, failure and expiry |
| `AppShutdownCause` | *violated*: are jobs told of a normal shutdown? | one job, one request |
| `AppMode` | *violated*: does the program run in the mode that `APP_ENV` names? | `APP_ENV=prod`, one job, one request |
| `SessionSafety` | Logouts final, both expiries bind, what is over stays over, the cleanup spares what is usable and takes what is past its ceiling; the refinement of `SessionService` | two requests and two refreshes on one session, restarts, ceiling 1, idle 0, clock to 2 |
| `AccountOwners` | Everybody is answered an account of his own; what validates is stored; what is stored can be logged in to | two persons, two tokens, two requests, a nickname and two addresses, passwords of 7, 72 and 73 bytes and a weak one, an empty role and a good one |
| `AccountNames` | *violated*: do good credentials always admit? | as above |
| `SessionZone` | *violated*: does the idle window close on a server one unit ahead of UTC? | one of each |
| `SessionLogout` | *violated*: does a logout clear the cookie? | one of each |
| `ClientGuards` | Signed out stays out, no guard decides on an entry from before a login or sign-out, navigations end | one tab, two calls, two tokens |

The five violated statements are the subject of section 5.

### The bounds and why they are enough

* `MaxDuration` is the largest duration. In `ScheduleContract` it is 12: the longest span
  of an instant and a first instant (9) and the longest interval (3), the last value
  at which the arithmetic is right for all questions; with 11 `FirstMissedSlotSkipped`
  is violated. Elsewhere it is 31, more than every span the instants can form. What
  happens beyond is a theorem (`FarAnchorFiresInThePast`), not a run.
* `MaxCalls` 4: the deepest schedule of the universe has two delays, so its core
  is still asked twice, and a plain one four times: before, on and after a slot,
  and after a step back.
* Two jobs: every hazard of the scheduler is a race of one runner with one other
  goroutine, or of two runners in `fatalOnce`. A third runner in `Do` waits like the second.
* `MaxTime`: in `SchedulerSafety`, where the periodic job fires at 2 and the one-shot at
  1, 2 lets either run overrun the other's fire; the second fire of one runner is in
  `SchedulerSlots`, where 3 gives three slots to the periodic job, and to the other recurring
  one its delay and two slots from its past anchor. In `App` (1) the clock serves only to
  let the job fire.
* The wall clock is stepped once: it makes wall and monotonic time differ,
  and the properties speak of two readings. `OneRunPerSlot` and `NeverEarly` are
  stated for an unstepped clock (`offset = 0`), since section 5 says what a step does to
  them; `OneShotRunsOnce` and `RunnersAreRegistered` for any.
* Two requests and two refreshes: the races on a session are pairs (logout and
  refresh, two refreshes written in the other order than their clocks were read, cleanup and
  refresh), with the clock as the third party. One token, because both expiries and the
  finality of a logout are about one row; which row a cookie names, and whose, is asked of the
  promise, in `AccountOwners`.
* Ceiling 1, idle 0, `MaxTime` 2: a session created at 0 dies idle at 1 unless it was
  refreshed, lives by refreshes until its ceiling, and at 2 is past the ceiling while a refresh
  stamped at 2 keeps its idle expiry in the future: the case in which the ceiling alone
  refuses it, and in which only the ceiling can have it cleaned up.
* `AccountOwners`: a wrong answer needs somebody else's account and somebody else's session,
  and a race needs another request: two persons, two tokens, two requests at a time. E-mail
  addresses are unique, so two addresses mean at most two accounts; the third name is no
  address. Passwords: the longest that bcrypt takes (72 bytes), one too long, one too short,
  and one without a digit. Persons, tokens, requests and the two addresses are
  interchangeable, and the run has no liveness property.
* `ClientGuards`: the races in a tab are pairs (a fetch and a mutation, two mutations, a
  mutation and a navigation), so two calls at a time; a tab that signs in again after a
  sign-out needs the second token. Tokens are interchangeable and no property names one, so
  the run leaves out the behaviours in which `t2` is drawn before `t1` (`DrawnInOrder`): each
  is another one with the names exchanged, and whenever a draw is left out the same step with the
  other token is not, so fairness is not affected. One tab, because every property speaks
  of a tab and its own cache; a second one is the question left in the plan.

Deadlock is not checked (`CHECK_DEADLOCK FALSE`) since all of these systems may really
stop: schedules are exhausted or the bounded clock ends, a drained scheduler rests, a
process has exited, and requests out of tokens wait. Where an end must be
reached, a liveness property says so. Symmetry is used only in runs without
liveness properties.

Every property of a passing run has a mutant: a definition of the model
changed as a plausible bug would change the code (`PROJECT.json`, "mutants";
the mutated definitions stand before their originals). Each breaks its property.

## 4. Fairness

* `Patient` (Scheduler): weak fairness of every runner's own steps, of
  `Shutdown`'s steps, of the propagation of a cancellation and of the clock. The Go
  runtime runs every goroutine that can run, timers and deadlines expire, and
  `context` propagates within the call of `cancel`. Strong fairness of
  `SelectDone`: the `select` picks at random among ready cases, so a runner that
  meets a cancelled context again and again does not pick the timer for ever.
  That jobs return is an assumption about jobs, not about the code: it is no
  part of the specification, and the two properties that need it (`CancelledDrains`,
  `ShutdownReturns`) have `JobsReturn` as their hypothesis.
* `AppFairSpec` assumes no job and no handler ever returns. It has weak fairness of
  `main`, runners, propagation and deadline, and strong fairness of `DrainFails`:
  `http.Server.Shutdown` looks at its context between two polls.
* `ClientFairSpec`: the event loop runs a guard that can go on, the server answers
  every request and every call ends, with a response or an error (`fetch` rejects when the
  connection breaks). Nothing is assumed of the user, the cleanup or restarts.
  `NavigationSettles` has what it needs of the user as hypotheses: a user who goes on
  choosing other routes, signing in or signing out replaces every navigation before it
  ends. That the instance runs out of tokens is therefore of no help to it.
* `FairSpec` of Sessions: refresh goroutines run, the clock runs, and the hourly
  cleanup, which the scheduler does not drop after an error
  (`KeepsSchedule`), gets its `DELETE` through while there is something to delete. This takes a
  process that lives long enough: the job is a `Periodic` without a catch-up, whose
  first run is an interval after the start, so that a server restarted more often
  than hourly never cleans up. Expired rows are refused all the same
  (`CeilingHolds`, `IdleWindowCloses`, `LapsedIsFinal`), which assume no fairness.

## 5. Findings

Each is a run that TLC must find violated, and quotes the line it contradicts
(`PROJECT.json`, "findings").

| Run | The code | The statement |
|---|---|---|
| `AppShutdownCause` | `appCtx` is always cancelled before `Shutdown`, so jobs never see `ErrSchedulerClosed` | it "lets jobs distinguish a normal shutdown" (job.go:55-57) |
| `SessionZone` | local time stored, UTC compared: ahead of UTC a session outlives its idle window | idle expiry of 30 minutes (docs/features/auth.md:79) |
| `SessionLogout` | `WriteHeader` precedes `SetCookie`, so the clearing cookie is never sent | logout "clears the cookie" (docs/features/auth.md:53-54) |
| `AccountNames` | nothing keeps a username from being another account's e-mail; `LIMIT 1` takes one of the two rows, and the owner of the other gets 401 for the right password | the username is "required and not an email address" (docs/features/auth.md:29), 401 is for "bad credentials" (lines 48-49) |
| `AppMode` | the cases `"dev"`, `"prod"` and `"test"` of `parseAppMode` are empty and Go does not fall through, so all three give the default `dev` | `APP_ENV` is "`dev`, `prod`, or `test`" (README.md:129) |

None of the counterexamples rests on a system that merely stops: each is a state or a
step. Two are explained by theorems: that the case of `AppShutdownCause` is no accident of its
instance by `NeverToldClosed` (no behaviour of the program cancels the scheduler with
`ErrSchedulerClosed`), and how far that of `SessionZone` reaches by `OverstayTheorem` (the offset
of the zone, and no more).

Met while modelling, in the model, and without a run of their own:

* `everyAtSchedule.Next` saturates in `after.Sub(first)` and wraps in the product:
  with a first instant more than 292 years back (the zero `time.Time` is one) it
  answers an instant that is past, against schedule.go:12-14, "strictly after
  `after`". `FarAnchorFiresInThePast` proves it.
* With timer and context both ready, the `select` of `run` may begin one more
  run after `Shutdown` cancelled it (`SelectTimer` has no guard on `cause`),
  although "Shutdown stops scheduling" (scheduler.go:133).
* The schedule inside a `Delayed` is first asked when the first run has
  *returned* (`Rearm`), although it "anchors itself from that first fire"
  (schedule.go:69-70).
* A wall clock stepped back while a job runs makes its slot come twice, because
  the schedule is asked with the wall clock.
* `RequireAuth` answers a failed look-up with 401 (`Fail`), as if there were no session.
* "A decode failure produces 400" (httpbind/handler.go:27), but a body of another content
  type is answered 406 (`Status`). That "encode failures produce 500" cannot be: the encoder
  has written its status by then.
* A registration whose second INSERT fails is answered 500 and leaves the account behind;
  repeating it is refused, with another 500, because the name is taken. The account can be
  logged in to (`KnownCanLogIn`).

## 6. Theorems

All are proved by TLAPS for every value of the constants, from the assumptions that the
modules declare and TLC evaluates (`DurationAssumption`, `DriverAssumption`,
`SchedulerAssumption`, `AppAssumption`, `SessionAssumption`, `PromiseAssumption`,
`ServiceAssumption`, `AccountAssumption`, `ClientAssumption`). They are about types and about what
the code itself fixes: `DriverAssumption` says that schedules are used as their constructors leave them, `AppAssumption` says that `main` is the only caller of `Shutdown`, with a deadline, and that
the hook cancels `appCtx`; the others that `None` is no token, request, answer or route.

Three hypotheses stand in single theorems, because the property is false without them:

| Hypothesis | Says | Why it is needed |
|---|---|---|
| `InstantsInReach` (`DriverProofs`) | any two instants of the clock, and the first instant of a `PeriodicAt`, are at most a `time.Duration` (292 years) less one interval apart | `FarAnchorFiresInThePast` |
| `SlotsInReach` (`SlotProofs`) | the same of the scheduler's clock and the schedules of its jobs | the same |
| `Zone <= 0` (`SessionProofs`) | the server's zone is UTC or behind it | the run `SessionZone`; `OverstayTheorem` is the statement without it |

The instances of `ScheduleContract`, `SchedulerSlots` and `SessionSafety` satisfy them.
Each inductive invariant below was an invariant of a run before it was proved.

**`ScheduleProofs`.** `SlotIsNext`: where neither saturation nor wrapping
interferes, `SlotAfter` is aligned, strictly after the question, and no aligned slot lies
between. `SlotIsNear`: on either side of the anchor the answer is aligned, later than the
question, and at most two intervals away. `PeriodicAtStrictlyAfter`: a `PeriodicAt` keeps the contract
while its first instant is within reach of a duration. `FarAnchorFiresInThePast`: beyond that
reach it breaks it, for every size of duration. The lemmas below them say what `NextFire` returns for
recurring and one-shot schedules, and that a later instant is never in an earlier slot
(`EarlierSlot`, `LaterSlot`, `RecurringAnswer`, `OneShotAnswer`).

**`DriverProofs`.** For any universe of schedules, delays nested to any depth, instants in any
order and any number of calls:

| Theorem | Property | Strengthening needed |
|---|---|---|
| `PlansAreKept` | `FiresAsPlanned` | `CallsInv`: one delay is given up per call, and the core is as constructed until they are gone; `DelayInv`: the delays still to come are the last of those the schedule was built with; `OneShotInv`: a one-shot that has been asked remembers it, and only a one-shot is ever exhausted |
| `NeverBackToBack` (`InstantsInReach`) | `StrictlyAfter` | `RecurringInv`: interval and anchor are kept, and every answer is counted from the first one, so that the history can be compared with slots found by counting |
| `NearWhenSteppedBack` (`InstantsInReach`) | `SteppedBackStaysNear` | the same, with `SlotIsNear` |
| `MissedSlotsAreSkipped` (`InstantsInReach`) | `FirstMissedSlotSkipped` | the same, with `SlotIsNext` |

**`SchedulerProofs`.** For any finite set of jobs, any schedules, callers, hooks,
clock steps and any bound on time:

| Theorem | Property | Strengthening needed |
|---|---|---|
| `TypeTheorem` | `TypeOK` | with `WaitGroupCounts`: that `wg` is a natural number, where the code would panic, needs the count |
| `CountTheorem` | `WaitGroupCounts` | before `Start` every runner is idle; after it only registered jobs have one |
| `WakeupTheorem` | `NoLostWakeup` (proved only, in no run) | none beyond types: every step that sets `cause` wakes the parked |
| `DrainTheorem` | `DrainedIsQuiet` | a caller past `cancel` implies `started`; no runner is launched after that |
| `EscalationTheorem`, `HookTheorem` | `FatalEscalates`, `HookBeforeCancel` | the state of `fatalOnce` determines where its jobs are: at most one is inside `Do`, the hook has been called exactly when that one is past it, and `done` implies a cancelled context |
| `RegistryTheorem` | `RunnersAreRegistered` | in the registry names are unique and not empty, and no arguments nil; only registered jobs have runners, and after `Start` all of them |
| `ScheduleTheorem` | `KeepsSchedule` | what `NextFire` says when it is exhausted |
| `PromiseTheorem` | `KeepsPromise` | the invariants above: initial states map to initial states, and every action to one of `Supervision` or a stutter |

**`SlotProofs`.** For the same scheduler, and any history of its runs:

| Theorem | Property | Strengthening needed |
|---|---|---|
| `NoRunIsEarly` | `NeverEarly` | `TimerInv`: until the wall clock is stepped a timer is not due before the fire it is armed for |
| `OneShotsRunOnce` | `OneShotRunsOnce` | `FiresInv`: each fire handed out costs the schedule one delay, or what its core has left; a fire that a cancellation takes away has been paid for as well |
| `NoSlotRunsTwice` (`SlotsInReach`) | `OneRunPerSlot` | `CoreInv`: interval and anchor stay, and the anchor is not in the future; `SlotInv`: the slot of `next` is past the slot of every run that has begun. A run may begin late, in a later slot than it was armed for, which is why the slots of the runs and not only those of the fires must be related |

**`AppProofs`.** For any jobs, schedules and requests, every environment and every order of
signals, failures and the deadline:

| Theorem | Property | Strengthening needed |
|---|---|---|
| `RunsScheduler` | (`AppSpec => Spec`) | none: every step of the program is a step of `Scheduler` or none of its business. With it all theorems on the scheduler hold in the program, `AppKeepsPromise` (`KeepsPromise`) among them |
| `AppTypes` | `AppTypeOK` | none beyond `AppInv` |
| `OrderlyEndIsClean` | `CleanExit` | `EndsInOrder`: once `main` is past its poll no request is in flight, and the listener stays shut |
| `ExitCodeIsTheCause` | `ExitTellsCause` | `CauseIsKnown`: the first cause of `appCtx` never changes, `main` has read it right, and a cause of `"fatal"` means a job that failed |
| `JobsStopFirst` | `JobsBeforeHttp` | `StartedInOrder`: the scheduler has been started when it is drained, and it answers "timeout" only when the budget is spent; with `DrainTheorem`'s invariant |
| `DbClosesLast` | `DbOutlivesUsers` (proved only) | the same |
| `NeverToldClosed` | (`cause # "closed"`) | `main` calls `Shutdown` when the context is cancelled already |

**`SessionProofs`.** For any persons, tokens, requests, refreshers, durations and
bound on time:

| Theorem | Property | Strengthening needed |
|---|---|---|
| `SessionTypeTheorem` | `TypeOK` | none |
| `LogoutTheorem` | `LogoutIsFinal` | a token that was ended was drawn, and drawn tokens are never drawn again; an `UPDATE` creates no row |
| `CeilingTheorem` (`Zone <= 0`) | `CeilingHolds` | the stored ceiling is `born + SessionDuration`, whatever was refreshed |
| `IdleTheorem` (`Zone <= 0`) | `IdleWindowCloses` | the stored idle expiry is `renewed + IdleDuration` |
| `OverstayTheorem` | `OverstaysByZone` (proved only) | the two above; in every zone a session is accepted at most `Zone` past either expiry |
| `LapsedTheorem` | `LapsedIsFinal` | drawn tokens are never drawn again; it holds in every zone |
| `CleanupTheorem` | `CleanupSparesUsable` | none: it holds in every zone, because the two queries err alike |
| `ServiceTheorem` | `KeepsService` | `StepsFit`: the operation of a request determines the steps it can be at |

In `ServiceTheorem`, which holds in every zone, `Send` maps to
`Send`, the statement that decides a request to `Grant`, `Revoke`, `Admit` or `Refuse`, the
cleanup to `Withdraw`; readings of the clock, refreshes and the statements before the
deciding one are stutters. Without `StepsFit` an `INSERT` could answer a logout. With this theorem what is
proved of the accounts and of the client against the promise holds against the sessions that keep it.

**`AccountProofs`.** For any persons, tokens, requests, names, addresses, passwords
and roles:

| Theorem | Property | Strengthening needed |
|---|---|---|
| `AccountsTypeTheorem` | `AccountsTypeOK`, with the references between the tables | none |
| `OwnTheorem` | `MeIsOwn` | `OwnersAgree`: an account in hand, a cookie in a request, in a response or in a jar all lead to an account of the person concerned; a response may be lost or overtaken, so that the chain of custody must hold at each link |
| `StorableTheorem` | `ValidatedIsStorable` | `Validated`: what is past `decode` has been validated |
| `LoginTheorem` | `KnownCanLogIn` | a refusal looked at a row, and that row carries the token |
| `AccountsKeepService` | (`AccountsSpec => Spec` of `SessionService`) | none: each step of a handler is a step of the promise or none of its business |

The inductive invariant is the first three together: rows of `users` are never changed, so whatever
was said of one stays true (`AppendKeeps`), and a token is opened once, because it is drawn
once. The theorems are about `Accounts` over the promise; with `ServiceTheorem` they hold over
the sessions of the code.

**`ClientProofs`.** For any tabs, browsers, tokens, requests and routes:

| Theorem | Property | Strengthening needed |
|---|---|---|
| `ClientTypes` | `ClientTypeOK` | none beyond `ClientInv` |
| `UsesService` | (`ClientSpec => Spec` of `SessionService`) | the types: what a call sends is a request of the promise |
| `SignOutHolds` | `SignedOutStaysOut` | see below |
| `GuardsStayCurrent` | `GuardsDecideOnCurrent` | `NothingOutdated`: no tab's entry is outdated, because a login and a sign-out leave none, and `FetchesAreCurrent`: every login and sign-out cancels the fetches it overtakes |

`SignedOutStaysOut` is about what a tab shows, and what it shows next is decided by the cookie of its
browser, the fetches it awaits and the table of the server; so the invariant is a chain. The cookie of a browser
names no session once a sign-out of its own is answered, unless another cookie has come in
since (`SignoutsRevoke`); while the tab is signed out that stays so, and no fetch it
awaits carries a cookie of a session or has been answered with a principal (`SignedOutHasNoSession`).
It rests on requests naming drawn tokens only (`RequestsNameUsed`), so that a later grant is no session of an
old cookie, and on each request being the call's own (`CallsAreTheirs`).

*Only model-checked* are the liveness properties `CancelledDrains`, `ShutdownReturns`, `DueJobProceeds`,
`ShutdownEnds`, `FatalEndsProcess`, `ExpiredRowsGo` and `NavigationSettles`: fairness and `ENABLED` are
out of the prover's reach. Every other property of the passing runs is a theorem. What a recursive
definition computes for every input cannot be proved here; no module uses one.

## 7. Not modelled

* *Validation and codecs*: the rules, the decoder's errors and the mapping of errors to
  statuses are in `Accounts`. What a document parses to, and which problems a refused
  body lists (`validation.Builder`, `validation.Error`), are wording; `Sessions` leaves the
  outcome open (`Invalid`, `Fail`).
* *Password hashing* is the owner of the password (`VerifyPassword`) and bcrypt's limit (`Hashable`).
* *Configuration* beyond the mode: log level, DSN, and the parsing of `SHUTDOWN_TIMEOUT`, whose
  value is the budget of `App`, of any length.
* *Roles*: `HasRole` and `RequireRole` keep no state, and no route uses them.
* *Token collisions*: `rand.Text` has 130 random bits; a drawn token is never
  drawn again.
* *The pool of `database/sql` and the in-memory databases of the driver*; migrations (a
  third-party library: `App` has whether it is called). Of the generated queries, `GetUserById`,
  `UpdatePrincipal` and `GetSessionById` are called by nothing.
* *Uses the code's documentation excludes or nothing makes*: an interval of zero, an `OnFatal` hook
  that waits for the drain, one stateful schedule given to two jobs.
* *Two readings of the clock in `run`*, for `Next` and for the timer, a few instructions
  apart: `AskAndArm` has one. They arm the timer for the same instant, unless the wall
  clock is stepped between the two.
* *Logging, middlewares, embedded static files*: no state. Of the *web pages*
  the forms and the sign-out button are in `Client`; search parameters, field errors and layout are not.
  `useAuth` is a hook that no component uses.
* *The age of the cache* in `Client`: the guards do not look at it (`ensureQueryData`); an
  entry may be collected at any time no fetch or navigation needs it.
* *Daylight saving*: `Zone` is constant in a behaviour.
* *A wall clock that is stepped* in `Sessions` and `App`; it is in `Scheduler`.

## 8. Plan

Done: the schedules, the scheduler with its refinement, the
application around it with its configuration, the sessions, the promise
they keep, and the accounts and the client that rely on it; the safety of all of them is
proved. Next, in this order:

1. Proofs across modules: what `SessionService` promises as properties of its own (what is gone is
   never admitted again), once for the promise, and from there for `Sessions`,
   `Accounts` and `Client` by their refinements.
2. The composition of `App` with `Sessions`: refresh goroutines, which nothing
   waits for, against the closing of the database; the cleanup as the scheduler's job.
3. `Client` with two tabs on one cookie: what a tab may still show after a sign-out in
   the other, and for how long; a registration that a fetch overtakes.

Bounds of the runs to come follow the present ones: one or two actors of each
kind, durations of at most three units, a clock one past the longest of them.
The longest of the present runs takes under three minutes with two workers.
