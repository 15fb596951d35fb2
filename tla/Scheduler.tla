------------------------------ MODULE Scheduler ------------------------------
(***************************************************************************)
(* The job scheduler of api/scheduler/scheduler.go.                        *)
(*                                                                         *)
(* One goroutine per registered job runs the loop of run(): ask the        *)
(* schedule for the next fire, arm a timer, select between the timer and   *)
(* the cancellation of the run context, call the job, ask again.  Other    *)
(* goroutines register jobs (Add), launch the runners (Start), cancel the  *)
(* parent context, and drain the runners (Shutdown).  A job that returns a *)
(* FatalError escalates through fatalOnce: the hook first, then the cancel *)
(* of the run context.                                                     *)
(*                                                                         *)
(* Add and Start hold the mutex from their first line to their last, and   *)
(* Shutdown for the reads it makes, so each is one step; everything a      *)
(* runner does between two blocking points is one step.                    *)
(***************************************************************************)
EXTENDS Schedules, FiniteSets

CONSTANTS
  Jobs,             \* the jobs the program may pass to Add
  NameOf,           \* their names
  EmptyName,        \* the name ""
  NilArgs,          \* the jobs passed with a nil schedule or function
  ScheduleOf,       \* their schedules as constructed
  Callers,          \* the goroutines that call Shutdown, once each
  Deadlines,        \* those of them whose context has a deadline
  Hook,             \* the OnFatal option: what the hook does
  WallSteps,        \* the amounts by which the wall clock may be stepped
  None,             \* no cancellation cause
  MaxTime           \* bound on time

ASSUME SchedulerAssumption ==
  /\ IsFiniteSet(Jobs)
  /\ NilArgs \subseteq Jobs
  /\ ScheduleOf \in [Jobs -> Schedule]
  /\ Deadlines \subseteq Callers
  /\ Hook \in {"unset", "notify", "cancelParent"}
  /\ WallSteps \subseteq Int
  /\ None \notin {"signal", "fatal", "closed"}
  /\ MaxTime \in Nat

VARIABLES
  started,          \* Scheduler.started
  jobs,             \* Scheduler.jobs
  sched,            \* the state of each job's schedule
  pc,               \* where each job's runner is
  next,             \* the next fire of each job, a wall-clock instant
  due,              \* the instant its timer expires, on the monotonic clock
  wg,               \* Scheduler.wg
  cause,            \* the cancellation cause of runCtx
  parent,           \* the cancellation cause of the context given to Start
  fatalOnce,        \* Scheduler.fatalOnce
  shut,             \* where each call of Shutdown is
  now,              \* the monotonic clock
  offset,           \* the wall clock is ahead of it by this much
  begun,            \* history: the wall-clock instants at which each job began
  fatal,            \* history: the jobs that returned a FatalError
  hookCalls         \* history: how often the OnFatal hook was called

runVars == <<sched, pc, next, due, begun>>
cancelVars == <<cause, parent, fatalOnce, fatal, hookCalls>>
clockVars == <<now, offset>>
vars == <<started, jobs, runVars, wg, cancelVars, shut, clockVars>>

(***************************************************************************)
(* A runner is                                                             *)
(*   "idle"      not launched, the job may not even be registered          *)
(*   "entry"     launched, before the first call of Next                   *)
(*   "select"    its timer is armed, it is about to enter the select       *)
(*   "parked"    blocked in the select, neither case was ready             *)
(*   "call"      in the job's function                                     *)
(*   "fatal"     at fatalOnce.Do, with a fatal error in hand               *)
(*   "hook"      inside Do, about to call the OnFatal hook                 *)
(*   "hooked"    in the hook                                               *)
(*   "cancel"    inside Do, about to cancel the run context                *)
(*   "rearm"     back in run() after invoke                                *)
(*   "leave"     returning from run()                                      *)
(*   "done"      gone: wg.Done has run                                     *)
(***************************************************************************)
InDo == {"hook", "hooked", "cancel"}
Invoking == {"call", "fatal"} \cup InDo
Waiting == {"select", "parked"}
Alive == {"entry", "rearm", "leave"} \cup Waiting \cup Invoking
RunnerState == Alive \cup {"idle", "done"}

Live == {j \in Jobs : pc[j] \in Alive}
Wall == now + offset

Init ==
  /\ started = FALSE
  /\ jobs = {}
  /\ sched = ScheduleOf
  /\ pc = [j \in Jobs |-> "idle"]
  /\ next = [j \in Jobs |-> 0]
  /\ due = [j \in Jobs |-> 0]
  /\ wg = 0
  /\ cause = None
  /\ parent = None
  /\ fatalOnce = "new"
  /\ shut = [c \in Callers |-> "idle"]
  /\ now = 0
  /\ offset = 0
  /\ begun = [j \in Jobs |-> << >>]
  /\ fatal = {}
  /\ hookCalls = 0

(***************************************************************************)
(* The run context.  Closing its Done channel wakes every runner parked in *)
(* a select and commits it to the cancelled case; a runner that has yet to *)
(* enter the select finds the channel closed there.  Only the first cause  *)
(* counts.                                                                 *)
(***************************************************************************)
\* Mutant: the select does not watch the Done channel.
NotWoken(p) == p

Woken(p) == IF p = "parked" THEN "leave" ELSE p

CancelRun(c, pcs) ==
  /\ cause' = IF cause = None THEN c ELSE cause
  /\ pc' = [j \in Jobs |-> Woken(pcs[j])]

\* Whoever owns the context given to Start cancels it: a signal.
CancelParent ==
  /\ parent = None
  /\ parent' = "signal"
  /\ UNCHANGED <<started, jobs, runVars, wg, cause, fatalOnce, fatal, hookCalls,
                 shut, clockVars>>

\* Mutant: the run context is derived from another context than the one given.
PropagateNothing == FALSE

\* The cancellation of the parent reaches the run context derived from it.
PropagateCancel ==
  /\ started
  /\ parent # None
  /\ cause = None
  /\ CancelRun(parent, pc)
  /\ UNCHANGED <<started, jobs, sched, next, due, begun, wg, parent, fatalOnce,
                 fatal, hookCalls, shut, clockVars>>

(***************************************************************************)
(* Add and Start.                                                          *)
(***************************************************************************)

\* Mutant: Add does not look at started.
AcceptableAnytime(j) ==
  /\ NameOf[j] # EmptyName
  /\ j \notin NilArgs
  /\ \A i \in jobs : NameOf[i] # NameOf[j]

\* The checks of Add; when one fails it returns an error and changes nothing.
Acceptable(j) ==
  /\ ~started
  /\ NameOf[j] # EmptyName
  /\ j \notin NilArgs
  /\ \A i \in jobs : NameOf[i] # NameOf[j]

Add(j) ==
  /\ Acceptable(j)
  /\ jobs' = jobs \cup {j}
  /\ UNCHANGED <<started, runVars, wg, cancelVars, shut, clockVars>>

\* Mutant: wg.Add(1) before the loop instead of in it.
AddedOnce == IF jobs = {} THEN 0 ELSE 1

\* The count of the wait group once the loop of Start has run.
Added == Cardinality(jobs)

\* The run context is born cancelled if its parent already is.
Start ==
  /\ ~started
  /\ started' = TRUE
  /\ cause' = parent
  /\ wg' = Added
  /\ pc' = [j \in Jobs |-> IF j \in jobs THEN "entry" ELSE pc[j]]
  /\ UNCHANGED <<jobs, sched, next, due, begun, parent, fatalOnce, fatal,
                 hookCalls, shut, clockVars>>

(***************************************************************************)
(* The runner: run, invoke, call and triggerFatal.                         *)
(***************************************************************************)
Goto(j, p) == pc' = [pc EXCEPT ![j] = p]

\* Mutant: the timer is given the negated difference.
TimerDueNow(at) == IF at < Wall THEN now + (Wall - at) ELSE now

\* A timer that is given a time in the past expires at once.
TimerDue(at) == IF at > Wall THEN now + (at - Wall) ELSE now

\* Ask the schedule at the wall clock, arm the timer or leave.
AskAndArm(j) ==
  LET r == NextFire(sched[j], Wall)
  IN  /\ sched' = [sched EXCEPT ![j] = r.sched]
      /\ IF r.ok
           THEN /\ next' = [next EXCEPT ![j] = r.next]
                /\ due' = [due EXCEPT ![j] = TimerDue(r.next)]
                /\ Goto(j, "select")
           ELSE /\ Goto(j, "leave")
                /\ UNCHANGED <<next, due>>
      /\ UNCHANGED <<started, jobs, wg, cancelVars, shut, clockVars, begun>>

First(j) == pc[j] = "entry" /\ AskAndArm(j)
Rearm(j) == pc[j] = "rearm" /\ AskAndArm(j)

\* The select finds runCtx.Done() ready, whether or not the timer is too.
SelectDone(j) ==
  /\ pc[j] = "select"
  /\ cause # None
  /\ Goto(j, "leave")
  /\ UNCHANGED <<started, jobs, sched, next, due, begun, wg, cancelVars, shut, clockVars>>

\* The select finds nothing ready.
Park(j) ==
  /\ pc[j] = "select"
  /\ cause = None
  /\ now < due[j]
  /\ Goto(j, "parked")
  /\ UNCHANGED <<started, jobs, sched, next, due, begun, wg, cancelVars, shut, clockVars>>

\* Mutant: all jobs run on one goroutine.
SelectTimerSerial(j) ==
  /\ \A i \in Jobs : pc[i] # "call"
  /\ pc[j] \in Waiting
  /\ now >= due[j]
  /\ Goto(j, "call")
  /\ begun' = [begun EXCEPT ![j] = Append(@, Wall)]
  /\ UNCHANGED <<started, jobs, sched, next, due, wg, cancelVars, shut, clockVars>>

\* The select takes the timer's case: Go picks at random between two ready
\* cases, so a cancelled context does not exclude it.
SelectTimer(j) ==
  /\ pc[j] \in Waiting
  /\ now >= due[j]
  /\ Goto(j, "call")
  /\ begun' = [begun EXCEPT ![j] = Append(@, Wall)]
  /\ UNCHANGED <<started, jobs, sched, next, due, wg, cancelVars, shut, clockVars>>

\* What a call of the job's function may come to; call turns a panic into an error.
Outcome == {"nil", "error", "panic", "fatal"}

\* Mutant: a job that fails leaves its schedule.
AfterCallLeaving(outcome) ==
  CASE outcome = "nil" -> "rearm" [] outcome = "fatal" -> "fatal" [] OTHER -> "leave"

\* Where invoke goes with the outcome: only a fatal error escalates.
AfterCall(outcome) == IF outcome = "fatal" THEN "fatal" ELSE "rearm"

CallReturns(j, outcome) ==
  /\ pc[j] = "call"
  /\ Goto(j, AfterCall(outcome))
  /\ fatal' = IF outcome = "fatal" THEN fatal \cup {j} ELSE fatal
  /\ UNCHANGED <<started, jobs, sched, next, due, begun, wg, cause, parent,
                 fatalOnce, hookCalls, shut, clockVars>>

\* Mutant: the hook is left out.
FatalEnterNoHook(j) ==
  /\ pc[j] = "fatal"
  /\ fatalOnce = "new"
  /\ fatalOnce' = "running"
  /\ Goto(j, "cancel")
  /\ UNCHANGED <<started, jobs, sched, next, due, begun, wg, cause, parent,
                 fatal, hookCalls, shut, clockVars>>

\* fatalOnce.Do runs the function for the first job that gets here.
FatalEnter(j) ==
  /\ pc[j] = "fatal"
  /\ fatalOnce = "new"
  /\ fatalOnce' = "running"
  /\ Goto(j, IF Hook = "unset" THEN "cancel" ELSE "hook")
  /\ UNCHANGED <<started, jobs, sched, next, due, begun, wg, cause, parent,
                 fatal, hookCalls, shut, clockVars>>

\* Mutant: an atomic flag in place of sync.Once, which does not wait.
OnceEntered == fatalOnce # "new"

\* sync.Once makes the other callers wait until the first call has returned.
OnceOver == fatalOnce = "done"

FatalSkip(j) ==
  /\ pc[j] = "fatal"
  /\ OnceOver
  /\ Goto(j, "rearm")
  /\ UNCHANGED <<started, jobs, sched, next, due, begun, wg, cancelVars, shut, clockVars>>

\* The hook is called.  The application's own hook cancels the parent context.
CallHook(j) ==
  /\ pc[j] = "hook"
  /\ hookCalls' = hookCalls + 1
  /\ parent' = IF Hook = "cancelParent" /\ parent = None THEN "fatal" ELSE parent
  /\ Goto(j, "hooked")
  /\ UNCHANGED <<started, jobs, sched, next, due, begun, wg, cause, fatalOnce,
                 fatal, shut, clockVars>>

\* Cancelling a context returns once its children are cancelled.
HookReturns(j) ==
  /\ pc[j] = "hooked"
  /\ Hook = "cancelParent" => cause # None
  /\ Goto(j, "cancel")
  /\ UNCHANGED <<started, jobs, sched, next, due, begun, wg, cancelVars, shut, clockVars>>

\* cancelCause(err), and Do returns.
FatalCancel(j) ==
  /\ pc[j] = "cancel"
  /\ CancelRun("fatal", [pc EXCEPT ![j] = "rearm"])
  /\ fatalOnce' = "done"
  /\ UNCHANGED <<started, jobs, sched, next, due, begun, wg, parent, fatal,
                 hookCalls, shut, clockVars>>

\* Mutants: wg.Done is not deferred and the cancelled return misses it; it is
\* both deferred and called at that return.
ExitUncounted(j) ==
  /\ pc[j] = "leave"
  /\ Goto(j, "done")
  /\ wg' = IF cause = None THEN wg - 1 ELSE wg
  /\ UNCHANGED <<started, jobs, sched, next, due, begun, cancelVars, shut, clockVars>>
ExitTwice(j) ==
  /\ pc[j] = "leave"
  /\ Goto(j, "done")
  /\ wg' = IF cause = None THEN wg - 1 ELSE wg - 2
  /\ UNCHANGED <<started, jobs, sched, next, due, begun, cancelVars, shut, clockVars>>

\* run() returns and its deferred wg.Done runs.
Exit(j) ==
  /\ pc[j] = "leave"
  /\ Goto(j, "done")
  /\ wg' = wg - 1
  /\ UNCHANGED <<started, jobs, sched, next, due, begun, cancelVars, shut, clockVars>>

Runner(j) ==
  \/ First(j) \/ SelectDone(j) \/ Park(j) \/ SelectTimer(j)
  \/ FatalEnter(j) \/ FatalSkip(j) \/ CallHook(j) \/ HookReturns(j) \/ FatalCancel(j)
  \/ Rearm(j) \/ Exit(j)

Returns(j) == \E outcome \in Outcome : CallReturns(j, outcome)

(***************************************************************************)
(* Shutdown.  A caller is "idle", then "cancel" and "wait", and ends with  *)
(* the answer "drained" (nil), "timeout" (ctx.Err()) or "notStarted" (nil).*)
(***************************************************************************)
ShutdownState == {"idle", "cancel", "wait", "drained", "timeout", "notStarted"}

ShutdownBegin(c) ==
  /\ shut[c] = "idle"
  /\ shut' = [shut EXCEPT ![c] = IF started THEN "cancel" ELSE "notStarted"]
  /\ UNCHANGED <<started, jobs, runVars, wg, cancelVars, clockVars>>

ShutdownCancel(c) ==
  /\ shut[c] = "cancel"
  /\ shut' = [shut EXCEPT ![c] = "wait"]
  /\ CancelRun("closed", pc)
  /\ UNCHANGED <<started, jobs, sched, next, due, begun, wg, parent, fatalOnce,
                 fatal, hookCalls, clockVars>>

\* The helper goroutine's wg.Wait has returned and it has closed done.
ShutdownDrained(c) ==
  /\ shut[c] = "wait"
  /\ wg = 0
  /\ shut' = [shut EXCEPT ![c] = "drained"]
  /\ UNCHANGED <<started, jobs, runVars, wg, cancelVars, clockVars>>

\* Mutant: Shutdown ignores its context.
ShutdownUnbounded(c) == FALSE

ShutdownTimeout(c) ==
  /\ shut[c] = "wait"
  /\ c \in Deadlines
  /\ shut' = [shut EXCEPT ![c] = "timeout"]
  /\ UNCHANGED <<started, jobs, runVars, wg, cancelVars, clockVars>>

ShutdownStep(c) == ShutdownCancel(c) \/ ShutdownDrained(c) \/ ShutdownTimeout(c)

(***************************************************************************)
(* The clocks.                                                             *)
(***************************************************************************)
Tick ==
  /\ now < MaxTime
  /\ now' = now + 1
  /\ UNCHANGED <<started, jobs, runVars, wg, cancelVars, shut, offset>>

\* The wall clock is stepped, once in a behaviour.
StepWall(d) ==
  /\ offset = 0
  /\ offset' = d
  /\ UNCHANGED <<started, jobs, runVars, wg, cancelVars, shut, now>>

Next ==
  \/ \E j \in Jobs : Add(j) \/ Runner(j) \/ Returns(j)
  \/ Start
  \/ CancelParent
  \/ PropagateCancel
  \/ \E c \in Callers : ShutdownBegin(c) \/ ShutdownStep(c)
  \/ Tick
  \/ \E d \in WallSteps : StepWall(d)

Spec == Init /\ [][Next]_vars

(***************************************************************************)
(* Fairness.  The Go scheduler runs every goroutine that can run, timers   *)
(* and deadlines expire, and a select that keeps finding the context       *)
(* cancelled picks that case in the end.  Nothing makes a job return.      *)
(***************************************************************************)
Patient ==
  /\ \A j \in Jobs : WF_vars(Runner(j)) /\ SF_vars(SelectDone(j))
  /\ \A c \in Callers : WF_vars(ShutdownStep(c))
  /\ WF_vars(PropagateCancel)
  /\ WF_vars(Tick)

FairSpec == Spec /\ Patient
=============================================================================
