------------------------- MODULE SchedulerProperties -------------------------
(* What the scheduler of module Scheduler is to guarantee. *)
EXTENDS Scheduler

(***************************************************************************)
(* Safety.                                                                 *)
(***************************************************************************)

Cause == {None, "signal", "fatal", "closed"}

\* Types; the wait group never goes below zero, where Done would panic.
TypeOK ==
  /\ started \in BOOLEAN
  /\ jobs \subseteq Jobs
  /\ sched \in [Jobs -> Schedule]
  /\ pc \in [Jobs -> RunnerState]
  /\ next \in [Jobs -> Int]
  /\ due \in [Jobs -> Int]
  /\ wg \in Nat
  /\ cause \in Cause
  /\ parent \in Cause
  /\ fatalOnce \in {"new", "running", "done"}
  /\ shut \in [Callers -> ShutdownState]
  /\ now \in Nat
  /\ offset \in Int
  /\ begun \in [Jobs -> Seq(Int)]
  /\ fatal \subseteq Jobs
  /\ hookCalls \in Nat

\* wg.Add and wg.Done are paired: the count is the number of runners that have
\* been launched and are not gone (Start, run).
WaitGroupCounts == wg = Cardinality(Live)

\* "Nothing leaks": once a Shutdown has returned nil for a started scheduler,
\* no runner is left, not now and, the state being reached by any
\* interleaving, not later (Shutdown, run).
DrainedIsQuiet ==
  \A c \in Callers :
    shut[c] = "drained" => started /\ \A j \in Jobs : pc[j] \in {"idle", "done"}

\* The jobs that have, or had, a runner are those Add accepted before Start, all
\* of them: an Add that comes after Start, repeats a name, has none or has nil
\* arguments leaves no trace.  So "a job never overlaps a previous run of the same
\* job" holds for names, no runner can call a nil function, and no job is
\* registered and never run, whatever the program passed to Add and when (Add,
\* Start).
RunnersAreRegistered ==
  LET Runners == {j \in Jobs : pc[j] # "idle"}
  IN  /\ Runners = IF started THEN jobs ELSE {}
      /\ \A j \in Runners : NameOf[j] # EmptyName /\ j \notin NilArgs
      /\ \A i, j \in Runners : i # j => NameOf[i] # NameOf[j]

\* A fatal error is never outrun: when a job that returned one is back in its
\* loop, the hook has been called, once in all, and the run context is
\* cancelled, also when several jobs failed at the same time (triggerFatal).
FatalEscalates ==
  /\ hookCalls <= 1
  /\ \A j \in fatal :
       pc[j] \notin {"fatal"} \cup InDo =>
         /\ cause # None
         /\ hookCalls = 1 \/ Hook = "unset"

\* The hook "runs before the scheduler cancels its own jobs": a run context
\* whose cause is a fatal error has been preceded by the hook (triggerFatal).
HookBeforeCancel == cause = "fatal" => hookCalls = 1 \/ Hook = "unset"

\* A job keeps its schedule: its runner leaves only because the run context is
\* cancelled or because its schedule is a one-shot that has no fire left; an
\* error or a panic is no reason (invoke, run).
KeepsSchedule ==
  \A j \in Jobs :
    pc[j] \in {"leave", "done"} =>
      \/ cause # None
      \/ IsOneShot(sched[j]) /\ sched[j].delays = << >> /\ sched[j].core.scheduled

\* A runner blocked in its select has not been cancelled: no wake-up is lost.
NoLostWakeup == \A j \in Jobs : pc[j] = "parked" => cause = None

\* A one-shot runs at most once, after at most one run per delay put in front
\* of it (onceSchedule.Next, onceAtSchedule.Next, delayedSchedule.Next).
OneShotRunsOnce ==
  \A j \in Jobs :
    IsOneShot(ScheduleOf[j]) => Len(begun[j]) <= Len(ScheduleOf[j].delays) + 1

\* The instant the slots of a recurring job are counted from.
AnchorOf(j) == IF sched[j].core.kind = "periodic" THEN sched[j].core.anchor
                                                  ELSE sched[j].core.first

\* The number of the slot in which an instant lies.
SlotOf(j, t) == (t - AnchorOf(j)) \div sched[j].core.interval

\* A recurring job runs at most once per slot: a run that overruns skips the
\* slots it missed and never bursts to catch up (everySchedule.Next and
\* everyAtSchedule.Next, asked by run with the time the last run ended).  Slots
\* are counted on a wall clock that has not been stepped.
OneRunPerSlot ==
  \A j \in Jobs :
    IsRecurring(sched[j]) /\ offset = 0 =>
      \A k, m \in Len(ScheduleOf[j].delays) + 1 .. Len(begun[j]) :
        k < m => SlotOf(j, begun[j][k]) < SlotOf(j, begun[j][m])

\* A run never begins before its slot: the first fire of a Periodic is one
\* whole interval after the instant its runner was launched at; unless the wall
\* clock has been stepped, which timers do not see.
NeverEarly ==
  \A j \in Jobs :
    pc[j] = "call" /\ offset = 0 => begun[j][Len(begun[j])] >= next[j]

(***************************************************************************)
(* The scheduler implements what Supervision promises: runs are the calls  *)
(* of invoke, escalation included, and the stop is the cancellation of the *)
(* run context.                                                            *)
(***************************************************************************)
FiniteJobs == {j \in Jobs : IsOneShot(ScheduleOf[j])}
Busy == {j \in Jobs : pc[j] \in Invoking}
Phase ==
  CASE ~started -> "new" [] started /\ cause = None -> "running" [] OTHER -> "stopped"
Answers ==
  [c \in Callers |->
     IF shut[c] \in {"drained", "timeout", "notStarted"} THEN shut[c] ELSE "none"]

Promise ==
  INSTANCE Supervision WITH
    Finite <- FiniteJobs, phase <- Phase, live <- Live, busy <- Busy, answer <- Answers

\* The specification of the scheduler implements the promise.
KeepsPromise == Promise!Spec

(***************************************************************************)
(* Liveness, under Patient: whether jobs ever return is for the jobs to    *)
(* say, so what depends on it says so.                                     *)
(***************************************************************************)
JobsReturn == \A j \in Jobs : []<>(pc[j] # "call")

\* If jobs return, a cancelled scheduler drains completely, whoever cancelled
\* it and wherever its runners were.
CancelledDrains == JobsReturn => (cause # None ~> wg = 0)

\* A call of Shutdown returns even when a job never does if its context has a
\* deadline, and with every job gone, if jobs return, when it has none.
ShutdownReturns ==
  \A c \in Callers :
    IF c \in Deadlines
      THEN shut[c] = "cancel" ~> shut[c] \in {"drained", "timeout"}
      ELSE JobsReturn => (shut[c] = "cancel" ~> shut[c] = "drained")

\* A job whose time has come runs, or its runner leaves because of a
\* cancellation: no timer is forgotten, even if other jobs are stuck.
DueJobProceeds ==
  \A j \in Jobs :
    pc[j] \in Waiting /\ due[j] <= now ~> pc[j] \notin Waiting
=============================================================================
