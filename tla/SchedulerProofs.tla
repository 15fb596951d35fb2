---------------------------- MODULE SchedulerProofs ----------------------------
(***************************************************************************)
(* The safety of the scheduler for every set of jobs, names and schedules, *)
(* every number of callers of Shutdown, every hook and every behaviour of  *)
(* the clocks.                                                             *)
(***************************************************************************)
EXTENDS SchedulerProperties, ScheduleProofs, FiniteSetTheorems

USE SchedulerAssumption

(***************************************************************************)
(* Types.                                                                  *)
(***************************************************************************)

\* Every type but the sign of the wait group, which needs its meaning.
Types ==
  /\ started \in BOOLEAN
  /\ jobs \subseteq Jobs
  /\ sched \in [Jobs -> Schedule]
  /\ pc \in [Jobs -> RunnerState]
  /\ next \in [Jobs -> Int]
  /\ due \in [Jobs -> Int]
  /\ wg \in Int
  /\ cause \in Cause
  /\ parent \in Cause
  /\ fatalOnce \in {"new", "running", "done"}
  /\ shut \in [Callers -> ShutdownState]
  /\ now \in Nat
  /\ offset \in Int
  /\ begun \in [Jobs -> Seq(Int)]
  /\ fatal \subseteq Jobs
  /\ hookCalls \in Nat

\* Waking the parked runners yields runner states.
LEMMA WokenType ==
  ASSUME NEW pcs \in [Jobs -> RunnerState]
  PROVE  [j \in Jobs |-> Woken(pcs[j])] \in [Jobs -> RunnerState]
  BY DEF Woken, RunnerState, Alive, Waiting, Invoking, InDo

\* What one call of Next and the timer do to the runner that makes it.
LEMMA AskStep ==
  ASSUME Types, NEW j \in Jobs, AskAndArm(j)
  PROVE  /\ sched' \in [Jobs -> Schedule]
         /\ next' \in [Jobs -> Int]
         /\ due' \in [Jobs -> Int]
         /\ \A i \in Jobs : sched'[i].core.kind = sched[i].core.kind
         /\ \A i \in Jobs : i # j => sched'[i] = sched[i]
         /\ \/ pc' = [pc EXCEPT ![j] = "select"]
            \/ /\ pc' = [pc EXCEPT ![j] = "leave"]
               /\ IsOneShot(sched'[j])
               /\ sched'[j].delays = << >>
               /\ sched'[j].core.scheduled
<1> DEFINE r == NextFire(sched[j], Wall)
<1>1. sched[j] \in Schedule /\ Wall \in Int /\ now \in Int
  BY DEF Types, Wall
<1>2. /\ r.sched \in Schedule
      /\ r.sched.core.kind = sched[j].core.kind
      /\ r.next \in Int
      /\ r.ok \in BOOLEAN
      /\ ~r.ok => IsOneShot(r.sched) /\ r.sched.delays = << >> /\ r.sched.core.scheduled
  BY <1>1, NextFireType
<1>3. /\ sched' = [sched EXCEPT ![j] = r.sched]
      /\ \/ /\ r.ok
            /\ next' = [next EXCEPT ![j] = r.next]
            /\ due' = [due EXCEPT ![j] = TimerDue(r.next)]
            /\ pc' = [pc EXCEPT ![j] = "select"]
         \/ /\ ~r.ok
            /\ pc' = [pc EXCEPT ![j] = "leave"]
            /\ next' = next /\ due' = due
  BY DEF AskAndArm, Goto
<1> HIDE DEF r
<1>4. TimerDue(r.next) \in Int
  BY <1>1, <1>2 DEF TimerDue
<1>5. sched'[j] = r.sched /\ \A i \in Jobs : i # j => sched'[i] = sched[i]
  BY <1>3 DEF Types
<1>6. sched' \in [Jobs -> Schedule] /\ next' \in [Jobs -> Int] /\ due' \in [Jobs -> Int]
  BY <1>2, <1>3, <1>4 DEF Types
<1> QED
  BY <1>2, <1>3, <1>5, <1>6

LEMMA AskTypes ==
  ASSUME Types, NEW j \in Jobs, AskAndArm(j)
  PROVE  Types'
<1>1. pc' \in [Jobs -> RunnerState]
  BY AskStep DEF Types, RunnerState, Alive, Waiting, Invoking, InDo
<1> QED
  BY <1>1, AskStep DEF Types, AskAndArm, cancelVars, clockVars

\* One step of a runner keeps the types.
LEMMA RunnerTypes ==
  ASSUME Types, NEW j \in Jobs, Runner(j)
  PROVE  Types'
<1> USE DEF RunnerState, Alive, Waiting, Invoking, InDo
<1>1. CASE First(j)
  BY <1>1, AskTypes DEF First
<1>2. CASE SelectDone(j)
  BY <1>2 DEF SelectDone, Goto, Types, cancelVars, clockVars
<1>3. CASE Park(j)
  BY <1>3 DEF Park, Goto, Types, cancelVars, clockVars
<1>4. CASE SelectTimer(j)
  <2>1. Append(begun[j], Wall) \in Seq(Int)
    BY DEF Types, Wall
  <2> QED
    BY <1>4, <2>1 DEF SelectTimer, Goto, Types, cancelVars, clockVars
<1>5. CASE FatalEnter(j)
  BY <1>5 DEF FatalEnter, Goto, Types, clockVars
<1>6. CASE FatalSkip(j)
  BY <1>6 DEF FatalSkip, Goto, Types, cancelVars, clockVars
<1>7. CASE CallHook(j)
  BY <1>7 DEF CallHook, Goto, Types, Cause, clockVars
<1>8. CASE HookReturns(j)
  BY <1>8 DEF HookReturns, Goto, Types, cancelVars, clockVars
<1>9. CASE FatalCancel(j)
  <2>1. [pc EXCEPT ![j] = "rearm"] \in [Jobs -> RunnerState]
    BY DEF Types
  <2> QED
    BY <1>9, <2>1, WokenType DEF FatalCancel, CancelRun, Types, Cause, clockVars
<1>10. CASE Rearm(j)
  BY <1>10, AskTypes DEF Rearm
<1>11. CASE Exit(j)
  BY <1>11 DEF Exit, Goto, Types, cancelVars, clockVars
<1> QED
  BY <1>1, <1>2, <1>3, <1>4, <1>5, <1>6, <1>7, <1>8, <1>9, <1>10, <1>11 DEF Runner

LEMMA InitTypes == Init => Types
<1>1. << >> \in Seq(Int)
  OBVIOUS
<1>2. Init => begun \in [Jobs -> Seq(Int)]
  BY <1>1 DEF Init
<1>3. Init => pc \in [Jobs -> RunnerState] /\ shut \in [Callers -> ShutdownState]
  BY DEF Init, RunnerState, ShutdownState
<1>4. Init => sched \in [Jobs -> Schedule] /\ next \in [Jobs -> Int] /\ due \in [Jobs -> Int]
  BY DEF Init
<1>5. Init => started \in BOOLEAN /\ jobs \subseteq Jobs /\ fatal \subseteq Jobs
  BY DEF Init
<1>6. Init => wg \in Int /\ now \in Nat /\ offset \in Int /\ hookCalls \in Nat
  BY DEF Init
<1>7. Init => cause \in Cause /\ parent \in Cause /\ fatalOnce \in {"new", "running", "done"}
  BY DEF Init, Cause
<1> QED
  BY <1>2, <1>3, <1>4, <1>5, <1>6, <1>7 DEF Types

LEMMA NextTypes == Types /\ [Next]_vars => Types'
<1> SUFFICES ASSUME Types, [Next]_vars
             PROVE  Types'
  OBVIOUS
<1>1. ASSUME NEW j \in Jobs, Add(j)
      PROVE  Types'
  BY <1>1 DEF Add, Types, runVars, cancelVars, clockVars
<1>2. ASSUME NEW j \in Jobs, Runner(j)
      PROVE  Types'
  BY <1>2, RunnerTypes
<1>3. ASSUME NEW j \in Jobs, Returns(j)
      PROVE  Types'
  BY <1>3 DEF Returns, CallReturns, AfterCall, Goto, Types, clockVars,
              RunnerState, Alive, Invoking
<1>4. CASE Start
  <2>1. Added \in Int
    BY FS_Subset, FS_CardinalityType DEF Added, Types
  <2> QED
    BY <1>4, <2>1 DEF Start, Types, clockVars, RunnerState, Alive
<1>5. CASE CancelParent
  BY <1>5 DEF CancelParent, Types, Cause, runVars, clockVars
<1>6. CASE PropagateCancel
  BY <1>6, WokenType DEF PropagateCancel, CancelRun, Types, clockVars
<1>7. ASSUME NEW c \in Callers, ShutdownBegin(c)
      PROVE  Types'
  BY <1>7 DEF ShutdownBegin, Types, ShutdownState, runVars, cancelVars, clockVars
<1>8. ASSUME NEW c \in Callers, ShutdownStep(c)
      PROVE  Types'
  <2>1. CASE ShutdownCancel(c)
    BY <2>1, WokenType DEF ShutdownCancel, CancelRun, Types, Cause, ShutdownState, clockVars
  <2>2. CASE ShutdownDrained(c)
    BY <2>2 DEF ShutdownDrained, Types, ShutdownState, runVars, cancelVars, clockVars
  <2>3. CASE ShutdownTimeout(c)
    BY <2>3 DEF ShutdownTimeout, Types, ShutdownState, runVars, cancelVars, clockVars
  <2> QED
    BY <1>8, <2>1, <2>2, <2>3 DEF ShutdownStep
<1>9. CASE Tick
  BY <1>9 DEF Tick, Types, runVars, cancelVars
<1>10. ASSUME NEW d \in WallSteps, StepWall(d)
       PROVE  Types'
  BY <1>10 DEF StepWall, Types, runVars, cancelVars
<1>11. CASE UNCHANGED vars
  BY <1>11 DEF vars, runVars, cancelVars, clockVars, Types
<1> QED
  BY <1>1, <1>2, <1>3, <1>4, <1>5, <1>6, <1>7, <1>8, <1>9, <1>10, <1>11 DEF Next
(***************************************************************************)
(* The wait group counts the live runners.                                 *)
(***************************************************************************)

\* A runner exists exactly for the registered jobs of a started scheduler.
Registered == \A j \in Jobs : pc[j] # "idle" <=> started /\ j \in jobs

CountInv == Registered /\ WaitGroupCounts

\* A step that neither launches a runner nor ends one.
SameRunners ==
  /\ UNCHANGED <<started, jobs, wg>>
  /\ \A i \in Jobs : /\ pc'[i] \in Alive <=> pc[i] \in Alive
                     /\ pc'[i] = "idle" <=> pc[i] = "idle"

LEMMA SameCount ==
  ASSUME CountInv, SameRunners
  PROVE  CountInv'
<1>1. Live' = Live
  BY DEF Live, SameRunners
<1> QED
  BY <1>1 DEF CountInv, Registered, WaitGroupCounts, SameRunners

\* Waking parked runners launches none and ends none.
LEMMA WakingKeepsRunners ==
  ASSUME NEW pcs \in [Jobs -> RunnerState], NEW i \in Jobs
  PROVE  LET w == [j \in Jobs |-> Woken(pcs[j])]
         IN  /\ w[i] \in Alive <=> pcs[i] \in Alive
             /\ w[i] = "idle" <=> pcs[i] = "idle"
  BY DEF Woken, RunnerState, Alive, Waiting, Invoking, InDo

LEMMA RunnerKeepsRunners ==
  ASSUME Types, NEW j \in Jobs, Runner(j), ~Exit(j)
  PROVE  SameRunners
<1> USE DEF RunnerState, Alive, Waiting, Invoking, InDo
<1>1. CASE First(j) \/ Rearm(j)
  <2>1. AskAndArm(j) /\ pc[j] \in {"entry", "rearm"}
    BY <1>1 DEF First, Rearm
  <2>2. UNCHANGED <<started, jobs, wg>>
    BY <2>1 DEF AskAndArm
  <2>3. \/ pc' = [pc EXCEPT ![j] = "select"]
        \/ pc' = [pc EXCEPT ![j] = "leave"]
    BY <2>1, AskStep
  <2> QED
    BY <2>1, <2>2, <2>3 DEF SameRunners, Types
<1>2. CASE SelectDone(j)
  BY <1>2 DEF SelectDone, Goto, SameRunners, Types
<1>3. CASE Park(j)
  BY <1>3 DEF Park, Goto, SameRunners, Types
<1>4. CASE SelectTimer(j)
  BY <1>4 DEF SelectTimer, Goto, SameRunners, Types
<1>5. CASE FatalEnter(j)
  BY <1>5 DEF FatalEnter, Goto, SameRunners, Types
<1>6. CASE FatalSkip(j)
  BY <1>6 DEF FatalSkip, Goto, SameRunners, Types
<1>7. CASE CallHook(j)
  BY <1>7 DEF CallHook, Goto, SameRunners, Types
<1>8. CASE HookReturns(j)
  BY <1>8 DEF HookReturns, Goto, SameRunners, Types
<1>9. CASE FatalCancel(j)
  <2> DEFINE pcs == [pc EXCEPT ![j] = "rearm"]
  <2>1. pcs \in [Jobs -> RunnerState]
    BY DEF Types
  <2>2. pc' = [i \in Jobs |-> Woken(pcs[i])] /\ UNCHANGED <<started, jobs, wg>>
    BY <1>9 DEF FatalCancel, CancelRun
  <2>3. \A i \in Jobs : /\ pcs[i] \in Alive <=> pc[i] \in Alive
                        /\ pcs[i] = "idle" <=> pc[i] = "idle"
    BY <1>9 DEF FatalCancel, Types
  <2> HIDE DEF pcs
  <2> QED
    BY <2>1, <2>2, <2>3, WakingKeepsRunners DEF SameRunners
<1> QED
  BY <1>1, <1>2, <1>3, <1>4, <1>5, <1>6, <1>7, <1>8, <1>9 DEF Runner

LEMMA InitCount == Init => CountInv
<1> SUFFICES ASSUME Init
             PROVE  CountInv
  OBVIOUS
<1>1. Live = {}
  BY DEF Init, Live, Alive, Waiting, Invoking, InDo
<1> QED
  BY <1>1, FS_EmptySet DEF Init, CountInv, Registered, WaitGroupCounts

\* Only Add, Start and the end of a runner touch the registered jobs, the set
\* of runners or their count.
LEMMA StepKinds ==
  ASSUME Types, [Next]_vars
  PROVE  \/ SameRunners
         \/ \E j \in Jobs : Add(j) \/ Exit(j)
         \/ Start
<1> USE DEF RunnerState
<1>1. ASSUME NEW j \in Jobs, Runner(j), ~Exit(j)
      PROVE  SameRunners
  BY <1>1, RunnerKeepsRunners
<1>2. ASSUME NEW j \in Jobs, Returns(j)
      PROVE  SameRunners
  BY <1>2 DEF Returns, CallReturns, AfterCall, Goto, SameRunners, Types,
              Alive, Waiting, Invoking, InDo
<1>3. CASE PropagateCancel
  BY <1>3, WakingKeepsRunners DEF PropagateCancel, CancelRun, SameRunners, Types
<1>4. ASSUME NEW c \in Callers, ShutdownCancel(c)
      PROVE  SameRunners
  BY <1>4, WakingKeepsRunners DEF ShutdownCancel, CancelRun, SameRunners, Types
<1>5. UNCHANGED <<started, jobs, pc, wg>> => SameRunners
  BY DEF SameRunners
<1>6. CASE CancelParent \/ Tick \/ UNCHANGED vars
  BY <1>5, <1>6 DEF CancelParent, Tick, vars, runVars
<1>7. ASSUME NEW c \in Callers,
             ShutdownBegin(c) \/ ShutdownDrained(c) \/ ShutdownTimeout(c)
      PROVE  SameRunners
  BY <1>5, <1>7 DEF ShutdownBegin, ShutdownDrained, ShutdownTimeout, runVars
<1>8. ASSUME NEW d \in WallSteps, StepWall(d)
      PROVE  SameRunners
  BY <1>5, <1>8 DEF StepWall, runVars
<1> QED
  BY <1>1, <1>2, <1>3, <1>4, <1>6, <1>7, <1>8 DEF Next, ShutdownStep

\* The end of a runner takes it out of the live ones.
LEMMA ExitLive ==
  ASSUME Types, NEW j \in Jobs, Exit(j)
  PROVE  j \in Live /\ Live' = Live \ {j}
<1>1. pc[j] = "leave" /\ pc' = [pc EXCEPT ![j] = "done"]
  BY DEF Exit, Goto
<1> QED
  BY <1>1 DEF Live, Types, Alive, Waiting, Invoking, InDo

LEMMA NextCount == Types /\ CountInv /\ [Next]_vars => CountInv'
<1> SUFFICES ASSUME Types, CountInv, [Next]_vars
             PROVE  CountInv'
  OBVIOUS
<1>0. IsFiniteSet(Live)
  BY FS_Subset DEF Live
<1>1. ASSUME NEW j \in Jobs, Add(j)
      PROVE  CountInv'
  <2>1. ~started /\ UNCHANGED <<started, pc, wg>>
    BY <1>1 DEF Add, Acceptable, runVars
  <2>2. Live' = Live
    BY <2>1 DEF Live
  <2> QED
    BY <2>1, <2>2 DEF CountInv, Registered, WaitGroupCounts
<1>2. ASSUME NEW j \in Jobs, Exit(j)
      PROVE  CountInv'
  <2>1. pc[j] = "leave" /\ pc' = [pc EXCEPT ![j] = "done"] /\ wg' = wg - 1
        /\ UNCHANGED <<started, jobs>>
    BY <1>2 DEF Exit, Goto
  <2>2. Cardinality(Live') = Cardinality(Live) - 1
    BY <1>0, <1>2, ExitLive, FS_RemoveElement
  <2> QED
    BY <2>1, <2>2 DEF CountInv, Registered, WaitGroupCounts, Types
<1>3. CASE Start
  <2>1. /\ ~started /\ started' /\ jobs' = jobs /\ wg' = Cardinality(jobs)
        /\ pc' = [j \in Jobs |-> IF j \in jobs THEN "entry" ELSE pc[j]]
    BY <1>3 DEF Start, Added
  <2>2. \A j \in Jobs : pc[j] = "idle"
    BY <2>1 DEF CountInv, Registered
  <2>3. Live' = jobs
    BY <2>1, <2>2 DEF Live, Types, Alive, Waiting, Invoking, InDo
  <2>4. Registered'
    BY <2>1, <2>2 DEF Registered
  <2> QED
    BY <2>1, <2>3, <2>4 DEF CountInv, WaitGroupCounts
<1> QED
  BY <1>1, <1>2, <1>3, StepKinds, SameCount

(***************************************************************************)
(* Cancellation and draining.                                              *)
(***************************************************************************)

\* A cancelled context has been created, a call of Shutdown past its cancel
\* has cancelled it, no runner sleeps through a cancellation, and a caller
\* that was told the scheduler is drained was told so with no runner left.
StopInv ==
  /\ ~started => cause = None
  /\ \A c \in Callers : shut[c] \in {"cancel", "wait", "drained", "timeout"} => started
  /\ \A c \in Callers : shut[c] \in {"wait", "drained", "timeout"} => cause # None
  /\ NoLostWakeup
  /\ \A c \in Callers : shut[c] = "drained" => Live = {}

LEMMA InitStop == Init => StopInv
  BY DEF Init, StopInv, NoLostWakeup

\* Once started, no step adds a live runner.
LEMMA LiveShrinks ==
  ASSUME Types, [Next]_vars, started
  PROVE  started' /\ Live' \subseteq Live
<1>1. CASE SameRunners
  BY <1>1 DEF SameRunners, Live
<1>2. ASSUME NEW j \in Jobs, Exit(j)
      PROVE  started' /\ Live' \subseteq Live
  BY <1>2, ExitLive DEF Exit
<1>3. ASSUME NEW j \in Jobs
      PROVE  ~Add(j)
  BY DEF Add, Acceptable
<1>4. ~Start
  BY DEF Start
<1> QED
  BY <1>1, <1>2, <1>3, <1>4, StepKinds

\* A cancellation is never undone.
LEMMA CauseStays ==
  ASSUME StopInv, [Next]_vars
  PROVE  cause # None => cause' = cause
<1> USE DEF StopInv
<1>1. ASSUME NEW j \in Jobs, Add(j) \/ Runner(j) \/ Returns(j)
      PROVE  cause # None => cause' = cause
  BY <1>1 DEF Add, Runner, Returns, First, Rearm, AskAndArm, SelectDone, Park,
              SelectTimer, FatalEnter, FatalSkip, CallHook, HookReturns,
              FatalCancel, CancelRun, Exit, CallReturns, cancelVars
<1>2. ASSUME NEW c \in Callers, ShutdownBegin(c) \/ ShutdownStep(c)
      PROVE  cause # None => cause' = cause
  BY <1>2 DEF ShutdownBegin, ShutdownStep, ShutdownCancel, ShutdownDrained,
              ShutdownTimeout, CancelRun, cancelVars
<1>3. ASSUME NEW d \in WallSteps, StepWall(d)
      PROVE  cause # None => cause' = cause
  BY <1>3 DEF StepWall, cancelVars
<1>4. CASE Start \/ CancelParent \/ PropagateCancel \/ Tick \/ UNCHANGED vars
  BY <1>4 DEF Start, CancelParent, PropagateCancel, Tick, CancelRun, vars, cancelVars
<1> QED
  BY <1>1, <1>2, <1>3, <1>4 DEF Next

\* A runner parks only while the context is not cancelled, and every
\* cancellation wakes those that are parked.
LEMMA NextWakeup ==
  ASSUME Types, CountInv, StopInv, [Next]_vars
  PROVE  NoLostWakeup'
<1> USE DEF StopInv, NoLostWakeup
<1>1. ASSUME NEW j \in Jobs, Runner(j)
      PROVE  NoLostWakeup'
  <2>1. CASE First(j) \/ Rearm(j)
    <3>1. AskAndArm(j)
      BY <2>1 DEF First, Rearm
    <3>2. UNCHANGED cause
      BY <3>1 DEF AskAndArm, cancelVars
    <3>3. pc' = [pc EXCEPT ![j] = "select"] \/ pc' = [pc EXCEPT ![j] = "leave"]
      BY <3>1, AskStep
    <3> QED
      BY <3>2, <3>3 DEF Types
  <2>2. CASE FatalCancel(j)
    BY <2>2 DEF FatalCancel, CancelRun, Woken
  <2>3. CASE SelectDone(j) \/ Park(j) \/ SelectTimer(j) \/ HookReturns(j)
    BY <2>3 DEF SelectDone, Park, SelectTimer, HookReturns, Goto, cancelVars, Types
  <2>4. CASE FatalEnter(j) \/ FatalSkip(j) \/ CallHook(j) \/ Exit(j)
    BY <2>4 DEF FatalEnter, FatalSkip, CallHook, Exit, Goto, cancelVars, Types
  <2> QED
    BY <1>1, <2>1, <2>2, <2>3, <2>4 DEF Runner
<1>2. ASSUME NEW j \in Jobs, Add(j) \/ Returns(j)
      PROVE  NoLostWakeup'
  BY <1>2 DEF Add, Returns, CallReturns, AfterCall, Goto, Types, runVars, cancelVars
<1>3. ASSUME NEW c \in Callers, ShutdownBegin(c) \/ ShutdownStep(c)
      PROVE  NoLostWakeup'
  BY <1>3 DEF ShutdownBegin, ShutdownStep, ShutdownCancel, ShutdownDrained,
              ShutdownTimeout, CancelRun, Woken, cancelVars, runVars
<1>4. CASE PropagateCancel
  BY <1>4 DEF PropagateCancel, CancelRun, Woken
<1>5. ASSUME NEW d \in WallSteps, StepWall(d)
      PROVE  NoLostWakeup'
  BY <1>5 DEF StepWall, runVars, cancelVars
<1>6. CASE CancelParent \/ Tick \/ UNCHANGED vars
  BY <1>6 DEF CancelParent, Tick, vars, runVars, cancelVars
<1>7. CASE Start
  BY <1>7 DEF Start, CountInv, Registered
<1> QED
  BY <1>1, <1>2, <1>3, <1>4, <1>5, <1>6, <1>7 DEF Next

\* A call of Shutdown moves only by its own steps.
LEMMA ShutSteps ==
  ASSUME Types, [Next]_vars, NEW c \in Callers
  PROVE  shut'[c] = shut[c] \/ ShutdownBegin(c) \/ ShutdownStep(c)
<1>1. ASSUME NEW j \in Jobs, Add(j) \/ Runner(j) \/ Returns(j)
      PROVE  shut' = shut
  BY <1>1 DEF Add, Runner, Returns, First, Rearm, AskAndArm, SelectDone, Park,
              SelectTimer, FatalEnter, FatalSkip, CallHook, HookReturns,
              FatalCancel, Exit, CallReturns
<1>2. ASSUME NEW d \in Callers, ShutdownBegin(d) \/ ShutdownStep(d), d # c
      PROVE  shut'[c] = shut[c]
  BY <1>2 DEF ShutdownBegin, ShutdownStep, ShutdownCancel, ShutdownDrained,
              ShutdownTimeout, Types
<1>3. ASSUME NEW d \in WallSteps, StepWall(d)
      PROVE  shut' = shut
  BY <1>3 DEF StepWall
<1>4. CASE Start \/ CancelParent \/ PropagateCancel \/ Tick \/ UNCHANGED vars
  BY <1>4 DEF Start, CancelParent, PropagateCancel, Tick, vars
<1> QED
  BY <1>1, <1>2, <1>3, <1>4 DEF Next

\* Nothing cancels a run context that has not been created.
LEMMA UnstartedUncancelled ==
  ASSUME Types, CountInv, StopInv, [Next]_vars, ~started'
  PROVE  cause' = None
<1>1. ~started /\ cause = None
  BY LiveShrinks DEF StopInv, Types
<1>2. \A j \in Jobs : pc[j] = "idle"
  BY <1>1 DEF CountInv, Registered
<1>3. ASSUME NEW j \in Jobs
      PROVE  ~Runner(j) /\ ~Returns(j)
  BY <1>2 DEF Runner, Returns, First, Rearm, SelectDone, Park, SelectTimer, Waiting,
              FatalEnter, FatalSkip, CallHook, HookReturns, FatalCancel, Exit, CallReturns
<1>4. ASSUME NEW j \in Jobs, Add(j)
      PROVE  cause' = cause
  BY <1>4 DEF Add, cancelVars
<1>5. ASSUME NEW c \in Callers, ShutdownBegin(c) \/ ShutdownStep(c)
      PROVE  cause' = cause
  BY <1>1, <1>5 DEF ShutdownBegin, ShutdownStep, ShutdownCancel, ShutdownDrained,
                    ShutdownTimeout, StopInv, cancelVars
<1>6. ASSUME NEW d \in WallSteps, StepWall(d)
      PROVE  cause' = cause
  BY <1>6 DEF StepWall, cancelVars
<1>7. CASE CancelParent \/ Tick \/ UNCHANGED vars
  BY <1>1, <1>7 DEF CancelParent, Tick, vars, cancelVars
<1>8. ~PropagateCancel /\ ~Start
  BY <1>1 DEF PropagateCancel, Start
<1> QED
  BY <1>1, <1>3, <1>4, <1>5, <1>6, <1>7, <1>8 DEF Next

LEMMA NextStop == Types /\ CountInv /\ StopInv /\ [Next]_vars => StopInv'
<1> SUFFICES ASSUME Types, CountInv, StopInv, [Next]_vars
             PROVE  StopInv'
  OBVIOUS
<1>1. (~started => cause = None)'
  BY UnstartedUncancelled
<1>2. ASSUME NEW c \in Callers, shut'[c] \in {"cancel", "wait", "drained", "timeout"}
      PROVE  started'
  <2>1. started
    BY <1>2, ShutSteps DEF StopInv, ShutdownBegin, ShutdownStep, ShutdownCancel,
                           ShutdownDrained, ShutdownTimeout, Types
  <2> QED
    BY <2>1, LiveShrinks
<1>3. ASSUME NEW c \in Callers, shut'[c] \in {"wait", "drained", "timeout"}
      PROVE  cause' # None
  <2>1. CASE shut[c] \in {"wait", "drained", "timeout"}
    BY <2>1, CauseStays DEF StopInv
  <2>2. CASE shut[c] \notin {"wait", "drained", "timeout"}
    <3>1. ShutdownCancel(c)
      BY <1>3, <2>2, ShutSteps DEF ShutdownBegin, ShutdownStep, ShutdownDrained,
                                   ShutdownTimeout, Types
    <3> QED
      BY <3>1 DEF ShutdownCancel, CancelRun
  <2> QED
    BY <2>1, <2>2
<1>4. ASSUME NEW c \in Callers, shut'[c] = "drained"
      PROVE  Live' = {}
  <2>1. CASE shut[c] = "drained"
    BY <2>1, LiveShrinks DEF StopInv
  <2>2. CASE shut[c] # "drained"
    <3>1. ShutdownDrained(c)
      BY <1>4, <2>2, ShutSteps DEF ShutdownBegin, ShutdownStep, ShutdownCancel,
                                   ShutdownTimeout, Types
    <3>2. Cardinality(Live) = 0 /\ started
      BY <3>1 DEF ShutdownDrained, CountInv, WaitGroupCounts, StopInv
    <3>3. IsFiniteSet(Live)
      BY FS_Subset DEF Live
    <3>4. Live = {}
      BY <3>2, <3>3, FS_EmptySet
    <3> QED
      BY <3>2, <3>4, LiveShrinks
  <2> QED
    BY <2>1, <2>2
<1> QED
  BY <1>1, <1>2, <1>3, <1>4, NextWakeup DEF StopInv

(***************************************************************************)
(* The escalation of a fatal error.                                        *)
(***************************************************************************)

\* The hook has been called as often as it ever will be.
HookDone == hookCalls = IF Hook = "unset" THEN 0 ELSE 1

Escalating == {"fatal"} \cup InDo

\* At most one runner is inside fatalOnce.Do, only while the Once is running;
\* it finds the hook uncalled and leaves it called; nobody gets past the Once
\* before it is done, and then the context is cancelled.
OnceInv ==
  /\ hookCalls \in {0, 1}
  /\ fatalOnce = "new" => hookCalls = 0
  /\ \A j \in Jobs : pc[j] \in InDo => fatalOnce = "running"
  /\ \A i, j \in Jobs : pc[i] \in InDo /\ pc[j] \in InDo => i = j
  /\ \A j \in Jobs : pc[j] = "hook" => hookCalls = 0 /\ Hook # "unset"
  /\ \A j \in Jobs : pc[j] \in {"hooked", "cancel"} => HookDone
  /\ fatalOnce = "done" => HookDone /\ cause # None
  /\ \A j \in fatal : pc[j] \notin Escalating => fatalOnce = "done"
  /\ cause = "fatal" \/ parent = "fatal" => HookDone

\* A step outside the escalation: no runner enters or leaves it, and a
\* cancellation, if any, is by the parent or by Shutdown.
OutsideEscalation ==
  /\ UNCHANGED <<fatalOnce, hookCalls, fatal>>
  /\ parent' = parent \/ parent' = "signal"
  /\ \A j \in Jobs : pc[j] \in Escalating \/ pc'[j] \in Escalating => pc'[j] = pc[j]
  /\ cause' = cause \/ (cause = None /\ cause' \in {parent, "closed"})

LEMMA OutsideOnce ==
  ASSUME Types, OnceInv, OutsideEscalation
  PROVE  OnceInv'
<1> USE DEF OnceInv, OutsideEscalation, Escalating, InDo, HookDone
<1>1. /\ (hookCalls \in {0, 1})' /\ (fatalOnce = "new" => hookCalls = 0)'
      /\ (\A j \in Jobs : pc[j] \in InDo => fatalOnce = "running")'
      /\ (\A i, j \in Jobs : pc[i] \in InDo /\ pc[j] \in InDo => i = j)'
  OBVIOUS
<1>2. /\ (\A j \in Jobs : pc[j] = "hook" => hookCalls = 0 /\ Hook # "unset")'
      /\ (\A j \in Jobs : pc[j] \in {"hooked", "cancel"} => HookDone)'
  OBVIOUS
<1>3. (fatalOnce = "done" => HookDone /\ cause # None)'
  OBVIOUS
<1>4. (\A j \in fatal : pc[j] \notin Escalating => fatalOnce = "done")'
  BY DEF Types
<1>5. (cause = "fatal" \/ parent = "fatal" => HookDone)'
  OBVIOUS
<1> QED
  BY <1>1, <1>2, <1>3, <1>4, <1>5

LEMMA InitOnce == Init => OnceInv
  BY DEF Init, OnceInv, InDo, HookDone, Escalating

\* Waking a parked runner does not touch the escalation.
LEMMA WakingOutside ==
  ASSUME Types, NEW c, CancelRun(c, pc), NEW j \in Jobs,
         pc[j] \in Escalating \/ pc'[j] \in Escalating
  PROVE  pc'[j] = pc[j]
  BY DEF CancelRun, Woken, Escalating, InDo, Types

LEMMA RunnerOutside ==
  ASSUME Types, NEW j \in Jobs,
         First(j) \/ Rearm(j) \/ SelectDone(j) \/ Park(j) \/ SelectTimer(j) \/ Exit(j)
  PROVE  OutsideEscalation
<1> USE DEF OutsideEscalation, Escalating, InDo
<1>1. CASE First(j) \/ Rearm(j)
  <2>1. AskAndArm(j) /\ pc[j] \in {"entry", "rearm"}
    BY <1>1 DEF First, Rearm
  <2>2. pc' = [pc EXCEPT ![j] = "select"] \/ pc' = [pc EXCEPT ![j] = "leave"]
    BY <2>1, AskStep
  <2>3. UNCHANGED cancelVars
    BY <2>1 DEF AskAndArm
  <2> QED
    BY <2>1, <2>2, <2>3 DEF cancelVars, Types
<1>2. CASE SelectDone(j) \/ Park(j) \/ SelectTimer(j)
  BY <1>2 DEF SelectDone, Park, SelectTimer, Waiting, Goto, cancelVars, Types
<1>3. CASE Exit(j)
  BY <1>3 DEF Exit, Goto, cancelVars, Types
<1> QED
  BY <1>1, <1>2, <1>3

\* Every step but those of an escalating runner is outside.
LEMMA OtherOutside ==
  ASSUME Types, CountInv, StopInv, [Next]_vars
  PROVE  \/ OutsideEscalation
         \/ \E j \in Jobs : Returns(j) \/ FatalEnter(j) \/ FatalSkip(j) \/ CallHook(j)
                              \/ HookReturns(j) \/ FatalCancel(j)
<1>1. ASSUME UNCHANGED <<pc, cancelVars>>
      PROVE  OutsideEscalation
  BY <1>1 DEF OutsideEscalation, cancelVars
<1>2. ASSUME NEW j \in Jobs, Add(j)
      PROVE  OutsideEscalation
  BY <1>1, <1>2 DEF Add, runVars
<1>3. ASSUME NEW c \in Callers, ShutdownBegin(c) \/ ShutdownDrained(c) \/ ShutdownTimeout(c)
      PROVE  OutsideEscalation
  BY <1>1, <1>3 DEF ShutdownBegin, ShutdownDrained, ShutdownTimeout, runVars
<1>4. ASSUME NEW c \in Callers, ShutdownCancel(c)
      PROVE  OutsideEscalation
  <2>1. CancelRun("closed", pc) /\ UNCHANGED <<fatalOnce, hookCalls, fatal, parent>>
    BY <1>4 DEF ShutdownCancel
  <2>2. cause' = cause \/ (cause = None /\ cause' = "closed")
    BY <2>1 DEF CancelRun
  <2> QED
    BY <2>1, <2>2, WakingOutside DEF OutsideEscalation
<1>5. CASE PropagateCancel
  <2>1. /\ CancelRun(parent, pc) /\ UNCHANGED <<fatalOnce, hookCalls, fatal, parent>>
        /\ cause = None
    BY <1>5 DEF PropagateCancel
  <2>2. cause' = parent
    BY <2>1 DEF CancelRun
  <2> QED
    BY <2>1, <2>2, WakingOutside DEF OutsideEscalation
<1>6. CASE Start
  <2>1. \A j \in Jobs : pc[j] = "idle"
    BY <1>6 DEF Start, CountInv, Registered
  <2>2. \A j \in Jobs : pc'[j] \in {"idle", "entry"}
    BY <1>6, <2>1 DEF Start
  <2>3. UNCHANGED <<fatalOnce, hookCalls, fatal, parent>> /\ cause' = parent
    BY <1>6 DEF Start
  <2>4. cause = None
    BY <1>6 DEF Start, StopInv
  <2> QED
    BY <2>1, <2>2, <2>3, <2>4 DEF OutsideEscalation, Escalating, InDo
<1>7. CASE CancelParent
  BY <1>7 DEF CancelParent, OutsideEscalation, runVars
<1>8. ASSUME NEW d \in WallSteps, StepWall(d)
      PROVE  OutsideEscalation
  BY <1>1, <1>8 DEF StepWall, runVars
<1>9. CASE Tick \/ UNCHANGED vars
  BY <1>1, <1>9 DEF Tick, vars, runVars, cancelVars
<1> QED
  BY <1>2, <1>3, <1>4, <1>5, <1>6, <1>7, <1>8, <1>9, RunnerOutside
     DEF Next, Runner, ShutdownStep

LEMMA NextOnce == Types /\ CountInv /\ StopInv /\ OnceInv /\ [Next]_vars => OnceInv'
<1> SUFFICES ASSUME Types, CountInv, StopInv, OnceInv, [Next]_vars
             PROVE  OnceInv'
  OBVIOUS
<1>1. CASE OutsideEscalation
  BY <1>1, OutsideOnce
<1> USE DEF OnceInv, Escalating, InDo, HookDone, Types
<1>2. ASSUME NEW j \in Jobs, Returns(j)
      PROVE  OnceInv'
  <2>1. /\ pc[j] = "call"
        /\ UNCHANGED <<fatalOnce, hookCalls, cause, parent>>
        /\ \/ pc' = [pc EXCEPT ![j] = "fatal"] /\ fatal' = fatal \cup {j}
           \/ pc' = [pc EXCEPT ![j] = "rearm"] /\ fatal' = fatal
    BY <1>2 DEF Returns, CallReturns, AfterCall, Goto
  <2>2. \A i \in Jobs : i # j => pc'[i] = pc[i]
    BY <2>1
  <2>3. pc'[j] \in {"fatal", "rearm"}
    BY <2>1
  <2>4. \A i \in Jobs : pc[i] \in InDo \/ pc'[i] \in InDo => pc'[i] = pc[i]
    BY <2>1, <2>2, <2>3
  <2>5. ASSUME NEW i \in fatal', pc'[i] \notin Escalating
        PROVE  fatalOnce' = "done"
    <3>1. CASE i = j
      BY <2>1, <2>5, <3>1
    <3>2. CASE i # j
      BY <2>1, <2>2, <2>5, <3>2
    <3> QED
      BY <3>1, <3>2
  <2>6. /\ (\A i, k \in Jobs : pc[i] \in InDo /\ pc[k] \in InDo => i = k)'
        /\ (\A i \in Jobs : pc[i] \in InDo => fatalOnce = "running")'
        /\ (\A i \in Jobs : pc[i] = "hook" => hookCalls = 0 /\ Hook # "unset")'
        /\ (\A i \in Jobs : pc[i] \in {"hooked", "cancel"} => HookDone)'
    BY <2>1, <2>4
  <2> QED
    BY <2>1, <2>5, <2>6
<1>3. ASSUME NEW j \in Jobs, FatalEnter(j)
      PROVE  OnceInv'
  <2>1. /\ pc[j] = "fatal" /\ fatalOnce = "new" /\ fatalOnce' = "running"
        /\ pc' = [pc EXCEPT ![j] = IF Hook = "unset" THEN "cancel" ELSE "hook"]
        /\ UNCHANGED <<hookCalls, cause, parent, fatal>>
    BY <1>3 DEF FatalEnter, Goto
  <2> QED
    BY <2>1
<1>4. ASSUME NEW j \in Jobs, FatalSkip(j)
      PROVE  OnceInv'
  <2>1. /\ pc[j] = "fatal" /\ fatalOnce = "done"
        /\ pc' = [pc EXCEPT ![j] = "rearm"]
        /\ UNCHANGED <<fatalOnce, hookCalls, cause, parent, fatal>>
    BY <1>4 DEF FatalSkip, OnceOver, Goto, cancelVars
  <2> QED
    BY <2>1
<1>5. ASSUME NEW j \in Jobs, CallHook(j)
      PROVE  OnceInv'
  <2>1. /\ pc[j] = "hook" /\ hookCalls' = hookCalls + 1
        /\ pc' = [pc EXCEPT ![j] = "hooked"]
        /\ UNCHANGED <<fatalOnce, cause, fatal>>
    BY <1>5 DEF CallHook, Goto
  <2>2. hookCalls = 0 /\ hookCalls' = 1 /\ HookDone' /\ fatalOnce = "running"
    BY <2>1
  <2> QED
    BY <2>1, <2>2
<1>6. ASSUME NEW j \in Jobs, HookReturns(j)
      PROVE  OnceInv'
  <2>1. /\ pc[j] = "hooked"
        /\ pc' = [pc EXCEPT ![j] = "cancel"]
        /\ UNCHANGED <<fatalOnce, hookCalls, cause, parent, fatal>>
    BY <1>6 DEF HookReturns, Goto, cancelVars
  <2> QED
    BY <2>1
<1>7. ASSUME NEW j \in Jobs, FatalCancel(j)
      PROVE  OnceInv'
  <2>1. /\ pc[j] = "cancel" /\ fatalOnce' = "done"
        /\ UNCHANGED <<hookCalls, parent, fatal>>
        /\ cause' # None
        /\ HookDone
    BY <1>7 DEF FatalCancel, CancelRun
  <2>2. ASSUME NEW i \in Jobs
        PROVE  pc'[i] \notin InDo
    <3>1. CASE i = j
      BY <1>7, <3>1 DEF FatalCancel, CancelRun, Woken
    <3>2. CASE i # j
      BY <1>7, <2>1, <3>2 DEF FatalCancel, CancelRun, Woken
    <3> QED
      BY <3>1, <3>2
  <2> QED
    BY <2>1, <2>2
<1> QED
  BY <1>1, <1>2, <1>3, <1>4, <1>5, <1>6, <1>7, OtherOutside

(***************************************************************************)
(* Names and schedules.                                                    *)
(***************************************************************************)

\* The registered jobs have names of their own.
NamesInv ==
  /\ \A i, k \in jobs : i # k => NameOf[i] # NameOf[k]
  /\ \A i \in jobs : NameOf[i] # EmptyName /\ i \notin NilArgs

LEMMA InitNames == Init => NamesInv
  BY DEF Init, NamesInv

LEMMA NextNames == Types /\ NamesInv /\ [Next]_vars => NamesInv'
<1> SUFFICES ASSUME Types, NamesInv, [Next]_vars
             PROVE  NamesInv'
  OBVIOUS
<1>1. ASSUME NEW j \in Jobs, Add(j)
      PROVE  NamesInv'
  BY <1>1 DEF Add, Acceptable, NamesInv
<1>2. CASE SameRunners
  BY <1>2 DEF SameRunners, NamesInv
<1>3. ASSUME NEW j \in Jobs, Exit(j)
      PROVE  NamesInv'
  BY <1>3 DEF Exit, NamesInv
<1>4. CASE Start
  BY <1>4 DEF Start, NamesInv
<1> QED
  BY <1>1, <1>2, <1>3, <1>4, StepKinds

\* A runner that leaves was cancelled or has exhausted a one-shot, and a
\* schedule never changes its kind.
ScheduleInv ==
  /\ KeepsSchedule
  /\ \A j \in Jobs : sched[j].core.kind = ScheduleOf[j].core.kind

LEMMA InitSchedule == Init => ScheduleInv
  BY DEF Init, ScheduleInv, KeepsSchedule

\* A step that asks no schedule and sends a runner away only if cancelled.
NoAsk ==
  /\ sched' = sched
  /\ cause # None => cause' # None
  /\ \A j \in Jobs : pc'[j] \in {"leave", "done"} =>
                       pc[j] \in {"leave", "done"} \/ cause' # None

LEMMA NoAskSchedule ==
  ASSUME ScheduleInv, NoAsk
  PROVE  ScheduleInv'
<1>1. ASSUME NEW j \in Jobs, pc'[j] \in {"leave", "done"}
      PROVE  \/ cause' # None
             \/ /\ IsOneShot(sched'[j])
                /\ sched'[j].delays = << >>
                /\ sched'[j].core.scheduled
  BY <1>1 DEF NoAsk, ScheduleInv, KeepsSchedule
<1>2. (\A j \in Jobs : sched[j].core.kind = ScheduleOf[j].core.kind)'
  BY DEF NoAsk, ScheduleInv
<1> QED
  BY <1>1, <1>2 DEF ScheduleInv, KeepsSchedule

LEMMA NextSchedule == Types /\ CountInv /\ StopInv /\ ScheduleInv /\ [Next]_vars => ScheduleInv'
<1> SUFFICES ASSUME Types, CountInv, StopInv, ScheduleInv, [Next]_vars
             PROVE  ScheduleInv'
  OBVIOUS
<1>1. cause # None => cause' # None
  BY CauseStays
<1>2. ASSUME NEW j \in Jobs, First(j) \/ Rearm(j)
      PROVE  ScheduleInv'
  <2>1. AskAndArm(j) /\ cause' = cause
    BY <1>2 DEF First, Rearm, AskAndArm, cancelVars
  <2>2. ASSUME NEW i \in Jobs, i # j
        PROVE  sched'[i] = sched[i] /\ pc'[i] = pc[i]
    BY <2>1, <2>2, AskStep DEF Types
  <2>3. \/ pc'[j] = "select"
        \/ /\ IsOneShot(sched'[j])
           /\ sched'[j].delays = << >>
           /\ sched'[j].core.scheduled
    BY <2>1, AskStep DEF Types
  <2>4. KeepsSchedule'
    <3>1. ASSUME NEW i \in Jobs, pc'[i] \in {"leave", "done"}
          PROVE  \/ cause' # None
                 \/ /\ IsOneShot(sched'[i])
                    /\ sched'[i].delays = << >>
                    /\ sched'[i].core.scheduled
      <4>1. CASE i = j
        BY <2>3, <3>1, <4>1
      <4>2. CASE i # j
        BY <2>1, <2>2, <3>1, <4>2 DEF ScheduleInv, KeepsSchedule
      <4> QED
        BY <4>1, <4>2
    <3> QED
      BY <3>1 DEF KeepsSchedule
  <2>5. (\A i \in Jobs : sched[i].core.kind = ScheduleOf[i].core.kind)'
    BY <2>1, AskStep DEF ScheduleInv
  <2> QED
    BY <2>4, <2>5 DEF ScheduleInv
<1>3. ASSUME NEW j \in Jobs, SelectDone(j) \/ Park(j) \/ SelectTimer(j) \/ Exit(j)
      PROVE  NoAsk
  BY <1>1, <1>3 DEF SelectDone, Park, SelectTimer, Exit, Goto, NoAsk, Types, cancelVars
<1>4. ASSUME NEW j \in Jobs, FatalEnter(j) \/ FatalSkip(j) \/ CallHook(j) \/ HookReturns(j)
      PROVE  NoAsk
  BY <1>1, <1>4 DEF FatalEnter, FatalSkip, CallHook, HookReturns, Goto, NoAsk, Types
<1>5. ASSUME NEW j \in Jobs, FatalCancel(j)
      PROVE  NoAsk
  BY <1>1, <1>5 DEF FatalCancel, CancelRun, NoAsk, Types
<1>6. ASSUME NEW j \in Jobs, Add(j) \/ Returns(j)
      PROVE  NoAsk
  BY <1>1, <1>6 DEF Add, Returns, CallReturns, AfterCall, Goto, NoAsk, Types, runVars
<1>7. ASSUME NEW c \in Callers, ShutdownBegin(c) \/ ShutdownStep(c)
      PROVE  NoAsk
  BY <1>1, <1>7 DEF ShutdownBegin, ShutdownStep, ShutdownCancel, ShutdownDrained,
                    ShutdownTimeout, CancelRun, NoAsk, Types, runVars
<1>8. PropagateCancel => NoAsk
  BY <1>1 DEF PropagateCancel, CancelRun, NoAsk, Types
<1>9. Start => NoAsk
  BY <1>1 DEF Start, NoAsk, Types
<1>10. ASSUME NEW d \in WallSteps, StepWall(d)
       PROVE  NoAsk
  BY <1>1, <1>10 DEF StepWall, NoAsk, runVars
<1>11. CancelParent \/ Tick \/ UNCHANGED vars => NoAsk
  BY <1>1 DEF CancelParent, Tick, NoAsk, vars, runVars
<1> QED
  BY <1>2, <1>3, <1>4, <1>5, <1>6, <1>7, <1>8, <1>9, <1>10, <1>11, NoAskSchedule
     DEF Next, Runner

(***************************************************************************)
(* The scheduler implements Supervision.                                   *)
(***************************************************************************)

LEMMA InitPromise == Init => Promise!Init
<1> SUFFICES ASSUME Init
             PROVE  Promise!Init
  OBVIOUS
<1>1. Phase = "new" /\ Live = {} /\ Busy = {}
  BY DEF Init, Phase, Live, Busy, Alive, Waiting, Invoking, InDo
<1>2. Answers = [c \in Callers |-> "none"]
  BY DEF Init, Answers
<1> QED
  BY <1>1, <1>2 DEF Promise!Init

\* What the abstract state is a function of.
LEMMA SameAbstract ==
  ASSUME SameRunners, UNCHANGED <<cause, shut>>,
         \A j \in Jobs : pc'[j] \in Invoking <=> pc[j] \in Invoking
  PROVE  UNCHANGED Promise!svars
<1>1. Live' = Live
  BY DEF SameRunners, Live
<1>2. Busy' = Busy
  BY DEF Busy
<1>3. Phase' = Phase
  BY DEF Phase, SameRunners
<1>4. Answers' = Answers
  BY DEF Answers
<1> QED
  BY <1>1, <1>2, <1>3, <1>4 DEF Promise!svars

\* The steps of a runner.
LEMMA RunnerPromise ==
  ASSUME Types, CountInv, ScheduleInv, NEW j \in Jobs, Runner(j) \/ Returns(j)
  PROVE  Promise!Next \/ UNCHANGED Promise!svars
<1> USE DEF RunnerState, Alive, Waiting, Invoking, InDo
<1>0. started
  BY DEF Runner, Returns, First, Rearm, SelectDone, Park, SelectTimer, FatalEnter,
         FatalSkip, CallHook, HookReturns, FatalCancel, Exit, CallReturns,
         CountInv, Registered
<1>1. CASE First(j) \/ Rearm(j)
  <2>1. AskAndArm(j) /\ pc[j] \in {"entry", "rearm"}
    BY <1>1 DEF First, Rearm
  <2>2. pc' = [pc EXCEPT ![j] = "select"] \/ pc' = [pc EXCEPT ![j] = "leave"]
    BY <2>1, AskStep
  <2>3. UNCHANGED <<started, jobs, wg, cause, shut>>
    BY <2>1 DEF AskAndArm, cancelVars
  <2>4. SameRunners /\ \A i \in Jobs : pc'[i] \in Invoking <=> pc[i] \in Invoking
    BY <2>1, <2>2, <2>3 DEF SameRunners, Types
  <2> QED
    BY <2>3, <2>4, SameAbstract
<1>2. CASE SelectDone(j) \/ Park(j) \/ FatalEnter(j) \/ CallHook(j) \/ HookReturns(j)
  <2>1. UNCHANGED <<started, jobs, wg, cause, shut>>
    BY <1>2 DEF SelectDone, Park, FatalEnter, CallHook, HookReturns, cancelVars
  <2>2. SameRunners /\ \A i \in Jobs : pc'[i] \in Invoking <=> pc[i] \in Invoking
    BY <1>2, <2>1 DEF SelectDone, Park, FatalEnter, CallHook, HookReturns, Goto,
                      SameRunners, Types
  <2> QED
    BY <2>1, <2>2, SameAbstract
<1>3. CASE SelectTimer(j)
  <2>1. pc[j] \in Waiting /\ pc' = [pc EXCEPT ![j] = "call"]
        /\ UNCHANGED <<started, cause, shut>>
    BY <1>3 DEF SelectTimer, Goto, cancelVars
  <2>2. j \in Live \ Busy /\ Busy' = Busy \cup {j} /\ Live' = Live
    BY <2>1 DEF Live, Busy, Types
  <2>3. Phase' = Phase /\ Answers' = Answers
    BY <2>1 DEF Phase, Answers
  <2>4. Promise!Begin(j)
    BY <2>2, <2>3 DEF Promise!Begin
  <2> QED
    BY <2>4 DEF Promise!Next
<1>4. ASSUME pc[j] \in Invoking, pc' = [pc EXCEPT ![j] = "rearm"],
             UNCHANGED <<started, cause, shut>>
      PROVE  Promise!Next
  <2>1. j \in Busy /\ Busy' = Busy \ {j} /\ Live' = Live
    BY <1>4 DEF Live, Busy, Types
  <2>2. Phase' = Phase /\ Answers' = Answers
    BY <1>4 DEF Phase, Answers
  <2>3. Promise!End(j)
    BY <2>1, <2>2 DEF Promise!End
  <2> QED
    BY <2>3 DEF Promise!Next
<1>5. CASE FatalSkip(j)
  BY <1>4, <1>5 DEF FatalSkip, Goto, cancelVars
<1>6. CASE Returns(j)
  <2>1. pc[j] = "call" /\ UNCHANGED <<started, jobs, wg, cause, shut>>
        /\ (pc' = [pc EXCEPT ![j] = "fatal"] \/ pc' = [pc EXCEPT ![j] = "rearm"])
    BY <1>6 DEF Returns, CallReturns, AfterCall, Goto
  <2>2. CASE pc' = [pc EXCEPT ![j] = "fatal"]
    <3>1. SameRunners /\ \A i \in Jobs : pc'[i] \in Invoking <=> pc[i] \in Invoking
      BY <2>1, <2>2 DEF SameRunners, Types
    <3> QED
      BY <2>1, <3>1, SameAbstract
  <2> QED
    BY <1>4, <2>1, <2>2
<1>7. CASE FatalCancel(j)
  <2>1. /\ pc[j] = "cancel"
        /\ pc' = [i \in Jobs |-> Woken([pc EXCEPT ![j] = "rearm"][i])]
        /\ cause' = IF cause = None THEN "fatal" ELSE cause
        /\ UNCHANGED <<started, shut>>
    BY <1>7 DEF FatalCancel, CancelRun
  <2>2. \A i \in Jobs : i # j => pc'[i] = Woken(pc[i])
    BY <2>1 DEF Types
  <2>3. pc'[j] = "rearm"
    BY <2>1 DEF Woken, Types
  <2>4. j \in Busy /\ Busy' = Busy \ {j} /\ Live' = Live
    BY <2>1, <2>2, <2>3 DEF Live, Busy, Woken, Types
  <2>5. Answers' = Answers
    BY <2>1 DEF Answers
  <2>6. CASE cause = None
    <3>1. Phase = "running" /\ Phase' = "stopped"
      BY <1>0, <2>1, <2>6 DEF Phase
    <3>2. Promise!Stop
      BY <2>4, <2>5, <3>1 DEF Promise!Stop
    <3> QED
      BY <3>2 DEF Promise!Next
  <2>7. CASE cause # None
    <3>1. Phase' = Phase
      BY <2>1, <2>7 DEF Phase
    <3>2. Promise!End(j)
      BY <2>4, <2>5, <3>1 DEF Promise!End
    <3> QED
      BY <3>2 DEF Promise!Next
  <2> QED
    BY <2>6, <2>7
<1>8. CASE Exit(j)
  <2>1. pc[j] = "leave" /\ pc' = [pc EXCEPT ![j] = "done"]
        /\ UNCHANGED <<started, cause, shut>>
    BY <1>8 DEF Exit, Goto, cancelVars
  <2>2. j \in Live \ Busy /\ Busy' = Busy /\ Live' = Live \ {j}
    BY <2>1 DEF Live, Busy, Types
  <2>3. Phase' = Phase /\ Answers' = Answers
    BY <2>1 DEF Phase, Answers
  <2>4. cause # None \/ IsOneShot(sched[j])
    BY <2>1 DEF ScheduleInv, KeepsSchedule
  <2>5. Phase = "stopped" \/ j \in FiniteJobs
    BY <1>0, <2>4 DEF Phase, FiniteJobs, ScheduleInv, IsOneShot
  <2>6. Promise!Retire(j)
    BY <2>2, <2>3, <2>5 DEF Promise!Retire
  <2> QED
    BY <2>6 DEF Promise!Next
<1> QED
  BY <1>1, <1>2, <1>3, <1>5, <1>6, <1>7, <1>8 DEF Runner

\* A cancellation of the run context by anyone but a runner.
LEMMA CancelPromise ==
  ASSUME Types, started, NEW c, c # None, CancelRun(c, pc),
         UNCHANGED started, Answers' = Answers
  PROVE  Promise!Next \/ UNCHANGED Promise!svars
<1>1. Live' = Live /\ Busy' = Busy
  BY DEF CancelRun, Woken, Live, Busy, Types, RunnerState, Alive, Waiting, Invoking, InDo
<1>2. CASE cause = None
  <2>1. Phase = "running" /\ Phase' = "stopped"
    BY <1>2 DEF Phase, CancelRun
  <2>2. Promise!Stop
    BY <1>1, <2>1 DEF Promise!Stop
  <2> QED
    BY <2>2 DEF Promise!Next
<1>3. CASE cause # None
  <2>1. Phase' = Phase
    BY <1>3 DEF Phase, CancelRun
  <2> QED
    BY <1>1, <2>1 DEF Promise!svars
<1> QED
  BY <1>2, <1>3

\* The steps of a call of Shutdown.
LEMMA ShutdownPromise ==
  ASSUME Types, CountInv, StopInv, NEW c \in Callers, ShutdownBegin(c) \/ ShutdownStep(c)
  PROVE  Promise!Next \/ UNCHANGED Promise!svars
<1>1. CASE ShutdownCancel(c)
  <2>1. started
    BY <1>1 DEF ShutdownCancel, StopInv
  <2>2. CancelRun("closed", pc) /\ UNCHANGED started /\ "closed" # None
    BY <1>1 DEF ShutdownCancel
  <2>3. Answers' = Answers
    BY <1>1 DEF ShutdownCancel, Answers, Types
  <2> QED
    BY <2>1, <2>2, <2>3, CancelPromise
<1>2. CASE ~ShutdownCancel(c)
  <2>1. UNCHANGED <<started, jobs, pc, wg, cause>>
    BY <1>2 DEF ShutdownBegin, ShutdownStep, ShutdownDrained, ShutdownTimeout,
                runVars, cancelVars
  <2>2. Phase' = Phase /\ Live' = Live /\ Busy' = Busy
    BY <2>1 DEF Phase, Live, Busy
  <2>3. CASE ShutdownBegin(c) /\ started
    <3>1. Answers' = Answers
      BY <2>3 DEF ShutdownBegin, Answers, Types
    <3> QED
      BY <2>2, <3>1 DEF Promise!svars
  <2>4. CASE ShutdownBegin(c) /\ ~started
    <3>1. Answers[c] = "none" /\ Answers' = [Answers EXCEPT ![c] = "notStarted"]
      BY <2>4 DEF ShutdownBegin, Answers, Types
    <3>2. Phase = "new"
      BY <2>4 DEF Phase
    <3>3. Promise!Answer(c)
      BY <2>2, <3>1, <3>2 DEF Promise!Answer
    <3> QED
      BY <3>3 DEF Promise!Next
  <2>5. CASE ShutdownDrained(c)
    <3>1. Answers[c] = "none" /\ Answers' = [Answers EXCEPT ![c] = "drained"]
      BY <2>5 DEF ShutdownDrained, Answers, Types
    <3>2. Phase = "stopped"
      BY <2>5 DEF ShutdownDrained, StopInv, Phase
    <3>3. IsFiniteSet(Live) /\ Cardinality(Live) = 0
      BY <2>5, FS_Subset DEF ShutdownDrained, CountInv, WaitGroupCounts, Live
    <3>4. Live = {}
      BY <3>3, FS_EmptySet
    <3>5. Promise!Answer(c)
      BY <2>2, <3>1, <3>2, <3>4 DEF Promise!Answer
    <3> QED
      BY <3>5 DEF Promise!Next
  <2>6. CASE ShutdownTimeout(c)
    <3>1. Answers[c] = "none" /\ Answers' = [Answers EXCEPT ![c] = "timeout"]
      BY <2>6 DEF ShutdownTimeout, Answers, Types
    <3>2. Phase = "stopped"
      BY <2>6 DEF ShutdownTimeout, StopInv, Phase
    <3>3. Promise!Answer(c)
      BY <2>2, <3>1, <3>2 DEF Promise!Answer
    <3> QED
      BY <3>3 DEF Promise!Next
  <2> QED
    BY <1>2, <2>3, <2>4, <2>5, <2>6 DEF ShutdownStep
<1> QED
  BY <1>1, <1>2

\* Every step of the scheduler is a step of Supervision or leaves its state alone.
LEMMA NextPromise ==
  Types /\ CountInv /\ StopInv /\ ScheduleInv /\ [Next]_vars => [Promise!Next]_(Promise!svars)
<1> SUFFICES ASSUME Types, CountInv, StopInv, ScheduleInv, [Next]_vars
             PROVE  Promise!Next \/ UNCHANGED Promise!svars
  OBVIOUS
<1>1. UNCHANGED <<started, pc, cause, shut>> => UNCHANGED Promise!svars
  BY DEF Promise!svars, Phase, Live, Busy, Answers
<1>2. ASSUME NEW j \in Jobs, Add(j)
      PROVE  UNCHANGED Promise!svars
  BY <1>1, <1>2 DEF Add, runVars, cancelVars
<1>3. CASE Start
  <2>1. /\ ~started /\ started' /\ cause = None /\ shut' = shut
        /\ pc' = [j \in Jobs |-> IF j \in jobs THEN "entry" ELSE pc[j]]
    BY <1>3 DEF Start, StopInv
  <2>2. \A j \in Jobs : pc[j] = "idle"
    BY <2>1 DEF CountInv, Registered
  <2>3. Live' \subseteq Jobs /\ Busy' = Busy
    BY <2>1, <2>2 DEF Live, Busy, Alive, Waiting, Invoking, InDo
  <2>4. Phase = "new" /\ Phase' \in {"running", "stopped"} /\ Answers' = Answers
    BY <2>1 DEF Phase, Answers
  <2>5. Promise!Launch
    BY <2>3, <2>4 DEF Promise!Launch
  <2> QED
    BY <2>5 DEF Promise!Next
<1>4. CASE PropagateCancel
  <2>1. started /\ parent # None /\ CancelRun(parent, pc) /\ UNCHANGED <<started, shut>>
    BY <1>4 DEF PropagateCancel
  <2> QED
    BY <2>1, CancelPromise DEF Answers
<1>5. ASSUME NEW d \in WallSteps, StepWall(d)
      PROVE  UNCHANGED Promise!svars
  BY <1>1, <1>5 DEF StepWall, runVars, cancelVars
<1>6. CancelParent \/ Tick \/ UNCHANGED vars => UNCHANGED Promise!svars
  BY <1>1 DEF CancelParent, Tick, vars, runVars, cancelVars
<1> QED
  BY <1>2, <1>3, <1>4, <1>5, <1>6, RunnerPromise, ShutdownPromise DEF Next

(***************************************************************************)
(* Theorems.                                                               *)
(***************************************************************************)

LEMMA SpecTypes == Spec => []Types
  BY InitTypes, NextTypes, PTL DEF Spec

LEMMA SpecCount == Spec => []CountInv
  BY InitCount, NextCount, SpecTypes, PTL DEF Spec

LEMMA SpecStop == Spec => []StopInv
  BY InitStop, NextStop, SpecTypes, SpecCount, PTL DEF Spec

LEMMA SpecOnce == Spec => []OnceInv
  BY InitOnce, NextOnce, SpecTypes, SpecCount, SpecStop, PTL DEF Spec

LEMMA SpecNames == Spec => []NamesInv
  BY InitNames, NextNames, SpecTypes, PTL DEF Spec

LEMMA SpecSchedule == Spec => []ScheduleInv
  BY InitSchedule, NextSchedule, SpecTypes, SpecCount, SpecStop, PTL DEF Spec

\* The wait group is the number of live runners (Start, run).
THEOREM CountTheorem == Spec => []WaitGroupCounts
  BY SpecCount, PTL DEF CountInv

\* Every variable has its type, and the wait group never goes below zero.
THEOREM TypeTheorem == Spec => []TypeOK
<1>1. Types /\ CountInv => TypeOK
  <2> SUFFICES ASSUME Types, CountInv
               PROVE  TypeOK
    OBVIOUS
  <2>1. Cardinality(Live) \in Nat
    BY FS_Subset, FS_CardinalityType DEF Live
  <2> QED
    BY <2>1 DEF Types, CountInv, WaitGroupCounts, TypeOK
<1> QED
  BY <1>1, SpecTypes, SpecCount, PTL

\* No cancellation is slept through (run, WithCancelCause).
THEOREM WakeupTheorem == Spec => []NoLostWakeup
  BY SpecStop, PTL DEF StopInv

\* "Nothing leaks": whatever the jobs do, whoever cancels, and however many
\* calls of Shutdown run at once, one that returns nil leaves no runner.
THEOREM DrainTheorem == Spec => []DrainedIsQuiet
<1>1. Types /\ CountInv /\ StopInv => DrainedIsQuiet
  BY DEF StopInv, DrainedIsQuiet, Live, Types, RunnerState
<1> QED
  BY <1>1, SpecTypes, SpecCount, SpecStop, PTL
\* A fatal error is never outrun: whatever number of jobs fail at once, each
\* is back in its loop only after the hook has run, once, and the context is
\* cancelled (triggerFatal).
THEOREM EscalationTheorem == Spec => []FatalEscalates
<1>1. OnceInv => FatalEscalates
  BY DEF OnceInv, FatalEscalates, HookDone, Escalating
<1> QED
  BY <1>1, SpecOnce, PTL

\* The hook "runs before the scheduler cancels its own jobs" (triggerFatal).
THEOREM HookTheorem == Spec => []HookBeforeCancel
<1>1. OnceInv => HookBeforeCancel
  BY DEF OnceInv, HookBeforeCancel, HookDone
<1> QED
  BY <1>1, SpecOnce, PTL

\* What has a runner is what Add accepted before Start, and nothing of an Add that
\* was refused, whatever the program passed to it and when (Add, Start).
THEOREM RegistryTheorem == Spec => []RunnersAreRegistered
<1>1. Types /\ CountInv /\ NamesInv => RunnersAreRegistered
  BY DEF Types, CountInv, Registered, NamesInv, RunnersAreRegistered
<1> QED
  BY <1>1, SpecTypes, SpecCount, SpecNames, PTL

\* A job keeps its schedule whatever it returns, until it is cancelled or has
\* no fire left (invoke, run).
THEOREM ScheduleTheorem == Spec => []KeepsSchedule
  BY SpecSchedule, PTL DEF ScheduleInv

\* The scheduler implements Supervision, the specification of what it promises
\* to the program: initial states map to initial states, and every step maps
\* to a step or leaves the abstract state unchanged.
THEOREM PromiseTheorem == Spec => KeepsPromise
  BY InitPromise, NextPromise, SpecTypes, SpecCount, SpecStop, SpecSchedule, PTL
     DEF Spec, KeepsPromise, Promise!Spec
=============================================================================
