------------------------------ MODULE SlotProofs ------------------------------
(***************************************************************************)
(* When the jobs of the scheduler run, for every set of jobs and schedules, *)
(* every step of the wall clock and every cancellation: never early, never  *)
(* twice for one slot, and never again once a one-shot has run.             *)
(***************************************************************************)
EXTENDS SchedulerProofs

USE DurationAssumption, SchedulerAssumption

(***************************************************************************)
(* The inductive invariants.                                               *)
(***************************************************************************)

\* The fires that were handed out to a runner: the runs that have begun and the
\* one its timer is armed for.
Fires(j) == IF pc[j] \in Waiting THEN Len(begun[j]) + 1 ELSE Len(begun[j])

DelaysOf(j) == Len(ScheduleOf[j].delays)

\* A schedule gives up one of its delays, or what its core has left, per fire.
FiresInv ==
  \A j \in Jobs :
    /\ sched[j].core.kind = ScheduleOf[j].core.kind
    /\ sched[j].delays # << >> => Fires(j) + Len(sched[j].delays) <= DelaysOf(j)
    /\ IsOneShot(sched[j]) =>
         /\ Fires(j) + Len(sched[j].delays) <= DelaysOf(j) + 1
         /\ ~sched[j].core.scheduled => Fires(j) + Len(sched[j].delays) <= DelaysOf(j)

\* Before the wall clock is stepped a timer is not due before the fire it is
\* armed for, and a run begins when its timer is due.
TimerInv ==
  \A j \in Jobs :
    /\ pc[j] \in Waiting /\ offset = 0 => next[j] <= due[j]
    /\ pc[j] = "call" => begun[j] # << >>
    /\ pc[j] = "call" /\ offset = 0 => next[j] <= begun[j][Len(begun[j])]

\* The indices of the runs that the delays have not put off.
CoreRuns(j) == DelaysOf(j) + 1 .. Len(begun[j])

\* The core of a recurring schedule as it was constructed, but for the anchor
\* of a Periodic, which it gets with the first fire that is not put off.
CoreInv ==
  \A j \in Jobs :
    LET c == sched[j].core
        d == ScheduleOf[j].core
    IN  IsRecurring(sched[j]) =>
          /\ c.interval = d.interval
          /\ c.kind = "periodicAt" => c.first = d.first
          /\ c.kind = "periodic" /\ ~c.anchored => Fires(j) <= DelaysOf(j)
          /\ c.kind = "periodic" /\ c.anchored /\ offset = 0 => 0 <= AnchorOf(j) /\ AnchorOf(j) <= now

\* Before the wall clock is stepped the runs have begun in the past, each in a
\* later slot than the one before, and the next fire is in a later slot again.
SlotInv ==
  \A j \in Jobs :
    IsRecurring(sched[j]) /\ offset = 0 =>
      /\ \A k \in DOMAIN begun[j] : begun[j][k] <= now
      /\ pc[j] \in Waiting => \A k \in CoreRuns(j) : SlotOf(j, begun[j][k]) < SlotOf(j, next[j])
      /\ \A k, m \in CoreRuns(j) : k < m => SlotOf(j, begun[j][k]) < SlotOf(j, begun[j][m])

\* The questions of a behaviour are within the reach of a time.Duration, 292
\* years, of the instants the recurring schedules count from.  What becomes of a
\* schedule out of reach is theorem FarAnchorFiresInThePast.
SlotsInReach ==
  \A j \in Jobs :
    LET c == ScheduleOf[j].core
    IN  /\ c.kind = "periodic" => ~c.anchored /\ MaxTime + c.interval <= MaxDuration
        /\ c.kind = "periodicAt" => MaxTime - c.first + c.interval <= MaxDuration

(***************************************************************************)
(* The kinds of steps.                                                     *)
(***************************************************************************)

\* What asking does to the runner that asks, and to no other.
Asks(j) ==
  /\ UNCHANGED <<begun, now, offset>>
  /\ pc[j] \notin Waiting
  /\ \A i \in Jobs \ {j} : /\ sched'[i] = sched[i] /\ pc'[i] = pc[i]
                           /\ next'[i] = next[i] /\ due'[i] = due[i]
  /\ pc'[j] \in {"select", "leave"}
  /\ pc'[j] = "select" /\ offset = 0 => next'[j] <= due'[j]
  /\ IF sched[j].delays # << >>
       THEN /\ sched'[j].delays = Tail(sched[j].delays)
            /\ sched'[j].core = sched[j].core
       ELSE LET r == CoreNext(sched[j].core, Wall)
            IN  /\ sched'[j].delays = << >>
                /\ sched'[j].core = r.core
                /\ r.ok <=> pc'[j] = "select"
                /\ r.ok => next'[j] = r.next

LEMMA AskKind ==
  ASSUME Types, NEW j \in Jobs, First(j) \/ Rearm(j)
  PROVE  Asks(j)
<1> DEFINE r == NextFire(sched[j], Wall)
<1>1. sched[j] \in Schedule /\ Wall \in Int /\ now \in Int /\ offset \in Int
  BY DEF Types, Wall
<1>2. /\ r.next \in Int /\ r.ok \in BOOLEAN
      /\ IF sched[j].delays # << >>
           THEN r.ok /\ r.sched.delays = Tail(sched[j].delays) /\ r.sched.core = sched[j].core
           ELSE LET c == CoreNext(sched[j].core, Wall)
                IN  /\ r.sched.delays = << >> /\ r.sched.core = c.core
                    /\ r.ok = c.ok /\ r.next = c.next
  BY <1>1, NextFireType DEF NextFire, Schedule
<1>3. /\ sched' = [sched EXCEPT ![j] = r.sched]
      /\ \/ /\ r.ok
            /\ next' = [next EXCEPT ![j] = r.next]
            /\ due' = [due EXCEPT ![j] = TimerDue(r.next)]
            /\ pc' = [pc EXCEPT ![j] = "select"]
         \/ /\ ~r.ok
            /\ pc' = [pc EXCEPT ![j] = "leave"]
            /\ next' = next /\ due' = due
      /\ UNCHANGED <<begun, now, offset>>
      /\ pc[j] \notin Waiting
  BY DEF First, Rearm, AskAndArm, Goto, clockVars, Waiting
<1> HIDE DEF r
<1>4. offset = 0 => r.next <= TimerDue(r.next)
  BY <1>1, <1>2 DEF TimerDue, Wall
<1>5. sched'[j] = r.sched /\ \A i \in Jobs \ {j} : sched'[i] = sched[i]
  BY <1>3 DEF Types
<1>6. \/ /\ r.ok /\ pc'[j] = "select" /\ next'[j] = r.next /\ due'[j] = TimerDue(r.next)
         /\ \A i \in Jobs \ {j} : pc'[i] = pc[i] /\ next'[i] = next[i] /\ due'[i] = due[i]
      \/ /\ ~r.ok /\ pc'[j] = "leave"
         /\ \A i \in Jobs \ {j} : pc'[i] = pc[i] /\ next'[i] = next[i] /\ due'[i] = due[i]
  BY <1>3 DEF Types
<1> QED
  BY <1>2, <1>3, <1>4, <1>5, <1>6 DEF Asks

\* A run begins.
Begins(j) ==
  /\ UNCHANGED <<sched, next, due, now, offset>>
  /\ pc[j] \in Waiting /\ due[j] <= now
  /\ \A i \in Jobs \ {j} : pc'[i] = pc[i] /\ begun'[i] = begun[i]
  /\ pc'[j] = "call" /\ begun'[j] = Append(begun[j], now + offset)

LEMMA BeginKind ==
  ASSUME Types, NEW j \in Jobs, SelectTimer(j)
  PROVE  Begins(j)
  BY DEF Types, SelectTimer, Goto, Begins, clockVars, Wall

\* No job is asked about and no run begins; the clocks may move.
Lull ==
  /\ UNCHANGED <<sched, next, due, begun>>
  /\ \A j \in Jobs :
       \/ pc'[j] = pc[j]
       \/ pc[j] \in Waiting /\ pc'[j] \in Waiting
       \/ pc'[j] \notin Waiting \cup {"call"}
  /\ now' = now \/ (now' = now + 1 /\ now' <= MaxTime)
  /\ offset' = 0 => offset = 0

LEMMA StepIsSlotted ==
  ASSUME Types, [Next]_vars
  PROVE  Lull \/ \E j \in Jobs : Asks(j) \/ Begins(j)
<1>0. pc \in [Jobs -> RunnerState]
  BY DEF Types
<1> DEFINE still == UNCHANGED <<sched, next, due, begun, now, offset>>
<1>a. ASSUME still, NEW j \in Jobs, NEW p, pc' = [pc EXCEPT ![j] = p],
             p \notin Waiting \cup {"call"} \/ (pc[j] \in Waiting /\ p \in Waiting)
      PROVE  Lull
  BY <1>0, <1>a DEF Lull
<1>b. still /\ pc' = pc => Lull
  BY DEF Lull
<1> USE DEF Waiting
<1>1. ASSUME NEW j \in Jobs, Add(j) \/ Exit(j)
      PROVE  Lull
  BY <1>1, <1>a, <1>b DEF Add, Exit, Goto, runVars, clockVars
<1>2. ASSUME NEW j \in Jobs, SelectDone(j) \/ Park(j)
      PROVE  Lull
  BY <1>2, <1>a DEF SelectDone, Park, Goto, clockVars
<1>3. ASSUME NEW j \in Jobs,
             FatalEnter(j) \/ FatalSkip(j) \/ CallHook(j) \/ HookReturns(j) \/ Returns(j)
      PROVE  Lull
  <2>1. still
    BY <1>3 DEF FatalEnter, FatalSkip, CallHook, HookReturns, Returns, CallReturns, clockVars
  <2>2. \E p \in {"cancel", "hook", "rearm", "hooked", "fatal"} : pc' = [pc EXCEPT ![j] = p]
    BY <1>3 DEF FatalEnter, FatalSkip, CallHook, HookReturns, Returns, CallReturns, AfterCall, Goto
  <2> QED
    BY <2>1, <2>2, <1>a
<1>4. ASSUME NEW c, NEW pcs \in [Jobs -> RunnerState], CancelRun(c, pcs),
             \A j \in Jobs : pcs[j] = pc[j] \/ pcs[j] = "rearm",
             UNCHANGED <<sched, next, due, begun, clockVars>>
      PROVE  Lull
  <2>1. still
    BY <1>4 DEF clockVars
  <2>2. \A j \in Jobs : pc'[j] = pcs[j] \/ pc'[j] = "leave"
    BY <1>4 DEF CancelRun, Woken
  <2> QED
    BY <1>4, <2>1, <2>2 DEF Lull
<1>5. ASSUME NEW j \in Jobs, FatalCancel(j)
      PROVE  Lull
  <2>1. [pc EXCEPT ![j] = "rearm"] \in [Jobs -> RunnerState]
    BY <1>0 DEF RunnerState, Alive
  <2>2. \A i \in Jobs : [pc EXCEPT ![j] = "rearm"][i] \in {pc[i], "rearm"}
    BY <1>0
  <2> QED
    BY <1>4, <1>5, <2>1, <2>2 DEF FatalCancel
<1>6. CASE PropagateCancel
  BY <1>0, <1>4, <1>6 DEF PropagateCancel
<1>7. ASSUME NEW c \in Callers, ShutdownBegin(c) \/ ShutdownStep(c)
      PROVE  Lull
  <2>1. CASE ShutdownCancel(c)
    BY <1>0, <1>4, <2>1 DEF ShutdownCancel
  <2>2. CASE ShutdownBegin(c) \/ ShutdownDrained(c) \/ ShutdownTimeout(c)
    BY <1>b, <2>2 DEF ShutdownBegin, ShutdownDrained, ShutdownTimeout, runVars, clockVars
  <2> QED
    BY <1>7, <2>1, <2>2 DEF ShutdownStep
<1>8. CASE Start
  <2>1. \A i \in Jobs : pc'[i] \in {"entry", pc[i]}
    BY <1>8 DEF Start
  <2> QED
    BY <1>8, <2>1 DEF Start, clockVars, Lull
<1>9. CASE CancelParent \/ Tick \/ \E d \in WallSteps : StepWall(d)
  <2>1. now \in Nat
    BY DEF Types
  <2> QED
    BY <1>9, <2>1 DEF CancelParent, Tick, StepWall, runVars, clockVars, Lull
<1>10. CASE UNCHANGED vars
  BY <1>b, <1>10 DEF vars, runVars, clockVars
<1>11. ASSUME NEW j \in Jobs, Runner(j)
       PROVE  Lull \/ Asks(j) \/ Begins(j)
  BY <1>1, <1>2, <1>3, <1>5, <1>11, AskKind, BeginKind DEF Runner
<1> HIDE DEF still
<1> QED
  BY <1>1, <1>3, <1>6, <1>7, <1>8, <1>9, <1>10, <1>11 DEF Next

(***************************************************************************)
(* The invariants are inductive.                                           *)
(***************************************************************************)

LEMMA InitFires == Init => FiresInv /\ TimerInv
<1> SUFFICES ASSUME Init
             PROVE  FiresInv /\ TimerInv
  OBVIOUS
<1>1. ASSUME NEW j \in Jobs
      PROVE  Fires(j) = 0 /\ sched[j] = ScheduleOf[j] /\ pc[j] = "idle" /\ Len(sched[j].delays) = DelaysOf(j)
  BY DEF Init, Fires, Waiting, DelaysOf
<1>2. \A j \in Jobs : DelaysOf(j) \in Nat
  BY DEF DelaysOf, Schedule
<1> QED
  BY <1>1, <1>2 DEF FiresInv, TimerInv, Waiting

\* What the counts are made of.
LEMMA CountTypes ==
  ASSUME Types, NEW j \in Jobs
  PROVE  /\ Len(begun[j]) \in Nat /\ Fires(j) \in Nat /\ DelaysOf(j) \in Nat
         /\ sched[j].delays \in Seq(Duration) /\ Len(sched[j].delays) \in Nat
         /\ sched[j].delays # << >> => /\ Len(Tail(sched[j].delays)) = Len(sched[j].delays) - 1
                                       /\ Len(sched[j].delays) > 0
         /\ sched[j].delays = << >> => Len(sched[j].delays) = 0
         /\ sched[j].core \in Core
<1>1. begun[j] \in Seq(Int) /\ sched[j] \in Schedule /\ ScheduleOf[j] \in Schedule
  BY DEF Types
<1>2. /\ sched[j].delays \in Seq(Duration) /\ sched[j].core \in Core
      /\ ScheduleOf[j].delays \in Seq(Duration)
  BY <1>1 DEF Schedule
<1>3. \A d \in Seq(Duration) :
        /\ Len(d) \in Nat
        /\ d # << >> => Len(Tail(d)) = Len(d) - 1 /\ Len(d) > 0
        /\ d = << >> => Len(d) = 0
  OBVIOUS
<1>4. Len(begun[j]) \in Nat
  BY <1>1
<1>5. Fires(j) \in Nat
  BY <1>4 DEF Fires
<1> QED
  BY <1>2, <1>3, <1>4, <1>5 DEF DelaysOf

\* How the number of fires changes with the steps.
LEMMA CountSteps ==
  ASSUME Types, NEW j \in Jobs
  PROVE  /\ Lull => Fires(j)' <= Fires(j)
         /\ Begins(j) => Fires(j)' = Fires(j)
         /\ Asks(j) => Fires(j)' = IF pc'[j] = "select" THEN Fires(j) + 1 ELSE Fires(j)
         /\ \A i \in Jobs \ {j} : Asks(i) \/ Begins(i) => Fires(j)' = Fires(j)
<1>0. Len(begun[j]) \in Nat
  BY CountTypes
<1> USE DEF Fires
<1>1. Lull => Fires(j)' <= Fires(j)
  BY <1>0 DEF Lull, Waiting
<1>2. Begins(j) => Fires(j)' = Fires(j)
  <2>1. begun[j] \in Seq(Int) /\ now + offset \in Int
    BY DEF Types
  <2>2. Len(Append(begun[j], now + offset)) = Len(begun[j]) + 1
    BY <2>1
  <2> QED
    BY <1>0, <2>2 DEF Begins, Waiting
<1>3. ASSUME Asks(j)
      PROVE  Fires(j)' = IF pc'[j] = "select" THEN Fires(j) + 1 ELSE Fires(j)
  <2>1. begun'[j] = begun[j] /\ pc[j] \notin Waiting /\ pc'[j] \in {"select", "leave"}
    BY <1>3 DEF Asks
  <2>2. CASE pc'[j] = "select"
    BY <1>0, <2>1, <2>2 DEF Waiting
  <2>3. CASE pc'[j] = "leave"
    BY <1>0, <2>1, <2>3 DEF Waiting
  <2> QED
    BY <2>1, <2>2, <2>3
<1>4. \A i \in Jobs \ {j} : Asks(i) \/ Begins(i) => Fires(j)' = Fires(j)
  BY DEF Asks, Begins
<1> QED
  BY <1>1, <1>2, <1>3, <1>4

LEMMA NextFires == Types /\ FiresInv /\ [Next]_vars => FiresInv'
<1> SUFFICES ASSUME Types, FiresInv, [Next]_vars, NEW j \in Jobs
             PROVE  /\ sched'[j].core.kind = ScheduleOf[j].core.kind
                    /\ sched'[j].delays # << >> => Fires(j)' + Len(sched'[j].delays) <= DelaysOf(j)
                    /\ IsOneShot(sched'[j]) =>
                         /\ Fires(j)' + Len(sched'[j].delays) <= DelaysOf(j) + 1
                         /\ ~sched'[j].core.scheduled =>
                              Fires(j)' + Len(sched'[j].delays) <= DelaysOf(j)
  BY DEF FiresInv, DelaysOf
<1>1. /\ sched[j].core.kind = ScheduleOf[j].core.kind
      /\ sched[j].delays # << >> => Fires(j) + Len(sched[j].delays) <= DelaysOf(j)
      /\ IsOneShot(sched[j]) =>
           /\ Fires(j) + Len(sched[j].delays) <= DelaysOf(j) + 1
           /\ ~sched[j].core.scheduled => Fires(j) + Len(sched[j].delays) <= DelaysOf(j)
  BY DEF FiresInv
<1>2. Types'
  BY NextTypes
<1>3. Fires(j)' \in Nat
  BY <1>2, CountTypes DEF Fires, Types
<1>c. /\ Fires(j) \in Nat /\ DelaysOf(j) \in Nat /\ Len(sched[j].delays) \in Nat
      /\ sched[j].delays # << >> => /\ Len(Tail(sched[j].delays)) = Len(sched[j].delays) - 1
                                    /\ Len(sched[j].delays) > 0
      /\ sched[j].delays = << >> => Len(sched[j].delays) = 0
      /\ sched[j].core \in Core
  BY CountTypes
<1>4. CASE sched'[j] = sched[j] /\ Fires(j)' <= Fires(j)
  BY <1>1, <1>3, <1>4, <1>c
<1>5. CASE Asks(j) /\ sched[j].delays # << >>
  <2>1. Fires(j)' = Fires(j) + 1 \/ Fires(j)' = Fires(j)
    BY <1>5, <1>c, CountSteps
  <2>2. /\ sched'[j].core = sched[j].core
        /\ Len(sched'[j].delays) = Len(sched[j].delays) - 1
    BY <1>5, <1>c DEF Asks
  <2> QED
    BY <1>1, <1>3, <1>5, <1>c, <2>1, <2>2 DEF IsOneShot
<1>6. CASE Asks(j) /\ sched[j].delays = << >>
  <2> DEFINE c == sched[j].core
             r == CoreNext(c, Wall)
  <2>1. /\ sched'[j].delays = << >> /\ sched'[j].core = r.core
        /\ r.ok <=> pc'[j] = "select"
        /\ Fires(j)' = IF r.ok THEN Fires(j) + 1 ELSE Fires(j)
    BY <1>6, CountSteps DEF Asks
  <2>2. c \in Core /\ Wall \in Int
    BY <1>c DEF Types, Wall
  <2>3. r.core.kind = c.kind
    BY <2>2, CoreNextType
  <2>4. IsOneShot(sched[j]) => r.core.scheduled /\ (r.ok => ~c.scheduled)
    BY <2>2, OneShotAnswer DEF IsOneShot
  <2>5. IsOneShot(sched'[j]) <=> IsOneShot(sched[j])
    BY <2>1, <2>3 DEF IsOneShot
  <2>6. Len(sched'[j].delays) = 0
    BY <2>1
  <2> HIDE DEF r, c
  <2>7. IsOneShot(sched[j]) => Fires(j)' <= DelaysOf(j) + 1
    BY <1>1, <1>3, <1>6, <1>c, <2>1, <2>4 DEF c
  <2> QED
    BY <1>1, <1>3, <1>c, <2>1, <2>3, <2>4, <2>5, <2>6, <2>7 DEF c
<1>7. Lull \/ Begins(j) \/ (\E i \in Jobs \ {j} : Asks(i) \/ Begins(i))
        => sched'[j] = sched[j] /\ Fires(j)' <= Fires(j)
  <2>1. Lull \/ Begins(j) \/ (\E i \in Jobs \ {j} : Asks(i) \/ Begins(i)) => sched'[j] = sched[j]
    BY DEF Lull, Begins, Asks
  <2>2. Lull \/ Begins(j) \/ (\E i \in Jobs \ {j} : Asks(i) \/ Begins(i)) => Fires(j)' <= Fires(j)
    BY <1>c, CountSteps
  <2> QED
    BY <2>1, <2>2
<1> QED
  BY <1>4, <1>5, <1>6, <1>7, StepIsSlotted

LEMMA NextTimer == Types /\ TimerInv /\ [Next]_vars => TimerInv'
<1> SUFFICES ASSUME Types, TimerInv, [Next]_vars, NEW j \in Jobs
             PROVE  /\ pc'[j] \in Waiting /\ offset' = 0 => next'[j] <= due'[j]
                    /\ pc'[j] = "call" => begun'[j] # << >>
                    /\ pc'[j] = "call" /\ offset' = 0 => next'[j] <= begun'[j][Len(begun'[j])]
  BY DEF TimerInv
<1>1. /\ pc[j] \in Waiting /\ offset = 0 => next[j] <= due[j]
      /\ pc[j] = "call" => begun[j] # << >>
      /\ pc[j] = "call" /\ offset = 0 => next[j] <= begun[j][Len(begun[j])]
  BY DEF TimerInv
<1>2. CASE Lull
  BY <1>1, <1>2 DEF Lull, Waiting
<1>3. CASE Asks(j)
  BY <1>3 DEF Asks, Waiting
<1>4. CASE Begins(j)
  <2>1. begun[j] \in Seq(Int) /\ now \in Int /\ offset \in Int /\ next[j] \in Int /\ due[j] \in Int
    BY DEF Types
  <2>2. LET b == Append(begun[j], now + offset) IN b # << >> /\ b[Len(b)] = now + offset
    BY <2>1
  <2> QED
    BY <1>1, <1>4, <2>1, <2>2 DEF Begins, Waiting
<1>5. CASE \E i \in Jobs \ {j} : Asks(i) \/ Begins(i)
  BY <1>1, <1>5 DEF Asks, Begins
<1> QED
  BY <1>2, <1>3, <1>4, <1>5, StepIsSlotted

\* What a step leaves of a job that neither asks nor begins a run in it.
Untouched(j) ==
  /\ sched'[j] = sched[j] /\ next'[j] = next[j] /\ begun'[j] = begun[j]
  /\ pc'[j] \in Waiting => pc[j] \in Waiting

\* A step of the scheduler as one job sees it.
LEMMA StepOfJob ==
  ASSUME Types, [Next]_vars, NEW j \in Jobs
  PROVE  /\ now' = now \/ (now' = now + 1 /\ now' <= MaxTime)
         /\ offset' = 0 => offset = 0
         /\ \/ Asks(j)
            \/ Begins(j)
            \/ Untouched(j) /\ Fires(j)' <= Fires(j)
<1>1. CASE Lull
  BY <1>1, CountSteps DEF Lull, Untouched
<1>2. ASSUME NEW i \in Jobs, i # j, Asks(i) \/ Begins(i)
      PROVE  Untouched(j) /\ Fires(j)' = Fires(j)
  BY <1>2, CountSteps DEF Asks, Begins, Untouched
<1>3. Fires(j) \in Nat
  BY CountTypes
<1>4. ASSUME NEW i \in Jobs, Asks(i) \/ Begins(i)
      PROVE  now' = now /\ offset' = offset
  BY <1>4 DEF Asks, Begins
<1> QED
  BY <1>1, <1>2, <1>3, <1>4, StepIsSlotted

LEMMA InitCore == SlotsInReach /\ Init => CoreInv
<1> SUFFICES ASSUME SlotsInReach, Init, NEW j \in Jobs
             PROVE  LET c == sched[j].core
                        d == ScheduleOf[j].core
                    IN  /\ c = d
                        /\ c.kind = "periodic" => ~c.anchored /\ Fires(j) <= DelaysOf(j)
  BY DEF CoreInv
<1>1. sched[j] = ScheduleOf[j] /\ Fires(j) = 0 /\ DelaysOf(j) \in Nat
  BY DEF Init, Fires, Waiting, DelaysOf, Schedule
<1> QED
  BY <1>1 DEF SlotsInReach

LEMMA NextCore == Types /\ FiresInv /\ CoreInv /\ [Next]_vars => CoreInv'
<1> SUFFICES ASSUME Types, FiresInv, CoreInv, [Next]_vars, NEW j \in Jobs, IsRecurring(sched'[j])
             PROVE  LET c == sched'[j].core
                        d == ScheduleOf[j].core
                    IN  /\ c.interval = d.interval
                        /\ c.kind = "periodicAt" => c.first = d.first
                        /\ c.kind = "periodic" /\ ~c.anchored => Fires(j)' <= DelaysOf(j)
                        /\ c.kind = "periodic" /\ c.anchored /\ offset' = 0 =>
                             0 <= Origin(c) /\ Origin(c) <= now'
  BY DEF CoreInv, DelaysOf, AnchorOf, Origin
<1> DEFINE c == sched[j].core
           d == ScheduleOf[j].core
<1>1. sched'[j].core.kind = d.kind /\ c.kind = d.kind
  BY NextFires DEF FiresInv
<1>2. c.kind \in {"periodic", "periodicAt"} /\ IsRecurring(sched[j])
  BY <1>1 DEF IsRecurring
<1>3. /\ c.interval = d.interval
      /\ c.kind = "periodicAt" => c.first = d.first
      /\ c.kind = "periodic" /\ ~c.anchored => Fires(j) <= DelaysOf(j)
      /\ c.kind = "periodic" /\ c.anchored /\ offset = 0 => 0 <= Origin(c) /\ Origin(c) <= now
  BY <1>2 DEF CoreInv, AnchorOf, Origin
<1>4. /\ Fires(j) \in Nat /\ DelaysOf(j) \in Nat /\ now \in Nat /\ offset \in Int
      /\ c \in Core
      /\ sched[j].delays # << >> => Len(sched[j].delays) \in Nat /\ Len(sched[j].delays) > 0
  BY CountTypes DEF Types
<1>5. Fires(j)' \in Nat
  <2>1. Types'
    BY NextTypes
  <2> QED
    BY <2>1, CountTypes DEF Fires, Types
<1>6. Origin(c) \in Int
  BY <1>2, <1>4, RecurringCore
<1>7. CASE sched'[j].core = c /\ Fires(j)' <= Fires(j)
  <2>1. (now' = now \/ now' = now + 1) /\ (offset' = 0 => offset = 0)
    BY StepOfJob
  <2> HIDE DEF c
  <2> QED
    BY <1>3, <1>4, <1>5, <1>6, <1>7, <2>1
<1>8. CASE Asks(j) /\ sched[j].delays # << >>
  <2>1. sched'[j].core = c /\ now' = now /\ offset' = offset
    BY <1>8 DEF Asks
  <2>2. Fires(j) + Len(sched[j].delays) <= DelaysOf(j)
    BY <1>8 DEF FiresInv
  <2>3. Fires(j)' <= Fires(j) + 1
    BY <1>4, <1>8, CountSteps
  <2>4. Fires(j)' <= DelaysOf(j)
    BY <1>4, <1>5, <1>8, <2>2, <2>3
  <2> HIDE DEF c
  <2> QED
    BY <1>3, <2>1, <2>4
<1>9. CASE Asks(j) /\ sched[j].delays = << >>
  <2> DEFINE r == CoreNext(c, Wall)
  <2>1. sched'[j].core = r.core /\ now' = now /\ offset' = offset
    BY <1>9 DEF Asks
  <2>2. Wall \in Int /\ (offset = 0 => Wall = now)
    BY <1>4 DEF Wall
  <2>3. /\ r.core.kind = c.kind /\ r.core.interval = c.interval
        /\ c.kind = "periodic" => /\ r.core.anchored
                                  /\ r.core.anchor = IF c.anchored THEN c.anchor ELSE Wall
        /\ c.kind = "periodicAt" => r.core = c
    BY <1>2, <1>4, <2>2, RecurringCore
  <2> HIDE DEF r, c
  <2>4. ASSUME c.kind = "periodic", offset = 0
        PROVE  0 <= Origin(r.core) /\ Origin(r.core) <= now
    BY <1>3, <1>4, <2>2, <2>3, <2>4 DEF Origin
  <2> QED
    BY <1>3, <2>1, <2>3, <2>4
<1>10. CASE Begins(j)
  BY <1>4, <1>7, <1>10, CountSteps DEF Begins
<1> QED
  BY <1>7, <1>8, <1>9, <1>10, StepOfJob DEF Untouched

\* The slots of a job are those of its core.
LEMMA SlotOfCore ==
  ASSUME Types, NEW j \in Jobs, IsRecurring(sched[j])
  PROVE  LET c == sched[j].core
         IN  /\ c \in Core /\ c.kind \in {"periodic", "periodicAt"}
             /\ c.interval \in Nat \ {0} /\ Origin(c) \in Int
             /\ \A t : SlotOf(j, t) = Slot(c, t)
             /\ \A t \in Int : Slot(c, t) \in Int
             /\ \A t, u \in Int : t <= u => Slot(c, t) <= Slot(c, u)
<1> DEFINE c == sched[j].core
<1>1. c \in Core /\ c.kind \in {"periodic", "periodicAt"}
  BY CountTypes DEF IsRecurring
<1>2. c.interval \in Nat \ {0} /\ Origin(c) \in Int
  BY <1>1, RecurringCore
<1>3. \A t : SlotOf(j, t) = Slot(c, t)
  BY DEF SlotOf, AnchorOf, Slot, Origin
<1> HIDE DEF c
<1>4. \A t \in Int : Slot(c, t) \in Int
  BY <1>2 DEF Slot
<1>5. \A t, u \in Int : t <= u => Slot(c, t) <= Slot(c, u)
  BY <1>2, LaterSlot DEF Slot
<1> QED
  BY <1>1, <1>2, <1>3, <1>4, <1>5 DEF c

\* Before the wall clock is stepped a recurring core is asked in reach.
LEMMA AskedInReach ==
  ASSUME SlotsInReach, Types, FiresInv, CoreInv, now <= MaxTime,
         NEW j \in Jobs, IsRecurring(sched[j]), offset = 0
  PROVE  Wall = now /\ InReach(sched[j].core, now)
<1> DEFINE c == sched[j].core
           d == ScheduleOf[j].core
<1>1. /\ c.kind = d.kind /\ c.interval = d.interval
      /\ c.kind = "periodicAt" => c.first = d.first
      /\ c.kind = "periodic" /\ c.anchored => 0 <= c.anchor /\ c.anchor <= now
  BY DEF FiresInv, CoreInv, AnchorOf
<1>2. now \in Nat /\ c.interval \in Int /\ Origin(c) \in Int
  BY SlotOfCore DEF Types
<1>3. /\ c.kind = "periodic" => MaxTime + d.interval <= MaxDuration
      /\ c.kind = "periodicAt" => MaxTime - d.first + d.interval <= MaxDuration
  BY <1>1 DEF SlotsInReach
<1> HIDE DEF c, d
<1>4. InReach(c, now)
  BY <1>1, <1>2, <1>3 DEF InReach, Origin
<1> QED
  BY <1>2, <1>4 DEF c, Wall

\* The fire a recurring core answers with lies in a later slot than the runs of
\* the past, which are those of the core it was asked of.
LEMMA AskedLater ==
  ASSUME SlotsInReach, Types, FiresInv, CoreInv, now <= MaxTime,
         NEW j \in Jobs, IsRecurring(sched[j]), offset = 0,
         Asks(j), CoreRuns(j) # {}
  PROVE  LET c == sched[j].core
         IN  /\ \A t : Slot(sched'[j].core, t) = Slot(c, t)
             /\ pc'[j] = "select"
             /\ \A t \in Int : t <= now => Slot(c, t) < Slot(c, next'[j])
<1> DEFINE c == sched[j].core
           r == CoreNext(c, now)
<1>1. /\ c \in Core /\ c.kind \in {"periodic", "periodicAt"}
      /\ c.interval \in Nat \ {0} /\ Origin(c) \in Int
  BY SlotOfCore
<1>2. Wall = now /\ InReach(c, now) /\ now \in Int
  BY AskedInReach DEF Types
<1>3. DelaysOf(j) < Len(begun[j]) /\ Len(begun[j]) <= Fires(j)
  BY CountTypes DEF CoreRuns, Fires
<1>4. sched[j].delays = << >>
  BY <1>3, CountTypes DEF FiresInv
<1>5. c.kind = "periodic" => c.anchored
  BY <1>3, CountTypes DEF CoreInv
<1>6. sched'[j].core = r.core /\ (r.ok <=> pc'[j] = "select") /\ (r.ok => next'[j] = r.next)
  BY <1>2, <1>4 DEF Asks
<1>7. r.ok /\ r.core.interval = c.interval /\ Origin(r.core) = Origin(c)
  BY <1>1, <1>2, <1>5, RecurringCore DEF Origin
<1>8. r.next > now /\ \E k \in Int : r.next = Origin(c) + k * c.interval
  BY <1>1, <1>2, <1>7, RecurringAnswer
<1> HIDE DEF r, c
<1>9. ASSUME NEW t \in Int, t <= now
      PROVE  Slot(c, t) < Slot(c, next'[j])
  <2>1. PICK k \in Int : next'[j] = Origin(c) + k * c.interval
    BY <1>6, <1>7, <1>8
  <2>2. k * c.interval \in Int
    BY <1>1
  <2>3. t < Origin(c) + k * c.interval
    BY <1>1, <1>2, <1>6, <1>7, <1>8, <1>9, <2>1, <2>2
  <2> QED
    BY <1>1, <2>1, <2>3, EarlierSlot DEF Slot
<1>10. \A t : Slot(sched'[j].core, t) = Slot(c, t)
  BY <1>6, <1>7 DEF Slot
<1> QED
  BY <1>6, <1>7, <1>9, <1>10 DEF c

LEMMA InitSlot == Init => SlotInv
<1> SUFFICES ASSUME Init, NEW j \in Jobs
             PROVE  begun[j] = << >> /\ pc[j] \notin Waiting /\ CoreRuns(j) = {}
  BY DEF SlotInv
<1>1. begun[j] = << >> /\ pc[j] \notin Waiting
  BY DEF Init, Waiting
<1>2. DelaysOf(j) \in Nat
  BY DEF DelaysOf, Schedule
<1> QED
  BY <1>1, <1>2 DEF CoreRuns

LEMMA NextSlot ==
  ASSUME SlotsInReach, Types, FiresInv, TimerInv, CoreInv, SlotInv, now <= MaxTime, [Next]_vars
  PROVE  SlotInv'
<1> SUFFICES ASSUME NEW j \in Jobs, IsRecurring(sched'[j]), offset' = 0
             PROVE  LET c == sched'[j].core
                        runs == DelaysOf(j) + 1 .. Len(begun'[j])
                    IN  /\ \A k \in DOMAIN begun'[j] : begun'[j][k] <= now'
                        /\ pc'[j] \in Waiting =>
                             \A k \in runs : Slot(c, begun'[j][k]) < Slot(c, next'[j])
                        /\ \A k, m \in runs : k < m => Slot(c, begun'[j][k]) < Slot(c, begun'[j][m])
  BY DEF SlotInv, SlotOf, AnchorOf, Slot, Origin, CoreRuns, DelaysOf
<1> DEFINE c == sched[j].core
           runs == DelaysOf(j) + 1 .. Len(begun[j])
<1>1. offset = 0 /\ (now' = now \/ now' = now + 1)
  BY StepOfJob
<1>2. IsRecurring(sched[j])
  BY NextFires DEF FiresInv, IsRecurring
<1>3. /\ \A t \in Int : Slot(c, t) \in Int
      /\ \A t, u \in Int : t <= u => Slot(c, t) <= Slot(c, u)
  BY <1>2, SlotOfCore
<1>4. /\ \A k \in DOMAIN begun[j] : begun[j][k] <= now
      /\ pc[j] \in Waiting => \A k \in runs : Slot(c, begun[j][k]) < Slot(c, next[j])
      /\ \A k, m \in runs : k < m => Slot(c, begun[j][k]) < Slot(c, begun[j][m])
  BY <1>1, <1>2, SlotOfCore DEF SlotInv, CoreRuns
<1>5. /\ begun[j] \in Seq(Int) /\ now \in Nat /\ next[j] \in Int /\ due[j] \in Int
      /\ DelaysOf(j) \in Nat /\ Len(begun[j]) \in Nat
      /\ DOMAIN begun[j] = 1 .. Len(begun[j])
      /\ \A k \in DOMAIN begun[j] : begun[j][k] \in Int
  BY CountTypes DEF Types
<1>6. runs \subseteq DOMAIN begun[j]
  BY <1>5
<1> HIDE DEF c, runs
<1>7. CASE Untouched(j)
  <2>1. /\ sched'[j].core = c /\ begun'[j] = begun[j] /\ next'[j] = next[j]
        /\ pc'[j] \in Waiting => pc[j] \in Waiting
    BY <1>7 DEF Untouched, c
  <2>2. \A k \in DOMAIN begun[j] : begun[j][k] <= now'
    BY <1>1, <1>4, <1>5
  <2> QED
    BY <1>4, <2>1, <2>2 DEF runs
<1>8. CASE Asks(j)
  <2>1. begun'[j] = begun[j] /\ now' = now
    BY <1>8 DEF Asks
  <2>2. CASE runs = {}
    BY <1>4, <2>1, <2>2 DEF runs
  <2>3. CASE runs # {}
    <3>1. /\ \A t : Slot(sched'[j].core, t) = Slot(c, t)
          /\ \A t \in Int : t <= now => Slot(c, t) < Slot(c, next'[j])
      BY <1>1, <1>2, <1>8, <2>3, AskedLater DEF CoreRuns, runs, c
    <3>2. \A k \in runs : Slot(c, begun[j][k]) < Slot(c, next'[j])
      BY <1>4, <1>5, <1>6, <3>1
    <3> QED
      BY <1>4, <2>1, <3>1, <3>2 DEF runs
  <2> QED
    BY <2>2, <2>3
<1>9. CASE Begins(j)
  <2> DEFINE L == Len(begun[j])
  <2>1. /\ sched'[j].core = c /\ now' = now /\ pc'[j] \notin Waiting
        /\ begun'[j] = Append(begun[j], now) /\ next[j] <= now /\ pc[j] \in Waiting
    BY <1>1, <1>5, <1>9 DEF Begins, TimerInv, c, Waiting
  <2>2. /\ Len(begun'[j]) = L + 1 /\ DOMAIN begun'[j] = 1 .. L + 1
        /\ begun'[j][L + 1] = now
        /\ \A k \in DOMAIN begun[j] : begun'[j][k] = begun[j][k]
    BY <1>5, <2>1
  <2>3. \A k \in DOMAIN begun'[j] : k \in DOMAIN begun[j] \/ k = L + 1
    BY <1>5, <2>2
  <2>4. \A k \in DOMAIN begun'[j] : begun'[j][k] <= now'
    BY <1>4, <1>5, <2>1, <2>2, <2>3
  <2>5. ASSUME NEW k \in runs
        PROVE  Slot(c, begun[j][k]) < Slot(c, now)
    <3>1. Slot(c, begun[j][k]) < Slot(c, next[j])
      BY <1>4, <2>1
    <3>2. now \in Int /\ next[j] \in Int /\ begun[j][k] \in Int /\ next[j] <= now
      BY <1>5, <1>6, <2>1
    <3>3. Slot(c, next[j]) <= Slot(c, now)
      BY <1>3, <3>2
    <3>4. Slot(c, begun[j][k]) \in Int /\ Slot(c, next[j]) \in Int /\ Slot(c, now) \in Int
      BY <1>3, <3>2
    <3> QED
      BY <3>1, <3>3, <3>4
  <2>6. ASSUME NEW k \in DelaysOf(j) + 1 .. L + 1, NEW m \in DelaysOf(j) + 1 .. L + 1, k < m
        PROVE  Slot(c, begun'[j][k]) < Slot(c, begun'[j][m])
    <3>1. k \in runs /\ k \in DOMAIN begun[j]
      BY <1>5, <1>6, <2>6 DEF runs
    <3>2. CASE m \in runs
      BY <1>4, <1>6, <2>2, <2>6, <3>1, <3>2
    <3>3. CASE m = L + 1
      BY <2>2, <2>5, <3>1, <3>3
    <3>4. m \in runs \/ m = L + 1
      <4>1. DelaysOf(j) \in Nat /\ L \in Nat
        BY <1>5
      <4>2. runs = DelaysOf(j) + 1 .. L
        BY DEF runs
      <4> HIDE DEF L
      <4> QED
        BY <4>1, <4>2
    <3> QED
      BY <3>2, <3>3, <3>4
  <2> QED
    BY <2>1, <2>2, <2>4, <2>6
<1> QED
  BY <1>7, <1>8, <1>9, StepOfJob

(***************************************************************************)
(* The theorems.                                                           *)
(***************************************************************************)

LEMMA FiresAndTimers == Spec => [](Types /\ FiresInv /\ TimerInv)
<1>1. Init => Types /\ FiresInv /\ TimerInv
  BY InitTypes, InitFires
<1>2. Types /\ FiresInv /\ TimerInv /\ [Next]_vars => (Types /\ FiresInv /\ TimerInv)'
  BY NextTypes, NextFires, NextTimer
<1> QED
  BY <1>1, <1>2, PTL DEF Spec

\* No run begins before the fire its timer was armed for, whatever the schedule,
\* as long as the wall clock has not been stepped (run).
THEOREM NoRunIsEarly == Spec => []NeverEarly
<1>1. Types /\ FiresInv /\ TimerInv => NeverEarly
  <2> SUFFICES ASSUME Types, TimerInv, NEW j \in Jobs, pc[j] = "call", offset = 0
               PROVE  begun[j][Len(begun[j])] >= next[j]
    BY DEF NeverEarly
  <2>1. begun[j] # << >> /\ next[j] <= begun[j][Len(begun[j])]
    BY DEF TimerInv
  <2>2. begun[j] \in Seq(Int) /\ next[j] \in Int
    BY DEF Types
  <2>3. begun[j][Len(begun[j])] \in Int
    BY <2>1, <2>2
  <2> QED
    BY <2>1, <2>2, <2>3
<1> QED
  BY <1>1, FiresAndTimers, PTL

\* A one-shot runs at most once after the delays put in front of it, whatever is
\* cancelled, stepped or shut down in between (onceSchedule.Next,
\* onceAtSchedule.Next, delayedSchedule.Next).
THEOREM OneShotsRunOnce == Spec => []OneShotRunsOnce
<1>1. Types /\ FiresInv /\ TimerInv => OneShotRunsOnce
  <2> SUFFICES ASSUME Types, FiresInv, NEW j \in Jobs, IsOneShot(ScheduleOf[j])
               PROVE  Len(begun[j]) <= DelaysOf(j) + 1
    BY DEF OneShotRunsOnce, DelaysOf
  <2>1. IsOneShot(sched[j])
    BY DEF FiresInv, IsOneShot
  <2>2. Fires(j) + Len(sched[j].delays) <= DelaysOf(j) + 1
    BY <2>1 DEF FiresInv
  <2>3. /\ Len(begun[j]) \in Nat /\ Fires(j) \in Nat /\ DelaysOf(j) \in Nat
        /\ Len(sched[j].delays) \in Nat
    BY CountTypes
  <2>4. Len(begun[j]) <= Fires(j)
    BY <2>3 DEF Fires
  <2> QED
    BY <2>2, <2>3, <2>4
<1> QED
  BY <1>1, FiresAndTimers, PTL

\* A recurring job never runs twice in one slot, however long its runs take and
\* however many slots they miss, as long as its slots are in reach of a
\* time.Duration (everySchedule.Next, everyAtSchedule.Next, run).
THEOREM NoSlotRunsTwice == SlotsInReach => (Spec => []OneRunPerSlot)
<1> SUFFICES ASSUME SlotsInReach
             PROVE  Spec => []OneRunPerSlot
  OBVIOUS
<1> DEFINE IInv == Types /\ FiresInv /\ TimerInv /\ CoreInv /\ SlotInv /\ now <= MaxTime
<1>1. Init => IInv
  <2>1. Init => now <= MaxTime
    BY DEF Init
  <2> QED
    BY <2>1, InitTypes, InitFires, InitCore, InitSlot
<1>2. IInv /\ [Next]_vars => IInv'
  <2>1. IInv /\ [Next]_vars => (now <= MaxTime)'
    BY StepIsSlotted DEF Lull, Asks, Begins, Types
  <2> QED
    BY <2>1, NextTypes, NextFires, NextTimer, NextCore, NextSlot
<1>3. IInv => OneRunPerSlot
  BY DEF SlotInv, CoreRuns, DelaysOf, OneRunPerSlot
<1> QED
  BY <1>1, <1>2, <1>3, PTL DEF Spec
=============================================================================
