---------------------------- MODULE ScheduleDriver ----------------------------
(***************************************************************************)
(* A caller that drives one schedule the way a runner does: it reads the   *)
(* wall clock, asks for the next fire, and asks again later.  The clock    *)
(* may stand still between two questions, jump over several slots and,     *)
(* because Clock.Now().In(loc) drops Go's monotonic reading, step back.    *)
(* The properties compare every answer with a reference definition that    *)
(* does no division.                                                       *)
(***************************************************************************)
EXTENDS Schedules, FiniteSets

CONSTANTS
  Universe,     \* the schedules the caller may construct
  Instants,     \* the instants the clock may show
  MaxCalls      \* bound on the number of calls of Next

\* A schedule as its constructor leaves it: it has not been asked yet.
AsConstructed(s) ==
  /\ s.core.kind = "periodic" => ~s.core.anchored
  /\ IsOneShot(s) => ~s.core.scheduled

ASSUME DriverAssumption ==
  /\ Universe \subseteq {s \in Schedule : AsConstructed(s)}
  /\ Instants \subseteq Int
  /\ MaxCalls \in Nat

VARIABLES
  built,        \* the schedule as constructed
  sched,        \* its state now
  calls         \* the history of the calls: [after, next, ok]

vars == <<built, sched, calls>>

Init ==
  /\ built \in Universe
  /\ sched = built
  /\ calls = << >>

\* One call of Next at an instant the clock may show.
Ask(after) ==
  LET r == NextFire(sched, after)
  IN  /\ Len(calls) < MaxCalls
      /\ sched' = r.sched
      /\ calls' = Append(calls, [after |-> after, next |-> r.next, ok |-> r.ok])
      /\ UNCHANGED built

Next == \E after \in Instants : Ask(after)

Spec == Init /\ [][Next]_vars

(***************************************************************************)
(* Reference definitions.                                                  *)
(***************************************************************************)

Waits == Len(built.delays)

\* The calls that reached the core of the schedule.
CoreCalls == {k \in DOMAIN calls : k > Waits}

\* The instant a recurring core is aligned to: a Periodic records the first
\* instant it is asked about, a PeriodicAt is given it.
Anchor ==
  IF built.core.kind = "periodic" THEN calls[Waits + 1].after
                                  ELSE built.core.first

\* The aligned slots near the instants of this instance, by counting.
Slots ==
  LET First == IF built.core.kind = "periodic" THEN 1 ELSE 0
  IN  {Anchor + k * built.core.interval : k \in First .. MaxDuration}

(***************************************************************************)
(* Properties.                                                             *)
(***************************************************************************)

\* A recurring schedule fires at the first aligned slot after the instant it
\* is asked about, however many slots were missed (everySchedule.Next and
\* everyAtSchedule.Next), as long as the clock is not behind the anchor.
FirstMissedSlotSkipped ==
  IsRecurring(built) =>
    \A k \in CoreCalls :
      LET c == calls[k]
          Later == {s \in Slots : s > c.after}
      IN  (c.after >= Anchor \/ built.core.kind = "periodicAt") =>
            c.ok /\ c.next \in Later /\ \A s \in Later : c.next <= s

\* The contract of Schedule.Next for a recurring schedule: the answer is
\* strictly after the question, so a runner cannot fire back-to-back, even
\* when the clock has stepped back behind the anchor of a Periodic.
StrictlyAfter ==
  IsRecurring(built) =>
    \A k \in CoreCalls : calls[k].ok /\ calls[k].next > calls[k].after

\* When the clock has stepped back behind the anchor of a Periodic, Go's
\* truncating division no longer finds the nearest slot, but the answer is
\* still aligned and at most two intervals away: the job is not lost.
SteppedBackStaysNear ==
  built.core.kind = "periodic" =>
    \A k \in CoreCalls :
      LET c == calls[k]
      IN  /\ (c.next - Anchor) % built.core.interval = 0
          /\ c.next - c.after <= 2 * built.core.interval

\* The delays come first, each once, in the order in which Delayed was applied
\* from the outside, and each is counted from the question it answers.
DelaysComeFirst ==
  \A k \in DOMAIN calls :
    k <= Waits => calls[k].ok /\ calls[k].next = calls[k].after + built.delays[k]

\* What a one-shot answers to the first question that reaches it: Once the
\* question plus its delay, also when that delay is zero or negative and the
\* instant therefore not after the question, OnceAt its instant unless it has
\* passed.
Planned(after) ==
  IF built.core.kind = "once" THEN {after + built.core.delay}
                              ELSE {t \in {built.core.at} : t > after}

\* Nested delays and one-shots keep to their plan, whatever the sign of a delay
\* and however the clock moves: first each delay, then the planned instant of the
\* one-shot, and after that nothing, for good (delayedSchedule.Next,
\* onceSchedule.Next, onceAtSchedule.Next).
FiresAsPlanned ==
  /\ DelaysComeFirst
  /\ IsOneShot(built) =>
       \A k \in CoreCalls :
         LET c == calls[k]
         IN  IF k = Waits + 1 /\ Planned(c.after) # {}
               THEN c.ok /\ c.next \in Planned(c.after)
               ELSE ~c.ok

=============================================================================
