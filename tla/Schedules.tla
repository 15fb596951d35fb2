------------------------------ MODULE Schedules ------------------------------
(***************************************************************************)
(* The built-in schedules of api/scheduler/schedule.go: a schedule is the  *)
(* state a Schedule value carries, and NextFire is its method Next, which  *)
(* returns the new state together with the two results of the code.        *)
(*                                                                         *)
(* Instants and durations are integers.  A time.Duration is a signed       *)
(* integer in MinDuration .. MaxDuration (2^63 - 1 nanoseconds in the      *)
(* program): Time.Sub saturates at these limits and a product of durations *)
(* wraps around, and both matter to PeriodicAt.                            *)
(*                                                                         *)
(* A Delayed schedule may wrap any schedule, another Delayed one included. *)
(* It is the sequence "delays" of the waits not yet handed out in front of *)
(* the innermost schedule "core": the started flag of a delayedSchedule is *)
(* the removal of its delay from the sequence.                             *)
(***************************************************************************)
EXTENDS Integers, Sequences

CONSTANT MaxDuration    \* the largest time.Duration

ASSUME DurationAssumption == MaxDuration \in Nat \ {0}

MinDuration == -MaxDuration - 1
Duration == MinDuration .. MaxDuration
Interval == 1 .. MaxDuration            \* "interval must be > 0"

(***************************************************************************)
(* Durations.                                                              *)
(***************************************************************************)

\* The int64 that a mathematical integer becomes.
Wrapped(d) ==
  LET Modulus == 2 * (MaxDuration + 1)
  IN  ((d + MaxDuration + 1) % Modulus) - (MaxDuration + 1)

\* t.Sub(u)
Sub(t, u) ==
  CASE t - u > MaxDuration -> MaxDuration
    [] t - u < MinDuration -> MinDuration
    [] OTHER               -> t - u

\* Go's integer division: it truncates toward zero, \div rounds down.
Quotient(d, i) == IF d >= 0 THEN d \div i ELSE -((-d) \div i)

(***************************************************************************)
(* The schedules and their constructors.                                   *)
(***************************************************************************)

PeriodicCore ==
  [kind : {"periodic"}, interval : Interval, anchor : Int, anchored : BOOLEAN]
PeriodicAtCore == [kind : {"periodicAt"}, first : Int, interval : Interval]
OnceCore == [kind : {"once"}, delay : Duration, scheduled : BOOLEAN]
OnceAtCore == [kind : {"onceAt"}, at : Int, scheduled : BOOLEAN]

Core == PeriodicCore \cup PeriodicAtCore \cup OnceCore \cup OnceAtCore
Schedule == [delays : Seq(Duration), core : Core]

Plain(c) == [delays |-> << >>, core |-> c]

Periodic(interval) ==
  Plain([kind |-> "periodic", interval |-> interval,
         anchor |-> 0, anchored |-> FALSE])
PeriodicAt(first, interval) ==
  Plain([kind |-> "periodicAt", first |-> first, interval |-> interval])
Once(delay) == Plain([kind |-> "once", delay |-> delay, scheduled |-> FALSE])
OnceAt(at) == Plain([kind |-> "onceAt", at |-> at, scheduled |-> FALSE])
Delayed(delay, inner) == [inner EXCEPT !.delays = <<delay>> \o @]

IsRecurring(s) == s.core.kind \in {"periodic", "periodicAt"}
IsOneShot(s) == s.core.kind \in {"once", "onceAt"}

(***************************************************************************)
(* Next.                                                                   *)
(***************************************************************************)

\* Mutants: no slot is skipped past after; the division rounds away from zero.
SlotAtOrBefore(anchor, interval, after) ==
  anchor + Wrapped(Quotient(Sub(after, anchor), interval) * interval)
SlotRoundedAway(anchor, interval, after) ==
  anchor + Wrapped((Quotient(Sub(after, anchor) + interval - 1, interval) + 1) * interval)

\* anchor + (n+1) intervals, n the whole intervals from anchor to after.
SlotAfter(anchor, interval, after) ==
  anchor + Wrapped((Quotient(Sub(after, anchor), interval) + 1) * interval)

\* Mutant: a Periodic that re-anchors at every call (fixed delay instead of fixed
\* rate).
AnchoredEachTime(c, after) == [c EXCEPT !.anchor = after, !.anchored = TRUE]

\* everySchedule.Next: the first call records the anchor.
Anchored(c, after) ==
  IF c.anchored THEN c ELSE [c EXCEPT !.anchor = after, !.anchored = TRUE]

\* Mutant: a one-shot forgets that it has been asked.
NotScheduled(c) == c

\* A one-shot remembers that it has been asked.
Scheduled(c) == [c EXCEPT !.scheduled = TRUE]

Fire(c, next) == [core |-> c, next |-> next, ok |-> TRUE]
Exhausted(c) == [core |-> c, next |-> 0, ok |-> FALSE]

PeriodicNext(c, after) ==
  LET a == Anchored(c, after)
  IN  Fire(a, SlotAfter(a.anchor, a.interval, after))

PeriodicAtNext(c, after) ==
  Fire(c, IF after < c.first
            THEN c.first
            ELSE SlotAfter(c.first, c.interval, after))

\* Mutant: an instant that is not after the question is taken for one in the past.
OnceUnlessPast(c, after) ==
  IF c.scheduled \/ c.delay <= 0
    THEN Exhausted(Scheduled(c))
    ELSE Fire(Scheduled(c), after + c.delay)

OnceNext(c, after) ==
  IF c.scheduled THEN Exhausted(c) ELSE Fire(Scheduled(c), after + c.delay)

OnceAtNext(c, after) ==
  IF ~c.scheduled /\ c.at > after
    THEN Fire(Scheduled(c), c.at)
    ELSE Exhausted(Scheduled(c))

CoreNext(c, after) ==
  CASE c.kind = "periodic"   -> PeriodicNext(c, after)
    [] c.kind = "periodicAt" -> PeriodicAtNext(c, after)
    [] c.kind = "once"       -> OnceNext(c, after)
    [] c.kind = "onceAt"     -> OnceAtNext(c, after)

\* delayedSchedule.Next in front of the core's own Next.
NextFire(s, after) ==
  IF s.delays # << >>
    THEN [sched |-> [s EXCEPT !.delays = Tail(@)],
          next |-> after + Head(s.delays), ok |-> TRUE]
    ELSE LET r == CoreNext(s.core, after)
         IN  [sched |-> [s EXCEPT !.core = r.core], next |-> r.next, ok |-> r.ok]
=============================================================================
