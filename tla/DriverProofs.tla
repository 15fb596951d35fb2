----------------------------- MODULE DriverProofs -----------------------------
(***************************************************************************)
(* The contract of Schedule.Next along every sequence of calls, for every  *)
(* schedule, interval and clock: delays come first and a one-shot fires    *)
(* once and never again, and a recurring schedule answers with the first   *)
(* slot it has not missed, also when the clock has been stepped back.      *)
(***************************************************************************)
EXTENDS ScheduleDriver, ScheduleProofs

USE DurationAssumption, DriverAssumption

(***************************************************************************)
(* The inductive invariants.                                               *)
(***************************************************************************)

Call == [after : Instants, next : Int, ok : BOOLEAN]

\* Types; one delay is given up per call, and nothing else while there are any.
CallsInv ==
  /\ built \in Schedule /\ sched \in Schedule /\ built \in Universe /\ AsConstructed(built)
  /\ calls \in Seq(Call)
  /\ sched.core.kind = built.core.kind
  /\ Len(calls) <= Waits => Len(sched.delays) = Waits - Len(calls) /\ sched.core = built.core
  /\ Len(calls) > Waits => sched.delays = << >>

\* A one-shot that has been asked remembers that.
OneShotInv ==
  IsOneShot(built) /\ Len(calls) > Waits => sched.core.scheduled

\* The answer of a recurring core to the question at an instant.
Answer(after) ==
  IF built.core.kind = "periodicAt" /\ after < Anchor
    THEN Anchor
    ELSE SlotAfter(Anchor, built.core.interval, after)

\* The core of a recurring schedule keeps its interval and its anchor, and every
\* answer is counted from there.
RecurringInv ==
  IsRecurring(built) =>
    /\ sched.core.interval = built.core.interval
    /\ built.core.kind = "periodic" /\ Len(calls) > Waits =>
         sched.core.anchored /\ sched.core.anchor = Anchor
    /\ built.core.kind = "periodicAt" => sched.core = built.core
    /\ \A k \in CoreCalls : calls[k].ok /\ calls[k].next = Answer(calls[k].after)

\* The clock shows instants within the reach of a time.Duration, 292 years, of
\* each other and of the first instant of a PeriodicAt.  What becomes of a schedule out of reach is
\* theorem FarAnchorFiresInThePast.
InstantsInReach ==
  \A s \in Universe :
    LET c == s.core
    IN  /\ c.kind = "periodic" =>
             \A t, u \in Instants : t - u + c.interval <= MaxDuration
        /\ c.kind = "periodicAt" =>
             \A t \in Instants : t - c.first + c.interval <= MaxDuration

(***************************************************************************)
(* One call of Next.                                                       *)
(***************************************************************************)

\* What one call adds to the history, and what it leaves of the schedule.
Called(after) ==
  LET n == Len(calls) + 1
      c == CoreNext(sched.core, after)
  IN  /\ built' = built /\ Len(calls') = n
      /\ DOMAIN calls = 1 .. n - 1 /\ DOMAIN calls' = 1 .. n
      /\ \A k \in DOMAIN calls : calls'[k] = calls[k]
      /\ calls'[n].after = after
      /\ IF n <= Waits
           THEN /\ calls'[n].ok /\ sched'.core = sched.core
                /\ Len(sched'.delays) = Waits - n
           ELSE /\ calls'[n].ok = c.ok /\ calls'[n].next = c.next
                /\ sched'.core = c.core /\ sched'.delays = << >>

LEMMA CallTypes ==
  ASSUME CallsInv
  PROVE  /\ Len(calls) \in Nat /\ Waits \in Nat
         /\ DOMAIN calls = 1 .. Len(calls)
         /\ \A k \in DOMAIN calls : calls[k] \in Call
         /\ built.core \in Core /\ sched.core \in Core
         /\ sched.delays \in Seq(Duration)
<1>1. calls \in Seq(Call) /\ built \in Schedule /\ sched \in Schedule
  BY DEF CallsInv
<1>2. Len(calls) \in Nat /\ DOMAIN calls = 1 .. Len(calls) /\ \A k \in DOMAIN calls : calls[k] \in Call
  BY <1>1
<1>3. /\ built.core \in Core /\ sched.core \in Core
      /\ built.delays \in Seq(Duration) /\ sched.delays \in Seq(Duration)
  BY <1>1 DEF Schedule
<1>4. Len(built.delays) \in Nat
  BY <1>3
<1> QED
  BY <1>2, <1>3, <1>4 DEF Waits

LEMMA AskCalls ==
  ASSUME CallsInv, NEW after \in Instants, Ask(after)
  PROVE  Called(after) /\ CallsInv'
<1> DEFINE r == NextFire(sched, after)
           n == Len(calls) + 1
           a == [after |-> after, next |-> r.next, ok |-> r.ok]
<1>1. after \in Int /\ sched \in Schedule
  BY DEF CallsInv
<1>2. r.sched \in Schedule /\ r.sched.core.kind = sched.core.kind /\ r.next \in Int /\ r.ok \in BOOLEAN
  BY <1>1, NextFireType
<1>3. IF sched.delays # << >>
        THEN r.ok /\ r.sched.delays = Tail(sched.delays) /\ r.sched.core = sched.core
        ELSE LET c == CoreNext(sched.core, after)
             IN  r.sched.delays = << >> /\ r.sched.core = c.core /\ r.ok = c.ok /\ r.next = c.next
  BY <1>1 DEF NextFire, Schedule
<1>4. sched' = r.sched /\ calls' = Append(calls, a) /\ built' = built
  BY DEF Ask
<1>5. a \in Call /\ a.after = after /\ a.next = r.next /\ a.ok = r.ok
  BY <1>2 DEF Call
<1> HIDE DEF r, a
<1>6. /\ Len(calls) \in Nat /\ Waits \in Nat
      /\ sched.delays # << >> => /\ Len(Tail(sched.delays)) = Len(sched.delays) - 1
                                 /\ Len(sched.delays) > 0 /\ Len(sched.delays) \in Nat
      /\ sched.delays = << >> => Len(sched.delays) = 0
  <2>1. ASSUME NEW d \in Seq(Duration)
        PROVE  /\ d # << >> => Len(Tail(d)) = Len(d) - 1 /\ Len(d) > 0 /\ Len(d) \in Nat
               /\ d = << >> => Len(d) = 0
    OBVIOUS
  <2> QED
    BY <2>1, CallTypes
<1>7. /\ calls' \in Seq(Call) /\ Len(calls') = n
      /\ DOMAIN calls = 1 .. n - 1 /\ DOMAIN calls' = 1 .. n
      /\ \A k \in DOMAIN calls : calls'[k] = calls[k]
      /\ calls'[n] = a
  <2>1. calls \in Seq(Call)
    BY DEF CallsInv
  <2> QED
    BY <1>4, <1>5, <2>1
<1>8. n <= Waits <=> sched.delays # << >>
  BY <1>6 DEF CallsInv
<1>9. n <= Waits => Len(sched'.delays) = Waits - n
  <2>1. n <= Waits => Len(sched.delays) = Waits - Len(calls)
    BY <1>6 DEF CallsInv
  <2>2. n <= Waits => Len(sched'.delays) = Len(sched.delays) - 1
    BY <1>3, <1>4, <1>6, <1>8
  <2> QED
    BY <1>6, <2>1, <2>2
<1>10. Called(after)
  <2>1. CASE n <= Waits
    BY <1>3, <1>4, <1>5, <1>7, <1>8, <1>9, <2>1 DEF Called
  <2>2. CASE ~(n <= Waits)
    BY <1>3, <1>4, <1>5, <1>7, <1>8, <2>2 DEF Called
  <2> QED
    BY <2>1, <2>2
<1>11. Waits' = Waits
  BY <1>4 DEF Waits
<1>12. n <= Waits => sched'.core = built.core
  BY <1>3, <1>4, <1>6, <1>8 DEF CallsInv
<1>13. n > Waits => sched'.delays = << >>
  BY <1>3, <1>4, <1>6, <1>8
<1> QED
  BY <1>2, <1>4, <1>6, <1>7, <1>9, <1>10, <1>11, <1>12, <1>13 DEF CallsInv

LEMMA InitCalls == Init => CallsInv
<1> SUFFICES ASSUME Init
             PROVE  CallsInv
  OBVIOUS
<1>1. /\ built \in Schedule /\ built \in Universe /\ AsConstructed(built)
      /\ sched = built /\ calls = << >>
  BY DEF Init
<1>2. Waits \in Nat
  BY <1>1 DEF Waits, Schedule
<1>3. calls \in Seq(Call) /\ Len(calls) = 0
  BY <1>1
<1> QED
  BY <1>1, <1>2, <1>3 DEF CallsInv, Waits

LEMMA NextCalls == CallsInv /\ [Next]_vars => CallsInv'
<1>1. CASE \E after \in Instants : Ask(after)
  BY <1>1, AskCalls
<1>2. CASE UNCHANGED vars
  BY <1>2 DEF CallsInv, vars, Waits
<1> QED
  BY <1>1, <1>2 DEF Next

(***************************************************************************)
(* Delays and one-shots.                                                   *)
(***************************************************************************)

LEMMA InitOneShot == Init => OneShotInv
<1> SUFFICES ASSUME Init
             PROVE  Len(calls) = 0 /\ Waits \in Nat
  BY DEF OneShotInv
<1> QED
  BY InitCalls, CallTypes DEF Init

LEMMA AskOneShot ==
  ASSUME CallsInv, OneShotInv, NEW after \in Instants, Ask(after)
  PROVE  OneShotInv'
<1> DEFINE c == CoreNext(sched.core, after)
<1>1. Called(after)
  BY AskCalls
<1>2. /\ Len(calls) \in Nat /\ Waits \in Nat /\ Waits' = Waits
      /\ IsOneShot(built)' = IsOneShot(built)
      /\ sched.core \in Core /\ after \in Int
      /\ IsOneShot(built) <=> sched.core.kind \in {"once", "onceAt"}
  BY <1>1, CallTypes DEF Called, Waits, IsOneShot, CallsInv
<1>3. IsOneShot(built) => c.core.scheduled
  BY <1>2, OneShotAnswer
<1> HIDE DEF c
<1> QED
  BY <1>1, <1>2, <1>3 DEF Called, OneShotInv, c

\* The answer of a one-shot to one call: what was planned for the first question
\* after its delays, and nothing ever after.
LEMMA AskPlanned ==
  ASSUME CallsInv, OneShotInv, NEW after \in Instants, Ask(after),
         IsOneShot(built), Len(calls) >= Waits
  PROVE  LET c == calls'[Len(calls) + 1]
         IN  IF Len(calls) = Waits /\ Planned(after) # {}
               THEN c.ok /\ c.next \in Planned(after)
               ELSE ~c.ok
<1> DEFINE c == CoreNext(sched.core, after)
<1>1. Called(after) /\ Len(calls) \in Nat /\ Waits \in Nat
  BY AskCalls, CallTypes
<1>2. /\ sched.core \in Core /\ after \in Int
      /\ sched.core.kind \in {"once", "onceAt"} /\ sched.core.kind = built.core.kind
  BY CallTypes DEF IsOneShot, CallsInv
<1>3. calls'[Len(calls) + 1].ok = c.ok /\ calls'[Len(calls) + 1].next = c.next
  BY <1>1 DEF Called
<1>4. CASE Len(calls) > Waits
  <2>1. sched.core.scheduled
    BY <1>4 DEF OneShotInv
  <2>2. ~c.ok
    BY <1>2, <2>1, OneShotAnswer
  <2> QED
    BY <1>1, <1>3, <1>4, <2>2
<1>5. CASE Len(calls) = Waits
  <2>1. sched.core = built.core /\ ~built.core.scheduled
    BY <1>1, <1>5 DEF CallsInv, AsConstructed
  <2>2. CASE built.core.kind = "once"
    <3>1. c = Fire(Scheduled(built.core), after + built.core.delay)
      BY <2>1, <2>2 DEF CoreNext, OnceNext
    <3>2. Planned(after) = {after + built.core.delay}
      BY <2>2 DEF Planned
    <3> QED
      BY <1>3, <1>5, <3>1, <3>2 DEF Fire
  <2>3. CASE built.core.kind = "onceAt"
    <3>1. c = IF built.core.at > after THEN Fire(Scheduled(built.core), built.core.at)
                                       ELSE Exhausted(Scheduled(built.core))
      BY <2>1, <2>3 DEF CoreNext, OnceAtNext
    <3>2. Planned(after) = {t \in {built.core.at} : t > after}
      BY <2>3 DEF Planned
    <3> QED
      BY <1>3, <1>5, <3>1, <3>2 DEF Fire, Exhausted
  <2> QED
    BY <1>2, <2>2, <2>3
<1> QED
  BY <1>1, <1>4, <1>5

\* The delays still to come are the last of those the schedule was built with.
DelayInv ==
  Len(calls) <= Waits =>
    \A k \in 1 .. Len(sched.delays) : sched.delays[k] = built.delays[k + Len(calls)]

LEMMA AskDelays ==
  ASSUME CallsInv, DelayInv, DelaysComeFirst, NEW after \in Instants, Ask(after)
  PROVE  DelayInv' /\ DelaysComeFirst'
<1> DEFINE n == Len(calls) + 1
           d == sched.delays
<1>1. /\ Len(calls) \in Nat /\ Waits \in Nat /\ Waits' = Waits
      /\ built' = built /\ Len(calls') = n
      /\ DOMAIN calls = 1 .. n - 1 /\ DOMAIN calls' = 1 .. n
      /\ \A k \in DOMAIN calls : calls'[k] = calls[k]
      /\ d \in Seq(Duration)
  BY AskCalls, CallTypes DEF Called, Waits
<1>2. ASSUME n <= Waits
      PROVE  /\ Len(d) = Waits - Len(calls) /\ Len(d) > 0
             /\ Len(Tail(d)) = Len(d) - 1
             /\ \A k \in 1 .. Len(Tail(d)) : Tail(d)[k] = d[k + 1]
             /\ Head(d) = d[1]
  <2>1. Len(d) = Waits - Len(calls)
    BY <1>1, <1>2 DEF CallsInv
  <2>2. Len(d) > 0
    BY <1>1, <1>2, <2>1
  <2> HIDE DEF d
  <2> QED
    BY <1>1, <2>1, <2>2
<1>3. ASSUME n <= Waits
      PROVE  /\ sched'.delays = Tail(d)
             /\ calls'[n] = [after |-> after, next |-> after + Head(d), ok |-> TRUE]
  <2>1. d # << >>
    BY <1>2, <1>3
  <2>2. NextFire(sched, after) =
          [sched |-> [sched EXCEPT !.delays = Tail(@)], next |-> after + Head(d), ok |-> TRUE]
    BY <2>1 DEF NextFire
  <2>3. sched \in [delays : Seq(Duration), core : Core] /\ calls \in Seq(Call)
    BY DEF CallsInv, Schedule
  <2>4. /\ sched' = [sched EXCEPT !.delays = Tail(@)]
        /\ calls' = Append(calls, [after |-> after, next |-> after + Head(d), ok |-> TRUE])
    BY <2>2 DEF Ask
  <2> QED
    BY <2>3, <2>4
<1>4. ASSUME n <= Waits
      PROVE  \A k \in 1 .. Len(d) : d[k] = built.delays[k + Len(calls)]
  <2>1. Len(calls) <= Waits
    BY <1>1, <1>4
  <2> QED
    BY <2>1 DEF DelayInv
<1> HIDE DEF d
<1>5. DelayInv'
  <2> SUFFICES ASSUME n <= Waits, NEW k \in 1 .. Len(Tail(d))
               PROVE  Tail(d)[k] = built.delays[k + n]
    BY <1>1, <1>3 DEF DelayInv
  <2>1. k + 1 \in 1 .. Len(d) /\ Tail(d)[k] = d[k + 1] /\ k + n = k + 1 + Len(calls)
    BY <1>1, <1>2
  <2>2. d[k + 1] = built.delays[k + 1 + Len(calls)]
    BY <1>4, <2>1
  <2> QED
    BY <2>1, <2>2
<1>6. DelaysComeFirst'
  <2> SUFFICES ASSUME NEW k \in 1 .. n, k <= Waits
               PROVE  calls'[k].ok /\ calls'[k].next = calls'[k].after + built.delays[k]
    BY <1>1 DEF DelaysComeFirst
  <2>1. CASE k = n
    <3>1. 1 \in 1 .. Len(d) /\ Head(d) = d[1] /\ 1 + Len(calls) = n
      BY <1>1, <1>2, <2>1
    <3>2. d[1] = built.delays[n]
      BY <1>1, <1>4, <2>1, <3>1
    <3> QED
      BY <1>3, <2>1, <3>1, <3>2
  <2>2. CASE k \in DOMAIN calls
    BY <1>1, <2>2 DEF DelaysComeFirst
  <2> QED
    BY <1>1, <2>1, <2>2
<1> QED
  BY <1>5, <1>6

\* Nested delays come first, the outermost before the others, and a one-shot then
\* answers its planned instant once and is exhausted for good, whatever the sign of
\* a delay and however the clock moves (delayedSchedule.Next, onceSchedule.Next,
\* onceAtSchedule.Next).
THEOREM PlansAreKept == Spec => []FiresAsPlanned
<1> DEFINE IInv == CallsInv /\ OneShotInv /\ DelayInv /\ FiresAsPlanned
<1>1. Init => IInv
  <2>1. Init => DelayInv /\ FiresAsPlanned
    BY DEF Init, DelayInv, DelaysComeFirst, FiresAsPlanned, CoreCalls
  <2> QED
    BY <2>1, InitCalls, InitOneShot
<1>2. IInv /\ [Next]_vars => IInv'
  <2>1. ASSUME IInv, NEW after \in Instants, Ask(after)
        PROVE  IInv'
    <3>1. CallsInv' /\ OneShotInv' /\ DelayInv' /\ DelaysComeFirst'
      BY <2>1, AskCalls, AskOneShot, AskDelays DEF FiresAsPlanned
    <3> DEFINE n == Len(calls) + 1
               Kept(k, c) == IF k = Waits + 1 /\ Planned(c.after) # {}
                               THEN c.ok /\ c.next \in Planned(c.after)
                               ELSE ~c.ok
    <3>2. /\ Len(calls) \in Nat /\ Waits \in Nat /\ Waits' = Waits
          /\ built' = built /\ DOMAIN calls = 1 .. n - 1 /\ DOMAIN calls' = 1 .. n
          /\ \A k \in DOMAIN calls : calls'[k] = calls[k]
          /\ calls'[n].after = after
      BY <2>1, AskCalls, CallTypes DEF Called, Waits
    <3>3. ASSUME IsOneShot(built), NEW k \in DOMAIN calls', k > Waits
          PROVE  Kept(k, calls'[k])
      <4>1. CASE k \in DOMAIN calls
        <5>1. k \in CoreCalls
          BY <3>3, <4>1 DEF CoreCalls
        <5>2. Kept(k, calls[k])
          BY <2>1, <3>3, <5>1 DEF FiresAsPlanned
        <5> QED
          BY <3>2, <4>1, <5>2
      <4>2. CASE k = n
        <5> DEFINE l == Len(calls)
                   w == Waits
        <5>1. l \in Nat /\ w \in Nat /\ k = l + 1 /\ k > w
          BY <3>2, <3>3, <4>2
        <5> HIDE DEF l, w
        <5>3. l >= w /\ (l = w <=> k = w + 1)
          BY <5>1
        <5>2. IF Len(calls) = Waits /\ Planned(after) # {}
                THEN calls'[n].ok /\ calls'[n].next \in Planned(after)
                ELSE ~calls'[n].ok
          BY <2>1, <3>3, <5>3, AskPlanned DEF l, w
        <5> QED
          BY <3>2, <4>2, <5>2, <5>3 DEF l, w
      <4> QED
        BY <3>2, <4>1, <4>2
    <3>4. FiresAsPlanned'
      BY <3>1, <3>2, <3>3 DEF FiresAsPlanned, CoreCalls, IsOneShot, Planned
    <3> QED
      BY <3>1, <3>4
  <2>2. ASSUME IInv, UNCHANGED vars
        PROVE  IInv'
    BY <2>2 DEF CallsInv, OneShotInv, DelayInv, DelaysComeFirst, FiresAsPlanned, CoreCalls,
               Planned, vars, Waits, IsOneShot
  <2> QED
    BY <2>1, <2>2 DEF Next
<1> QED
  BY <1>1, <1>2, PTL DEF Spec

(***************************************************************************)
(* Recurring schedules.                                                    *)
(***************************************************************************)

LEMMA InitRecurring == Init => RecurringInv
<1> SUFFICES ASSUME Init
             PROVE  Len(calls) = 0 /\ Waits \in Nat /\ CoreCalls = {} /\ sched = built
  BY DEF RecurringInv
<1> QED
  BY InitCalls, CallTypes DEF Init, CoreCalls

\* From the first question that reaches the core on, the anchor stays.
LEMMA AnchorStays ==
  ASSUME CallsInv, NEW after \in Instants, Ask(after)
  PROVE  /\ built.core.kind = "periodic" /\ Len(calls) = Waits => Anchor' = after
         /\ built.core.kind # "periodic" \/ Len(calls) > Waits => Anchor' = Anchor
<1>1. /\ Len(calls) \in Nat /\ Waits \in Nat /\ Waits' = Waits
      /\ built' = built /\ DOMAIN calls = 1 .. Len(calls)
      /\ \A k \in DOMAIN calls : calls'[k] = calls[k]
      /\ calls'[Len(calls) + 1].after = after
  BY AskCalls, CallTypes DEF Called, Waits
<1>2. Anchor' = IF built.core.kind = "periodic" THEN calls'[Waits + 1].after ELSE built.core.first
  BY <1>1 DEF Anchor
<1>3. ASSUME Len(calls) > Waits
      PROVE  calls'[Waits + 1] = calls[Waits + 1]
  <2>1. Waits + 1 \in 1 .. Len(calls)
    BY <1>1, <1>3
  <2> QED
    BY <1>1, <2>1
<1> QED
  BY <1>1, <1>2, <1>3 DEF Anchor

LEMMA AskRecurring ==
  ASSUME InstantsInReach, CallsInv, RecurringInv, NEW after \in Instants, Ask(after)
  PROVE  RecurringInv'
<1> SUFFICES ASSUME IsRecurring(built)
             PROVE  RecurringInv'
  BY AskCalls DEF RecurringInv, IsRecurring, Called
<1> DEFINE n == Len(calls) + 1
           c == sched.core
           r == CoreNext(c, after)
<1>1. Called(after) /\ Len(calls) \in Nat /\ Waits \in Nat /\ Waits' = Waits
  BY AskCalls, CallTypes DEF Called, Waits
<1>2. /\ c \in Core /\ after \in Int /\ c.kind = built.core.kind
      /\ c.kind \in {"periodic", "periodicAt"}
      /\ c.interval = built.core.interval
      /\ c.kind = "periodicAt" => c = built.core
      /\ c.kind = "periodic" /\ Len(calls) > Waits => c.anchored /\ c.anchor = Anchor
      /\ \A k \in CoreCalls : calls[k].ok /\ calls[k].next = Answer(calls[k].after)
  BY CallTypes DEF RecurringInv, IsRecurring, CallsInv
<1>3. c.kind = "periodic" /\ Len(calls) <= Waits => ~c.anchored
  BY <1>2 DEF CallsInv, AsConstructed
<1>4. /\ c.kind = "periodic" /\ Len(calls) = Waits => Anchor' = after
      /\ c.kind = "periodicAt" \/ Len(calls) > Waits => Anchor' = Anchor
  BY <1>2, AnchorStays
<1>5. CASE n <= Waits
  <2>1. sched'.core = c /\ built' = built /\ Len(calls') = n /\ CoreCalls' = {}
    BY <1>1, <1>5 DEF Called, CoreCalls
  <2> HIDE DEF c
  <2> QED
    BY <1>1, <1>2, <1>5, <2>1 DEF RecurringInv
<1>6. CASE n > Waits
  <2>1. /\ built' = built /\ Len(calls') = n /\ DOMAIN calls = 1 .. n - 1
        /\ DOMAIN calls' = 1 .. n
        /\ \A k \in DOMAIN calls : calls'[k] = calls[k]
        /\ calls'[n].after = after /\ sched'.core = r.core
        /\ calls'[n].ok = r.ok /\ calls'[n].next = r.next
    BY <1>1, <1>6 DEF Called
  <2>2. /\ r.ok /\ r.core.interval = c.interval
        /\ c.kind = "periodic" => /\ r.core.kind = "periodic" /\ r.core.anchored
                                  /\ r.core.anchor = IF c.anchored THEN c.anchor ELSE after
        /\ c.kind = "periodicAt" => r.core = c
        /\ r.next = IF c.kind = "periodicAt" /\ after < c.first
                      THEN c.first
                      ELSE SlotAfter(Origin(r.core), c.interval, after)
    BY <1>2, RecurringCore
  <2>3. Len(calls) = Waits \/ Len(calls) > Waits
    BY <1>1, <1>6
  <2> HIDE DEF c, r
  <2>4. Origin(r.core) = Anchor' /\ (c.kind = "periodicAt" => c.first = Anchor')
    <3>1. CASE c.kind = "periodic"
      BY <1>2, <1>3, <1>4, <2>2, <2>3, <3>1 DEF Origin
    <3>2. CASE c.kind = "periodicAt"
      BY <1>2, <1>4, <2>2, <3>2 DEF Origin, Anchor
    <3> QED
      BY <1>2, <3>1, <3>2
  <2> DEFINE G(t) == IF c.kind = "periodicAt" /\ t < Anchor' THEN Anchor'
                     ELSE SlotAfter(Anchor', c.interval, t)
  <2>5. r.next = G(after)
    BY <2>2, <2>4
  <2>6. ASSUME NEW k \in CoreCalls'
        PROVE  calls'[k].ok /\ calls'[k].next = G(calls'[k].after)
    <3>1. k \in 1 .. n /\ k > Waits
      BY <1>1, <2>1 DEF CoreCalls
    <3>2. CASE k = n
      BY <2>1, <2>2, <2>5, <3>2
    <3>3. CASE k \in DOMAIN calls
      <4>1. Anchor' = Anchor
        <5>1. Len(calls) > Waits
          BY <1>1, <2>1, <3>1, <3>3
        <5> QED
          BY <1>4, <5>1
      <4>2. k \in CoreCalls /\ calls'[k] = calls[k]
        BY <2>1, <3>1, <3>3 DEF CoreCalls
      <4>3. Answer(calls[k].after) = G(calls[k].after)
        BY <1>2, <4>1 DEF Answer
      <4> QED
        BY <1>2, <4>2, <4>3
    <3> QED
      BY <1>1, <2>1, <3>1, <3>2, <3>3
  <2>7. \A t : G(t) = IF built'.core.kind = "periodicAt" /\ t < Anchor' THEN Anchor'
                      ELSE SlotAfter(Anchor', built'.core.interval, t)
    BY <1>2, <2>1
  <2> HIDE DEF G
  <2>8. \A k \in CoreCalls' : calls'[k].ok /\ calls'[k].next = Answer(calls[k].after)'
    BY <2>6, <2>7 DEF Answer
  <2>9. /\ sched'.core.interval = built'.core.interval
        /\ built'.core.kind = "periodic" =>
             sched'.core.anchored /\ sched'.core.anchor = Anchor'
        /\ built'.core.kind = "periodicAt" => sched'.core = built'.core
    BY <1>2, <2>1, <2>2, <2>4 DEF Origin
  <2> QED
    BY <2>8, <2>9 DEF RecurringInv
<1> QED
  BY <1>1, <1>5, <1>6

\* What the properties need to know of a call that reached a recurring core.
LEMMA CallInReach ==
  ASSUME InstantsInReach, CallsInv, RecurringInv, IsRecurring(built), NEW k \in CoreCalls
  PROVE  LET i == built.core.interval
             t == calls[k].after
         IN  /\ calls[k].ok /\ calls[k].next = Answer(t)
             /\ Anchor \in Int /\ i \in Interval /\ t \in Int
             /\ t - Anchor + i <= MaxDuration
             /\ built.core.kind = "periodic" => Anchor - t <= MaxDuration
<1> DEFINE i == built.core.interval
           t == calls[k].after
<1>1. /\ Len(calls) \in Nat /\ Waits \in Nat /\ built.core \in Core /\ k \in DOMAIN calls
      /\ DOMAIN calls = 1 .. Len(calls)
      /\ \A m \in DOMAIN calls : calls[m].after \in Instants
  BY CallTypes DEF Call, CoreCalls
<1>2. Waits + 1 \in DOMAIN calls
  BY <1>1 DEF CoreCalls
<1>3. t \in Instants /\ t \in Int
  BY <1>1
<1>4. calls[k].ok /\ calls[k].next = Answer(t)
  BY DEF RecurringInv
<1>5. CASE built.core.kind = "periodic"
  <2>1. Anchor \in Instants /\ Anchor \in Int
    BY <1>1, <1>2, <1>5 DEF Anchor
  <2>2. i \in Interval /\ i \in Nat
    BY <1>1, <1>5 DEF Core, PeriodicCore, PeriodicAtCore, OnceCore, OnceAtCore, Interval
  <2>3. t - Anchor + i <= MaxDuration /\ Anchor - t + i <= MaxDuration
    BY <1>3, <1>5, <2>1 DEF InstantsInReach, CallsInv
  <2> HIDE DEF i, t
  <2>4. Anchor - t <= MaxDuration
    BY <1>3, <2>1, <2>2, <2>3
  <2> QED
    BY <1>3, <1>4, <2>1, <2>2, <2>3, <2>4 DEF i, t
<1>6. CASE built.core.kind = "periodicAt"
  <2>1. Anchor = built.core.first /\ Anchor \in Int
    BY <1>1, <1>6 DEF Anchor, Core, PeriodicCore, PeriodicAtCore, OnceCore, OnceAtCore
  <2>2. i \in Interval
    BY <1>1, <1>6 DEF Core, PeriodicCore, PeriodicAtCore, OnceCore, OnceAtCore
  <2>3. t - Anchor + i <= MaxDuration
    BY <1>3, <1>6, <2>1 DEF InstantsInReach, CallsInv
  <2> QED
    BY <1>3, <1>4, <1>6, <2>1, <2>2, <2>3
<1> QED
  BY <1>5, <1>6 DEF IsRecurring

LEMMA Recurrence == InstantsInReach => (Spec => [](CallsInv /\ RecurringInv))
<1> SUFFICES ASSUME InstantsInReach
             PROVE  Spec => [](CallsInv /\ RecurringInv)
  OBVIOUS
<1>1. Init => CallsInv /\ RecurringInv
  BY InitCalls, InitRecurring
<1>2. CallsInv /\ RecurringInv /\ [Next]_vars => (CallsInv /\ RecurringInv)'
  <2>1. ASSUME CallsInv, RecurringInv, NEW after \in Instants, Ask(after)
        PROVE  CallsInv' /\ RecurringInv'
    BY <2>1, AskCalls, AskRecurring
  <2>2. ASSUME CallsInv, RecurringInv, UNCHANGED vars
        PROVE  CallsInv' /\ RecurringInv'
    BY <2>2 DEF CallsInv, RecurringInv, vars, Waits, IsRecurring, CoreCalls, Anchor, Answer
  <2> QED
    BY <2>1, <2>2 DEF Next
<1> QED
  BY <1>1, <1>2, PTL DEF Spec

\* A recurring schedule answers strictly after the question, however the clock
\* jumps or steps back, so a runner never fires back-to-back
\* (everySchedule.Next, everyAtSchedule.Next).
THEOREM NeverBackToBack == InstantsInReach => (Spec => []StrictlyAfter)
<1> SUFFICES ASSUME InstantsInReach
             PROVE  Spec => []StrictlyAfter
  OBVIOUS
<1>1. CallsInv /\ RecurringInv => StrictlyAfter
  <2> SUFFICES ASSUME CallsInv, RecurringInv, IsRecurring(built), NEW k \in CoreCalls
               PROVE  calls[k].ok /\ calls[k].next > calls[k].after
    BY DEF StrictlyAfter
  <2> DEFINE t == calls[k].after
  <2>1. /\ calls[k].ok /\ calls[k].next = Answer(t)
        /\ Anchor \in Int /\ built.core.interval \in Interval /\ t \in Int
        /\ t - Anchor + built.core.interval <= MaxDuration
        /\ built.core.kind = "periodic" => Anchor - t <= MaxDuration
    BY CallInReach
  <2> HIDE DEF t
  <2>2. CASE built.core.kind = "periodic"
    BY <2>1, <2>2, SlotIsNear DEF Answer, t
  <2>3. CASE built.core.kind = "periodicAt" /\ t >= Anchor
    <3>1. Answer(t) = SlotAfter(Anchor, built.core.interval, t)
      BY <2>1, <2>3 DEF Answer
    <3> QED
      BY <2>1, <2>3, <3>1, SlotIsNext DEF t
  <2>4. CASE built.core.kind = "periodicAt" /\ t < Anchor
    BY <2>1, <2>4 DEF Answer, t
  <2> QED
    BY <2>1, <2>2, <2>3, <2>4 DEF IsRecurring
<1> QED
  BY <1>1, Recurrence, PTL

\* Where Go's truncating division misses the nearest slot, because the clock is
\* behind the anchor of a Periodic, the answer is still aligned and at most two
\* intervals away (everySchedule.Next).
THEOREM NearWhenSteppedBack == InstantsInReach => (Spec => []SteppedBackStaysNear)
<1> SUFFICES ASSUME InstantsInReach
             PROVE  Spec => []SteppedBackStaysNear
  OBVIOUS
<1>1. CallsInv /\ RecurringInv => SteppedBackStaysNear
  <2> SUFFICES ASSUME CallsInv, RecurringInv, built.core.kind = "periodic", NEW k \in CoreCalls
               PROVE  /\ (calls[k].next - Anchor) % built.core.interval = 0
                      /\ calls[k].next - calls[k].after <= 2 * built.core.interval
    BY DEF SteppedBackStaysNear
  <2> DEFINE t == calls[k].after
  <2>1. /\ calls[k].next = Answer(t)
        /\ Anchor \in Int /\ built.core.interval \in Interval /\ t \in Int
        /\ t - Anchor + built.core.interval <= MaxDuration
        /\ Anchor - t <= MaxDuration
    BY CallInReach DEF IsRecurring
  <2>2. Answer(t) = SlotAfter(Anchor, built.core.interval, t)
    BY DEF Answer
  <2> QED
    BY <2>1, <2>2, SlotIsNear
<1> QED
  BY <1>1, Recurrence, PTL

\* A recurring schedule answers with the first aligned slot after the question,
\* and with none that was missed in between, however many those are; only a
\* Periodic whose clock is behind its anchor is excepted (everySchedule.Next,
\* everyAtSchedule.Next).
THEOREM MissedSlotsAreSkipped == InstantsInReach => (Spec => []FirstMissedSlotSkipped)
<1> SUFFICES ASSUME InstantsInReach
             PROVE  Spec => []FirstMissedSlotSkipped
  OBVIOUS
<1>1. CallsInv /\ RecurringInv => FirstMissedSlotSkipped
  <2> SUFFICES ASSUME CallsInv, RecurringInv, IsRecurring(built), NEW k \in CoreCalls,
                      calls[k].after >= Anchor \/ built.core.kind = "periodicAt"
               PROVE  LET c == calls[k]
                      IN  /\ c.ok /\ c.next \in Slots /\ c.next > c.after
                          /\ \A s \in Slots : s > c.after => c.next <= s
    BY DEF FirstMissedSlotSkipped
  <2> DEFINE t == calls[k].after
             i == built.core.interval
  <2>1. /\ calls[k].ok /\ calls[k].next = Answer(t)
        /\ Anchor \in Int /\ i \in Interval /\ t \in Int
        /\ t - Anchor + i <= MaxDuration
    BY CallInReach
  <2>2. /\ \A s \in Slots : \E m \in Nat : s = Anchor + m * i
        /\ \A m \in 1 .. MaxDuration : Anchor + m * i \in Slots
        /\ built.core.kind = "periodicAt" => Anchor + 0 * i \in Slots
    BY DEF Slots
  <2> HIDE DEF t, i
  <2>3. CASE t >= Anchor
    <3>1. calls[k].next = SlotAfter(Anchor, i, t)
      BY <2>1, <2>3 DEF Answer, i
    <3>2. /\ SlotAfter(Anchor, i, t) > t
          /\ \A m \in Nat : Anchor + m * i > t => SlotAfter(Anchor, i, t) <= Anchor + m * i
      BY <2>1, <2>3, SlotIsNext
    <3>3. SlotAfter(Anchor, i, t) \in Slots
      BY <2>1, <2>2, <2>3, SlotIsCounted
    <3> QED
      BY <2>1, <2>2, <3>1, <3>2, <3>3 DEF t
  <2>4. CASE t < Anchor
    <3>1. built.core.kind = "periodicAt" /\ calls[k].next = Anchor
      BY <2>1, <2>4 DEF Answer, t
    <3>2. Anchor + 0 * i = Anchor /\ \A m \in Nat : m * i \in Nat
      BY <2>1 DEF Interval
    <3>3. \A s \in Slots : Anchor <= s
      BY <2>1, <2>2, <3>2
    <3> QED
      BY <2>1, <2>2, <2>4, <3>1, <3>2, <3>3 DEF t
  <2> QED
    BY <2>1, <2>3, <2>4
<1> QED
  BY <1>1, Recurrence, PTL
=============================================================================
