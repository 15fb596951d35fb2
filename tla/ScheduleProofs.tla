---------------------------- MODULE ScheduleProofs ----------------------------
(***************************************************************************)
(* What every schedule guarantees its caller, for every instant, interval  *)
(* and width of a duration: lemmas about the operators of module Schedules.*)
(***************************************************************************)
EXTENDS Schedules, TLAPS

USE DurationAssumption

\* The quotient of a duration by an interval is an integer.
LEMMA QuotientType ==
  ASSUME NEW d \in Int, NEW i \in Int, i > 0
  PROVE  Quotient(d, i) \in Int
  BY DEF Quotient

\* A wrapped integer is a duration.
LEMMA WrappedType ==
  ASSUME NEW d \in Int
  PROVE  Wrapped(d) \in Duration
<1> DEFINE M == 2 * (MaxDuration + 1)
           r == (d + MaxDuration + 1) % M
<1>1. M \in Nat \ {0}
  OBVIOUS
<1>2. r \in 0 .. M - 1
  BY <1>1
<1>3. Wrapped(d) = r - (MaxDuration + 1)
  BY DEF Wrapped
<1> HIDE DEF r
<1> QED
  BY <1>2, <1>3 DEF Duration, MinDuration

\* A product that fits a duration is not changed.
LEMMA WrappedFits ==
  ASSUME NEW d \in Duration
  PROVE  Wrapped(d) = d
<1> DEFINE M == 2 * (MaxDuration + 1)
           e == d + MaxDuration + 1
<1>1. e \in 0 .. M - 1 /\ M \in Nat \ {0}
  BY DEF Duration, MinDuration
<1>2. ASSUME NEW u \in Nat, NEW m \in Nat \ {0}, u < m
      PROVE  u % m = u
  BY <1>2
<1>3. e % M = e
  BY <1>1, <1>2
<1> QED
  BY <1>3 DEF Wrapped, Duration, MinDuration

\* Within the width of a duration Sub is the difference.
LEMMA SubFits ==
  ASSUME NEW t \in Int, NEW u \in Int, t - u \in Duration
  PROVE  Sub(t, u) = t - u
  BY DEF Sub, Duration, MinDuration

LEMMA SubType ==
  ASSUME NEW t \in Int, NEW u \in Int
  PROVE  Sub(t, u) \in Duration
  BY DEF Sub, Duration, MinDuration

\* Every duration is an integer.
LEMMA DurationIsInt ==
  ASSUME NEW d \in Duration
  PROVE  d \in Int
  BY DEF Duration, MinDuration

LEMMA SlotType ==
  ASSUME NEW anchor \in Int, NEW interval \in Interval, NEW after \in Int
  PROVE  SlotAfter(anchor, interval, after) \in Int
<1>1. Quotient(Sub(after, anchor), interval) \in Int
  BY SubType, QuotientType DEF Duration, MinDuration, Interval
<1>2. (Quotient(Sub(after, anchor), interval) + 1) * interval \in Int
  BY <1>1 DEF Interval
<1> QED
  BY <1>2, WrappedType DEF SlotAfter, Duration, MinDuration

(***************************************************************************)
(* NextFire.                                                               *)
(***************************************************************************)

\* One call of a core's Next: a core of the same kind, an instant and a flag;
\* only a one-shot that has been asked says that it is exhausted.
LEMMA CoreNextType ==
  ASSUME NEW c \in Core, NEW after \in Int
  PROVE  LET r == CoreNext(c, after)
         IN  /\ r.core \in Core
             /\ r.core.kind = c.kind
             /\ r.next \in Int
             /\ r.ok \in BOOLEAN
             /\ ~r.ok => r.core.kind \in {"once", "onceAt"} /\ r.core.scheduled
<1>1. CASE c \in PeriodicCore
  <2>1. c.kind = "periodic" /\ c.interval \in Interval /\ c.anchor \in Int
    BY <1>1 DEF PeriodicCore
  <2> DEFINE k == Anchored(c, after)
  <2>2. k \in PeriodicCore
    BY <1>1 DEF PeriodicCore, Anchored
  <2>3. SlotAfter(k.anchor, k.interval, after) \in Int
    BY <2>2, SlotType DEF PeriodicCore
  <2>4. CoreNext(c, after) = Fire(k, SlotAfter(k.anchor, k.interval, after))
    BY <2>1 DEF CoreNext, PeriodicNext
  <2>5. k.kind = c.kind
    BY <2>1, <2>2 DEF PeriodicCore
  <2> HIDE DEF k
  <2> QED
    BY <2>2, <2>3, <2>4, <2>5 DEF Fire, Core
<1>2. CASE c \in PeriodicAtCore
  <2>1. c.kind = "periodicAt" /\ c.interval \in Interval /\ c.first \in Int
    BY <1>2 DEF PeriodicAtCore
  <2>2. SlotAfter(c.first, c.interval, after) \in Int
    BY <2>1, SlotType
  <2>3. CoreNext(c, after) = PeriodicAtNext(c, after)
    BY <2>1 DEF CoreNext
  <2> QED
    BY <1>2, <2>1, <2>2, <2>3 DEF PeriodicAtNext, Fire, Core
<1>3. CASE c \in OnceCore
  <2>1. /\ c.kind = "once" /\ c.delay \in Duration /\ c.scheduled \in BOOLEAN
        /\ Scheduled(c) \in OnceCore /\ Scheduled(c).kind = "once"
    BY <1>3 DEF OnceCore, Scheduled
  <2>2. CoreNext(c, after) = OnceNext(c, after)
    BY <2>1 DEF CoreNext
  <2>3. CASE c.scheduled
    <3>1. OnceNext(c, after) = Exhausted(c)
      BY <2>3 DEF OnceNext
    <3> QED
      BY <1>3, <2>1, <2>2, <2>3, <3>1 DEF Exhausted, Core
  <2>4. CASE ~c.scheduled
    <3>1. OnceNext(c, after) = Fire(Scheduled(c), after + c.delay)
      BY <2>4 DEF OnceNext
    <3>2. c.delay \in Int
      BY <2>1, DurationIsInt
    <3>3. after + c.delay \in Int
      BY <3>2
    <3> QED
      BY <2>1, <2>2, <3>1, <3>3 DEF Fire, Core
  <2> QED
    BY <2>1, <2>3, <2>4
<1>4. CASE c \in OnceAtCore
  <2>1. /\ c.kind = "onceAt" /\ c.at \in Int
        /\ Scheduled(c) \in OnceAtCore /\ Scheduled(c).kind = "onceAt"
        /\ Scheduled(c).scheduled
    BY <1>4 DEF OnceAtCore, Scheduled
  <2>2. CoreNext(c, after) = OnceAtNext(c, after)
    BY <2>1 DEF CoreNext
  <2> QED
    BY <2>1, <2>2 DEF OnceAtNext, Fire, Exhausted, Core
<1> QED
  BY <1>1, <1>2, <1>3, <1>4 DEF Core

\* The same for a whole schedule, with its delays.
LEMMA NextFireType ==
  ASSUME NEW s \in Schedule, NEW after \in Int
  PROVE  LET r == NextFire(s, after)
         IN  /\ r.sched \in Schedule
             /\ r.sched.core.kind = s.core.kind
             /\ r.next \in Int
             /\ r.ok \in BOOLEAN
             /\ ~r.ok => /\ IsOneShot(r.sched)
                         /\ r.sched.delays = << >>
                         /\ r.sched.core.scheduled
<1>1. s.delays \in Seq(Duration) /\ s.core \in Core
  BY DEF Schedule
<1>2. CASE s.delays # << >>
  <2>1. Tail(s.delays) \in Seq(Duration) /\ Head(s.delays) \in Duration
    BY <1>1, <1>2
  <2>2. NextFire(s, after) =
          [sched |-> [s EXCEPT !.delays = Tail(@)],
           next |-> after + Head(s.delays), ok |-> TRUE]
    BY <1>2 DEF NextFire
  <2>3. [s EXCEPT !.delays = Tail(@)] \in Schedule
    BY <2>1 DEF Schedule
  <2>4. [s EXCEPT !.delays = Tail(@)].core = s.core
    BY DEF Schedule
  <2>5. after + Head(s.delays) \in Int
    <3>1. Head(s.delays) \in Int
      BY <2>1, DurationIsInt
    <3> QED
      BY <3>1
  <2> DEFINE q == NextFire(s, after)
  <2>6. /\ q.sched = [s EXCEPT !.delays = Tail(@)]
        /\ q.next = after + Head(s.delays)
        /\ q.ok = TRUE
    BY <2>2
  <2> QED
    BY <2>3, <2>4, <2>5, <2>6
<1>3. CASE s.delays = << >>
  <2> DEFINE r == CoreNext(s.core, after)
  <2>1. /\ r.core \in Core /\ r.core.kind = s.core.kind
        /\ r.next \in Int /\ r.ok \in BOOLEAN
        /\ ~r.ok => r.core.kind \in {"once", "onceAt"} /\ r.core.scheduled
    BY <1>1, CoreNextType
  <2>2. NextFire(s, after) =
          [sched |-> [s EXCEPT !.core = r.core], next |-> r.next, ok |-> r.ok]
    BY <1>3 DEF NextFire
  <2> HIDE DEF r
  <2>3. /\ [s EXCEPT !.core = r.core] \in Schedule
        /\ [s EXCEPT !.core = r.core].core = r.core
        /\ [s EXCEPT !.core = r.core].delays = << >>
    BY <1>3, <2>1 DEF Schedule
  <2> DEFINE q == NextFire(s, after)
  <2>4. q.sched = [s EXCEPT !.core = r.core] /\ q.next = r.next /\ q.ok = r.ok
    BY <2>2
  <2> HIDE DEF q
  <2>5. q.sched \in Schedule /\ q.sched.core.kind = s.core.kind
    BY <2>1, <2>3, <2>4
  <2>6. ~q.ok => IsOneShot(q.sched) /\ q.sched.delays = << >> /\ q.sched.core.scheduled
    BY <2>1, <2>3, <2>4 DEF IsOneShot
  <2>7. q.next \in Int /\ q.ok \in BOOLEAN
    BY <2>1, <2>4
  <2> QED
    BY <2>5, <2>6, <2>7 DEF q
<1> QED
  BY <1>2, <1>3

(***************************************************************************)
(* Where a recurring schedule fires.                                       *)
(***************************************************************************)

\* The division of a natural number: the quotient is the greatest number of
\* whole intervals.
LEMMA QuotientBounds ==
  ASSUME NEW d \in Nat, NEW i \in Nat \ {0}
  PROVE  LET q == Quotient(d, i)
         IN  q \in Nat /\ q * i <= d /\ d < (q + 1) * i
<1>1. Quotient(d, i) = d \div i
  BY DEF Quotient
<1>2. d \div i \in Nat /\ (d \div i) * i <= d /\ d < (d \div i + 1) * i
  OBVIOUS
<1> QED
  BY <1>1, <1>2

\* As long as the instant and its slot lie within the width of a duration of
\* the anchor, everySchedule.Next and everyAtSchedule.Next answer with an
\* aligned slot strictly after the instant, and no slot in between: the missed
\* slots are skipped and no due slot is.
THEOREM SlotIsNext ==
  ASSUME NEW anchor \in Int, NEW interval \in Interval, NEW after \in Int,
         after >= anchor, after - anchor + interval <= MaxDuration
  PROVE  LET slot == SlotAfter(anchor, interval, after)
         IN  /\ slot > after
             /\ \E k \in Nat \ {0} : slot = anchor + k * interval
             /\ \A k \in Nat : anchor + k * interval > after =>
                                 slot <= anchor + k * interval
<1> DEFINE d == after - anchor
           q == Quotient(d, interval)
           slot == SlotAfter(anchor, interval, after)
<1>1. d \in Nat /\ d \in Duration /\ interval \in Nat \ {0}
  BY DEF Duration, MinDuration, Interval
<1>2. Sub(after, anchor) = d
  BY <1>1, SubFits
<1>3. q \in Nat /\ q * interval <= d /\ d < (q + 1) * interval
  BY <1>1, QuotientBounds
<1>4. slot = anchor + Wrapped((q + 1) * interval)
  BY <1>2 DEF SlotAfter
<1> HIDE DEF q, slot
<1>5. (q + 1) * interval = q * interval + interval /\ q * interval \in Nat
  BY <1>1, <1>3
<1>6. (q + 1) * interval \in Duration
  BY <1>1, <1>3, <1>5 DEF Duration, MinDuration
<1>7. slot = anchor + (q + 1) * interval
  BY <1>4, <1>6, WrappedFits
<1>8. slot > after
  BY <1>1, <1>3, <1>5, <1>7
<1>9. ASSUME NEW k \in Nat, anchor + k * interval > after
      PROVE  slot <= anchor + k * interval
  <2>1. k * interval \in Nat /\ k * interval > d
    BY <1>1, <1>9
  <2>2. CASE k <= q
    <3>1. k * interval <= q * interval
      BY <2>2, <1>1, <1>3
    <3> QED
      BY <3>1, <2>1, <1>1, <1>3, <1>5
  <2>3. CASE k >= q + 1
    <3>1. (q + 1) * interval <= k * interval
      BY <2>3, <1>1, <1>3
    <3> QED
      BY <3>1, <2>1, <1>5, <1>7, <1>1
  <2> QED
    BY <2>2, <2>3, <1>3
<1>10. q + 1 \in Nat \ {0}
  BY <1>3
<1> QED
  BY <1>7, <1>8, <1>9, <1>10 DEF slot

\* What happens outside that width, for every width: an instant further from
\* the anchor than the largest duration is answered with an instant before the
\* anchor, so a PeriodicAt with such a first instant fires back-to-back.
THEOREM FarAnchorFiresInThePast ==
  ASSUME NEW anchor \in Int, NEW interval \in Interval, NEW after \in Int,
         after - anchor > MaxDuration
  PROVE  SlotAfter(anchor, interval, after) < anchor
<1> DEFINE q == Quotient(MaxDuration, interval)
           p == (q + 1) * interval
<1>1. Sub(after, anchor) = MaxDuration
  BY DEF Sub, MinDuration
<1>2. interval \in Nat \ {0} /\ interval <= MaxDuration /\ MaxDuration \in Nat
  BY DEF Interval
<1>3. q \in Nat /\ q * interval <= MaxDuration /\ MaxDuration < (q + 1) * interval
  BY <1>2, QuotientBounds
<1>4. SlotAfter(anchor, interval, after) = anchor + Wrapped(p)
  BY <1>1 DEF SlotAfter
<1> HIDE DEF q
<1>5. p \in Nat /\ p = q * interval + interval /\ q * interval \in Nat
  BY <1>2, <1>3
<1>6. p > MaxDuration /\ p <= 2 * MaxDuration
  BY <1>2, <1>3, <1>5
<1> HIDE DEF p
<1>7. Wrapped(p) = p - 2 * (MaxDuration + 1)
  <2> DEFINE M == 2 * (MaxDuration + 1)
             e == p - (MaxDuration + 1)
  <2>1. M \in Nat \ {0} /\ e \in 0 .. M - 1 /\ p + MaxDuration + 1 = e + M
    BY <1>2, <1>5, <1>6
  <2>2. ASSUME NEW u \in Nat, NEW m \in Nat \ {0}, u < m
        PROVE  (u + m) % m = u
    BY <2>2
  <2>3. (p + MaxDuration + 1) % M = e
    <3>1. (e + M) % M = e
      BY <2>1, <2>2
    <3> HIDE DEF M, e
    <3> QED
      BY <2>1, <3>1
  <2> QED
    BY <2>3, <1>2, <1>5 DEF Wrapped
<1> QED
  BY <1>2, <1>4, <1>5, <1>6, <1>7

\* The contract of Schedule.Next for PeriodicAt, before and after its first
\* instant.
THEOREM PeriodicAtStrictlyAfter ==
  ASSUME NEW c \in PeriodicAtCore, NEW after \in Int,
         after - c.first + c.interval <= MaxDuration
  PROVE  PeriodicAtNext(c, after).ok /\ PeriodicAtNext(c, after).next > after
<1>1. c.first \in Int /\ c.interval \in Interval
  BY DEF PeriodicAtCore
<1>2. CASE after < c.first
  BY <1>1, <1>2 DEF PeriodicAtNext, Fire
<1>3. CASE after >= c.first
  <2>1. SlotAfter(c.first, c.interval, after) > after
    BY <1>1, <1>3, SlotIsNext
  <2> QED
    BY <1>1, <1>3, <2>1 DEF PeriodicAtNext, Fire
<1> QED
  BY <1>1, <1>2, <1>3

(***************************************************************************)
(* Slots: aligned instants and the numbers of the slots they begin.        *)
(***************************************************************************)

LEMMA DivBounds ==
  ASSUME NEW x \in Int, NEW i \in Nat \ {0}
  PROVE  x \div i \in Int /\ (x \div i) * i <= x /\ x < (x \div i + 1) * i
  OBVIOUS

LEMMA FewerIntervals ==
  ASSUME NEW m \in Int, NEW n \in Int, NEW i \in Nat \ {0}, m * i < n * i
  PROVE  m < n
<1> SUFFICES ASSUME n <= m
             PROVE  FALSE
  OBVIOUS
<1>1. PICK e \in Nat : m = n + e
  OBVIOUS
<1>2. m * i = n * i + e * i /\ e * i >= 0
  BY <1>1
<1> QED
  BY <1>2

\* An instant before an aligned one lies in an earlier slot, ...
LEMMA EarlierSlot ==
  ASSUME NEW a \in Int, NEW i \in Nat \ {0}, NEW k \in Int, NEW t \in Int, t < a + k * i
  PROVE  (t - a) \div i < (a + k * i - a) \div i
<1> DEFINE p == (t - a) \div i
           q == (a + k * i - a) \div i
<1>1. k * i \in Int /\ p \in Int /\ q \in Int
  BY DivBounds
<1>2. p * i <= t - a /\ k * i < (q + 1) * i
  <2>1. t - a \in Int /\ a + k * i - a \in Int /\ a + k * i - a = k * i
    BY <1>1
  <2> QED
    BY <2>1, DivBounds
<1> HIDE DEF p, q
<1>3. p * i < k * i
  <2>1. p * i \in Int
    BY <1>1
  <2> QED
    BY <1>1, <1>2, <2>1
<1>4. p < k /\ k < q + 1
  BY <1>1, <1>2, <1>3, FewerIntervals
<1> QED
  BY <1>1, <1>4 DEF p, q

\* ... and a later instant in no earlier one.
LEMMA LaterSlot ==
  ASSUME NEW a \in Int, NEW i \in Nat \ {0}, NEW t \in Int, NEW u \in Int, t <= u
  PROVE  (t - a) \div i <= (u - a) \div i
<1> DEFINE p == (t - a) \div i
           q == (u - a) \div i
<1>1. /\ p \in Int /\ q \in Int
      /\ p * i <= t - a /\ u - a < (q + 1) * i
  BY DivBounds
<1> HIDE DEF p, q
<1>2. p * i < (q + 1) * i
  BY <1>1
<1>3. p < q + 1
  BY <1>1, <1>2, FewerIntervals
<1> QED
  BY <1>1, <1>3 DEF p, q

\* The instant a recurring core counts its slots from, and the number of a slot.
Origin(c) == IF c.kind = "periodic" THEN c.anchor ELSE c.first
Slot(c, t) == (t - Origin(c)) \div c.interval

\* What becomes of a recurring core when it is asked: it always answers, and the
\* first answer of a Periodic fixes its anchor.
LEMMA RecurringCore ==
  ASSUME NEW c \in Core, NEW after \in Int, c.kind \in {"periodic", "periodicAt"}
  PROVE  LET r == CoreNext(c, after)
         IN  /\ r.ok /\ r.core.kind = c.kind /\ r.core.interval = c.interval
             /\ c.interval \in Nat \ {0} /\ Origin(c) \in Int
             /\ c.kind = "periodic" => /\ r.core.anchored
                                       /\ r.core.anchor = IF c.anchored THEN c.anchor ELSE after
             /\ c.kind = "periodicAt" => r.core = c
             /\ r.next = IF c.kind = "periodicAt" /\ after < c.first
                           THEN c.first
                           ELSE SlotAfter(Origin(r.core), c.interval, after)
<1>1. CASE c.kind = "periodic"
  <2> DEFINE b == Anchored(c, after)
  <2>1. c \in PeriodicCore
    BY <1>1 DEF Core, PeriodicAtCore, OnceCore, OnceAtCore
  <2>2. /\ b.kind = c.kind /\ b.anchored /\ b.interval = c.interval /\ c.interval \in Interval
        /\ b.anchor = IF c.anchored THEN c.anchor ELSE after
        /\ c.anchor \in Int
    BY <2>1 DEF Anchored, PeriodicCore
  <2>3. CoreNext(c, after) = Fire(b, SlotAfter(b.anchor, b.interval, after))
    BY <1>1 DEF CoreNext, PeriodicNext
  <2> HIDE DEF b
  <2> QED
    BY <1>1, <2>2, <2>3 DEF Fire, Interval, Origin
<1>2. CASE c.kind = "periodicAt"
  <2>1. c \in PeriodicAtCore
    BY <1>2 DEF Core, PeriodicCore, OnceCore, OnceAtCore
  <2>2. c.first \in Int /\ c.interval \in Interval
    BY <2>1 DEF PeriodicAtCore
  <2>3. CoreNext(c, after) = PeriodicAtNext(c, after)
    BY <1>2 DEF CoreNext
  <2> QED
    BY <1>2, <2>2, <2>3 DEF PeriodicAtNext, Fire, Interval, Origin
<1> QED
  BY <1>1, <1>2

\* How far the questions of a recurring core may be from its anchor: as far as a
\* time.Duration reaches.
InReach(c, after) ==
  /\ c.kind = "periodic" /\ c.anchored =>
       c.anchor <= after /\ after - c.anchor + c.interval <= MaxDuration
  /\ c.kind = "periodicAt" => after - c.first + c.interval <= MaxDuration

\* What a recurring core answers: an aligned instant strictly after the question.
LEMMA RecurringAnswer ==
  ASSUME NEW c \in Core, NEW after \in Int, c.kind \in {"periodic", "periodicAt"}, InReach(c, after)
  PROVE  LET r == CoreNext(c, after)
         IN  /\ r.next > after
             /\ \E k \in Int : r.next = Origin(r.core) + k * c.interval
<1>1. CASE c.kind = "periodic"
  <2> DEFINE b == Anchored(c, after)
  <2>1. c \in PeriodicCore
    BY <1>1 DEF Core, PeriodicAtCore, OnceCore, OnceAtCore
  <2>2. /\ b.kind = "periodic" /\ b.interval = c.interval /\ c.interval \in Interval
        /\ b.anchor = IF c.anchored THEN c.anchor ELSE after
        /\ b.anchor \in Int
    BY <1>1, <2>1 DEF Anchored, PeriodicCore
  <2>3. CoreNext(c, after) = Fire(b, SlotAfter(b.anchor, b.interval, after))
    BY <1>1 DEF CoreNext, PeriodicNext
  <2>4. after >= b.anchor /\ after - b.anchor + b.interval <= MaxDuration
    BY <1>1, <2>1, <2>2 DEF InReach, Interval, PeriodicCore
  <2> HIDE DEF b
  <2>5. /\ SlotAfter(b.anchor, b.interval, after) > after
        /\ \E k \in Nat \ {0} : SlotAfter(b.anchor, b.interval, after) = b.anchor + k * b.interval
    BY <2>2, <2>4, SlotIsNext
  <2> QED
    BY <2>2, <2>3, <2>5 DEF Fire, Origin
<1>2. CASE c.kind = "periodicAt"
  <2>1. c \in PeriodicAtCore
    BY <1>2 DEF Core, PeriodicCore, OnceCore, OnceAtCore
  <2>2. c.first \in Int /\ c.interval \in Interval
    BY <2>1 DEF PeriodicAtCore
  <2>3. CASE after < c.first
    <3>1. CoreNext(c, after) = Fire(c, c.first)
      BY <1>2, <2>3 DEF CoreNext, PeriodicAtNext
    <3>2. c.first = c.first + 0 * c.interval
      BY <2>2 DEF Interval
    <3> QED
      BY <1>2, <2>2, <2>3, <3>1, <3>2 DEF Fire, Origin
  <2>4. CASE ~(after < c.first)
    <3>1. CoreNext(c, after) = Fire(c, SlotAfter(c.first, c.interval, after))
      BY <1>2, <2>4 DEF CoreNext, PeriodicAtNext
    <3>2. after >= c.first /\ after - c.first + c.interval <= MaxDuration
      BY <1>2, <2>2, <2>4 DEF InReach
    <3>3. /\ SlotAfter(c.first, c.interval, after) > after
          /\ \E k \in Nat \ {0} : SlotAfter(c.first, c.interval, after) = c.first + k * c.interval
      BY <2>2, <3>2, SlotIsNext
    <3> QED
      BY <1>2, <2>2, <3>1, <3>3 DEF Fire, Origin
  <2> QED
    BY <2>3, <2>4
<1> QED
  BY <1>1, <1>2

\* A one-shot core answers the first question, if at all.
LEMMA OneShotAnswer ==
  ASSUME NEW c \in Core, NEW after \in Int, c.kind \in {"once", "onceAt"}
  PROVE  LET r == CoreNext(c, after)
         IN  /\ r.core.kind = c.kind /\ r.core.scheduled
             /\ r.ok => ~c.scheduled
<1>1. CASE c.kind = "once"
  <2>1. c \in OnceCore
    BY <1>1 DEF Core, PeriodicAtCore, PeriodicCore, OnceAtCore
  <2>2. CoreNext(c, after) = OnceNext(c, after)
    BY <1>1 DEF CoreNext
  <2> QED
    BY <1>1, <2>1, <2>2 DEF OnceNext, OnceCore, Exhausted, Fire, Scheduled
<1>2. CASE c.kind = "onceAt"
  <2>1. c \in OnceAtCore
    BY <1>2 DEF Core, PeriodicAtCore, PeriodicCore, OnceCore
  <2>2. CoreNext(c, after) = OnceAtNext(c, after)
    BY <1>2 DEF CoreNext
  <2> QED
    BY <1>2, <2>1, <2>2 DEF OnceAtNext, OnceAtCore, Exhausted, Fire, Scheduled
<1> QED
  BY <1>1, <1>2

\* A multiple of an interval leaves no remainder.
LEMMA NoRemainder ==
  ASSUME NEW i \in Nat \ {0}, NEW k \in Int
  PROVE  (k * i) % i = 0
<1> DEFINE x == k * i
           q == x \div i
<1>1. x \in Int /\ q \in Int
  BY DivBounds
<1>2. q * i <= x /\ x < (q + 1) * i /\ x = q * i + (x % i)
  BY <1>1
<1> HIDE DEF q
<1>3. q < k + 1 /\ k < q + 1
  <2>1. q * i < (k + 1) * i
    BY <1>1, <1>2
  <2>2. k * i < (q + 1) * i
    BY <1>2
  <2> QED
    BY <1>1, <2>1, <2>2, FewerIntervals
<1>4. q = k
  BY <1>1, <1>3
<1>5. x % i \in Int
  BY <1>1
<1> QED
  BY <1>1, <1>2, <1>4, <1>5

\* Behind the anchor, where Go's truncating division no longer finds the nearest
\* slot, the answer is still aligned, strictly after the instant and not further
\* away than two intervals.
LEMMA SlotBehindAnchor ==
  ASSUME NEW anchor \in Int, NEW interval \in Interval, NEW after \in Int,
         after < anchor, anchor - after <= MaxDuration
  PROVE  LET slot == SlotAfter(anchor, interval, after)
         IN  /\ slot > after /\ slot - after <= 2 * interval
             /\ \E k \in Int : slot = anchor + k * interval
<1> DEFINE e == anchor - after
           q == e \div interval
           slot == SlotAfter(anchor, interval, after)
<1>1. e \in Nat \ {0} /\ -e \in Duration /\ interval \in Nat \ {0} /\ interval <= MaxDuration
  BY DEF Duration, MinDuration, Interval
<1>2. q \in Nat /\ q * interval <= e /\ e < (q + 1) * interval
  BY <1>1
<1>3. Sub(after, anchor) = -e
  BY <1>1, SubFits
<1>4. Quotient(-e, interval) = -q
  BY <1>1 DEF Quotient
<1>5. slot = anchor + Wrapped((1 - q) * interval)
  <2>1. -q + 1 = 1 - q
    BY <1>2
  <2> QED
    BY <1>3, <1>4, <2>1 DEF SlotAfter
<1> HIDE DEF q, slot
<1>6. /\ q * interval \in Nat /\ (1 - q) * interval \in Int
      /\ (1 - q) * interval = interval - q * interval
      /\ (q + 1) * interval = q * interval + interval
  BY <1>1, <1>2
<1>7. (1 - q) * interval \in Duration
  BY <1>1, <1>2, <1>6 DEF Duration, MinDuration
<1>8. slot = anchor + (1 - q) * interval
  BY <1>5, <1>7, WrappedFits
<1>9. slot > after /\ slot - after <= 2 * interval
  BY <1>1, <1>2, <1>6, <1>8
<1>10. 1 - q \in Int
  BY <1>2
<1> QED
  BY <1>8, <1>9, <1>10 DEF slot

\* On either side of the anchor the answer is aligned, strictly after the
\* instant and at most two intervals away: one, when the clock is not behind.
THEOREM SlotIsNear ==
  ASSUME NEW anchor \in Int, NEW interval \in Interval, NEW after \in Int,
         after - anchor + interval <= MaxDuration, anchor - after <= MaxDuration
  PROVE  LET slot == SlotAfter(anchor, interval, after)
         IN  /\ slot > after /\ slot - after <= 2 * interval
             /\ (slot - anchor) % interval = 0
<1> DEFINE slot == SlotAfter(anchor, interval, after)
<1>1. interval \in Nat \ {0}
  BY DEF Interval
<1>2. slot > after /\ slot - after <= 2 * interval /\ \E k \in Int : slot = anchor + k * interval
  <2>1. CASE after < anchor
    BY <2>1, SlotBehindAnchor
  <2>2. CASE after >= anchor
    <3>1. PICK k \in Nat \ {0} : slot = anchor + k * interval
      BY <2>2, SlotIsNext
    <3>2. slot > after
      BY <2>2, SlotIsNext
    <3>3. (k - 1) * interval \in Nat /\ k * interval = (k - 1) * interval + interval /\ k - 1 \in Nat
      BY <1>1
    <3>4. ~(anchor + (k - 1) * interval > after)
      <4>1. SUFFICES ASSUME anchor + (k - 1) * interval > after
                     PROVE  FALSE
        OBVIOUS
      <4>2. slot <= anchor + (k - 1) * interval
        BY <2>2, <3>3, <4>1, SlotIsNext
      <4> QED
        BY <1>1, <3>1, <3>3, <4>2
    <3> HIDE DEF slot
    <3> QED
      BY <1>1, <3>1, <3>2, <3>3, <3>4
  <2> QED
    BY <2>1, <2>2
<1>3. PICK k \in Int : slot = anchor + k * interval
  BY <1>2
<1>4. slot - anchor = k * interval
  <2>1. k * interval \in Int
    BY <1>1
  <2> QED
    BY <1>3, <2>1
<1>5. (slot - anchor) % interval = 0
  BY <1>1, <1>4, NoRemainder
<1> QED
  BY <1>2, <1>5

\* The number of that slot is itself within the reach of a duration.
LEMMA SlotIsCounted ==
  ASSUME NEW anchor \in Int, NEW interval \in Interval, NEW after \in Int,
         after >= anchor, after - anchor + interval <= MaxDuration
  PROVE  \E k \in 1 .. MaxDuration : SlotAfter(anchor, interval, after) = anchor + k * interval
<1> DEFINE slot == SlotAfter(anchor, interval, after)
<1>1. interval \in Nat \ {0}
  BY DEF Interval
<1>2. PICK k \in Nat \ {0} : slot = anchor + k * interval
  BY SlotIsNext
<1>3. \A m \in Nat : anchor + m * interval > after => slot <= anchor + m * interval
  BY SlotIsNext
<1> HIDE DEF slot
<1>4. /\ (k - 1) * interval \in Nat /\ k * interval = (k - 1) * interval + interval
      /\ k - 1 \in Nat /\ k <= k * interval
  BY <1>1
<1>5. ~(anchor + (k - 1) * interval > after)
  BY <1>1, <1>2, <1>3, <1>4
<1>6. k <= MaxDuration
  BY <1>1, <1>4, <1>5
<1> QED
  BY <1>2, <1>6 DEF slot
=============================================================================
