--------------------------- MODULE MCScheduleDriver ---------------------------
(* Instances of ScheduleDriver: every kind of schedule, alone and delayed. *)
EXTENDS ScheduleDriver

Plains ==
  {Periodic(i) : i \in 1 .. 3} \cup {PeriodicAt(f, i) : f \in {-4, 0, 3}, i \in 2 .. 3}
    \cup {Once(d) : d \in {-1, 0, 2}} \cup {OnceAt(t) : t \in {0, 3}}

MCUniverse ==
  Plains \cup {Delayed(2, s) : s \in Plains}
    \cup {Delayed(d, Delayed(2, s)) : d \in {-1, 0, 1}, s \in {Periodic(2), Once(-1)}}

MCInstants == -2 .. 5
=============================================================================
