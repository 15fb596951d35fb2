----------------------------- MODULE MCScheduler -----------------------------
(* Instances of Scheduler. *)
EXTENDS SchedulerProperties, TLC

CONSTANTS j1, j2, j3, j4, j5    \* jobs

\* Two jobs with names of their own; one with, two that share
\* a name, one without, and one that the slots run passes with nil arguments.
TwoNames == j1 :> "n1" @@ j2 :> "n2"
SharedNames == j1 :> "n1" @@ j2 :> "n2" @@ j3 :> "n2" @@ j4 :> "" @@ j5 :> "n3"

\* The schedules the runs give to the jobs.
PeriodicAndOnce == j1 :> Periodic(2) @@ j2 :> Once(1)
OneOfEach ==
    j1 :> Periodic(1) @@ j2 :> Delayed(1, PeriodicAt(-1, 2))
      @@ j3 :> Delayed(1, OnceAt(2)) @@ j4 :> Once(0) @@ j5 :> Once(1)

StepBothWays == {-1, 1}
=============================================================================
