----------------------------- MODULE Supervision -----------------------------
(***************************************************************************)
(* What the scheduler promises to the program around it, without contexts, *)
(* timers, clocks or wait groups: a set of runners is launched once; a run *)
(* belongs to a runner; after a stop is requested no runner is launched; a *)
(* runner is retired between two runs, never in one, and before the stop   *)
(* only when its job is finite; a call that asks to drain is told          *)
(* "drained" only when no runner is left.                                  *)
(***************************************************************************)
CONSTANTS
  Jobs,         \* the jobs
  Finite,       \* those whose schedule ends by itself
  Callers       \* those who ask to drain

VARIABLES
  phase,        \* "new", "running" or "stopped"
  live,         \* the jobs with a runner
  busy,         \* those in a run
  answer        \* what each caller was told, "none" at first

svars == <<phase, live, busy, answer>>

Init ==
  /\ phase = "new"
  /\ live = {}
  /\ busy = {}
  /\ answer = [c \in Callers |-> "none"]

\* The runners are launched; a stop may already have been requested.
Launch ==
  /\ phase = "new"
  /\ live' \in SUBSET Jobs
  /\ phase' \in {"running", "stopped"}
  /\ UNCHANGED <<busy, answer>>

Begin(j) ==
  /\ j \in live \ busy
  /\ busy' = busy \cup {j}
  /\ UNCHANGED <<phase, live, answer>>

End(j) ==
  /\ j \in busy
  /\ busy' = busy \ {j}
  /\ UNCHANGED <<phase, live, answer>>

\* A run may also end with the request to stop: the job failed fatally.
Stop ==
  /\ phase = "running"
  /\ phase' = "stopped"
  /\ busy' = busy \/ \E j \in busy : busy' = busy \ {j}
  /\ UNCHANGED <<live, answer>>

Retire(j) ==
  /\ j \in live \ busy
  /\ phase = "stopped" \/ j \in Finite
  /\ live' = live \ {j}
  /\ UNCHANGED <<phase, busy, answer>>

Answer(c) ==
  /\ answer[c] = "none"
  /\ \/ /\ phase = "stopped"
        /\ live = {}
        /\ answer' = [answer EXCEPT ![c] = "drained"]
     \/ /\ phase = "stopped"
        /\ answer' = [answer EXCEPT ![c] = "timeout"]
     \/ /\ phase = "new"
        /\ answer' = [answer EXCEPT ![c] = "notStarted"]
  /\ UNCHANGED <<phase, live, busy>>

Next ==
  \/ Launch
  \/ Stop
  \/ \E j \in Jobs : Begin(j) \/ End(j) \/ Retire(j)
  \/ \E c \in Callers : Answer(c)

Spec == Init /\ [][Next]_svars
=============================================================================
