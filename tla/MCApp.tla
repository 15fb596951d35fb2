-------------------------------- MODULE MCApp --------------------------------
(* Instances of App. *)
EXTENDS App, TLC

CONSTANTS j1, j2        \* jobs

TwoNames == j1 :> "n1" @@ j2 :> "n2"
OneName == j1 :> "n1"

CleanupAndOnce == j1 :> Periodic(1) @@ j2 :> Once(0)
Cleanup == j1 :> Periodic(1)
=============================================================================
