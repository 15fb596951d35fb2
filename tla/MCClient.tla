------------------------------ MODULE MCClient ------------------------------
(* Instances of Client. *)
EXTENDS Client, TLC

CONSTANTS p1, t1, t2, r1, r2, b1    \* person, tokens, requests, tab

OneTab == b1 :> p1

\* Tokens are interchangeable: of two behaviours that differ in the order in
\* which they are drawn one is enough, also for liveness.
DrawnInOrder == t2 \in used => t1 \in used
=============================================================================
