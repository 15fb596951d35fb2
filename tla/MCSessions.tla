----------------------------- MODULE MCSessions -----------------------------
(* Instances of Sessions. *)
EXTENDS Sessions

CONSTANTS p1, t1, r1, r2, f1, f2    \* a person, a token, requests, refreshes
=============================================================================
