------------------------------ MODULE MCRuntime ------------------------------
(* The instances of Runtime for TLC: the jobs and what their calls need. *)
EXTENDS Runtime, TLC

CONSTANTS c1, c2, j1, j2, j3

\* A plain request; a job of two (search), the second of which needs a CMap;
\* a request that needs two, which it may miss one after the other.
MCCalls == j1 :> <<{c1}>> @@ j2 :> <<{}, {c2}>> @@ j3 :> <<{c1, c2}>>

\* A request that needs one CMap.
OneCall == j1 :> <<{c1}>> @@ j2 :> <<{}>>

=============================================================================
