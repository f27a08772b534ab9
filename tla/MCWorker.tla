------------------------------- MODULE MCWorker -------------------------------
(* The instance of Worker for TLC: the requests of each job. *)
EXTENDS Worker, TLC

CONSTANTS j1, j2, j3

MCCalls == j1 :> 1 @@ j2 :> 2 @@ j3 :> 1

=============================================================================
