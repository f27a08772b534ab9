------------------------------- MODULE CoreJobs -------------------------------
(***************************************************************************)
(* What a core promises its callers, in the page and in worker mode (the    *)
(* interface `Core`, js/src/core/runtime.ts): its jobs are queued in the    *)
(* order they are made, one is served at a time, and every job ends.  It    *)
(* does not say how a job is served: Runtime and Worker do.                *)
(***************************************************************************)
EXTENDS Integers, Sequences

CONSTANT
    Jobs     \* the jobs callers may make (a request is a job of one call)

VARIABLES
    made,    \* the jobs made so far, in the order of the calls
    outcome  \* how each job ended ("none": it has not)

vars == <<made, outcome>>

\* How a job ends: with the answers of the core, because a CMap could not be
\* fetched, or because the core crashed.
Outcomes == {"answered", "refused", "crash"}

Members(s) == {s[i] : i \in DOMAIN s}

\* Every job made before j has ended.
MyTurn(j) ==
    \E i \in DOMAIN made :
        /\ made[i] = j
        /\ \A k \in 1 .. i - 1 : outcome[made[k]] # "none"

Init ==
    /\ made = <<>>
    /\ outcome = [j \in Jobs |-> "none"]

Make(j) ==
    /\ j \notin Members(made)
    /\ made' = Append(made, j)
    /\ UNCHANGED outcome

End(j, o) ==
    /\ outcome[j] = "none"
    /\ MyTurn(j)
    /\ outcome' = [outcome EXCEPT ![j] = o]
    /\ UNCHANGED made

Next ==
    \/ \E j \in Jobs : Make(j)
    \/ \E j \in Jobs, o \in Outcomes : End(j, o)

\* The job whose turn it is ends.
Fairness == \A j \in Jobs : WF_vars(\E o \in Outcomes : End(j, o))

Spec == Init /\ [][Next]_vars /\ Fairness

=============================================================================
