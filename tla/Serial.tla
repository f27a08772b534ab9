-------------------------------- MODULE Serial --------------------------------
(***************************************************************************)
(* The queue of a core's jobs (class `Serial`, js/src/core/runtime.ts): each *)
(* job is chained to the promise of the job made before it, and starts once *)
(* that one has settled.  Runtime and Worker say what a started job does,   *)
(* and end it with EndJob.                                                 *)
(***************************************************************************)
EXTENDS Integers, Sequences, FiniteSets

CONSTANTS
    Jobs,    \* the jobs callers may make
    NoJob

ASSUME SerialAssumption == NoJob \notin Jobs

VARIABLES
    made,    \* the jobs made, in the order of the calls
    after,   \* the job whose end each job waits for (Serial.tail when it was made)
    stage,   \* where each job is
    outcome  \* how each job ended

serial == <<made, after, stage, outcome>>

Waiting == {"none", "queued"}

Outcomes == {"answered", "refused", "crash"}

Members(s) == {s[i] : i \in DOMAIN s}

Last(s) == IF s = <<>> THEN NoJob ELSE s[Len(s)]

SerialInit ==
    /\ made = <<>>
    /\ after = [j \in Jobs |-> NoJob]
    /\ stage = [j \in Jobs |-> "none"]
    /\ outcome = [j \in Jobs |-> "none"]

\* Serial.run: the job waits for the last one made, however that one ends.
Run(j) ==
    /\ stage[j] = "none"
    /\ made' = Append(made, j)
    /\ after' = [after EXCEPT ![j] = Last(made)]
    /\ stage' = [stage EXCEPT ![j] = "queued"]
    /\ UNCHANGED outcome

\* Mutations of the next: a job starts while the one before it waits for an
\* answer; it never starts after one that rejected.
FreeWhileWaiting ==
    {k \in Jobs : stage[k] \notin Waiting \cup {"calling"}}
FreeOnSuccess == {k \in Jobs : outcome[k] = "answered"}

\* The jobs whose promise is settled, resolved or rejected.
Settled == {k \in Jobs : outcome[k] # "none"}

StartJob(j) ==
    /\ stage[j] = "queued"
    /\ after[j] \in {NoJob} \cup Settled
    /\ stage' = [stage EXCEPT ![j] = "calling"]
    /\ UNCHANGED <<made, after, outcome>>

\* A started job goes on.
Goes(j, s) ==
    /\ stage' = [stage EXCEPT ![j] = s]
    /\ UNCHANGED <<made, after, outcome>>

\* The jobs js, which started, end with o.
EndJobs(js, o) ==
    /\ stage' = [j \in Jobs |-> IF j \in js THEN "done" ELSE stage[j]]
    /\ outcome' = [j \in Jobs |-> IF j \in js THEN o ELSE outcome[j]]
    /\ UNCHANGED <<made, after>>

\* The jobs that started and have not ended: they hold the core.
Holders == {j \in Jobs : stage[j] \notin Waiting \cup {"done"}}

-----------------------------------------------------------------------------

SerialTypeOK(stages) ==
    /\ made \in Seq(Jobs)
    /\ after \in [Jobs -> Jobs \cup {NoJob}]
    /\ stage \in [Jobs -> Waiting \cup stages \cup {"calling", "done"}]
    /\ outcome \in [Jobs -> Outcomes \cup {"none"}]

(***************************************************************************)
(* Requests run one at a time, "each to its end (the re-runs after a void   *)
(* call included) before the next starts" (runtime.ts `Core`): while a job  *)
(* waits for its CMaps or its worker no other job has the core, and a job   *)
(* starts only once every job made before it has ended.                    *)
(***************************************************************************)
OneAtATime ==
    /\ \A j, k \in Holders : j = k
    /\ \A i, k \in DOMAIN made :
         i < k /\ stage[made[k]] # "queued" => stage[made[i]] = "done"

\* The interface both kinds of core implement.
Interface == INSTANCE CoreJobs

(***************************************************************************)
(* What a core promises (runtime.ts `Core`, docs/js-runtime.md, "Jobs And   *)
(* Order"): whatever is void, missing or dead, its jobs end in the order    *)
(* they were made, and every one of them ends.                             *)
(***************************************************************************)
ImplementsCore == Interface!Spec

\* Its safety part.
ServesInOrder == Interface!Init /\ [][Interface!Next]_(Interface!vars)

=============================================================================
