----------------------------- MODULE SerialProofs -----------------------------
(***************************************************************************)
(* The order of the jobs of a core, for any jobs and whatever a started job *)
(* does: the lemmas RuntimeProofs and WorkerProofs rest on.                *)
(*                                                                         *)
(* OneAtATime is not inductive: that a job starts after all those made      *)
(* before it follows from its waiting for the last of them only because     *)
(* each waited for the one before it.  SerialInv adds that chain.          *)
(***************************************************************************)
EXTENDS Serial, TLAPS

\* The chain of the jobs made: each waits for the one before it, and is made
\* once.
Chain ==
    /\ \A j \in Jobs : stage[j] # "none" <=> \E i \in DOMAIN made : made[i] = j
    /\ \A i, k \in DOMAIN made : made[i] = made[k] => i = k
    /\ \A k \in DOMAIN made :
         after[made[k]] = IF k = 1 THEN NoJob ELSE made[k - 1]

\* A job has an outcome once it has ended.
Ended == \A j \in Jobs : outcome[j] # "none" <=> stage[j] = "done"

\* A job starts once every job made before it has ended.
InOrder ==
    \A i, k \in DOMAIN made :
        i < k /\ stage[made[k]] # "queued" => stage[made[i]] = "done"

SerialInv(stages) == SerialTypeOK(stages) /\ Chain /\ Ended /\ InOrder

-----------------------------------------------------------------------------

\* The invariant says that one job at a time holds the core (runtime.ts `Core`).
LEMMA SerialInvImpliesOneAtATime ==
    ASSUME NEW stages, SerialInv(stages)
    PROVE  OneAtATime
<1>1. ASSUME NEW j \in Holders, NEW k \in Holders
      PROVE  j = k
  <2>1. j \in Jobs /\ k \in Jobs /\ stage[j] \notin {"none", "queued", "done"}
                                 /\ stage[k] \notin {"none", "queued", "done"}
    BY DEF Holders, Waiting
  <2>2. PICK a \in DOMAIN made : made[a] = j
    BY <2>1 DEF SerialInv, Chain
  <2>3. PICK b \in DOMAIN made : made[b] = k
    BY <2>1 DEF SerialInv, Chain
  <2>4. a \in Int /\ b \in Int
    BY DEF SerialInv, SerialTypeOK
  <2>5. ~ a < b
    BY <2>1, <2>2, <2>3 DEF SerialInv, InOrder
  <2>6. ~ b < a
    BY <2>1, <2>2, <2>3 DEF SerialInv, InOrder
  <2>7. a = b
    BY <2>4, <2>5, <2>6
  <2> QED BY <2>2, <2>3, <2>7
<1>2. QED BY <1>1 DEF OneAtATime, SerialInv, InOrder

\* The invariant holds before any job is made.
LEMMA SerialInvInit ==
    ASSUME NEW stages, SerialInit
    PROVE  SerialInv(stages)
<1>1. made = <<>> /\ DOMAIN made = {}
  BY DEF SerialInit
<1>2. SerialTypeOK(stages)
  BY <1>1 DEF SerialInit, SerialTypeOK, Waiting, Outcomes
<1>3. Chain /\ InOrder
  BY <1>1 DEF Chain, InOrder, SerialInit
<1>4. Ended
  BY DEF Ended, SerialInit
<1> QED BY <1>2, <1>3, <1>4 DEF SerialInv

\* A job made last waits for the one made before it (Serial.run).
LEMMA RunKeepsSerialInv ==
    ASSUME NEW stages, SerialInv(stages), NEW j \in Jobs, Run(j)
    PROVE  SerialInv(stages)'
<1> DEFINE n == Len(made)
<1>1. made \in Seq(Jobs) /\ n \in Nat /\ DOMAIN made = 1 .. n
  BY DEF SerialInv, SerialTypeOK
<1>2. made' \in Seq(Jobs) /\ Len(made') = n + 1 /\ DOMAIN made' = 1 .. n + 1
  BY <1>1 DEF Run
<1>3. made'[n + 1] = j /\ \A i \in 1 .. n : made'[i] = made[i]
  BY <1>1 DEF Run
<1>4. \A i \in 1 .. n : made[i] # j /\ made[i] \in Jobs
  BY <1>1 DEF SerialInv, Chain, Run
<1>5. Last(made) = IF n = 0 THEN NoJob ELSE made[n]
  <2>1. n = 0 <=> made = <<>>
    BY <1>1
  <2> QED BY <2>1 DEF Last
<1>6. Last(made) \in Jobs \cup {NoJob}
  BY <1>1, <1>4, <1>5
<1>7. /\ \A k \in Jobs : k # j => stage'[k] = stage[k] /\ after'[k] = after[k]
      /\ stage'[j] = "queued" /\ after'[j] = Last(made)
      /\ outcome' = outcome
  BY DEF Run, SerialInv, SerialTypeOK
<1>8. SerialTypeOK(stages)'
  BY <1>2, <1>6 DEF SerialInv, SerialTypeOK, Run, Waiting
<1>9. Chain'
  <2>1. \A k \in Jobs :
          stage'[k] # "none" <=> \E i \in DOMAIN made' : made'[i] = k
    <3> SUFFICES ASSUME NEW k \in Jobs
                 PROVE stage'[k] # "none" <=> \E i \in 1 .. n + 1 : made'[i] = k
      BY <1>2
    <3>1. CASE k = j
      BY <3>1, <1>1, <1>3, <1>7
    <3>2. CASE k # j
      <4>1. stage[k] # "none" <=> \E i \in 1 .. n : made[i] = k
        BY <1>1 DEF SerialInv, Chain
      <4>2. (\E i \in 1 .. n : made[i] = k) <=> \E i \in 1 .. n + 1 : made'[i] = k
        BY <3>2, <1>1, <1>3
      <4> QED BY <3>2, <4>1, <4>2, <1>7
    <3> QED BY <3>1, <3>2
  <2>2. \A i, k \in DOMAIN made' : made'[i] = made'[k] => i = k
    <3>1. \A i, k \in 1 .. n : made[i] = made[k] => i = k
      BY <1>1 DEF SerialInv, Chain
    <3>2. \A i \in 1 .. n + 1 : i \in 1 .. n \/ i = n + 1
      BY <1>1
    <3> QED BY <1>2, <1>3, <1>4, <3>1, <3>2
  <2>3. \A k \in DOMAIN made' :
          after'[made'[k]] = IF k = 1 THEN NoJob ELSE made'[k - 1]
    <3> SUFFICES ASSUME NEW k \in 1 .. n + 1
                 PROVE after'[made'[k]] = IF k = 1 THEN NoJob ELSE made'[k - 1]
      BY <1>2
    <3>1. CASE k \in 1 .. n
      <4>1. after[made[k]] = IF k = 1 THEN NoJob ELSE made[k - 1]
        BY <3>1, <1>1 DEF SerialInv, Chain
      <4>2. k # 1 => made'[k - 1] = made[k - 1]
        BY <3>1, <1>1, <1>3
      <4> QED BY <3>1, <4>1, <4>2, <1>3, <1>4, <1>7
    <3>2. CASE k = n + 1
      <4>1. n # 0 => made'[k - 1] = made[n]
        BY <3>2, <1>1, <1>3
      <4>2. k = 1 <=> n = 0
        BY <3>2, <1>1
      <4> QED BY <3>2, <4>1, <4>2, <1>3, <1>5, <1>7
    <3> QED BY <3>1, <3>2, <1>1
  <2> QED BY <2>1, <2>2, <2>3 DEF Chain
<1>10. Ended'
  BY <1>7 DEF Ended, SerialInv, Run
<1>11. InOrder'
  <2> SUFFICES ASSUME NEW i \in 1 .. n + 1, NEW k \in 1 .. n + 1, i < k,
                      stage'[made'[k]] # "queued"
               PROVE stage'[made'[i]] = "done"
    BY <1>2 DEF InOrder
  <2>1. k # n + 1
    BY <1>3, <1>7
  <2>2. i \in 1 .. n /\ k \in 1 .. n
    BY <2>1, <1>1
  <2>3. stage'[made'[k]] = stage[made[k]] /\ stage'[made'[i]] = stage[made[i]]
    BY <2>2, <1>3, <1>4, <1>7
  <2> QED BY <2>2, <2>3, <1>1 DEF SerialInv, InOrder
<1> QED BY <1>8, <1>9, <1>10, <1>11 DEF SerialInv

\* A job that starts was waiting for the last of those made before it, which
\* have all ended.
LEMMA StartKeepsSerialInv ==
    ASSUME NEW stages, SerialInv(stages), NEW j \in Jobs, StartJob(j)
    PROVE  SerialInv(stages)'
<1>1. made \in Seq(Jobs) /\ DOMAIN made = 1 .. Len(made) /\ Len(made) \in Nat
  BY DEF SerialInv, SerialTypeOK
<1>2. /\ \A k \in Jobs : k # j => stage'[k] = stage[k]
      /\ stage[j] = "queued" /\ stage'[j] = "calling"
      /\ made' = made /\ after' = after /\ outcome' = outcome
  BY DEF StartJob, SerialInv, SerialTypeOK
<1>3. SerialTypeOK(stages)'
  BY DEF SerialInv, SerialTypeOK, StartJob
<1>4. Chain'
  BY <1>2 DEF SerialInv, Chain
<1>5. Ended'
  BY <1>2 DEF SerialInv, Ended
<1>6. InOrder'
  <2> SUFFICES ASSUME NEW i \in DOMAIN made, NEW k \in DOMAIN made, i < k,
                      stage'[made[k]] # "queued"
               PROVE stage'[made[i]] = "done"
    BY <1>2 DEF InOrder
  <2>1. made[i] \in Jobs /\ made[k] \in Jobs
    BY <1>1
  <2>2. stage[made[i]] = "done" => stage'[made[i]] = "done"
    BY <2>1, <1>2
  <2>3. CASE made[k] # j
    BY <2>1, <2>2, <2>3, <1>2 DEF SerialInv, InOrder
  <2>4. CASE made[k] = j
    <3>1. k # 1 /\ k - 1 \in DOMAIN made /\ after[j] = made[k - 1]
      BY <2>4, <1>1 DEF SerialInv, Chain
    <3>2. made[k - 1] \in Jobs /\ made[k - 1] # NoJob
      BY <3>1, <1>1, SerialAssumption
    <3>3. stage[made[k - 1]] = "done"
      BY <3>1, <3>2 DEF StartJob, Settled, SerialInv, Ended
    <3>4. CASE i = k - 1
      BY <3>3, <3>4, <2>2
    <3>5. CASE i < k - 1
      BY <3>1, <3>3, <3>5, <2>2 DEF SerialInv, InOrder
    <3> QED BY <3>4, <3>5, <1>1
  <2> QED BY <2>3, <2>4
<1> QED BY <1>3, <1>4, <1>5, <1>6 DEF SerialInv

\* What a job that holds the core does, short of ending, keeps the order.
LEMMA GoesKeepsSerialInv ==
    ASSUME NEW stages, SerialInv(stages), NEW j \in Jobs, j \in Holders,
           NEW s \in stages \cup {"calling"}, s \notin {"none", "queued", "done"},
           Goes(j, s)
    PROVE  SerialInv(stages)'
<1>1. /\ \A k \in Jobs : k # j => stage'[k] = stage[k]
      /\ stage[j] \notin {"none", "queued", "done"} /\ stage'[j] = s
      /\ made' = made /\ after' = after /\ outcome' = outcome
  BY DEF Goes, SerialInv, SerialTypeOK, Holders, Waiting
<1>2. SerialTypeOK(stages)'
  BY DEF SerialInv, SerialTypeOK, Goes
<1>3. Chain'
  BY <1>1 DEF SerialInv, Chain
<1>4. Ended'
  BY <1>1 DEF SerialInv, Ended
<1>5. \A i \in DOMAIN made : made[i] \in Jobs
  BY DEF SerialInv, SerialTypeOK
<1>6. InOrder'
  BY <1>1, <1>5 DEF SerialInv, InOrder
<1> QED BY <1>2, <1>3, <1>4, <1>6 DEF SerialInv

\* So do the jobs that end.
LEMMA EndKeepsSerialInv ==
    ASSUME NEW stages, SerialInv(stages), NEW js \in SUBSET Holders,
           NEW o \in Outcomes, EndJobs(js, o)
    PROVE  SerialInv(stages)'
<1>1. /\ \A k \in Jobs : k \notin js => stage'[k] = stage[k] /\ outcome'[k] = outcome[k]
      /\ \A k \in js : /\ k \in Jobs
                       /\ stage[k] \notin {"none", "queued", "done"}
                       /\ stage'[k] = "done" /\ outcome'[k] = o
      /\ made' = made /\ after' = after
  BY DEF EndJobs, Holders, Waiting
<1>2. SerialTypeOK(stages)'
  BY DEF SerialInv, SerialTypeOK, EndJobs
<1>3. Chain'
  BY <1>1 DEF SerialInv, Chain
<1>4. Ended'
  BY <1>1 DEF SerialInv, Ended, Outcomes
<1>5. \A i \in DOMAIN made : made[i] \in Jobs
  BY DEF SerialInv, SerialTypeOK
<1>6. InOrder'
  BY <1>1, <1>5 DEF SerialInv, InOrder
<1> QED BY <1>2, <1>3, <1>4, <1>6 DEF SerialInv

-----------------------------------------------------------------------------

\* The steps of the queue are steps of the interface (runtime.ts `Core`): a job
\* made is queued after the others.
LEMMA RunIsAStepOfTheInterface ==
    ASSUME NEW stages, SerialInv(stages), NEW j \in Jobs, Run(j)
    PROVE  Interface!Next
<1>1. j \notin Interface!Members(made)
  BY DEF Run, SerialInv, Chain, Interface!Members
<1>2. Interface!Make(j)
  BY <1>1 DEF Run, Interface!Make
<1> QED BY <1>2 DEF Interface!Next

\* The jobs that end are at most one, the first of those that have not ended.
LEMMA EndIsAStepOfTheInterface ==
    ASSUME NEW stages, SerialInv(stages), NEW js \in SUBSET Holders,
           NEW o \in Outcomes, EndJobs(js, o)
    PROVE  [Interface!Next]_(Interface!vars)
<1>1. outcome \in [Jobs -> Outcomes \cup {"none"}] /\ made' = made
  BY DEF SerialInv, SerialTypeOK, EndJobs
<1>2. CASE js = {}
  <2>1. outcome' = outcome
    BY <1>1, <1>2 DEF EndJobs
  <2> QED BY <1>1, <2>1 DEF Interface!vars
<1>3. CASE js # {}
  <2>1. PICK j \in js : TRUE
    BY <1>3
  <2>2. js = {j}
    BY <2>1, SerialInvImpliesOneAtATime DEF OneAtATime
  <2>3. j \in Jobs /\ stage[j] \notin {"none", "queued", "done"}
    BY <2>1 DEF Holders, Waiting
  <2>4. outcome[j] = "none"
    BY <2>3 DEF SerialInv, Ended
  <2>5. PICK i \in DOMAIN made : made[i] = j
    BY <2>3 DEF SerialInv, Chain
  <2>6. \A k \in 1 .. i - 1 : outcome[made[k]] # "none"
    <3> SUFFICES ASSUME NEW k \in 1 .. i - 1
                 PROVE outcome[made[k]] # "none"
      OBVIOUS
    <3>1. made \in Seq(Jobs)
      BY DEF SerialInv, SerialTypeOK
    <3>2. k \in DOMAIN made /\ k < i
      BY <3>1
    <3>3. stage[made[k]] = "done" /\ made[k] \in Jobs
      BY <3>1, <3>2, <2>3, <2>5 DEF SerialInv, InOrder
    <3> QED BY <3>3 DEF SerialInv, Ended
  <2>7. Interface!MyTurn(j)
    BY <2>5, <2>6 DEF Interface!MyTurn
  <2>8. outcome' = [outcome EXCEPT ![j] = o]
    BY <1>1, <2>2, <2>3 DEF EndJobs
  <2>9. Interface!End(j, o)
    BY <1>1, <2>4, <2>7, <2>8 DEF Interface!End
  <2> QED BY <2>3, <2>9 DEF Interface!Next, Interface!Outcomes, Outcomes
<1> QED BY <1>2, <1>3

\* What a step of a core does to its queue: a job is made, starts, goes on while
\* it holds the core, or jobs that hold it end; or nothing.
QueueStep(stages) ==
    \/ \E j \in Jobs : Run(j)
    \/ \E j \in Jobs : StartJob(j)
    \/ \E j \in Holders, s \in stages \cup {"calling"} :
         s \notin {"none", "queued", "done"} /\ Goes(j, s)
    \/ \E js \in SUBSET Holders, o \in Outcomes : EndJobs(js, o)
    \/ UNCHANGED serial

\* Any such step keeps the order, and is a step of the interface or a stutter
\* (runtime.ts `Serial`, whatever a started job does).
LEMMA QueueStepKeepsOrder ==
    ASSUME NEW stages, SerialInv(stages), QueueStep(stages)
    PROVE  SerialInv(stages)' /\ [Interface!Next]_(Interface!vars)
<1>1. CASE \E j \in Jobs : Run(j)
  BY <1>1, RunKeepsSerialInv, RunIsAStepOfTheInterface
<1>2. CASE \E j \in Jobs : StartJob(j)
  <2>1. PICK j \in Jobs : StartJob(j)
    BY <1>2
  <2>2. UNCHANGED Interface!vars
    BY <2>1 DEF StartJob, Interface!vars
  <2> QED BY <2>1, <2>2, StartKeepsSerialInv
<1>3. CASE \E j \in Holders, s \in stages \cup {"calling"} :
             s \notin {"none", "queued", "done"} /\ Goes(j, s)
  <2>1. PICK j \in Holders, s \in stages \cup {"calling"} :
               s \notin {"none", "queued", "done"} /\ Goes(j, s)
    BY <1>3
  <2>2. UNCHANGED Interface!vars
    BY <2>1 DEF Goes, Interface!vars
  <2>3. j \in Jobs
    BY DEF Holders
  <2> QED BY <2>1, <2>2, <2>3, GoesKeepsSerialInv
<1>4. CASE \E js \in SUBSET Holders, o \in Outcomes : EndJobs(js, o)
  BY <1>4, EndKeepsSerialInv, EndIsAStepOfTheInterface
<1>5. CASE UNCHANGED serial
  <2>1. UNCHANGED Interface!vars
    BY <1>5 DEF serial, Interface!vars
  <2>2. SerialInv(stages)'
    BY <1>5 DEF serial, SerialInv, SerialTypeOK, Chain, Ended, InOrder
  <2> QED BY <2>1, <2>2
<1> QED BY <1>1, <1>2, <1>3, <1>4, <1>5 DEF QueueStep

=============================================================================
