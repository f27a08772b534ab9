----------------------------- MODULE RuntimeProofs -----------------------------
(***************************************************************************)
(* What holds of Runtime for any jobs, calls and CMaps, whatever fails and  *)
(* whenever the instance dies.                                             *)
(*                                                                         *)
(* FetchedOnce and NoLostFetch are not inductive: that a fetch is in the    *)
(* air exactly for the names in `loading` not handed over yet (InTheAir)    *)
(* gives both, with Awaited, what each job waits for.                      *)
(***************************************************************************)
EXTENDS Runtime, SerialProofs

\* The stages of a job that waits for CMaps.
Fetching == {"missing", "all"}

\* The names a fetch of which has not settled.
Pending == loading \ added

InTheAir == flights = [c \in CMaps |-> IF c \in Pending THEN 1 ELSE 0]

Awaited == wanted \in [Jobs -> SUBSET Pending]

\* A job is at one of its calls.
AtACall ==
    /\ at \in [Jobs -> Nat]
    /\ \A j \in Jobs : at[j] \in 1 .. Len(Calls[j])

Files ==
    /\ added \in SUBSET CMaps /\ loading \in SUBSET CMaps /\ failed \in SUBSET CMaps
    /\ unavailable \in SUBSET (CMaps \ added)
    /\ dead \in BOOLEAN

FetchInv == InTheAir /\ Awaited /\ AtACall /\ Files

RuntimeInv == SerialInv(Fetching) /\ FetchInv

-----------------------------------------------------------------------------

\* The calls of a job are a non-empty sequence.
LEMMA CallsOfAJob ==
    ASSUME NEW j \in Jobs
    PROVE  /\ Calls[j] \in Seq(SUBSET CMaps)
           /\ Len(Calls[j]) \in Nat \ {0}
           /\ DOMAIN Calls[j] = 1 .. Len(Calls[j])
<1>1. Calls[j] \in Seq(SUBSET CMaps) /\ Calls[j] # <<>>
  BY RuntimeAssumption
<1> QED BY <1>1

\* A job that waits or requests holds the core.
LEMMA HolderStages ==
    ASSUME NEW j \in Jobs, stage[j] \in Fetching \cup {"calling"}
    PROVE  j \in Holders
BY DEF Holders, Fetching, Waiting

\* The end of a job (EndJob) and its going on are steps of the queue.
LEMMA EndJobIsAQueueStep ==
    ASSUME NEW j \in Holders, NEW o \in Outcomes, EndJob(j, o)
    PROVE  QueueStep(Fetching)
BY DEF EndJob, QueueStep

\* So is what follows an answer, the next call or the end.
LEMMA ProceedIsAQueueStep ==
    ASSUME NEW j \in Holders, Proceed(j)
    PROVE  QueueStep(Fetching)
<1>1. CASE LastCall(j)
  BY <1>1, EndJobIsAQueueStep DEF Proceed, Outcomes
<1>2. CASE ~LastCall(j)
  BY <1>2 DEF Proceed, QueueStep
<1> QED BY <1>1, <1>2

\* So is the end of every job that waits for a fetch that failed.
LEMMA RejectsIsAQueueStep ==
    ASSUME NEW c, NEW o \in Outcomes, Rejects(c, o)
    PROVE  QueueStep(Fetching)
<1> DEFINE hit == {j \in Jobs : stage[j] = "missing" /\ c \in wanted[j]}
<1>1. hit \in SUBSET Holders
  BY DEF Holders, Waiting
<1>2. EndJobs(hit, o)
  BY DEF Rejects
<1> QED BY <1>1, <1>2 DEF QueueStep

\* Every step of the runtime is a step of its queue, or leaves it alone.
LEMMA RuntimeStepIsAQueueStep ==
    ASSUME [Next]_vars
    PROVE  QueueStep(Fetching)
<1>1. ASSUME NEW j \in Jobs, Make(j) PROVE QueueStep(Fetching)
  BY <1>1 DEF Make, QueueStep
<1>2. ASSUME NEW j \in Jobs, Start(j) PROVE QueueStep(Fetching)
  BY <1>2 DEF Start, QueueStep
<1>3. ASSUME NEW j \in Jobs, Answered(j) PROVE QueueStep(Fetching)
  BY <1>3, HolderStages, ProceedIsAQueueStep DEF Answered, Requests
<1>4. ASSUME NEW j \in Jobs, AnsweredLong(j) PROVE QueueStep(Fetching)
  <2>1. j \in Holders /\ Goes(j, "all")
    BY <1>4, HolderStages DEF AnsweredLong, Requests
  <2> QED BY <2>1 DEF QueueStep, Fetching
<1>5. ASSUME NEW j \in Jobs, Void(j) PROVE QueueStep(Fetching)
  <2>1. j \in Holders /\ Goes(j, "missing")
    BY <1>5, HolderStages DEF Void, Requests
  <2> QED BY <2>1 DEF QueueStep, Fetching
<1>6. ASSUME NEW j \in Jobs, Traps(j) PROVE QueueStep(Fetching)
  BY <1>6, HolderStages, EndJobIsAQueueStep DEF Traps, Requests, Outcomes
<1>7. ASSUME NEW j \in Jobs, Refused(j) PROVE QueueStep(Fetching)
  BY <1>7, HolderStages, EndJobIsAQueueStep DEF Refused, Outcomes
<1>8. ASSUME NEW j \in Jobs, RunAgain(j) PROVE QueueStep(Fetching)
  <2>1. j \in Holders /\ Goes(j, "calling")
    BY <1>8, HolderStages DEF RunAgain, Fetching
  <2> QED BY <2>1 DEF QueueStep
<1>9. ASSUME NEW j \in Jobs, LoadedAll(j) PROVE QueueStep(Fetching)
  BY <1>9, HolderStages, ProceedIsAQueueStep DEF LoadedAll, Fetching
<1>10. ASSUME NEW j \in Jobs, MarkTraps(j) PROVE QueueStep(Fetching)
  BY <1>10, HolderStages, EndJobIsAQueueStep DEF MarkTraps, Fetching, Outcomes
<1>11. ASSUME NEW c \in CMaps, Lands(c) PROVE QueueStep(Fetching)
  BY <1>11 DEF Lands, QueueStep
<1>12. ASSUME NEW c \in CMaps, Fails(c) PROVE QueueStep(Fetching)
  BY <1>12, RejectsIsAQueueStep DEF Fails, Outcomes
<1>13. ASSUME NEW c \in CMaps, LandsDead(c) PROVE QueueStep(Fetching)
  BY <1>13, RejectsIsAQueueStep DEF LandsDead, Outcomes
<1>14. CASE UNCHANGED vars
  BY <1>14 DEF vars, jobs, QueueStep
<1> QED BY <1>1, <1>2, <1>3, <1>4, <1>5, <1>6, <1>7, <1>8, <1>9, <1>10,
           <1>11, <1>12, <1>13, <1>14 DEF Next

-----------------------------------------------------------------------------

\* The fetches begin empty.
LEMMA FetchInvInit ==
    ASSUME Init
    PROVE  FetchInv
<1>1. AtACall
  BY CallsOfAJob DEF Init, AtACall
<1>2. InTheAir /\ Awaited
  BY DEF Init, InTheAir, Awaited, Pending
<1>3. Files
  BY DEF Init, Files
<1> QED BY <1>1, <1>2, <1>3 DEF FetchInv

\* The end of a job stops its waiting, and nothing else.
LEMMA EndJobKeepsAwaited ==
    ASSUME FetchInv, NEW j \in Jobs, NEW o, EndJob(j, o),
           UNCHANGED <<at, added, loading, flights>>
    PROVE  (InTheAir /\ Awaited /\ AtACall)'
BY DEF EndJob, FetchInv, InTheAir, Awaited, AtACall, Pending

\* After an answer a job is at one of its calls.
LEMMA ProceedKeepsFetches ==
    ASSUME FetchInv, NEW j \in Jobs, Proceed(j), UNCHANGED <<added, loading, flights>>
    PROVE  (InTheAir /\ Awaited /\ AtACall)'
<1>1. CASE LastCall(j)
  BY <1>1, EndJobKeepsAwaited DEF Proceed
<1>2. CASE ~LastCall(j)
  <2>1. at[j] + 1 \in 1 .. Len(Calls[j])
    BY <1>2, CallsOfAJob DEF FetchInv, AtACall, LastCall
  <2>2. AtACall'
    BY <1>2, <2>1 DEF Proceed, FetchInv, AtACall
  <2>3. (InTheAir /\ Awaited)'
    BY <1>2 DEF Proceed, FetchInv, InTheAir, Awaited, Pending
  <2> QED BY <2>2, <2>3
<1> QED BY <1>1, <1>2

\* A job that asks for names not added waits for a fetch of each, its own or
\* one it shares (addCMap).
LEMMA FetchKeepsFetches ==
    ASSUME FetchInv, NEW j \in Jobs, NEW names \in SUBSET (CMaps \ added),
           Fetch(names), wanted' = [wanted EXCEPT ![j] = names],
           UNCHANGED <<at, added>>
    PROVE  (InTheAir /\ Awaited /\ AtACall)'
<1>1. Pending' = Pending \cup names
  BY DEF Fetch, Pending
<1>2. InTheAir'
  <2>1. \A c \in CMaps :
          flights'[c] = IF c \in Pending \cup names THEN 1 ELSE 0
    BY DEF Fetch, FetchInv, InTheAir, Pending
  <2>2. flights' = [c \in CMaps |-> flights'[c]]
    BY DEF Fetch
  <2> QED BY <1>1, <2>1, <2>2 DEF InTheAir
<1>3. Awaited'
  BY <1>1 DEF FetchInv, Awaited
<1>4. AtACall'
  BY DEF FetchInv, AtACall
<1> QED BY <1>2, <1>3, <1>4

\* A fetch that fails is waited for no longer, and no longer shared.
LEMMA FailureKeepsFetches ==
    ASSUME FetchInv, NEW c \in CMaps, NEW o, flights[c] > 0, Rejects(c, o),
           flights' = [flights EXCEPT ![c] = @ - 1],
           loading' = LoadingAfter(c), UNCHANGED <<at, added>>
    PROVE  (InTheAir /\ Awaited /\ AtACall)'
<1>1. Pending' = Pending \ {c}
  BY DEF LoadingAfter, Pending
<1>2. InTheAir'
  BY <1>1 DEF FetchInv, InTheAir
<1>3. Awaited'
  BY <1>1 DEF FetchInv, Awaited, Rejects
<1>4. AtACall'
  BY DEF FetchInv, AtACall
<1> QED BY <1>2, <1>3, <1>4

\* Every step keeps what is said of the fetches.
LEMMA StepKeepsFetchInv ==
    ASSUME FetchInv, [Next]_vars
    PROVE  FetchInv'
<1> USE DEF FetchInv
<1>1. ASSUME NEW j \in Jobs, Make(j) PROVE FetchInv'
  BY <1>1 DEF Make, source, core, InTheAir, Awaited, AtACall, Files, Pending
<1>2. ASSUME NEW j \in Jobs, Start(j) PROVE FetchInv'
  BY <1>2 DEF Start, source, core, InTheAir, Awaited, AtACall, Files, Pending
<1>3. ASSUME NEW j \in Jobs, Answered(j) PROVE FetchInv'
  <2>1. Proceed(j) /\ UNCHANGED <<source, core>>
    BY <1>3 DEF Answered
  <2>2. Files'
    BY <2>1 DEF Files, source, core
  <2> QED BY <2>1, <2>2, ProceedKeepsFetches DEF source
<1>4. ASSUME NEW j \in Jobs, AnsweredLong(j) PROVE FetchInv'
  <2>1. Files'
    BY <1>4 DEF AnsweredLong, Fetch, Files, core
  <2>2. (InTheAir /\ Awaited /\ AtACall)'
    BY <1>4, FetchKeepsFetches DEF AnsweredLong
  <2> QED BY <2>1, <2>2
<1>5. ASSUME NEW j \in Jobs, Void(j) PROVE FetchInv'
  <2>1. PICK names \in SUBSET (CMaps \ added) :
               Fetch(names) /\ wanted' = [wanted EXCEPT ![j] = names]
    BY <1>5 DEF Void, Asks
  <2>2. UNCHANGED <<at, added, failed, core>>
    BY <1>5 DEF Void
  <2>3. Files'
    BY <2>1, <2>2 DEF Fetch, Files, core
  <2> QED BY <2>1, <2>2, <2>3, FetchKeepsFetches
<1>6. ASSUME NEW j \in Jobs, Traps(j) PROVE FetchInv'
  <2>1. Files'
    BY <1>6 DEF Traps, Files, source
  <2> QED BY <1>6, <2>1, EndJobKeepsAwaited DEF Traps, source
<1>7. ASSUME NEW j \in Jobs, Refused(j) PROVE FetchInv'
  <2>1. Files'
    BY <1>7 DEF Refused, Files, source, core
  <2> QED BY <1>7, <2>1, EndJobKeepsAwaited DEF Refused, source
<1>8. ASSUME NEW j \in Jobs, RunAgain(j) PROVE FetchInv'
  BY <1>8 DEF RunAgain, source, core, InTheAir, Awaited, AtACall, Files, Pending
<1>9. ASSUME NEW j \in Jobs, LoadedAll(j) PROVE FetchInv'
  <2>1. Proceed(j) /\ UNCHANGED <<source, dead>>
    BY <1>9 DEF LoadedAll
  <2>2. Files'
    BY <1>9 DEF LoadedAll, StillMissing, Files, source
  <2> QED BY <2>1, <2>2, ProceedKeepsFetches DEF source
<1>10. ASSUME NEW j \in Jobs, MarkTraps(j) PROVE FetchInv'
  <2>1. Files'
    BY <1>10 DEF MarkTraps, Files, source
  <2> QED BY <1>10, <2>1, EndJobKeepsAwaited DEF MarkTraps, source
<1>11. ASSUME NEW c \in CMaps, Lands(c) PROVE FetchInv'
  <2>1. Pending' = Pending \ {c}
    BY <1>11 DEF Lands, Pending
  <2>2. InTheAir'
    BY <1>11, <2>1 DEF Lands, InTheAir
  <2>3. Awaited'
    BY <1>11, <2>1 DEF Lands, Awaited
  <2>4. AtACall' /\ Files'
    BY <1>11 DEF Lands, AtACall, Files
  <2> QED BY <2>2, <2>3, <2>4
<1>12. ASSUME NEW c \in CMaps, Fails(c) PROVE FetchInv'
  <2>1. Files'
    BY <1>12 DEF Fails, LoadingAfter, Files, core
  <2>2. (InTheAir /\ Awaited /\ AtACall)'
    BY <1>12, FailureKeepsFetches DEF Fails
  <2> QED BY <2>1, <2>2
<1>13. ASSUME NEW c \in CMaps, LandsDead(c) PROVE FetchInv'
  <2>1. Files'
    BY <1>13 DEF LandsDead, LoadingAfter, Files
  <2>2. (InTheAir /\ Awaited /\ AtACall)'
    BY <1>13, FailureKeepsFetches DEF LandsDead
  <2> QED BY <2>1, <2>2
<1>14. CASE UNCHANGED vars
  BY <1>14 DEF vars, jobs, source, core, InTheAir, Awaited, AtACall, Files, Pending
<1> QED BY <1>1, <1>2, <1>3, <1>4, <1>5, <1>6, <1>7, <1>8, <1>9, <1>10,
           <1>11, <1>12, <1>13, <1>14 DEF Next

-----------------------------------------------------------------------------

\* The invariant holds in every state.
THEOREM RuntimeInvariant == Spec => []RuntimeInv
<1>1. Init => RuntimeInv
  BY SerialInvInit, FetchInvInit DEF Init, RuntimeInv
<1>2. RuntimeInv /\ [Next]_vars => RuntimeInv'
  BY RuntimeStepIsAQueueStep, QueueStepKeepsOrder, StepKeepsFetchInv DEF RuntimeInv
<1> QED BY <1>1, <1>2, PTL DEF Spec

\* Type correctness of the page's side of the core (runtime.ts).
THEOREM RuntimeTypeOK == Spec => []TypeOK
<1>1. RuntimeInv => TypeOK
  BY CallsOfAJob DEF RuntimeInv, SerialInv, FetchInv, InTheAir, Awaited, AtACall,
                     Files, Pending, TypeOK, Fetching
<1> QED BY <1>1, RuntimeInvariant, PTL

\* One job at a time holds the core, and jobs start in the order they were made,
\* for any number of jobs (runtime.ts `Serial`).
THEOREM RuntimeOneAtATime == Spec => []OneAtATime
<1>1. RuntimeInv => OneAtATime
  BY SerialInvImpliesOneAtATime DEF RuntimeInv
<1> QED BY <1>1, RuntimeInvariant, PTL

\* A CMap has one fetch in the air at most, and none once it was handed over
\* (runtime.ts `addCMap`).
THEOREM RuntimeFetchedOnce == Spec => []FetchedOnce
<1>1. RuntimeInv => FetchedOnce
  BY DEF RuntimeInv, FetchInv, InTheAir, Pending, FetchedOnce
<1> QED BY <1>1, RuntimeInvariant, PTL

\* Whoever waits for a CMap waits for a fetch in the air (runtime.ts
\* `loadMissing`, `loadAll`).
THEOREM RuntimeNoLostFetch == Spec => []NoLostFetch
<1>1. RuntimeInv => NoLostFetch
  BY DEF RuntimeInv, FetchInv, InTheAir, Awaited, Pending, NoLostFetch, Files
<1> QED BY <1>1, RuntimeInvariant, PTL

\* The runtime implements the interface of a core, as far as safety goes: each
\* of its steps makes a job, ends the first that has not ended, or is invisible
\* to the callers (runtime.ts `Core`).
THEOREM RuntimeServesInOrder == Spec => ServesInOrder
<1>1. Init => Interface!Init
  BY DEF Init, SerialInit, Interface!Init
<1>2. RuntimeInv /\ [Next]_vars => [Interface!Next]_(Interface!vars)
  BY RuntimeStepIsAQueueStep, QueueStepKeepsOrder DEF RuntimeInv
<1> QED BY <1>1, <1>2, RuntimeInvariant, PTL DEF Spec, ServesInOrder

-----------------------------------------------------------------------------

\* What a step must keep for AsksForAllOnce.
AllAskedFor ==
    /\ \A j \in Jobs : stage[j] = "all" /\ stage'[j] # "all" => Complete' \/ dead'
    /\ Complete => Complete'

\* What a step must keep for DeadIsDead.
StaysDead ==
    dead => /\ dead'
            /\ UNCHANGED <<added, unavailable>>
            /\ \A j \in Jobs :
                 stage[j] = "calling" /\ stage'[j] # "calling" => outcome'[j] = "crash"

\* The jobs a step on one job leaves alone.
LEMMA OthersStay ==
    ASSUME RuntimeInv, NEW j \in Jobs,
           Run(j) \/ StartJob(j) \/ Proceed(j)
             \/ (\E s : Goes(j, s)) \/ (\E o : EndJob(j, o))
    PROVE  \A k \in Jobs : k # j => stage'[k] = stage[k]
BY DEF Run, StartJob, Proceed, Goes, EndJob, EndJobs, RuntimeInv, SerialInv, SerialTypeOK

\* A fetch that fails ends only jobs that wait for a CMap they missed.
LEMMA OnlyMissersEnd ==
    ASSUME NEW c, NEW o, Rejects(c, o)
    PROVE  \A k \in Jobs : stage[k] # "missing" => stage'[k] = stage[k]
BY DEF Rejects, EndJobs

\* loadAll marks what it could not hand over, so no call asks for every CMap a
\* second time (runtime.ts `loadAll`).
THEOREM RuntimeAsksForAllOnce == Spec => AsksForAllOnce
<1>1. ASSUME RuntimeInv, [Next]_vars
      PROVE  AllAskedFor \/ UNCHANGED vars
  <2>1. ASSUME NEW j \in Jobs, Make(j) PROVE AllAskedFor
    BY <1>1, <2>1, OthersStay DEF Make, Run, source, core, AllAskedFor, Complete
  <2>2. ASSUME NEW j \in Jobs, Start(j) PROVE AllAskedFor
    BY <1>1, <2>2, OthersStay DEF Start, StartJob, source, core, AllAskedFor, Complete
  <2>3. ASSUME NEW j \in Jobs, Answered(j) PROVE AllAskedFor
    BY <1>1, <2>3, OthersStay DEF Answered, Requests, source, core, AllAskedFor, Complete
  <2>4. ASSUME NEW j \in Jobs, AnsweredLong(j) PROVE AllAskedFor
    <3>1. \A k \in Jobs : k # j => stage'[k] = stage[k]
      BY <1>1, <2>4, OthersStay DEF AnsweredLong
    <3>2. stage[j] = "calling" /\ UNCHANGED <<added, unavailable>>
      BY <2>4 DEF AnsweredLong, Requests, core
    <3> QED BY <3>1, <3>2 DEF AllAskedFor, Complete
  <2>5. ASSUME NEW j \in Jobs, Void(j) PROVE AllAskedFor
    <3>1. \A k \in Jobs : k # j => stage'[k] = stage[k]
      BY <1>1, <2>5, OthersStay DEF Void
    <3>2. stage[j] = "calling" /\ UNCHANGED <<added, unavailable>>
      BY <2>5 DEF Void, Requests, core
    <3> QED BY <3>1, <3>2 DEF AllAskedFor, Complete
  <2>6. ASSUME NEW j \in Jobs, Traps(j) PROVE AllAskedFor
    BY <1>1, <2>6, OthersStay DEF Traps, Requests, source, AllAskedFor, Complete
  <2>7. ASSUME NEW j \in Jobs, Refused(j) PROVE AllAskedFor
    BY <1>1, <2>7, OthersStay DEF Refused, source, core, AllAskedFor, Complete
  <2>8. ASSUME NEW j \in Jobs, RunAgain(j) PROVE AllAskedFor
    BY <1>1, <2>8, OthersStay DEF RunAgain, source, core, AllAskedFor, Complete
  <2>9. ASSUME NEW j \in Jobs, LoadedAll(j) PROVE AllAskedFor
    <3>1. Complete'
      BY <2>9 DEF LoadedAll, StillMissing, source, Complete
    <3> QED BY <3>1 DEF AllAskedFor
  <2>10. ASSUME NEW j \in Jobs, MarkTraps(j) PROVE AllAskedFor
    BY <2>10 DEF MarkTraps, source, AllAskedFor, Complete
  <2>11. ASSUME NEW c \in CMaps, Lands(c) PROVE AllAskedFor
    BY <2>11 DEF Lands, serial, AllAskedFor, Complete
  <2>12. ASSUME NEW c \in CMaps, Fails(c) PROVE AllAskedFor
    BY <2>12, OnlyMissersEnd DEF Fails, core, AllAskedFor, Complete
  <2>13. ASSUME NEW c \in CMaps, LandsDead(c) PROVE AllAskedFor
    BY <2>13, OnlyMissersEnd DEF LandsDead, AllAskedFor, Complete
  <2> QED BY <1>1, <2>1, <2>2, <2>3, <2>4, <2>5, <2>6, <2>7, <2>8, <2>9, <2>10,
             <2>11, <2>12, <2>13 DEF Next
<1>2. RuntimeInv /\ [Next]_vars =>
        [ /\ \A j \in Jobs :
               stage[j] = "all" /\ stage'[j] # "all" => Complete' \/ dead'
          /\ Complete => Complete' ]_vars
  BY <1>1 DEF AllAskedFor
<1> QED BY <1>2, RuntimeInvariant, PTL DEF Spec, AsksForAllOnce

\* Nothing reaches a dead core, and the jobs that have a call to make end with
\* CoreCrash (runtime.ts `guard`).
THEOREM RuntimeDeadIsDead == Spec => DeadIsDead
<1>1. ASSUME RuntimeInv, [Next]_vars
      PROVE  StaysDead \/ UNCHANGED vars
  <2>1. ASSUME NEW j \in Jobs, Make(j) PROVE StaysDead
    BY <1>1, <2>1, OthersStay DEF Make, Run, source, core, StaysDead
  <2>2. ASSUME NEW j \in Jobs, Start(j) PROVE StaysDead
    BY <1>1, <2>2, OthersStay DEF Start, StartJob, source, core, StaysDead
  <2>3. ASSUME NEW j \in Jobs, Answered(j) \/ AnsweredLong(j) \/ Void(j) \/ Traps(j)
        PROVE  StaysDead
    BY <2>3 DEF Answered, AnsweredLong, Void, Traps, Requests, StaysDead
  <2>4. ASSUME NEW j \in Jobs, Refused(j) PROVE StaysDead
    <3>1. outcome'[j] = "crash" /\ UNCHANGED <<added, unavailable, dead>>
      BY <2>4 DEF Refused, EndJob, EndJobs, source, core
    <3> QED BY <1>1, <2>4, <3>1, OthersStay DEF Refused, StaysDead
  <2>5. ASSUME NEW j \in Jobs, RunAgain(j) PROVE StaysDead
    BY <1>1, <2>5, OthersStay DEF RunAgain, source, core, StaysDead
  <2>6. ASSUME NEW j \in Jobs, LoadedAll(j) PROVE StaysDead
    <3>1. stage[j] = "all" /\ \A k \in Jobs : k # j => stage'[k] = stage[k]
      BY <1>1, <2>6, OthersStay DEF LoadedAll
    <3>2. dead' = dead /\ UNCHANGED added /\ (dead => unavailable' = unavailable)
      BY <2>6 DEF LoadedAll, source
    <3> QED BY <3>1, <3>2 DEF StaysDead
  <2>7. ASSUME NEW j \in Jobs, MarkTraps(j) PROVE StaysDead
    <3>1. stage[j] = "all" /\ \A k \in Jobs : k # j => stage'[k] = stage[k]
      BY <1>1, <2>7, OthersStay DEF MarkTraps
    <3> QED BY <2>7, <3>1 DEF MarkTraps, source, StaysDead
  <2>8. ASSUME NEW c \in CMaps, Lands(c) PROVE StaysDead
    BY <2>8 DEF Lands, StaysDead
  <2>9. ASSUME NEW c \in CMaps, Fails(c) PROVE StaysDead
    BY <2>9, OnlyMissersEnd DEF Fails, core, StaysDead
  <2>10. ASSUME NEW c \in CMaps, LandsDead(c) PROVE StaysDead
    BY <2>10, OnlyMissersEnd DEF LandsDead, StaysDead
  <2> QED BY <1>1, <2>1, <2>2, <2>3, <2>4, <2>5, <2>6, <2>7, <2>8, <2>9, <2>10
             DEF Next
<1>2. RuntimeInv /\ [Next]_vars =>
        [ dead => /\ dead'
                  /\ UNCHANGED <<added, unavailable>>
                  /\ \A j \in Jobs :
                       stage[j] = "calling" /\ stage'[j] # "calling" =>
                         outcome'[j] = "crash" ]_vars
  BY <1>1 DEF StaysDead
<1> QED BY <1>2, RuntimeInvariant, PTL DEF Spec, DeadIsDead

=============================================================================
