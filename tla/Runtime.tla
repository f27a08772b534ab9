------------------------------- MODULE Runtime -------------------------------
(***************************************************************************)
(* The page's side of the core (js/src/core/runtime.ts): the FIFO of jobs   *)
(* (Serial), the calls of a job, run again after a void run once the CMaps  *)
(* it missed are fetched and handed over (loadMissing), the hand-over of    *)
(* every CMap when the history is long (loadAll), and the death of the      *)
(* WebAssembly instance (guard).                                           *)
(*                                                                         *)
(* Fetches outlive the call that asked for them: loadMissing rejects at the *)
(* first one that fails, and the others land whenever they land, between    *)
(* the requests of other jobs.                                             *)
(*                                                                         *)
(* What a request answers is modelled in Boundary; here it is either final  *)
(* or void.  A Python exception is an answer.                              *)
(***************************************************************************)
EXTENDS Serial

CONSTANTS
    CMaps,      \* the names of the CMap source
    Calls,      \* [Jobs -> sequence of calls], a call: the CMaps it needs
    ScanFinds,  \* the names the core may guess at a void run (cmap_scan)
    MayCrash    \* whether the instance may trap

ASSUME RuntimeAssumption ==
    /\ Calls \in [Jobs -> Seq(SUBSET CMaps)]
    /\ \A j \in Jobs : Calls[j] # <<>>
    /\ ScanFinds \subseteq CMaps
    /\ MayCrash \in BOOLEAN

VARIABLES
    at,          \* the call a job is at
    wanted,      \* the fetches a job waits for, not settled yet
    added,       \* WasmCore.added
    loading,     \* WasmCore.loading: the names with a fetch to share
    flights,     \* how many fetches of each name are in the air
    unavailable, \* the names the core was told are unavailable
    dead,        \* WasmCore.dead
    failed       \* ghost: the names a fetch of which failed

jobs == <<serial, at, wanted>>
source == <<added, loading, flights, failed>>
core == <<unavailable, dead>>
vars == <<jobs, source, core>>

\* cmaps::complete: no call can be void any more.
Complete == CMaps \subseteq added \cup unavailable

Init ==
    /\ SerialInit
    /\ at = [j \in Jobs |-> 1]
    /\ wanted = [j \in Jobs |-> {}]
    /\ added = {} /\ loading = {} /\ failed = {}
    /\ flights = [c \in CMaps |-> 0]
    /\ unavailable = {} /\ dead = FALSE

-----------------------------------------------------------------------------

\* A caller makes a job (Core.call, Core.exclusive).
Make(j) == Run(j) /\ UNCHANGED <<at, wanted, source, core>>

Start(j) == StartJob(j) /\ UNCHANGED <<at, wanted, source, core>>

\* Mutation of the next: concurrent callers do not share the fetch.
FetchEach(names) ==
    /\ loading' = loading \cup names
    /\ flights' = [c \in CMaps |->
                     IF c \in names THEN flights[c] + 1 ELSE flights[c]]

\* addCMap, for each of names, none added yet: it is fetched unless a fetch of
\* it is shared.
Fetch(names) ==
    /\ loading' = loading \cup names
    /\ flights' = [c \in CMaps |->
                     IF c \in names \ loading THEN flights[c] + 1 ELSE flights[c]]

\* The job ends.
EndJob(j, o) ==
    /\ EndJobs({j}, o)
    /\ wanted' = [wanted EXCEPT ![j] = {}]

\* Mutation of the next: one call too many.
PastLastCall(j) == at[j] > Len(Calls[j])

LastCall(j) == at[j] = Len(Calls[j])

\* A call of the job is answered: its next one, or the end of the job.
Proceed(j) ==
    IF LastCall(j)
    THEN EndJob(j, "answered") /\ UNCHANGED at
    ELSE /\ Goes(j, "calling")
         /\ at' = [at EXCEPT ![j] = @ + 1]
         /\ UNCHANGED wanted

-----------------------------------------------------------------------------

\* callNow: a request of the job, on a live core.
Needs(j) == Calls[j][at[j]]

Requests(j) == stage[j] = "calling" /\ ~dead

\* The request is final.
Answered(j) ==
    /\ Requests(j)
    /\ Needs(j) \subseteq added
    /\ Proceed(j)
    /\ UNCHANGED <<source, core>>

\* It is final, and the history long: the job first hands over every CMap.
AnsweredLong(j) ==
    /\ Requests(j)
    /\ Needs(j) \subseteq added
    /\ ~Complete
    /\ Goes(j, "all")
    /\ wanted' = [wanted EXCEPT ![j] = CMaps \ added]
    /\ Fetch(CMaps \ added)
    /\ UNCHANGED <<at, added, failed, core>>

\* It is void: the core asks for some of the CMaps the call needs (a run that
\* goes without one may not reach the next), and may guess others.
Asks(j, names) ==
    /\ names \subseteq CMaps \ added
    /\ names \cap Needs(j) # {}
    /\ names \subseteq Needs(j) \cup ScanFinds

Void(j) ==
    /\ Requests(j)
    /\ \E names \in SUBSET CMaps :
         /\ Asks(j, names)
         /\ Goes(j, "missing")
         /\ wanted' = [wanted EXCEPT ![j] = names]
         /\ Fetch(names)
    /\ UNCHANGED <<at, added, failed, core>>

\* It traps: the core is dead.
Traps(j) ==
    /\ Requests(j)
    /\ MayCrash
    /\ dead' = TRUE
    /\ EndJob(j, "crash")
    /\ UNCHANGED <<at, source, unavailable>>

\* A request on a dead core.
Refused(j) ==
    /\ stage[j] = "calling"
    /\ dead
    /\ EndJob(j, "crash")
    /\ UNCHANGED <<at, source, core>>

\* loadMissing resolved: the request runs again.
RunAgain(j) ==
    /\ stage[j] = "missing"
    /\ wanted[j] = {}
    /\ Goes(j, "calling")
    /\ UNCHANGED <<at, wanted, source, core>>

\* Mutation of the next: the files that cannot be fetched are not marked.
NoneMissing == {}

\* The names loadAll could not hand over, which it marks unavailable.
StillMissing == CMaps \ added

\* loadAll settled: the names it could not hand over are marked.
LoadedAll(j) ==
    /\ stage[j] = "all"
    /\ wanted[j] = {}
    /\ dead => StillMissing = {}
    /\ unavailable' = unavailable \cup StillMissing
    /\ Proceed(j)
    /\ UNCHANGED <<source, dead>>

\* cmap_unavailable traps, or the core is dead.
MarkTraps(j) ==
    /\ stage[j] = "all"
    /\ wanted[j] = {}
    /\ StillMissing # {}
    /\ dead \/ MayCrash
    /\ dead' = TRUE
    /\ EndJob(j, "crash")
    /\ UNCHANGED <<at, source, unavailable>>

-----------------------------------------------------------------------------

\* A fetch lands and the file is handed over (cmap_add).
Lands(c) ==
    /\ flights[c] > 0
    /\ ~dead
    /\ flights' = [flights EXCEPT ![c] = @ - 1]
    /\ added' = added \cup {c}
    /\ unavailable' = unavailable \ {c}
    /\ wanted' = [j \in Jobs |-> wanted[j] \ {c}]
    /\ UNCHANGED <<serial, at, loading, dead, failed>>

\* Mutation of the next: a failed fetch stays to be shared.
LoadingKept(c) == loading

\* The fetches to share once that of c failed: the next to ask tries again.
LoadingAfter(c) == loading \ {c}

\* Whoever waits for c: a call that missed it rejects with o, loadAll goes on.
Rejects(c, o) ==
    LET hit == {j \in Jobs : stage[j] = "missing" /\ c \in wanted[j]} IN
    /\ EndJobs(hit, o)
    /\ wanted' = [j \in Jobs |-> IF j \in hit THEN {} ELSE wanted[j] \ {c}]

\* The fetch fails, or the core refuses the file.
Fails(c) ==
    /\ flights[c] > 0
    /\ flights' = [flights EXCEPT ![c] = @ - 1]
    /\ loading' = LoadingAfter(c)
    /\ failed' = failed \cup {c}
    /\ Rejects(c, "refused")
    /\ UNCHANGED <<at, added, core>>

\* It lands on a dead core, or its cmap_add traps.
LandsDead(c) ==
    /\ flights[c] > 0
    /\ dead \/ MayCrash
    /\ dead' = TRUE
    /\ flights' = [flights EXCEPT ![c] = @ - 1]
    /\ loading' = LoadingAfter(c)
    /\ Rejects(c, "crash")
    /\ UNCHANGED <<at, added, failed, unavailable>>

-----------------------------------------------------------------------------

\* What the event loop runs for a job.
Turn(j) ==
    \/ Start(j)
    \/ Answered(j)
    \/ AnsweredLong(j)
    \/ Void(j)
    \/ Traps(j)
    \/ Refused(j)
    \/ RunAgain(j)
    \/ LoadedAll(j)
    \/ MarkTraps(j)

\* A fetch settles.
Settles(c) == Lands(c) \/ Fails(c) \/ LandsDead(c)

Next ==
    \/ \E j \in Jobs : Make(j)
    \/ \E j \in Jobs : Start(j)
    \/ \E j \in Jobs : Answered(j)
    \/ \E j \in Jobs : AnsweredLong(j)
    \/ \E j \in Jobs : Void(j)
    \/ \E j \in Jobs : Traps(j)
    \/ \E j \in Jobs : Refused(j)
    \/ \E j \in Jobs : RunAgain(j)
    \/ \E j \in Jobs : LoadedAll(j)
    \/ \E j \in Jobs : MarkTraps(j)
    \/ \E c \in CMaps : Lands(c)
    \/ \E c \in CMaps : Fails(c)
    \/ \E c \in CMaps : LandsDead(c)

\* Promise callbacks run, and every fetch settles (the browser's or the file
\* system's own timeouts); nothing obliges a caller to make a job.
Fairness ==
    /\ \A j \in Jobs : WF_vars(Turn(j))
    /\ \A c \in CMaps : WF_vars(Settles(c))

Spec == Init /\ [][Next]_vars /\ Fairness

-----------------------------------------------------------------------------

\* The type of the state.
TypeOK ==
    /\ SerialTypeOK({"missing", "all"})
    /\ at \in [Jobs -> Nat]
    /\ \A j \in Jobs : at[j] \in DOMAIN Calls[j]
    /\ wanted \in [Jobs -> SUBSET CMaps]
    /\ added \in SUBSET CMaps /\ loading \in SUBSET CMaps /\ failed \in SUBSET CMaps
    /\ flights \in [CMaps -> Nat]
    /\ unavailable \in SUBSET (CMaps \ added)
    /\ dead \in BOOLEAN

(***************************************************************************)
(* A CMap is fetched by one fetch at a time, whoever asks for it, and never *)
(* once it was handed over (runtime.ts `addCMap`: "once per name; concurrent *)
(* callers share the fetch").                                              *)
(***************************************************************************)
FetchedOnce ==
    \A c \in CMaps : flights[c] <= 1 /\ (flights[c] = 1 => c \notin added)

(***************************************************************************)
(* Whoever waits for a CMap waits for a fetch in the air: none was lost by  *)
(* the failure of another, the end of the job that began it or a crash      *)
(* (runtime.ts `addCMap`, `loadMissing`).                                  *)
(***************************************************************************)
NoLostFetch == \A j \in Jobs : \A c \in wanted[j] : flights[c] > 0

(***************************************************************************)
(* Every CMap is asked for once at most: when loadAll is over, the core has *)
(* each of them or was told that it is unavailable, and this stays so       *)
(* (runtime.ts `loadAll`: "no later call asks for every CMap again").      *)
(***************************************************************************)
AsksForAllOnce ==
    [][ /\ \A j \in Jobs :
             stage[j] = "all" /\ stage'[j] # "all" => Complete' \/ dead'
        /\ Complete => Complete' ]_vars

(***************************************************************************)
(* Nothing reaches a dead core: no CMap is added, none is marked, and a job *)
(* with a call to make ends with CoreCrash (runtime.ts `guard`).           *)
(***************************************************************************)
DeadIsDead ==
    [][ dead => /\ dead'
                /\ UNCHANGED <<added, unavailable>>
                /\ \A j \in Jobs :
                     stage[j] = "calling" /\ stage'[j] # "calling" =>
                       outcome'[j] = "crash" ]_vars

(***************************************************************************)
(* A job is refused only when a CMap one of its calls needs could not be    *)
(* fetched: a guess of the scan is "loaded for nothing" (cmap_scan.rs), no  *)
(* call depends on it.                                                     *)
(***************************************************************************)
GuessesAreFree ==
    \A j \in Jobs :
      outcome[j] = "refused" =>
        \E i \in DOMAIN Calls[j] : Calls[j][i] \cap failed # {}

=============================================================================
