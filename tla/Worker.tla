-------------------------------- MODULE Worker --------------------------------
(***************************************************************************)
(* Worker mode (js/src/worker/client.ts, worker.ts): the jobs are queued in *)
(* the calling thread, which posts their requests one by one; the worker    *)
(* serves the messages it gets one by one, to their end, and posts a reply  *)
(* to each.  The worker may fail at any moment (an error event), and its    *)
(* owner may terminate it; either way every promise in wait is answered.   *)
(*                                                                         *)
(* How the worker serves a request is modelled in Runtime: here its answer  *)
(* is a response, an error (a CMap it could not fetch) or a crash.         *)
(***************************************************************************)
EXTENDS Serial

CONSTANTS
    Calls,    \* [Jobs -> Nat]: how many requests a job makes
    MayCrash  \* whether the instance may trap

ASSUME WorkerAssumption ==
    /\ Calls \in [Jobs -> Nat \ {0}]
    /\ MayCrash \in BOOLEAN

VARIABLES
    at,          \* the request a job is at
    client,      \* WorkerCore.start: "starting", "ready" or "failed"
    dead,        \* WorkerCore.dead
    next,        \* WorkerCore.next: the id of the next message
    waiting,     \* WorkerCore.waiting: id -> the job (NoJob: start itself)
    inbox,       \* the messages the worker has not served
    outbox,      \* the replies not delivered
    instance,    \* the worker's core: "none", "created" or "crashed"
    terminated   \* whether the worker was terminated

jobs == <<serial, at>>
thread == <<client, dead, next, waiting>>
worker == <<inbox, outbox, instance, terminated>>
vars == <<jobs, thread, worker>>

\* The id and the message of WorkerCore.start.
InitId == 1

Message(id, j) == [id |-> id, job |-> j, call |-> IF j = NoJob THEN 0 ELSE at[j]]
Reply(m, kind) == [id |-> m.id, job |-> m.job, call |-> m.call, kind |-> kind]

Init ==
    /\ SerialInit
    /\ at = [j \in Jobs |-> 1]
    /\ client = "starting" /\ dead = FALSE
    /\ next = InitId + 1
    /\ waiting = [id \in {InitId} |-> NoJob]
    /\ inbox = << [id |-> InitId, job |-> NoJob, call |-> 0] >>
    /\ outbox = <<>> /\ instance = "none" /\ terminated = FALSE

-----------------------------------------------------------------------------

\* WorkerCore.call and exclusive: the core was given to its callers.
Make(j) == client = "ready" /\ Run(j) /\ UNCHANGED <<at, thread, worker>>

Start(j) == StartJob(j) /\ UNCHANGED <<at, thread, worker>>

Posts(j) == stage[j] = "calling" /\ ~dead

\* callNow, up to the reply (post).
Post(j) ==
    /\ Posts(j)
    /\ Goes(j, "waiting")
    /\ waiting' = [id \in DOMAIN waiting \cup {next} |->
                     IF id = next THEN j ELSE waiting[id]]
    /\ inbox' = IF terminated THEN inbox ELSE Append(inbox, Message(next, j))
    /\ next' = next + 1
    /\ UNCHANGED <<at, client, dead, outbox, instance, terminated>>

\* post on a dead core.
PostRefused(j) ==
    /\ stage[j] = "calling"
    /\ dead
    /\ EndJobs({j}, "crash")
    /\ UNCHANGED <<at, thread, worker>>

-----------------------------------------------------------------------------

\* worker.ts `handle`, of the first message: what it can answer.
Answers(m) ==
    CASE m.job = NoJob -> {"ready", "error"}
      [] m.job # NoJob /\ instance = "created" ->
           {"response", "error"} \cup (IF MayCrash THEN {"crash"} ELSE {})
      [] m.job # NoJob /\ instance # "created" -> {"crash"}

Serve ==
    /\ ~terminated
    /\ inbox # <<>>
    /\ \E kind \in Answers(Head(inbox)) :
         /\ outbox' = Append(outbox, Reply(Head(inbox), kind))
         /\ instance' = CASE kind = "ready" -> "created"
                          [] kind = "crash" -> "crashed"
                          [] kind \in {"response", "error"} -> instance
    /\ inbox' = Tail(inbox)
    /\ UNCHANGED <<jobs, thread, terminated>>

-----------------------------------------------------------------------------

\* Mutation of the next: the requests in wait are not answered.
NoneInWait == {}

\* The jobs whose request waits for a reply.
InWait == {waiting[id] : id \in DOMAIN waiting} \ {NoJob}

\* What still waits once the core is dead.
NothingWaits == <<>>

\* WorkerCore.stop: every waiting request is answered with CoreCrash; start,
\* if it waits, rejects.
Stop ==
    /\ dead' = TRUE
    /\ terminated' = TRUE
    /\ waiting' = NothingWaits
    /\ client' = IF client = "starting" THEN "failed" ELSE client
    /\ EndJobs(InWait, "crash")

\* Mutation of the next: a crash is an error like another, the worker is kept.
StopsOnError(m) == m.job = NoJob /\ m.kind = "error"

\* callNow and start: the replies that stop the worker.
StopsOn(m) == m.kind = "crash" \/ (m.job = NoJob /\ m.kind = "error")

\* Mutation of the next: a reply is kept in wait.
WaitingKept(id) == waiting

WaitingAfter(id) == [k \in DOMAIN waiting \ {id} |-> waiting[k]]

\* Mutation of the next: one request too many.
HasNextOrLast(j) == at[j] <= Calls[j]

HasNext(j) == at[j] < Calls[j]

\* A reply to start, or to the request of a job: its answer, and the next
\* request or the end of the job; or an error, which rejects the call.
Resolve(m) ==
    /\ waiting' = WaitingAfter(m.id)
    /\ UNCHANGED <<dead, terminated>>
    /\ CASE m.kind = "ready" ->
              client' = "ready" /\ UNCHANGED jobs
         [] m.kind = "response" /\ HasNext(m.job) ->
              /\ Goes(m.job, "calling")
              /\ at' = [at EXCEPT ![m.job] = @ + 1]
              /\ UNCHANGED client
         [] m.kind = "response" /\ ~HasNext(m.job) ->
              EndJobs({m.job}, "answered") /\ UNCHANGED <<at, client>>
         [] m.kind \in {"error", "crash"} ->
              EndJobs({m.job}, "refused") /\ UNCHANGED <<at, client>>

\* worker.onmessage, and what runs before the next event.
Deliver ==
    /\ outbox # <<>>
    /\ outbox' = Tail(outbox)
    /\ UNCHANGED <<next, inbox, instance>>
    /\ LET m == Head(outbox) IN
       IF m.id \notin DOMAIN waiting
       THEN UNCHANGED <<jobs, client, dead, waiting, terminated>>
       ELSE IF StopsOn(m) THEN Stop /\ UNCHANGED at
       ELSE Resolve(m)

\* worker.onerror: the script could not load, or it failed.
WorkerFails ==
    /\ ~terminated
    /\ Stop
    /\ UNCHANGED <<at, next, inbox, outbox, instance>>

\* terminate, by the owner of the core (getCore, dropCore).
Terminate ==
    /\ client = "ready"
    /\ ~terminated
    /\ Stop
    /\ UNCHANGED <<at, next, inbox, outbox, instance>>

\* The replies of a terminated worker may never be delivered.
LoseReplies ==
    /\ terminated
    /\ outbox # <<>>
    /\ outbox' = <<>>
    /\ UNCHANGED <<jobs, thread, inbox, instance, terminated>>

-----------------------------------------------------------------------------

Next ==
    \/ \E j \in Jobs : Make(j)
    \/ \E j \in Jobs : Start(j)
    \/ \E j \in Jobs : Post(j)
    \/ \E j \in Jobs : PostRefused(j)
    \/ Serve
    \/ Deliver
    \/ WorkerFails
    \/ Terminate
    \/ LoseReplies

\* What the event loop of the calling thread runs for a job.
Turn(j) == Start(j) \/ Post(j) \/ PostRefused(j)

\* Promise callbacks run, the worker answers every message (`handle` catches
\* whatever it throws) and its replies arrive, unless it is terminated.
Fairness ==
    /\ \A j \in Jobs : WF_vars(Turn(j))
    /\ WF_vars(Serve)
    /\ WF_vars(Deliver)

Spec == Init /\ [][Next]_vars /\ Fairness

-----------------------------------------------------------------------------

\* The type of the state.
TypeOK ==
    /\ SerialTypeOK({"waiting"})
    /\ at \in [Jobs -> Nat] /\ \A j \in Jobs : at[j] \in 1 .. Calls[j]
    /\ client \in {"starting", "ready", "failed"}
    /\ dead \in BOOLEAN /\ terminated \in BOOLEAN
    /\ next \in Nat
    /\ DOMAIN waiting \subseteq 1 .. next - 1
    /\ instance \in {"none", "created", "crashed"}

\* The messages about a request, served or not.
About(id) ==
    {<<"in", i>> : i \in {i \in DOMAIN inbox : inbox[i].id = id}} \cup
    {<<"out", i>> : i \in {i \in DOMAIN outbox : outbox[i].id = id}}

(***************************************************************************)
(* No request waits for ever, and none gets another's reply (client.ts      *)
(* `waiting`): a job in wait has one id, about which one message is on its  *)
(* way, that of the very request it is at; once the core is dead nothing    *)
(* waits ("every waiting request is answered with a CoreCrash").           *)
(***************************************************************************)
EveryRequestIsAnswered ==
    /\ dead => DOMAIN waiting = {}
    /\ \A id \in DOMAIN waiting :
         /\ Cardinality(About(id)) = 1
         /\ waiting[id] # NoJob => stage[waiting[id]] = "waiting"
    /\ \A j \in Jobs :
         stage[j] = "waiting" => \E id \in DOMAIN waiting : waiting[id] = j
    /\ \A i \in DOMAIN outbox :
         LET m == outbox[i] IN
         m.id \in DOMAIN waiting /\ m.job # NoJob =>
           waiting[m.id] = m.job /\ at[m.job] = m.call

(***************************************************************************)
(* A worker whose instance crashed is stopped as soon as its reply arrives, *)
(* its memory with it, and so is one that did not start (client.ts          *)
(* `callNow`, `start`); a core is dead when its worker is stopped.         *)
(***************************************************************************)
CrashStopsTheWorker ==
    /\ dead <=> terminated
    /\ client = "failed" => terminated
    /\ instance = "crashed" =>
         \/ terminated
         \/ \E i \in DOMAIN outbox : outbox[i].kind = "crash"

(***************************************************************************)
(* A late reply changes nothing: once the core is dead, a job can only end  *)
(* with CoreCrash, and an end is never changed (client.ts `stop`).         *)
(***************************************************************************)
EndsOnce ==
    [][ \A j \in Jobs :
          outcome'[j] # outcome[j] =>
            outcome[j] = "none" /\ (dead => outcome'[j] = "crash") ]_vars

=============================================================================
