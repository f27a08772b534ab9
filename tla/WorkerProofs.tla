----------------------------- MODULE WorkerProofs -----------------------------
(***************************************************************************)
(* What holds of worker mode for any jobs and any number of requests,       *)
(* whenever the worker fails, crashes or is terminated.                    *)
(*                                                                         *)
(* The queue is that of SerialProofs.  Of the messages, the invariant says  *)
(* that their ids rise from the next reply to the last request posted       *)
(* (Mail), so that no two have one id; that an id in wait and a job that    *)
(* waits are each other's (Waits); and that as long as the worker runs the  *)
(* ids in wait are those of the messages on their way (OnTheWay).          *)
(***************************************************************************)
EXTENDS Worker, SerialProofs, FiniteSetTheorems

\* A job that waits for a reply.
Posting == {"waiting"}

Messages == [id : Nat, job : Jobs \cup {NoJob}, call : Nat]

\* The replies: `ready` or an error to start, the others to a request.
Replies ==
    { r \in [id : Nat, job : Jobs \cup {NoJob}, call : Nat,
             kind : {"ready", "response", "error", "crash"}] :
        IF r.job = NoJob THEN r.kind \in {"ready", "error"} ELSE r.kind # "ready" }

\* The messages on their way, those of the worker first served first.
Mail ==
    /\ inbox \in Seq(Messages) /\ outbox \in Seq(Replies)
    /\ \A i, k \in DOMAIN inbox : i < k => inbox[i].id < inbox[k].id
    /\ \A i, k \in DOMAIN outbox : i < k => outbox[i].id < outbox[k].id
    /\ \A i \in DOMAIN outbox, k \in DOMAIN inbox : outbox[i].id < inbox[k].id

Sent == Members(inbox) \cup Members(outbox)

Waits ==
    /\ next \in Nat \ {0}
    /\ DOMAIN waiting \subseteq 1 .. next - 1
    /\ waiting \in [DOMAIN waiting -> Jobs \cup {NoJob}]
    /\ \A id, k \in DOMAIN waiting : waiting[id] = waiting[k] => id = k
    /\ \A id \in DOMAIN waiting :
         waiting[id] # NoJob => stage[waiting[id]] = "waiting"
    /\ \A j \in Jobs :
         stage[j] = "waiting" => \E id \in DOMAIN waiting : waiting[id] = j

OnTheWay ==
    /\ \A m \in Sent : m.id < next
    /\ \A m \in Sent : m.id \in DOMAIN waiting =>
         /\ m.job = waiting[m.id]
         /\ m.job # NoJob => m.call = at[m.job]
    /\ \A id \in DOMAIN waiting : \E m \in Sent : m.id = id
    /\ ~terminated => \A m \in Sent : m.id \in DOMAIN waiting

\* The state of the worker and of the core in the calling thread.
Ends ==
    /\ dead => DOMAIN waiting = {}
    /\ CrashStopsTheWorker

AtARequest ==
    /\ at \in [Jobs -> Nat]
    /\ \A j \in Jobs : at[j] \in 1 .. Calls[j]

Thread ==
    /\ client \in {"starting", "ready", "failed"}
    /\ dead \in BOOLEAN /\ terminated \in BOOLEAN
    /\ instance \in {"none", "created", "crashed"}

MailInv == Mail /\ Waits /\ OnTheWay /\ Ends /\ AtARequest /\ Thread

WorkerInv == SerialInv(Posting) /\ MailInv

-----------------------------------------------------------------------------

\* A job that waits or requests holds the core.
LEMMA HolderStages ==
    ASSUME NEW j \in Jobs, stage[j] \in {"waiting", "calling"}
    PROVE  j \in Holders
BY DEF Holders, Waiting

\* The jobs in wait hold the core: their end is a step of the queue (client.ts
\* `stop`).
LEMMA StopIsAQueueStep ==
    ASSUME Waits, Stop
    PROVE  QueueStep(Posting)
<1>1. InWait \in SUBSET Holders
  BY HolderStages DEF Waits, InWait
<1>2. EndJobs(InWait, "crash")
  BY DEF Stop
<1> QED BY <1>1, <1>2 DEF QueueStep, Outcomes

\* What a reply that does not stop the worker does to its job (client.ts
\* `callNow`, `start`): it goes on with its next request, or ends.
LEMMA ResolveCases ==
    ASSUME Waits, NEW m \in Replies, m.id \in DOMAIN waiting,
           m.job = waiting[m.id], ~StopsOn(m), Resolve(m)
    PROVE  \/ /\ m.job = NoJob
              /\ client' = "ready" /\ UNCHANGED jobs
           \/ /\ m.job \in Jobs /\ stage[m.job] = "waiting"
              /\ UNCHANGED client
              /\ \/ /\ HasNext(m.job)
                    /\ Goes(m.job, "calling")
                    /\ at' = [at EXCEPT ![m.job] = @ + 1]
                 \/ /\ \E o \in Outcomes : EndJobs({m.job}, o)
                    /\ UNCHANGED at
<1>1. CASE m.job = NoJob
  <2>1. m.kind = "ready"
    BY <1>1 DEF Replies, StopsOn
  <2> QED BY <1>1, <2>1 DEF Resolve
<1>2. CASE m.job # NoJob
  <2>1. m.job \in Jobs /\ stage[m.job] = "waiting"
    BY <1>2 DEF Waits
  <2>2. m.kind \in {"response", "error"}
    BY <1>2 DEF Replies, StopsOn
  <2>3. CASE m.kind = "response" /\ HasNext(m.job)
    BY <2>1, <2>3 DEF Resolve
  <2>4. CASE m.kind = "response" /\ ~HasNext(m.job)
    BY <2>1, <2>4 DEF Resolve, Outcomes
  <2>5. CASE m.kind = "error"
    BY <2>1, <2>5 DEF Resolve, Outcomes
  <2> QED BY <2>1, <2>2, <2>3, <2>4, <2>5
<1> QED BY <1>1, <1>2

\* Of the reply the thread gets first, what Mail and OnTheWay say.
LEMMA FirstReply ==
    ASSUME Mail, OnTheWay, outbox # <<>>
    PROVE  /\ Head(outbox) \in Replies
           /\ Head(outbox).id \in DOMAIN waiting =>
                Head(outbox).job = waiting[Head(outbox).id]
<1>1. outbox \in Seq(Replies) /\ Head(outbox) = outbox[1] /\ 1 \in DOMAIN outbox
  BY DEF Mail
<1>2. Head(outbox) \in Sent
  BY <1>1 DEF Sent, Members
<1> QED BY <1>1, <1>2 DEF OnTheWay

\* Every step of worker mode is a step of its queue, or leaves it alone.
LEMMA WorkerStepIsAQueueStep ==
    ASSUME WorkerInv, [Next]_vars
    PROVE  QueueStep(Posting)
<1> USE DEF WorkerInv, MailInv
<1>1. ASSUME NEW j \in Jobs, Make(j) PROVE QueueStep(Posting)
  BY <1>1 DEF Make, QueueStep
<1>2. ASSUME NEW j \in Jobs, Start(j) PROVE QueueStep(Posting)
  BY <1>2 DEF Start, QueueStep
<1>3. ASSUME NEW j \in Jobs, Post(j) PROVE QueueStep(Posting)
  <2>1. j \in Holders /\ Goes(j, "waiting")
    BY <1>3, HolderStages DEF Post, Posts
  <2> QED BY <2>1 DEF QueueStep, Posting
<1>4. ASSUME NEW j \in Jobs, PostRefused(j) PROVE QueueStep(Posting)
  <2>1. j \in Holders /\ EndJobs({j}, "crash")
    BY <1>4, HolderStages DEF PostRefused
  <2> QED BY <2>1 DEF QueueStep, Outcomes
<1>5. CASE Serve
  BY <1>5 DEF Serve, jobs, QueueStep
<1>6. CASE Deliver
  <2> DEFINE m == Head(outbox)
  <2>1. /\ outbox # <<>> /\ m \in Replies
        /\ m.id \in DOMAIN waiting => m.job = waiting[m.id]
    BY <1>6, FirstReply DEF Deliver
  <2>2. CASE m.id \notin DOMAIN waiting
    BY <1>6, <2>2 DEF Deliver, jobs, QueueStep
  <2>3. CASE m.id \in DOMAIN waiting /\ StopsOn(m)
    BY <1>6, <2>3, StopIsAQueueStep DEF Deliver
  <2>4. CASE m.id \in DOMAIN waiting /\ ~StopsOn(m)
    <3>1. Resolve(m)
      BY <1>6, <2>4 DEF Deliver
    <3>2. \/ UNCHANGED serial
          \/ m.job \in Holders /\ Goes(m.job, "calling")
          \/ m.job \in Holders /\ \E o \in Outcomes : EndJobs({m.job}, o)
      BY <2>1, <2>4, <3>1, ResolveCases, HolderStages DEF jobs
    <3> QED BY <3>2 DEF QueueStep
  <2> QED BY <2>2, <2>3, <2>4
<1>7. CASE WorkerFails
  BY <1>7, StopIsAQueueStep DEF WorkerFails
<1>8. CASE Terminate
  BY <1>8, StopIsAQueueStep DEF Terminate
<1>9. CASE LoseReplies
  BY <1>9 DEF LoseReplies, jobs, QueueStep
<1>10. CASE UNCHANGED vars
  BY <1>10 DEF vars, jobs, QueueStep
<1> QED BY <1>1, <1>2, <1>3, <1>4, <1>5, <1>6, <1>7, <1>8, <1>9, <1>10 DEF Next

-----------------------------------------------------------------------------

\* One message is on its way at first, that of `start` (client.ts).
LEMMA MailInvInit ==
    ASSUME Init
    PROVE  MailInv
<1> DEFINE m == [id |-> InitId, job |-> NoJob, call |-> 0]
<1>1. /\ inbox = <<m>> /\ outbox = <<>> /\ m \in Messages
      /\ waiting = [id \in {1} |-> NoJob] /\ next = 2
  BY DEF Init, InitId, Messages
<1>2. Mail
  BY <1>1 DEF Mail
<1>3. Sent = {m} /\ m.id = 1 /\ m.job = NoJob
  BY <1>1 DEF Sent, Members, InitId
<1>4. Waits
  BY <1>1 DEF Init, SerialInit, Waits
<1>5. OnTheWay
  BY <1>1, <1>3 DEF OnTheWay
<1>6. Ends /\ AtARequest /\ Thread
  <2>1. AtARequest
    BY WorkerAssumption DEF Init, AtARequest
  <2>2. Ends /\ Thread
    BY DEF Init, Ends, CrashStopsTheWorker, Thread
  <2> QED BY <2>1, <2>2
<1> QED BY <1>2, <1>4, <1>5, <1>6 DEF MailInv

\* A step of the queue that neither posts nor delivers keeps what is said of the
\* messages.
LEMMA QueueKeepsMailInv ==
    ASSUME MailInv, UNCHANGED <<at, thread, worker>>,
           \A k \in Jobs : stage'[k] = "waiting" <=> stage[k] = "waiting"
    PROVE  MailInv'
<1>1. Mail' /\ Sent' = Sent /\ Ends' /\ AtARequest' /\ Thread'
  BY DEF MailInv, Mail, Sent, Members, Ends, CrashStopsTheWorker, AtARequest, Thread,
         thread, worker
<1>2. Waits'
  BY DEF MailInv, Waits, thread
<1>3. OnTheWay'
  BY <1>1 DEF MailInv, OnTheWay, thread, worker
<1> QED BY <1>1, <1>2, <1>3 DEF MailInv

\* What the messages are made of.
LEMMA SentTypes ==
    ASSUME Mail
    PROVE  \A m \in Sent : m.id \in Nat /\ m.job \in Jobs \cup {NoJob}
<1>1. \A i \in DOMAIN inbox : inbox[i] \in Messages
  BY DEF Mail
<1>2. \A i \in DOMAIN outbox : outbox[i] \in Replies
  BY DEF Mail
<1>3. \A m \in Messages \cup Replies : m.id \in Nat /\ m.job \in Jobs \cup {NoJob}
  BY DEF Messages, Replies
<1> QED BY <1>1, <1>2, <1>3 DEF Sent, Members

\* A request posted is in wait under an id of its own (client.ts `post`).
LEMMA PostKeepsMailInv ==
    ASSUME WorkerInv, NEW j \in Jobs, Post(j)
    PROVE  MailInv'
<1> DEFINE m == Message(next, j)
<1> USE DEF WorkerInv, MailInv
<1>1. m = [id |-> next, job |-> j, call |-> at[j]]
  BY SerialAssumption DEF Message
<1>2. m \in Messages
  BY <1>1 DEF Messages, Waits, AtARequest
<1>3. ~terminated /\ ~dead
  BY DEF Post, Posts, Ends, CrashStopsTheWorker
<1>4. inbox' = Append(inbox, m) /\ outbox' = outbox /\ inbox \in Seq(Messages)
  BY <1>3 DEF Post, Mail
<1>5. Sent' = Sent \cup {m}
  BY <1>2, <1>4 DEF Sent, Members
<1>6. next \in Nat /\ next \notin DOMAIN waiting /\ next' = next + 1
  BY DEF Waits, Post
<1>7. /\ DOMAIN waiting' = DOMAIN waiting \cup {next}
      /\ waiting'[next] = j
      /\ \A id \in DOMAIN waiting : waiting'[id] = waiting[id]
      /\ waiting' \in [DOMAIN waiting' -> Jobs \cup {NoJob}]
  BY <1>6 DEF Post, Waits
<1>8. /\ stage[j] = "calling" /\ stage'[j] = "waiting" /\ at' = at
      /\ \A k \in Jobs : k # j => stage'[k] = stage[k]
  BY DEF Post, Posts, Goes, SerialInv, SerialTypeOK
<1>9. \A id \in DOMAIN waiting : waiting[id] # j
  BY <1>8, SerialAssumption DEF Waits
<1>10. \A x \in Sent : x.id < next
  BY DEF OnTheWay
<1>11. Mail'
  <2>1. \A i \in DOMAIN inbox : inbox[i].id < next
    BY <1>10 DEF Sent, Members
  <2>2. \A i \in DOMAIN outbox : outbox[i].id < next
    BY <1>10 DEF Sent, Members
  <2>3. inbox' \in Seq(Messages) /\ outbox' \in Seq(Replies)
    BY <1>2, <1>4 DEF Mail
  <2>4. \A i \in DOMAIN inbox' :
          \/ i \in DOMAIN inbox /\ inbox'[i] = inbox[i]
          \/ i = Len(inbox) + 1 /\ inbox'[i].id = next
    BY <1>1, <1>4
  <2>5. \A i, k \in DOMAIN inbox' : i < k => inbox'[i].id < inbox'[k].id
    BY <1>4, <2>1, <2>4 DEF Mail
  <2>6. \A i \in DOMAIN outbox', k \in DOMAIN inbox' : outbox'[i].id < inbox'[k].id
    BY <1>4, <2>2, <2>4 DEF Mail
  <2> QED BY <1>4, <2>3, <2>5, <2>6 DEF Mail
<1>12. Waits'
  <2>1. DOMAIN waiting' \subseteq 1 .. next' - 1 /\ next' \in Nat
    <3>1. next \in 1 .. next' - 1
      BY <1>6, <1>10 DEF OnTheWay, Waits, Post
    <3> QED BY <1>6, <1>7, <3>1 DEF Waits
  <2>2. \A id, k \in DOMAIN waiting' : waiting'[id] = waiting'[k] => id = k
    BY <1>7, <1>9 DEF Waits
  <2>3. \A id \in DOMAIN waiting' :
          waiting'[id] # NoJob => stage'[waiting'[id]] = "waiting"
    BY <1>7, <1>8, <1>9 DEF Waits
  <2>4. \A k \in Jobs :
          stage'[k] = "waiting" => \E id \in DOMAIN waiting' : waiting'[id] = k
    BY <1>7, <1>8 DEF Waits
  <2> QED BY <1>7, <2>1, <2>2, <2>3, <2>4 DEF Waits
<1>13. OnTheWay'
  <2>1. \A x \in Sent' : x.id < next'
    BY <1>1, <1>5, <1>6, <1>10, SentTypes
  <2>2. \A x \in Sent' : x.id \in DOMAIN waiting' =>
          x.job = waiting'[x.id] /\ (x.job # NoJob => x.call = at'[x.job])
    BY <1>1, <1>5, <1>6, <1>7, <1>8, <1>10 DEF OnTheWay
  <2>3. \A id \in DOMAIN waiting' : \E x \in Sent' : x.id = id
    BY <1>1, <1>5, <1>7 DEF OnTheWay
  <2>4. \A x \in Sent' : x.id \in DOMAIN waiting'
    BY <1>1, <1>3, <1>5, <1>7 DEF OnTheWay
  <2> QED BY <2>1, <2>2, <2>3, <2>4 DEF OnTheWay
<1>14. Ends' /\ AtARequest' /\ Thread'
  BY <1>3 DEF Post, Ends, CrashStopsTheWorker, AtARequest, Thread
<1> QED BY <1>11, <1>12, <1>13, <1>14

\* The worker serves the first message: its reply takes its place among the
\* messages on their way (worker.ts `handle`).
LEMMA ServeKeepsMailInv ==
    ASSUME MailInv, Serve
    PROVE  MailInv'
<1> DEFINE m == Head(inbox)
<1> USE DEF MailInv
<1>1. PICK kind \in Answers(m) :
        /\ outbox' = Append(outbox, Reply(m, kind))
        /\ instance' = CASE kind = "ready" -> "created"
                         [] kind = "crash" -> "crashed"
                         [] kind \in {"response", "error"} -> instance
  BY DEF Serve
<1> DEFINE r == Reply(m, kind)
<1>2. /\ inbox # <<>> /\ inbox' = Tail(inbox) /\ ~terminated
      /\ UNCHANGED <<stage, at, client, dead, next, waiting, terminated>>
  BY DEF Serve, jobs, serial, thread
<1>3. /\ inbox \in Seq(Messages) /\ outbox \in Seq(Replies)
      /\ m = inbox[1] /\ 1 \in DOMAIN inbox /\ m \in Messages
  BY <1>2 DEF Mail
<1>4. /\ r.id = m.id /\ r.job = m.job /\ r.call = m.call /\ r.kind = kind
      /\ r \in [id : {m.id}, job : {m.job}, call : {m.call}, kind : {kind}]
  BY DEF Reply
<1>5. kind \in IF m.job = NoJob THEN {"ready", "error"}
              ELSE {"response", "error", "crash"}
  BY DEF Answers
<1>6. r \in Replies
  BY <1>3, <1>4, <1>5 DEF Replies, Messages
<1>7. outbox' \in Seq(Replies) /\ inbox' \in Seq(Messages)
  BY <1>1, <1>2, <1>3, <1>6
<1>8. /\ \A i \in DOMAIN inbox' : i + 1 \in DOMAIN inbox /\ inbox'[i] = inbox[i + 1]
      /\ \A i \in DOMAIN inbox : i = 1 \/ (i - 1 \in DOMAIN inbox' /\ inbox'[i - 1] = inbox[i])
      /\ \A i \in DOMAIN outbox' :
           \/ i \in DOMAIN outbox /\ outbox'[i] = outbox[i]
           \/ i = Len(outbox) + 1 /\ outbox'[i] = r
      /\ \A i \in DOMAIN outbox : i \in DOMAIN outbox' /\ outbox'[i] = outbox[i]
      /\ Len(outbox) + 1 \in DOMAIN outbox' /\ outbox'[Len(outbox) + 1] = r
  BY <1>1, <1>2, <1>3, <1>6
<1>9. Mail'
  <2> DEFINE n == Len(outbox)
  <2>0. /\ n \in Nat /\ DOMAIN outbox = 1 .. n
        /\ \A i \in DOMAIN inbox' : i \in Nat \ {0}
    BY <1>3, <1>7
  <2>1. ASSUME NEW i \in DOMAIN inbox', NEW k \in DOMAIN inbox', i < k
        PROVE  inbox'[i].id < inbox'[k].id
    <3>1. i + 1 < k + 1
      BY <2>0, <2>1
    <3> QED BY <1>8, <3>1 DEF Mail
  <2>2. ASSUME NEW i \in DOMAIN outbox', NEW k \in DOMAIN outbox', i < k
        PROVE  outbox'[i].id < outbox'[k].id
    <3>1. i \in 1 .. n /\ outbox'[i] = outbox[i]
      BY <1>8, <2>0, <2>2
    <3>2. outbox[i].id < r.id
      BY <1>3, <1>4, <2>0, <3>1 DEF Mail
    <3> QED BY <1>8, <2>0, <2>2, <3>1, <3>2 DEF Mail
  <2>3. ASSUME NEW k \in DOMAIN inbox'
        PROVE  m.id < inbox'[k].id
    <3>1. 1 < k + 1
      BY <2>0
    <3> QED BY <1>3, <1>8, <3>1 DEF Mail
  <2>4. \A i \in DOMAIN outbox', k \in DOMAIN inbox' : outbox'[i].id < inbox'[k].id
    BY <1>3, <1>4, <1>7, <1>8, <2>3 DEF Mail
  <2> QED BY <1>7, <2>1, <2>2, <2>4 DEF Mail
<1>10. Waits'
  BY <1>2 DEF Waits
<1>11. OnTheWay'
  <2>1. \A x \in Sent' : \E y \in Sent :
          x.id = y.id /\ x.job = y.job /\ x.call = y.call
    BY <1>3, <1>4, <1>8 DEF Sent, Members
  <2>2. \A y \in Sent : \E x \in Sent' : x.id = y.id
    BY <1>3, <1>4, <1>8 DEF Sent, Members
  <2> QED BY <1>2, <2>1, <2>2 DEF OnTheWay
<1>12. Ends'
  <2>1. CASE kind = "crash"
    BY <1>2, <1>4, <1>8, <2>1 DEF Ends, CrashStopsTheWorker
  <2>2. CASE kind # "crash"
    <3>1. instance' = "crashed" => instance = "crashed"
      BY <1>1, <1>5, <2>2
    <3> QED BY <1>2, <1>8, <3>1 DEF Ends, CrashStopsTheWorker
  <2> QED BY <2>1, <2>2
<1>13. AtARequest' /\ Thread'
  BY <1>1, <1>2, <1>5 DEF AtARequest, Thread
<1> QED BY <1>9, <1>10, <1>11, <1>12, <1>13

\* The replies that are left when the first one is delivered.
LEMMA DeliverKeepsMail ==
    ASSUME Mail, outbox # <<>>, outbox' = Tail(outbox), inbox' = inbox
    PROVE  /\ Mail'
           /\ \A m \in Sent' : m \in Sent /\ m.id # Head(outbox).id
           /\ \A m \in Sent : m.id # Head(outbox).id => m \in Sent'
           /\ \A i \in DOMAIN outbox :
                i # 1 => i - 1 \in DOMAIN outbox' /\ outbox'[i - 1] = outbox[i]
<1>1. /\ inbox \in Seq(Messages) /\ outbox \in Seq(Replies)
      /\ outbox' \in Seq(Replies)
      /\ Head(outbox) = outbox[1] /\ 1 \in DOMAIN outbox
  BY DEF Mail
<1>2. /\ \A i \in DOMAIN outbox' :
           /\ i \in Nat \ {0} /\ i + 1 \in DOMAIN outbox
           /\ outbox'[i] = outbox[i + 1]
      /\ \A i \in DOMAIN outbox :
           i # 1 => i - 1 \in DOMAIN outbox' /\ outbox'[i - 1] = outbox[i]
  BY <1>1
<1>3. /\ \A i \in DOMAIN outbox : outbox[i].id \in Nat
      /\ \A i \in DOMAIN inbox : inbox[i].id \in Nat
  BY SentTypes DEF Sent, Members
<1>4. Mail'
  <2>1. ASSUME NEW i \in DOMAIN outbox', NEW k \in DOMAIN outbox', i < k
        PROVE  outbox'[i].id < outbox'[k].id
    <3>1. i + 1 < k + 1
      BY <1>2, <2>1
    <3> QED BY <1>2, <3>1 DEF Mail
  <2>2. \A i \in DOMAIN outbox', k \in DOMAIN inbox' : outbox'[i].id < inbox'[k].id
    BY <1>2 DEF Mail
  <2> QED BY <1>1, <2>1, <2>2 DEF Mail
<1>5. ASSUME NEW m \in Sent'
      PROVE  m \in Sent /\ m.id # Head(outbox).id
  <2>1. CASE m \in Members(inbox)
    <3>1. PICK k \in DOMAIN inbox : m = inbox[k]
      BY <2>1 DEF Members
    <3>2. outbox[1].id < inbox[k].id
      BY <1>1 DEF Mail
    <3> QED BY <1>1, <1>3, <2>1, <3>1, <3>2 DEF Sent
  <2>2. CASE m \in Members(outbox)'
    <3>1. PICK i \in DOMAIN outbox' : m = outbox'[i]
      BY <2>2 DEF Members
    <3>2. /\ i + 1 \in DOMAIN outbox /\ m = outbox[i + 1] /\ 1 < i + 1
      BY <1>2, <3>1
    <3>3. outbox[1].id < outbox[i + 1].id
      BY <1>1, <3>2 DEF Mail
    <3> QED BY <1>1, <1>3, <3>2, <3>3 DEF Sent, Members
  <2> QED BY <2>1, <2>2 DEF Sent, Members
<1>6. ASSUME NEW m \in Sent, m.id # Head(outbox).id
      PROVE  m \in Sent'
  <2>1. CASE m \in Members(inbox)
    BY <2>1 DEF Sent, Members
  <2>2. CASE m \in Members(outbox)
    <3>1. PICK i \in DOMAIN outbox : m = outbox[i]
      BY <2>2 DEF Members
    <3>2. i # 1
      BY <1>1, <1>6, <3>1
    <3> QED BY <1>2, <3>1, <3>2 DEF Sent, Members
  <2> QED BY <2>1, <2>2 DEF Sent
<1> QED BY <1>2, <1>4, <1>5, <1>6

\* A core that stops answers all that waits (client.ts `stop`).
LEMMA StopKeepsMailInv ==
    ASSUME MailInv, Stop, Mail', UNCHANGED <<at, next, instance>>,
           \A m \in Sent' : m \in Sent
    PROVE  MailInv'
<1> USE DEF MailInv
<1>1. waiting' = <<>> /\ DOMAIN waiting' = {} /\ dead' = TRUE /\ terminated' = TRUE
  BY DEF Stop, NothingWaits
<1>2. \A j \in Jobs : stage'[j] # "waiting"
  <2> TAKE j \in Jobs
  <2>1. CASE stage[j] = "waiting"
    <3>1. j \in InWait
      BY <2>1, SerialAssumption DEF Waits, InWait
    <3> QED BY <3>1 DEF Stop, EndJobs
  <2>2. CASE stage[j] # "waiting"
    BY <2>2 DEF Stop, EndJobs
  <2> QED BY <2>1, <2>2
<1>3. Waits'
  <2>1. waiting' \in [DOMAIN waiting' -> Jobs \cup {NoJob}]
    BY <1>1
  <2>2. next' \in Nat \ {0}
    BY DEF Waits
  <2> QED BY <1>1, <1>2, <2>1, <2>2 DEF Waits
<1>4. OnTheWay'
  BY <1>1 DEF OnTheWay
<1>5. Ends' /\ AtARequest' /\ Thread'
  BY <1>1 DEF Stop, Ends, CrashStopsTheWorker, AtARequest, Thread
<1> QED BY <1>3, <1>4, <1>5

\* A reply to what waits: its job goes on or ends, the others still wait
\* (client.ts `callNow`).
LEMMA ResolveKeepsMailInv ==
    ASSUME WorkerInv, outbox # <<>>, outbox' = Tail(outbox),
           UNCHANGED <<next, inbox, instance>>,
           Head(outbox).id \in DOMAIN waiting, ~StopsOn(Head(outbox)),
           Resolve(Head(outbox))
    PROVE  MailInv'
<1> DEFINE m == Head(outbox)
<1> USE DEF WorkerInv, MailInv
<1>1. m \in Replies /\ m.job = waiting[m.id]
  BY FirstReply
<1>2. /\ Mail'
      /\ \A x \in Sent' : x \in Sent /\ x.id # m.id
      /\ \A x \in Sent : x.id # m.id => x \in Sent'
      /\ \A i \in DOMAIN outbox :
           i # 1 => i - 1 \in DOMAIN outbox' /\ outbox'[i - 1] = outbox[i]
  BY DeliverKeepsMail
<1>3. /\ DOMAIN waiting' = DOMAIN waiting \ {m.id}
      /\ \A k \in DOMAIN waiting' : waiting'[k] = waiting[k] /\ waiting[k] # m.job
      /\ waiting' \in [DOMAIN waiting' -> Jobs \cup {NoJob}]
      /\ UNCHANGED <<dead, terminated>>
  BY <1>1 DEF Resolve, WaitingAfter, Waits
<1>4. ~dead /\ ~terminated
  BY DEF Ends, CrashStopsTheWorker
<1>5. /\ \A j \in Jobs : j # m.job => stage'[j] = stage[j] /\ at'[j] = at[j]
      /\ m.job \in Jobs => stage'[m.job] # "waiting"
      /\ AtARequest'
      /\ client' \in {client, "ready"}
  <2>1. CASE m.job = NoJob
    BY <1>1, <2>1, ResolveCases, SerialAssumption DEF jobs, serial, AtARequest
  <2>2. CASE m.job # NoJob /\ HasNext(m.job)
    <3>1. m.job \in Jobs /\ stage[m.job] = "waiting" /\ client' = client
      BY <1>1, <2>2, ResolveCases
    <3>2. CASE Goes(m.job, "calling") /\ at' = [at EXCEPT ![m.job] = @ + 1]
      <4>1. at[m.job] + 1 \in 1 .. Calls[m.job] /\ at[m.job] + 1 \in Nat
        BY <2>2, <3>1, WorkerAssumption DEF HasNext, AtARequest
      <4>2. AtARequest'
        BY <3>1, <3>2, <4>1 DEF AtARequest
      <4>3. stage' = [stage EXCEPT ![m.job] = "calling"]
        BY <3>2 DEF Goes
      <4> QED BY <3>1, <3>2, <4>2, <4>3 DEF AtARequest, SerialInv, SerialTypeOK
    <3>3. CASE (\E o \in Outcomes : EndJobs({m.job}, o)) /\ UNCHANGED at
      BY <3>1, <3>3 DEF EndJobs, AtARequest
    <3> QED BY <1>1, <2>2, <3>2, <3>3, ResolveCases
  <2>3. CASE m.job # NoJob /\ ~HasNext(m.job)
    <3>1. /\ m.job \in Jobs /\ client' = client /\ UNCHANGED at
          /\ \E o \in Outcomes : EndJobs({m.job}, o)
      BY <1>1, <2>3, ResolveCases
    <3> QED BY <3>1 DEF EndJobs, AtARequest
  <2> QED BY <2>1, <2>2, <2>3
<1>6. Waits'
  <2>1. \A id \in DOMAIN waiting' :
          waiting'[id] # NoJob => stage'[waiting'[id]] = "waiting"
    BY <1>3, <1>5 DEF Waits
  <2>2. \A j \in Jobs :
          stage'[j] = "waiting" => \E id \in DOMAIN waiting' : waiting'[id] = j
    BY <1>1, <1>3, <1>5 DEF Waits
  <2> QED BY <1>3, <2>1, <2>2 DEF Waits
<1>7. OnTheWay'
  <2>1. \A x \in Sent' : x.id \in DOMAIN waiting' =>
          x.job = waiting'[x.id] /\ (x.job # NoJob => x.call = at'[x.job])
    <3> TAKE x \in Sent'
    <3> HAVE x.id \in DOMAIN waiting'
    <3>1. x \in Sent /\ x.id \in DOMAIN waiting
      BY <1>2, <1>3
    <3>2. /\ x.job = waiting[x.id] /\ x.job # m.job
          /\ x.job # NoJob => x.call = at[x.job]
      BY <1>3, <3>1 DEF OnTheWay
    <3>3. x.job \in Jobs \cup {NoJob}
      BY <3>1, SentTypes
    <3> QED BY <1>3, <1>5, <3>2, <3>3
  <2>2. \A id \in DOMAIN waiting' : \E x \in Sent' : x.id = id
    BY <1>2, <1>3 DEF OnTheWay
  <2>3. \A x \in Sent' : x.id < next' /\ x.id \in DOMAIN waiting'
    BY <1>2, <1>3, <1>4 DEF OnTheWay
  <2> QED BY <2>1, <2>2, <2>3 DEF OnTheWay
<1>8. Ends'
  <2>1. instance = "crashed" => \E i \in DOMAIN outbox' : outbox'[i].kind = "crash"
    <3> HAVE instance = "crashed"
    <3>1. PICK i \in DOMAIN outbox : outbox[i].kind = "crash"
      BY <1>4 DEF Ends, CrashStopsTheWorker
    <3>2. i # 1
      BY <3>1 DEF StopsOn
    <3> QED BY <1>2, <3>1, <3>2
  <2> QED BY <1>3, <1>4, <1>5, <2>1 DEF Ends, CrashStopsTheWorker
<1>9. Thread'
  BY <1>3, <1>5 DEF Thread
<1> QED BY <1>2, <1>5, <1>6, <1>7, <1>8, <1>9

\* What is said of the messages is kept by every step.
LEMMA StepKeepsMailInv ==
    ASSUME WorkerInv, [Next]_vars
    PROVE  MailInv'
<1> USE DEF WorkerInv
<1>1. ASSUME NEW j \in Jobs, Make(j) PROVE MailInv'
  <2>1. \A k \in Jobs : stage'[k] = "waiting" <=> stage[k] = "waiting"
    BY <1>1 DEF Make, Run, SerialInv, SerialTypeOK
  <2> QED BY <1>1, <2>1, QueueKeepsMailInv DEF Make
<1>2. ASSUME NEW j \in Jobs, Start(j) PROVE MailInv'
  <2>1. \A k \in Jobs : stage'[k] = "waiting" <=> stage[k] = "waiting"
    BY <1>2 DEF Start, StartJob, SerialInv, SerialTypeOK
  <2> QED BY <1>2, <2>1, QueueKeepsMailInv DEF Start
<1>3. ASSUME NEW j \in Jobs, Post(j) PROVE MailInv'
  BY <1>3, PostKeepsMailInv
<1>4. ASSUME NEW j \in Jobs, PostRefused(j) PROVE MailInv'
  <2>1. \A k \in Jobs : stage'[k] = "waiting" <=> stage[k] = "waiting"
    BY <1>4 DEF PostRefused, EndJobs
  <2> QED BY <1>4, <2>1, QueueKeepsMailInv DEF PostRefused
<1>5. CASE Serve
  BY <1>5, ServeKeepsMailInv
<1>6. CASE Deliver
  <2> DEFINE m == Head(outbox)
  <2>1. /\ outbox # <<>> /\ outbox' = Tail(outbox)
        /\ UNCHANGED <<next, inbox, instance>>
    BY <1>6 DEF Deliver
  <2>2. /\ Mail'
        /\ \A x \in Sent' : x \in Sent /\ x.id # m.id
        /\ \A x \in Sent : x.id # m.id => x \in Sent'
    BY <2>1, DeliverKeepsMail DEF MailInv
  <2>3. CASE m.id \notin DOMAIN waiting
    <3>1. UNCHANGED <<jobs, client, dead, waiting, terminated>>
      BY <1>6, <2>3 DEF Deliver
    <3>2. terminated
      <4>1. m \in Sent
        BY <2>1 DEF MailInv, Mail, Sent, Members
      <4> QED BY <2>3, <4>1 DEF MailInv, OnTheWay
    <3>3. OnTheWay'
      BY <2>1, <2>2, <2>3, <3>1, <3>2 DEF MailInv, OnTheWay, jobs
    <3>4. Waits' /\ Ends' /\ AtARequest' /\ Thread'
      BY <2>1, <3>1, <3>2 DEF MailInv, Waits, Ends, CrashStopsTheWorker, AtARequest,
                              Thread, jobs, serial
    <3> QED BY <2>2, <3>3, <3>4 DEF MailInv
  <2>4. CASE m.id \in DOMAIN waiting /\ StopsOn(m)
    <3>1. Stop /\ UNCHANGED at
      BY <1>6, <2>4 DEF Deliver
    <3> QED BY <2>1, <2>2, <3>1, StopKeepsMailInv
  <2>5. CASE m.id \in DOMAIN waiting /\ ~StopsOn(m)
    <3>1. Resolve(m)
      BY <1>6, <2>5 DEF Deliver
    <3> QED BY <2>1, <2>5, <3>1, ResolveKeepsMailInv
  <2> QED BY <2>3, <2>4, <2>5
<1>7. CASE WorkerFails \/ Terminate
  <2>1. Stop /\ UNCHANGED <<at, next, inbox, outbox, instance>>
    BY <1>7 DEF WorkerFails, Terminate
  <2>2. Mail' /\ Sent' = Sent
    BY <2>1 DEF MailInv, Mail, Sent, Members
  <2> QED BY <2>1, <2>2, StopKeepsMailInv
<1>8. CASE LoseReplies
  <2>1. /\ terminated /\ outbox' = <<>>
        /\ UNCHANGED <<jobs, thread, inbox, instance, terminated>>
    BY <1>8 DEF LoseReplies
  <2>2. DOMAIN waiting = {}
    BY <2>1 DEF MailInv, Ends, CrashStopsTheWorker
  <2>3. Mail' /\ \A x \in Sent' : x \in Sent
    BY <2>1 DEF MailInv, Mail, Sent, Members
  <2>4. OnTheWay'
    BY <2>1, <2>2, <2>3 DEF MailInv, OnTheWay, thread
  <2>5. Waits' /\ Ends' /\ AtARequest' /\ Thread'
    BY <2>1 DEF MailInv, Waits, Ends, CrashStopsTheWorker, AtARequest, Thread,
                jobs, serial, thread
  <2> QED BY <2>3, <2>4, <2>5 DEF MailInv
<1>9. CASE UNCHANGED vars
  BY <1>9, QueueKeepsMailInv DEF vars, jobs, serial
<1> QED BY <1>1, <1>2, <1>3, <1>4, <1>5, <1>6, <1>7, <1>8, <1>9 DEF Next

-----------------------------------------------------------------------------

\* The invariant holds in every state.
THEOREM WorkerInvariant == Spec => []WorkerInv
<1>1. Init => WorkerInv
  BY SerialInvInit, MailInvInit DEF Init, WorkerInv
<1>2. WorkerInv /\ [Next]_vars => WorkerInv'
  <2> SUFFICES ASSUME WorkerInv, [Next]_vars PROVE WorkerInv'
    OBVIOUS
  <2>1. SerialInv(Posting)'
    BY WorkerStepIsAQueueStep, QueueStepKeepsOrder DEF WorkerInv
  <2> QED BY <2>1, StepKeepsMailInv DEF WorkerInv
<1> QED BY <1>1, <1>2, PTL DEF Spec

\* Type correctness of worker mode (client.ts, worker.ts).
THEOREM WorkerTypeOK == Spec => []TypeOK
<1>1. WorkerInv => TypeOK
  BY DEF WorkerInv, SerialInv, MailInv, Waits, AtARequest, Thread, TypeOK, Posting
<1> QED BY <1>1, WorkerInvariant, PTL

\* One job at a time holds the worker's core, and jobs start in the order they
\* were made, for any number of jobs and requests (client.ts, its Serial).
THEOREM WorkerOneAtATime == Spec => []OneAtATime
<1>1. WorkerInv => OneAtATime
  BY SerialInvImpliesOneAtATime DEF WorkerInv
<1> QED BY <1>1, WorkerInvariant, PTL

\* A core is dead when its worker is stopped, and a worker whose instance
\* crashed is stopped or has a reply on its way that will stop it (client.ts
\* `callNow`, `stop`).
THEOREM WorkerCrashStopsTheWorker == Spec => []CrashStopsTheWorker
<1>1. WorkerInv => CrashStopsTheWorker
  BY DEF WorkerInv, MailInv, Ends
<1> QED BY <1>1, WorkerInvariant, PTL

\* One message is about an id in wait.
LEMMA OneMessage ==
    ASSUME Mail, OnTheWay, NEW id \in DOMAIN waiting
    PROVE  Cardinality(About(id)) = 1
<1>1. inbox \in Seq(Messages) /\ outbox \in Seq(Replies)
  BY DEF Mail
<1>2. /\ \A i \in DOMAIN inbox : i \in Nat /\ inbox[i].id \in Nat
      /\ \A i \in DOMAIN outbox : i \in Nat /\ outbox[i].id \in Nat
  BY <1>1, SentTypes DEF Sent, Members
<1>3. /\ \A i, k \in DOMAIN inbox : inbox[i].id = inbox[k].id => i = k
      /\ \A i, k \in DOMAIN outbox : outbox[i].id = outbox[k].id => i = k
      /\ \A i \in DOMAIN outbox, k \in DOMAIN inbox : outbox[i].id # inbox[k].id
  <2>1. ASSUME NEW i \in DOMAIN inbox, NEW k \in DOMAIN inbox,
               inbox[i].id = inbox[k].id
        PROVE  i = k
    <3>1. ~(i < k) /\ ~(k < i)
      BY <1>2, <2>1 DEF Mail
    <3> QED BY <1>2, <3>1
  <2>2. ASSUME NEW i \in DOMAIN outbox, NEW k \in DOMAIN outbox,
               outbox[i].id = outbox[k].id
        PROVE  i = k
    <3>1. ~(i < k) /\ ~(k < i)
      BY <1>2, <2>2 DEF Mail
    <3> QED BY <1>2, <3>1
  <2>3. ASSUME NEW i \in DOMAIN outbox, NEW k \in DOMAIN inbox
        PROVE  outbox[i].id # inbox[k].id
    BY <1>2, <2>3 DEF Mail
  <2> QED BY <2>1, <2>2, <2>3
<1>4. PICK m \in Sent : m.id = id
  BY DEF OnTheWay
<1>5. \E x : About(id) = {x}
  <2>1. CASE m \in Members(inbox)
    <3>1. PICK i \in DOMAIN inbox : inbox[i].id = id
      BY <1>4, <2>1 DEF Members
    <3>2. About(id) = {<<"in", i>>}
      BY <1>3, <3>1 DEF About
    <3> QED BY <3>2
  <2>2. CASE m \in Members(outbox)
    <3>1. PICK i \in DOMAIN outbox : outbox[i].id = id
      BY <1>4, <2>2 DEF Members
    <3>2. About(id) = {<<"out", i>>}
      BY <1>3, <3>1 DEF About
    <3> QED BY <3>2
  <2> QED BY <1>4, <2>1, <2>2 DEF Sent
<1> QED BY <1>5, FS_Singleton

\* No request waits for ever and none gets another's reply, whatever number of
\* requests were posted (client.ts `waiting`).
THEOREM WorkerEveryRequestIsAnswered == Spec => []EveryRequestIsAnswered
<1>1. WorkerInv => EveryRequestIsAnswered
  <2> SUFFICES ASSUME WorkerInv PROVE EveryRequestIsAnswered
    OBVIOUS
  <2> USE DEF WorkerInv, MailInv
  <2>1. dead => DOMAIN waiting = {}
    BY DEF Ends
  <2>2. \A id \in DOMAIN waiting :
          /\ Cardinality(About(id)) = 1
          /\ waiting[id] # NoJob => stage[waiting[id]] = "waiting"
    BY OneMessage DEF Waits
  <2>3. \A j \in Jobs :
          stage[j] = "waiting" => \E id \in DOMAIN waiting : waiting[id] = j
    BY DEF Waits
  <2>4. \A i \in DOMAIN outbox : outbox[i] \in Sent
    BY DEF Sent, Members
  <2>5. \A i \in DOMAIN outbox :
          LET m == outbox[i] IN
          m.id \in DOMAIN waiting /\ m.job # NoJob =>
            waiting[m.id] = m.job /\ at[m.job] = m.call
    BY <2>4 DEF OnTheWay
  <2> QED BY <2>1, <2>2, <2>3, <2>5 DEF EveryRequestIsAnswered
<1> QED BY <1>1, WorkerInvariant, PTL

\* Worker mode implements the interface of a core, as far as safety goes: each
\* step makes a job, ends the first that has not ended, or is invisible to the
\* callers (runtime.ts `Core`).
THEOREM WorkerServesInOrder == Spec => ServesInOrder
<1>1. Init => Interface!Init
  BY DEF Init, SerialInit, Interface!Init
<1>2. WorkerInv /\ [Next]_vars => [Interface!Next]_(Interface!vars)
  BY WorkerStepIsAQueueStep, QueueStepKeepsOrder DEF WorkerInv
<1> QED BY <1>1, <1>2, WorkerInvariant, PTL DEF Spec, ServesInOrder

-----------------------------------------------------------------------------

\* What a step must keep for EndsOnce.
Final ==
    \A j \in Jobs :
      outcome'[j] # outcome[j] =>
        outcome[j] = "none" /\ (dead => outcome'[j] = "crash")

\* A job that has ended stays as it ended, in any step of the queue.
LEMMA EndsAreFinal ==
    ASSUME SerialInv(Posting), QueueStep(Posting), NEW j \in Jobs,
           outcome'[j] # outcome[j]
    PROVE  outcome[j] = "none"
<1>1. PICK js \in SUBSET Holders, o \in Outcomes : EndJobs(js, o)
  BY DEF QueueStep, Run, StartJob, Goes, serial
<1>2. j \in js
  BY <1>1 DEF EndJobs, SerialInv, SerialTypeOK
<1>3. stage[j] # "done"
  BY <1>2 DEF Holders
<1> QED BY <1>3 DEF SerialInv, Ended

\* Once the core is dead a step ends a job with CoreCrash, if any (client.ts
\* `post`, `stop`).
LEMMA OnlyCrashesOnceDead ==
    ASSUME WorkerInv, [Next]_vars, dead, NEW k \in Jobs, outcome'[k] # outcome[k]
    PROVE  outcome'[k] = "crash"
<1> USE DEF WorkerInv, MailInv
<1>1. DOMAIN waiting = {} /\ terminated
  BY DEF Ends, CrashStopsTheWorker
<1>2. ASSUME NEW j \in Jobs, PostRefused(j) PROVE outcome'[k] = "crash"
  BY <1>2 DEF PostRefused, EndJobs
<1>3. CASE Deliver
  BY <1>1, <1>3 DEF Deliver, jobs, serial
<1>4. CASE WorkerFails \/ Terminate
  BY <1>1, <1>4 DEF WorkerFails, Terminate
<1>5. CASE \E j \in Jobs : Make(j) \/ Start(j) \/ Post(j)
  BY <1>5 DEF Make, Start, Post, Run, StartJob, Goes
<1>6. CASE Serve \/ LoseReplies \/ UNCHANGED vars
  BY <1>6 DEF Serve, LoseReplies, vars, jobs, serial
<1> QED BY <1>2, <1>3, <1>4, <1>5, <1>6 DEF Next

\* An end is never changed, and a late reply ends nothing (client.ts `stop`).
THEOREM WorkerEndsOnce == Spec => EndsOnce
<1>1. WorkerInv /\ [Next]_vars => Final
  BY WorkerStepIsAQueueStep, EndsAreFinal, OnlyCrashesOnceDead DEF Final, WorkerInv
<1>2. WorkerInv /\ [Next]_vars => [Final]_vars
  BY <1>1
<1> QED BY <1>2, WorkerInvariant, PTL DEF Spec, EndsOnce, Final

=============================================================================
