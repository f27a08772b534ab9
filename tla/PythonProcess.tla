----------------------------- MODULE PythonProcess -----------------------------
(***************************************************************************)
(* What the boundary promises: one Python process with every CMap          *)
(* installed, that runs each call of JavaScript once.  No CMap is ever     *)
(* missing, no call is run twice and nothing is rebuilt.  A document may   *)
(* be lost (it then refuses every operation), but is never another one.    *)
(***************************************************************************)
EXTENDS Operations

VARIABLES
    objects,  \* the objects JavaScript holds, by handle
    process,  \* the state of the process
    lost,     \* the documents that refuse every operation
    answer    \* the last answer: how the call ended, the page it gave

vars == <<objects, process, lost, answer>>

Answer(outcome, page) == [outcome |-> outcome, page |-> page]

Init ==
    /\ objects = <<>>
    /\ process = {}
    /\ lost = {}
    /\ answer = Answer("done", 0)

Open(h) ==
    /\ h \in Handles \ DOMAIN objects
    /\ objects' = With(objects, h, Document(h, <<Opening>>))
    /\ answer' = Answer("done", 0)
    /\ UNCHANGED <<process, lost>>

\* The operations rs of a call, in turn, up to the first that raises.
Ran(rs) ==
    LET run[i \in 0 .. Len(rs)] ==
          IF i = 0 THEN Start(rs, objects, process)
          ELSE IF run[i - 1].outcome # "done" THEN run[i - 1]
          ELSE Do(run[i - 1], rs[i], CMaps, lost)
    IN  run[Len(rs)]

Call(rs) ==
    /\ objects' = Ran(rs).objects
    /\ process' = Ran(rs).process
    /\ answer' = Answer(Ran(rs).outcome, Ran(rs).page)
    /\ UNCHANGED lost

Free(h) ==
    /\ h \in DOMAIN objects
    /\ objects' = Without(objects, FreedWith(objects, h))
    /\ lost' = lost \ {h}
    /\ answer' = Answer("done", 0)
    /\ UNCHANGED process

\* Documents are lost: their objects hold nothing any more.
Lose(ds) ==
    /\ ds \subseteq DocumentsOf(objects)
    /\ objects' = ResetAll(objects, ds)
    /\ lost' = lost \cup ds
    /\ UNCHANGED <<process, answer>>

Next ==
    \/ \E h \in Handles : Open(h) \/ Free(h)
    \/ \E rs \in RequestsOn(objects) : Call(rs)
    \/ \E ds \in SUBSET Handles : Lose(ds)

Spec == Init /\ [][Next]_vars

=============================================================================
