------------------------------- MODULE Boundary -------------------------------
(***************************************************************************)
(* The WebAssembly boundary: the calls of JavaScript, the predefined CMaps  *)
(* it hands over, the void calls and the replays that undo them            *)
(* (crates/wasm/src/ops.rs, cmaps.rs).                                     *)
(*                                                                         *)
(* The core cannot wait for a CMap that JavaScript has not fetched.  A call *)
(* that asks for one runs without it and is void: the documents it reached *)
(* are rebuilt by replaying their history, the process is put back as it   *)
(* was, and JavaScript runs the call again once it has handed the CMap     *)
(* over.  Python, which has every CMap, runs it once (PythonProcess).      *)
(*                                                                         *)
(* The core runs on one thread: a call and the replay after it are cut into *)
(* one step per operation only to name each of them.  A handle is used     *)
(* again as soon as it is free, the worst case for whoever keeps it.       *)
(***************************************************************************)
EXTENDS Operations

CONSTANTS
    ScanFinds,    \* the CMaps the fonts of a document name (cmap_scan)
    HistoryLimit, \* history_limit: the length past which every CMap is wanted
    MaxDocuments, \* bound: the documents open at once
    MaxCalls      \* bound: the calls JavaScript makes, re-runs apart

ASSUME BoundaryAssumption ==
    /\ ScanFinds \subseteq CMaps
    /\ HistoryLimit \in Nat
    /\ MaxDocuments \in Nat
    /\ MaxCalls \in Nat

VARIABLES
    objects,     \* Core::handles
    oids,        \* Core::oids (Core::live is its inverse): handle -> identity
    nextOid,     \* Core::next_oid
    flags,       \* of each document: broken, unrecorded, scanned
    history,     \* Core::history
    process,     \* the state of the modeled process
    loaded,      \* cmaps::State::loaded
    unavailable, \* cmaps::State::unavailable
    phase,       \* "idle", "running" a call, "replaying" after a void one
    todo,        \* the operations of the running call still to run
    running,     \* the running call
    replay,      \* the entries still to replay
    failed,      \* whether a replay did not end as the first run did
    ghosts,      \* Core::ghosts: identity -> page, made again out of the table
    pending,     \* the call JavaScript will run again, the CMaps it missed
    answer,      \* the last answer to JavaScript
    long,        \* FLAG_HISTORY_LONG of the last answer
    calls,       \* how many calls were made
    before       \* ghost: the identities and the history at the call's start

documents == <<objects, oids, nextOid, flags, history>>
cmapState == <<loaded, unavailable>>
callState == <<phase, todo, running, replay, failed, ghosts, before>>
js == <<pending, answer, long>>
vars == <<documents, process, cmapState, callState, js, calls>>

NoCall == Start(<<>>, <<>>, {})
Nothing == [oids |-> <<>>, history |-> <<>>]
NoRequest == [request |-> <<>>, names |-> {}]
Answer(outcome, page) == [outcome |-> outcome, page |-> page]
NoFlags == [broken |-> FALSE, unrecorded |-> FALSE, scanned |-> FALSE]

Broken == {d \in DOMAIN flags : flags[d].broken}

\* cmaps::complete
Complete == CMaps \subseteq loaded \cup unavailable

\* The members of a sequence at the places S, in their order.
Selected(s, S) ==
    LET kept[i \in 0 .. Len(s)] ==
          IF i = 0 THEN <<>>
          ELSE IF i \in S THEN Append(kept[i - 1], s[i])
          ELSE kept[i - 1]
    IN  kept[Len(s)]

\* The places of the entries of a document.
Of(entries, d) == {i \in DOMAIN entries : entries[i].doc = d}
EntriesOf(entries, d) == Selected(entries, Of(entries, d))

Live(oid) == \E h \in DOMAIN oids : oids[h] = oid
HandleOf(oid) == CHOOSE h \in DOMAIN oids : oids[h] = oid

\* An entry of the history: an operation that reached a document.
Entry(op, cmap, target, created, d, start, outcome) ==
    [op |-> op, cmap |-> cmap, target |-> target, created |-> created, doc |-> d,
     call |-> calls, process |-> start, outcome |-> outcome]

\* Mutation of KeptFlags: no document is marked.
FlagsKept == flags

\* The history and the flags once a call starts (Core::call): when every CMap
\* was handed over, no call can be void any more, so the history goes.
KeptHistory == IF Complete THEN <<>> ELSE history
KeptFlags ==
    IF Complete /\ history # <<>>
    THEN [d \in DOMAIN flags |-> [flags[d] EXCEPT !.unrecorded = TRUE]]
    ELSE flags

-----------------------------------------------------------------------------

Init ==
    /\ objects = <<>> /\ oids = <<>> /\ nextOid = 1
    /\ flags = <<>> /\ history = <<>>
    /\ process = {}
    /\ loaded = {} /\ unavailable = {}
    /\ phase = "idle" /\ todo = <<>> /\ running = NoCall
    /\ replay = <<>> /\ failed = FALSE /\ ghosts = <<>>
    /\ pending = NoRequest /\ answer = Answer("done", 0) /\ long = FALSE
    /\ calls = 0
    /\ before = Nothing

\* JavaScript makes a call of its own: it has no call to run again.
NewCall ==
    /\ phase = "idle"
    /\ pending = NoRequest
    /\ calls < MaxCalls
    /\ calls' = calls + 1

\* doc_open (it asks for no CMap).
Open ==
    /\ NewCall
    /\ Cardinality(DocumentsOf(objects)) < MaxDocuments
    /\ ~ Handles \subseteq DOMAIN objects
    /\ LET h == Fresh(DOMAIN objects) IN
         /\ objects' = With(objects, h, Document(h, <<Opening>>))
         /\ oids' = With(oids, h, nextOid)
         /\ flags' = With(KeptFlags, h, [NoFlags EXCEPT !.unrecorded = Complete])
         /\ history' =
              IF Complete THEN <<>>
              ELSE Append(history, Entry("open", NoCMap, 0, <<nextOid>>, h,
                                         process, "done"))
    /\ nextOid' = nextOid + 1
    /\ answer' = Answer("done", 0)
    /\ long' = (Len(history') > HistoryLimit)
    /\ UNCHANGED <<process, cmapState, callState, pending>>

\* Mutation of the next: the calls of a freed document stay.
HistoryWithFreed(h) == KeptHistory

\* The history after an object is freed: the calls of a document go with it.
HistoryWithout(h) ==
    Selected(KeptHistory, DOMAIN KeptHistory \ Of(KeptHistory, h))

\* free: the calls that used a page stay in the history.  JavaScript never
\* frees a page of pdf.pages alone: it frees derived pages, and documents.
Free(h) ==
    /\ NewCall
    /\ h \in DOMAIN objects
    /\ objects[h].kind # "page"
    /\ LET gone == FreedWith(objects, h) IN
         /\ objects' = Without(objects, gone)
         /\ oids' = Without(oids, gone)
         /\ flags' = Without(KeptFlags, gone)
         /\ history' = HistoryWithout(h)
    /\ answer' = Answer("done", 0)
    /\ long' = (Len(history') > HistoryLimit)
    /\ UNCHANGED <<nextOid, process, cmapState, callState, pending>>

-----------------------------------------------------------------------------

\* Core::call: a request starts to run.
Begin(rs) ==
    /\ phase = "idle"
    /\ phase' = "running"
    /\ todo' = rs
    /\ running' = Start(rs, objects, process)
    /\ history' = KeptHistory
    /\ flags' = KeptFlags
    /\ before' = [oids |-> oids, history |-> KeptHistory]
    /\ UNCHANGED <<objects, oids, nextOid, process, cmapState, replay, failed,
                   ghosts, js>>

Call(rs) == NewCall /\ Begin(rs)

\* JavaScript handed over what the void call missed, and runs it again.
CallAgain ==
    /\ pending # NoRequest
    /\ pending.names \subseteq loaded
    /\ Begin(pending.request)
    /\ UNCHANGED calls

\* Core::run_op: the next operation of the call; once it reached its document
\* it is recorded, or the document is marked when nothing is recorded any more.
RunOp ==
    /\ phase = "running"
    /\ todo # <<>>
    /\ LET r == Head(todo)
           d == objects[r.on].doc
           ran == Do([running EXCEPT !.objects = objects, !.process = process],
                     r, loaded, Broken)
           new == DOMAIN ran.objects \ DOMAIN objects
           reached == d \notin Broken
       IN  /\ objects' = ran.objects
           /\ process' = ran.process
           /\ running' = [ran EXCEPT !.objects = running.objects,
                                     !.process = running.process]
           /\ oids' = [h \in DOMAIN oids \cup new |->
                         IF h \in new THEN nextOid ELSE oids[h]]
           /\ nextOid' = nextOid + Cardinality(new)
           /\ history' =
                IF reached /\ ~Complete
                THEN Append(history,
                            Entry(r.op, r.cmap, oids[r.on],
                                  IF new = {} THEN <<>> ELSE <<nextOid>>, d,
                                  process, ran.outcome))
                ELSE history
           /\ flags' =
                IF reached /\ Complete
                THEN [flags EXCEPT ![d].unrecorded = TRUE]
                ELSE flags
           /\ todo' = IF ran.outcome = "done" THEN Tail(todo) ELSE <<>>
    /\ UNCHANGED <<cmapState, phase, replay, failed, ghosts, before, js, calls>>

\* The call ends, nothing missing: its answer, or the exception it raised.
Respond ==
    /\ phase = "running"
    /\ todo = <<>>
    /\ running.missed = {}
    /\ phase' = "idle"
    /\ answer' = Answer(running.outcome, running.page)
    /\ long' = (Len(history) > HistoryLimit)
    /\ pending' = NoRequest
    /\ running' = NoCall
    /\ before' = Nothing
    /\ UNCHANGED <<documents, process, cmapState, todo, replay, failed, ghosts,
                   calls>>

\* The names a void call asks for: what it missed, and at the first void call
\* of a document the CMaps its fonts name.
Asked ==
    running.missed \cup
        IF \E d \in running.touched : ~flags[d].scanned
        THEN ScanFinds \ loaded
        ELSE {}

\* Mutation of Reached: the document of the first operation only.
ReachedOne == {objects[running.request[1].on].doc}

\* The documents the running call reached (Core::touched).
Reached == running.touched

\* The history without the entries of the running call.
KeptByVoid == Selected(history, {i \in DOMAIN history : history[i].call # calls})

\* The handles the running call made (Core::created), removed if it is void.
Made == {running.created[i] : i \in DOMAIN running.created}

\* Core::void: the call leaves the handle table and the history, the documents
\* it reached drop their state, and their history is about to be replayed.
Void ==
    /\ phase = "running"
    /\ todo = <<>>
    /\ running.missed # {}
    /\ LET unrecorded == \E d \in Reached : flags[d].unrecorded
       IN  /\ failed' = unrecorded
           /\ replay' = IF unrecorded THEN <<>>
                        ELSE Selected(KeptByVoid, UNION {Of(KeptByVoid, d) : d \in Reached})
    /\ objects' = ResetAll(Without(objects, Made), Reached)
    /\ oids' = Without(oids, Made)
    /\ history' = KeptByVoid
    /\ flags' = [d \in DOMAIN flags |->
                   IF d \in Reached THEN [flags[d] EXCEPT !.scanned = TRUE]
                   ELSE flags[d]]
    /\ pending' = [request |-> running.request, names |-> Asked]
    /\ running' = [running EXCEPT !.missed = {}]
    /\ phase' = "replaying"
    /\ UNCHANGED <<nextOid, process, cmapState, todo, ghosts, before, answer,
                   long, calls>>

\* Mutation of ProcessOf: each entry goes on from the process of the last one.
CurrentProcess(e) == process

\* The process state an entry is replayed from: that of its first run.
ProcessOf(e) == e.process

\* Core::replay_entry, of doc_open: the document is made again, in its slot.
ReplayOpen ==
    /\ phase = "replaying" /\ ~failed
    /\ replay # <<>>
    /\ Head(replay).op = "open"
    /\ LET e == Head(replay) IN
         /\ objects' = [objects EXCEPT ![e.doc] = Document(e.doc, <<Opening>>)]
         /\ flags' = [flags EXCEPT ![e.doc] = NoFlags]
         /\ process' = ProcessOf(e)
    /\ replay' = Tail(replay)
    /\ UNCHANGED <<oids, nextOid, history, cmapState, phase, todo, running,
                   failed, ghosts, before, js, calls>>

\* Core::replay_entry, of another operation: it runs from the process state
\* its first run started from, on its object or on the one made again out of
\* the table, and must end as its first run did.
ReplayOp ==
    /\ phase = "replaying" /\ ~failed
    /\ replay # <<>>
    /\ Head(replay).op # "open"
    /\ LET e == Head(replay)
           alive == Live(e.target)
           value == IF alive THEN objects[HandleOf(e.target)].value
                    ELSE ghosts[e.target].value
           eff == Effect(e.op, e.cmap, value, objects[e.doc].log, ProcessOf(e), loaded)
           log == Append(objects[e.doc].log, eff.event)
           os == [objects EXCEPT ![e.doc].log = log]
           makes == NeedsHandle(os, e.doc, log)
           page == Page(e.doc, PageAnswered(log), e.op)
           outcome == IF makes /\ e.created = <<>> THEN "RuntimeError"
                      ELSE eff.event.outcome
       IN  IF ~alive /\ (e.target \notin DOMAIN ghosts
                          \/ Handles \subseteq DOMAIN objects)
           THEN /\ failed' = TRUE
                /\ process' = ProcessOf(e)
                /\ UNCHANGED <<objects, running, ghosts>>
           ELSE /\ process' = eff.process
                /\ running' = [running EXCEPT !.missed = @ \cup eff.missed]
                /\ failed' = \/ outcome # e.outcome
                             \/ ~makes /\ e.created # <<>>
                /\ IF ~makes \/ e.created = <<>>
                   THEN objects' = os /\ UNCHANGED ghosts
                   ELSE IF Live(e.created[1])
                   THEN /\ objects' = [os EXCEPT ![HandleOf(e.created[1])] = page]
                        /\ UNCHANGED ghosts
                   ELSE /\ objects' = os
                        /\ ghosts' = With(ghosts, e.created[1], page)
    /\ replay' = Tail(replay)
    /\ UNCHANGED <<oids, nextOid, flags, history, cmapState, phase, todo, before,
                   js, calls>>

\* Mutation of ProcessBefore: the process is not put back.
ReplayedProcess == process

\* The process state after a void call: that of before it.
ProcessBefore == running.process

\* The end of Core::void: documents that could not be rebuilt are lost, and
\* the process is put back as it was before the call.
EndVoid ==
    /\ phase = "replaying"
    /\ failed \/ replay = <<>>
    /\ LET broken == IF failed \/ running.missed # {} THEN Reached ELSE {}
       IN  /\ objects' = ResetAll(objects, broken)
           /\ flags' = [d \in DOMAIN flags |->
                          IF d \in broken THEN [flags[d] EXCEPT !.broken = TRUE]
                          ELSE flags[d]]
    /\ process' = ProcessBefore
    /\ phase' = "idle"
    /\ replay' = <<>>
    /\ failed' = FALSE
    /\ ghosts' = <<>>
    /\ running' = NoCall
    /\ before' = Nothing
    /\ UNCHANGED <<oids, nextOid, history, cmapState, todo, js, calls>>

-----------------------------------------------------------------------------

\* The names still unavailable once c is handed over.
StillUnavailable(c) == unavailable \ {c}

\* cmap_add, by the runtime: what a void call asked for, one by one, in any
\* order, or a file fetched late.
AddCMap(c) ==
    /\ phase = "idle"
    /\ c \notin loaded
    /\ loaded' = loaded \cup {c}
    /\ unavailable' = StillUnavailable(c)
    /\ history' = KeptHistory
    /\ flags' = KeptFlags
    /\ UNCHANGED <<objects, oids, nextOid, process, callState, js, calls>>

\* The answer asked for every CMap (WasmCore.loadAll): some are handed over,
\* the others are marked unavailable.
HandOver(got) ==
    /\ phase = "idle"
    /\ long
    /\ got \subseteq CMaps \ loaded
    /\ loaded' = loaded \cup got
    /\ unavailable' = (unavailable \ got) \cup (CMaps \ (loaded \cup got))
    /\ long' = FALSE
    /\ UNCHANGED <<documents, process, callState, pending, answer, calls>>

\* A file could not be fetched: the call rejects, and is not run again.
Abandon ==
    /\ phase = "idle"
    /\ pending # NoRequest
    /\ pending' = NoRequest
    /\ UNCHANGED <<documents, process, cmapState, callState, answer, long, calls>>

Next ==
    \/ Open
    \/ \E h \in Handles : Free(h)
    \/ \E rs \in RequestsOn(objects) : Call(rs)
    \/ CallAgain
    \/ RunOp
    \/ Respond
    \/ Void
    \/ ReplayOpen
    \/ ReplayOp
    \/ EndVoid
    \/ \E c \in CMaps : AddCMap(c)
    \/ \E got \in SUBSET CMaps : HandOver(got)
    \/ Abandon

Spec == Init /\ [][Next]_vars

-----------------------------------------------------------------------------

(***************************************************************************)
(* What JavaScript sees is what one Python process with every CMap shows    *)
(* (docs/js-runtime.md, "CMaps", "Void Calls And Replay"): every call is    *)
(* answered as Python answers it, and leaves the documents and the process *)
(* as Python's single run does, though the core ran some calls twice and    *)
(* rebuilt the documents in between.  While a call runs, Python's state is  *)
(* that of its start.                                                      *)
(***************************************************************************)
Python == INSTANCE PythonProcess WITH
    objects <- IF phase = "idle" THEN objects ELSE running.objects,
    process <- IF phase = "idle" THEN process ELSE running.process,
    lost <- Broken

ImplementsPython == Python!Spec

(***************************************************************************)
(* A void call leaves no trace (ops.rs, "Void calls"): when its replay     *)
(* ends, the objects, their handles and identities, the history and the    *)
(* process are those of before the call, unless documents were lost, and   *)
(* then only those the call reached.                                       *)
(***************************************************************************)
VoidLeavesNoTrace ==
    [][ phase = "replaying" /\ phase' = "idle" =>
          /\ process' = running.process
          /\ oids' = before.oids
          /\ history' = before.history
          /\ Broken' \subseteq Broken \cup running.touched
          /\ objects' = ResetAll(running.objects, Broken' \ Broken) ]_vars

(***************************************************************************)
(* The history can rebuild every document that is not marked (ops.rs        *)
(* `Entry`, `Document::unrecorded`): its entries are, one for one, what was *)
(* done to the document, on the objects they name by identity.             *)
(***************************************************************************)
HistoryIsTheLog ==
    phase = "idle" =>
      \A d \in DOMAIN flags \ Broken :
        LET entries == EntriesOf(history, d)
            log == objects[d].log
        IN  flags[d].unrecorded \/
              /\ Len(entries) = Len(log)
              /\ \A i \in DOMAIN log :
                   /\ entries[i].op = log[i].op
                   /\ entries[i].cmap = log[i].cmap
                   /\ Live(entries[i].target) =>
                        objects[HandleOf(entries[i].target)].value = log[i].on
                   /\ \A h \in DOMAIN oids :
                        entries[i].created = <<oids[h]>> =>
                          objects[h].doc = d /\ objects[h].value \in 1 .. i

(***************************************************************************)
(* An identity is that of one object: no two handles share it, and what the *)
(* history says of an object of a document is never said of another's       *)
(* (ops.rs `Target::Object`: handles are used again, identities are not).  *)
(***************************************************************************)
IdentitiesAreUnique ==
    /\ \A h, k \in DOMAIN oids : oids[h] = oids[k] => h = k
    /\ \A i \in DOMAIN history :
         /\ history[i].doc \in DocumentsOf(objects)
         /\ Live(history[i].target) =>
              objects[HandleOf(history[i].target)].doc = history[i].doc

(***************************************************************************)
(* A document is lost only when its history was given up, once every CMap   *)
(* was handed over or unavailable (ops.rs `void`: "a document some calls of *)
(* which were not recorded cannot be rebuilt").                            *)
(***************************************************************************)
OnlyUnrecordedAreLost == \A d \in Broken : flags[d].unrecorded

=============================================================================
