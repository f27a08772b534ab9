----------------------------- MODULE ProcessState -----------------------------
(***************************************************************************)
(* The state of the Python process that the port models, captured before a *)
(* call and put back when the call is void (pdfminer: process_state.rs,    *)
(* psparser.rs "The frames of interning").                                 *)
(*                                                                         *)
(* The interned symbols are many, so they are not copied: each interning   *)
(* is a node that knows the one before it, a snapshot is the last node,    *)
(* and restore walks back from the current node and from the target to the *)
(* node both share.  The rest is copied, and shared with the snapshot      *)
(* before when nothing of it changed.                                      *)
(*                                                                         *)
(* The walk is one action per turn of its loop.  The code is on one        *)
(* thread: nothing else runs during a walk.                                *)
(***************************************************************************)
EXTENDS Remembered, Sequences

CONSTANTS
    Imported,    \* the symbols interned by `import pdfplumber` (a sequence)
    MaxNodes,    \* bound of the model: internings
    MaxSnapshots \* bound of the model: snapshots kept

VARIABLES
    nodes,     \* InternNode, by address; upTo is not in the code: the symbols
               \* interned up to the node
    set,       \* Interned.set
    last,      \* Interned.last, 0 for None
    rest,      \* re_cache, typing_cache, logging, warnings, cmapdb, specialize
    rests,     \* the Rest values allocated; the last one is LAST
    snapshots, \* the ProcessStates kept: a node and one of rests
    walk,      \* the restore under way
    answer     \* how the last operation ended, if nothing came after it

vars == <<nodes, set, last, rest, rests, snapshots, walk, answer>>

NoWalk == [on |-> FALSE, here |-> 0, there |-> 0, forward |-> {}, snapshot |-> 0]

\* intern_count
Count(node) == IF node = 0 THEN 0 ELSE nodes[node].count
Before(node) == nodes[node].previous
UpTo(node) == IF node = 0 THEN {} ELSE nodes[node].upTo

Fresh == [done |-> {}, attrs |-> [s \in AttrSites |-> Warmup]]

ASSUME ProcessAssumption ==
    /\ Imported \in Seq(Symbols)
    /\ \A i, j \in DOMAIN Imported : Imported[i] = Imported[j] => i = j
    /\ MaxNodes \in Nat
    /\ MaxSnapshots \in Nat

\* The chain that Interned::new makes of the symbols of the import.
ImportedChain ==
    [ i \in DOMAIN Imported |->
        [ address |-> Imported[i], count |-> i, previous |-> i - 1,
          upTo |-> {Imported[j] : j \in 1 .. i} ] ]

Init ==
    /\ nodes = ImportedChain
    /\ set = {Imported[i] : i \in DOMAIN Imported}
    /\ last = Len(Imported)
    /\ rest = Fresh
    /\ rests = <<>>
    /\ snapshots = <<>>
    /\ walk = NoWalk
    /\ answer = "none"

-----------------------------------------------------------------------------

\* Interned::insert: a node of its own, unless the symbol is there.
Insert(symbol) ==
    IF symbol \in set THEN UNCHANGED <<nodes, set, last>>
    ELSE /\ Len(nodes) < MaxNodes
         /\ nodes' = Append(nodes,
                        [ address |-> symbol, count |-> Count(last) + 1,
                          previous |-> last, upTo |-> UpTo(last) \cup {symbol} ])
         /\ set' = set \cup {symbol}
         /\ last' = Len(nodes) + 1

\* py_intern
Intern(symbol, room) ==
    /\ ~walk.on
    /\ answer' = Answer(Fits(symbol, set, room))
    /\ IF Fits(symbol, set, room) THEN Insert(symbol)
       ELSE UNCHANGED <<nodes, set, last>>
    /\ UNCHANGED <<rest, rests, snapshots, walk>>

\* compile_frames, Subscription::eval, Logger::call, warn, get_cmap, str_call.
DoThing(thing, room) ==
    /\ ~walk.on
    /\ answer' = Answer(Fits(thing, rest.done, room))
    /\ rest' = [rest EXCEPT !.done = DoneAfter(thing, @, room)]
    /\ UNCHANGED <<nodes, set, last, rests, snapshots, walk>>

\* AttrSite::property: the counter moves before the getter runs.
LoadProperty(site, class, room) ==
    /\ ~walk.on
    /\ answer' = Answer(room >= UnitsOf(rest.attrs[site], class))
    /\ rest' = [rest EXCEPT !.attrs[site] = Property(@, class)]
    /\ UNCHANGED <<nodes, set, last, rests, snapshots, walk>>

\* AttrSite::plain
LoadPlain(site) ==
    /\ ~walk.on
    /\ answer' = "fits"
    /\ rest' = [rest EXCEPT !.attrs[site] = Plain(@)]
    /\ UNCHANGED <<nodes, set, last, rests, snapshots, walk>>

-----------------------------------------------------------------------------

\* Mutation of Same: the counters of the instructions are not compared.
SameDone(r, s) == r.done = s.done

\* Rest::same
Same(r, s) == r.done = s.done /\ r.attrs = s.attrs

\* ProcessState::capture
Capture ==
    /\ ~walk.on
    /\ Len(snapshots) < MaxSnapshots
    /\ rests' = IF rests # <<>> /\ Same(rests[Len(rests)], rest) THEN rests
                ELSE Append(rests, rest)
    /\ snapshots' = Append(snapshots, [node |-> last, rest |-> Len(rests')])
    /\ answer' = "none"
    /\ UNCHANGED <<nodes, set, last, rest, walk>>

Target == snapshots[walk.snapshot].node

\* ProcessState::restore begins: the walk stands at the current node and at the
\* target's.
BeginRestore(i) ==
    /\ ~walk.on
    /\ walk' = [ on |-> TRUE, here |-> last, there |-> snapshots[i].node,
                 forward |-> {}, snapshot |-> i ]
    /\ UNCHANGED <<nodes, set, last, rest, rests, snapshots, answer>>

\* Mutation of Longer: the comparison the wrong way round.
Shorter(here, there) == Count(here) <= Count(there)

\* The current chain is as long as the target's, or longer: its last interning
\* is undone.
Longer(here, there) == Count(here) >= Count(there)

WalkBack ==
    /\ walk.on
    /\ walk.here # walk.there
    /\ Longer(walk.here, walk.there)
    /\ walk.here # 0
    /\ set' = set \ {nodes[walk.here].address}
    /\ walk' = [walk EXCEPT !.here = Before(walk.here)]
    /\ UNCHANGED <<nodes, last, rest, rests, snapshots, answer>>

\* Mutation of WalkForward: the target's internings are done at once, before
\* the removals.
WalkForwardAtOnce ==
    /\ walk.on
    /\ walk.here # walk.there
    /\ ~Longer(walk.here, walk.there)
    /\ walk.there # 0
    /\ set' = set \cup {nodes[walk.there].address}
    /\ walk' = [walk EXCEPT !.there = Before(walk.there),
                            !.forward = @ \cup {nodes[walk.there].address}]
    /\ UNCHANGED <<nodes, last, rest, rests, snapshots, answer>>

\* Else one of the target's is to be done again.  (A walk past None would be the
\* panic of an `expect`: the walk would stop there.)
WalkForward ==
    /\ walk.on
    /\ walk.here # walk.there
    /\ ~Longer(walk.here, walk.there)
    /\ walk.there # 0
    /\ walk' = [walk EXCEPT !.there = Before(walk.there),
                            !.forward = @ \cup {nodes[walk.there].address}]
    /\ UNCHANGED <<nodes, set, last, rest, rests, snapshots, answer>>

\* The walk has met: the interned symbols are the target's; then the rest.
EndRestore ==
    /\ walk.on
    /\ walk.here = walk.there
    /\ set' = set \cup walk.forward
    /\ last' = Target
    /\ rest' = rests[snapshots[walk.snapshot].rest]
    /\ walk' = NoWalk
    /\ answer' = "none"
    /\ UNCHANGED <<nodes, rests, snapshots>>

Next ==
    \/ \E symbol \in Symbols, room \in Rooms : Intern(symbol, room)
    \/ \E thing \in Things \cup Sites, room \in Rooms : DoThing(thing, room)
    \/ \E site \in AttrSites, class \in Classes, room \in Rooms :
          LoadProperty(site, class, room)
    \/ \E site \in AttrSites : LoadPlain(site)
    \/ Capture
    \/ \E i \in DOMAIN snapshots : BeginRestore(i)
    \/ WalkBack
    \/ WalkForward
    \/ EndRestore

\* The loop of restore runs to its end.
Fairness == WF_vars(WalkBack \/ WalkForward \/ EndRestore)

Spec == Init /\ [][Next]_vars /\ Fairness

-----------------------------------------------------------------------------

Places == 0 .. Len(nodes)
RestStates == [done : SUBSET (Things \cup Sites), attrs : [AttrSites -> AttrStates]]

\* The state keeps its types: the nodes point backwards, snapshots and the walk
\* at nodes that exist, and the counters of the instructions stay in range
\* (a u16 and an exponent capped at MAX_BACKOFF).
TypeOK ==
    /\ nodes \in Seq([ address : Symbols, count : Nat, previous : Nat,
                       upTo : SUBSET Symbols ])
    /\ \A n \in DOMAIN nodes : nodes[n].previous < n
    /\ set \in SUBSET Symbols
    /\ last \in Places
    /\ rest \in RestStates
    /\ rests \in Seq(RestStates)
    /\ snapshots \in Seq([node : Places, rest : DOMAIN rests])
    /\ walk \in [ on : BOOLEAN, here : Places, there : Places,
                  forward : SUBSET Symbols, snapshot : Nat ]
    /\ walk.on => walk.snapshot \in DOMAIN snapshots
    /\ answer \in Answers

\* The interned symbols are those of the node the process stands at: at rest the
\* last one, during a restore the one the walk has come to; and what the walk
\* still has to do, done from there, gives the target's.  So a snapshot, which
\* keeps a node only, keeps the symbols (Interned::restore; a symbol may be on
\* both branches, which is why the removals come before the additions).
SetIsItsNode ==
    IF walk.on
    THEN /\ set = UpTo(walk.here)
         /\ UpTo(walk.there) \cup walk.forward = UpTo(Target)
    ELSE set = UpTo(last)

\* The walk has a node to leave as long as its ends have not met: the `expect`s
\* of Interned::restore ("a count above zero is a node") never panic.
WalkHasNodes ==
    walk.on /\ walk.here # walk.there =>
      IF Longer(walk.here, walk.there) THEN walk.here # 0 ELSE walk.there # 0

\* What the snapshots stand for: copies of the whole memory.
Copy(snapshot) ==
    [ done |-> UpTo(snapshot.node) \cup rests[snapshot.rest].done,
      attrs |-> rests[snapshot.rest].attrs ]

AsMemory == INSTANCE Memory WITH
    done <- UpTo(last) \cup rest.done,
    attrs <- rest.attrs,
    copies <- [i \in DOMAIN snapshots |-> Copy(snapshots[i])],
    answer <- answer

\* The state taken and put back as a whole: a chain of nodes shared by the
\* snapshots, and parts shared while they do not change, answer every operation
\* as a memory that is copied and put back.
ImplementsMemory == AsMemory!Spec

\* A restore ends: the two ends of the walk meet (the loop of
\* Interned::restore, whose `expect`s say that it cannot pass the first node).
RestoreEnds == walk.on ~> ~walk.on
===============================================================================
