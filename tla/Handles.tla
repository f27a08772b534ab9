------------------------------- MODULE Handles -------------------------------
(***************************************************************************)
(* The handle table of the WebAssembly boundary (crates/wasm/src/handles.rs). *)
(*                                                                         *)
(* JavaScript refers to the objects of the core by handles.  A handle packs *)
(* the index of a slot and the generation of the slot at the time the      *)
(* object was stored.  Freeing an object moves the slot to its next        *)
(* generation and pushes its index on a stack, which the next insertion    *)
(* pops.                                                                   *)
(*                                                                         *)
(* The two bit fields of a handle do not overlap, so a handle is modelled  *)
(* as the record of its two fields: packing is injective as long as both   *)
(* fields are in range, which HandlesTypeOK states.                         *)
(***************************************************************************)
EXTENDS Integers, Sequences

CONSTANTS
    MaxHandles,   \* INDEX_MASK: the most objects alive at once
    Generations,  \* GEN_MASK + 1: the generations of a slot
    MaxInserts    \* bound: the objects ever stored (Nat: no bound)

ASSUME HandlesAssumption ==
    /\ MaxHandles \in Nat \ {0}
    /\ Generations \in Nat \ {0}

Empty == 0                  \* Option::None; the objects are the numbers from 1
Indices == 0 .. MaxHandles
Handle == [index : Indices, generation : 0 .. Generations - 1]

VARIABLES
    slots,    \* Vec<Slot>: the slots 0 .. Len - 1, slot 0 reserved
    free,     \* the stack of the indices of empty slots
    inserted, \* how many objects were stored (object n is the n-th one)
    refused,  \* whether the last insertion was refused
    issued,   \* ghost: every handle given out, its object and the slot's lap
    laps      \* ghost: how many times the generation of a slot wrapped

handlesVars == <<slots, free, inserted, refused, issued, laps>>

Slot == [generation : 0 .. Generations - 1, value : Nat]
Issue == [handle : Handle, object : Nat \ {0}, lap : Nat]

-----------------------------------------------------------------------------

\* slots.len(): the slots are numbered from 0 without a gap
Used == DOMAIN slots

\* Mutation of Get: the generation of the handle is not compared.
GetAnyGeneration(h) == IF h.index \in Used THEN slots[h.index].value ELSE Empty

\* Handles::slot and Handles::get
Get(h) ==
    IF /\ h.index \in Used
       /\ slots[h.index].generation = h.generation
    THEN slots[h.index].value
    ELSE Empty

\* The slots an insertion may reuse: all the empty ones but the reserved one.
EmptySlots == {i \in Used \ {0} : slots[i].value = Empty}

\* Mutation of NextGeneration: the generation is not masked.
UnmaskedGeneration(g) == g + 1

NextGeneration(g) == (g + 1) % Generations

HandlesInit ==
    /\ slots = [i \in {0} |-> [generation |-> 0, value |-> Empty]]
    /\ free = <<>>
    /\ inserted = 0
    /\ refused = FALSE
    /\ issued = {}
    /\ laps = [i \in Indices |-> 0]

\* The object `inserted + 1` goes into slot i, whose generation is g.
Store(i, g) ==
    /\ slots' = [j \in Used \cup {i} |->
                    IF j = i THEN [generation |-> g, value |-> inserted + 1]
                    ELSE slots[j]]
    /\ issued' = issued \cup {[handle |-> [index |-> i, generation |-> g],
                               object |-> inserted + 1,
                               lap |-> laps[i]]}
    /\ inserted' = inserted + 1
    /\ refused' = FALSE
    /\ UNCHANGED laps

\* Mutation of InsertReuse: the index is read from the stack, not popped.
InsertPeek ==
    /\ inserted < MaxInserts
    /\ free # <<>>
    /\ Store(free[Len(free)], slots[free[Len(free)]].generation)
    /\ UNCHANGED free

\* insert, a free slot: the last one freed.
InsertReuse ==
    /\ inserted < MaxInserts
    /\ free # <<>>
    /\ Store(free[Len(free)], slots[free[Len(free)]].generation)
    /\ free' = SubSeq(free, 1, Len(free) - 1)

\* insert, no free slot and room for one more.  (The index of the new slot is
\* the length of the vector: the first number that is no slot.)
InsertNew ==
    /\ inserted < MaxInserts
    /\ free = <<>>
    /\ \E i \in Indices :
         /\ i \notin Used
         /\ i - 1 \in Used
         /\ Store(i, 0)
    /\ UNCHANGED free

\* insert, the table is full: None.
InsertRefused ==
    /\ free = <<>>
    /\ MaxHandles \in Used
    /\ refused' = TRUE
    /\ UNCHANGED <<slots, free, inserted, issued, laps>>

\* remove, of a handle that names a live object (it changes nothing otherwise).
Remove(h) ==
    /\ Get(h) # Empty
    /\ LET i == h.index
           g == NextGeneration(slots[i].generation)
       IN  /\ slots' = [slots EXCEPT ![i] = [generation |-> g, value |-> Empty]]
           /\ laps' = IF g = 0 THEN [laps EXCEPT ![i] = @ + 1] ELSE laps
           /\ free' = Append(free, i)
    /\ refused' = FALSE
    /\ UNCHANGED <<inserted, issued>>

HandlesNext ==
    \/ InsertReuse
    \/ InsertNew
    \/ InsertRefused
    \/ \E h \in Handle : Remove(h)

HandlesSpec == HandlesInit /\ [][HandlesNext]_handlesVars

-----------------------------------------------------------------------------

\* The type of the state; every handle ever given out fits its bit fields.
HandlesTypeOK ==
    /\ Used \subseteq Indices
    /\ 0 \in Used
    /\ slots \in [Used -> Slot]
    /\ free \in Seq(Used)
    /\ inserted \in Nat
    /\ refused \in BOOLEAN
    /\ issued \subseteq Issue
    /\ laps \in [Indices -> Nat]

(***************************************************************************)
(* The stack of free slots is exactly the empty slots but the reserved one, *)
(* each once (handles.rs `insert` and `remove`): a slot freed twice would   *)
(* give two live objects one handle, a slot forgotten would be lost.        *)
(***************************************************************************)
FreeIsTheEmptySlots ==
    /\ \A p, q \in DOMAIN free : free[p] = free[q] => p = q
    /\ {free[p] : p \in DOMAIN free} = EmptySlots

(***************************************************************************)
(* A handle given out reaches its own object or nothing, until the         *)
(* generation of its slot wrapped: the check of `slot` (handles.rs) refuses *)
(* a handle used after its object was freed and its slot reused.           *)
(***************************************************************************)
StaleHandleRefused ==
    \A r \in issued :
        \/ Get(r.handle) \in {Empty, r.object}
        \/ laps[r.handle.index] > r.lap

(***************************************************************************)
(* Handle 0 (index 0 of generation 0), which JavaScript uses for "no        *)
(* object", and every other handle of the reserved slot, reach nothing and  *)
(* are never given out (handles.rs `new`, `insert`).                        *)
(***************************************************************************)
ReservedNeverIssued ==
    /\ slots[0].value = Empty
    /\ \A r \in issued : r.handle.index # 0

(***************************************************************************)
(* An insertion is refused only when MaxHandles objects are alive (the test *)
(* `slots.len() > MAX_HANDLES` of handles.rs `insert`): every slot but the  *)
(* reserved one holds an object.                                           *)
(***************************************************************************)
RefusedOnlyWhenFull ==
    refused => \A i \in Indices \ {0} : i \in Used /\ slots[i].value # Empty

=============================================================================
