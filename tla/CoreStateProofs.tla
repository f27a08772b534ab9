--------------------------- MODULE CoreStateProofs ---------------------------
(***************************************************************************)
(* What the core keeps beside its documents: the handle table (Handles) and *)
(* the captured states of the process (ProcessState).                      *)
(*                                                                         *)
(* Handles: tables of any size and any number of generations.              *)
(* FreeIsTheEmptySlots and RefusedOnlyWhenFull need that the slots are     *)
(* numbered without a gap.  StaleHandleRefused is not inductive: that a     *)
(* handle reaches its own object or nothing rests on the generation of a   *)
(* slot never going back within a lap, and on an empty slot having a        *)
(* generation no handle was given out with in this lap (Ages).             *)
(*                                                                         *)
(* ProcessState: any symbols, any number of internings and of snapshots,   *)
(* restored in any order.  The invariant says of each node what its count  *)
(* and its symbols are in terms of the node before it (Chained): a symbol  *)
(* is once on a chain, so walking back over a node removes what the node   *)
(* added and nothing else.  With it SetIsItsNode is inductive, and a step  *)
(* of the code is a step of the memory that is copied, or changes nothing  *)
(* of it.                                                                  *)
(***************************************************************************)
EXTENDS Handles, ProcessState, TLAPS

-----------------------------------------------------------------------------

(* The handle table. *)


NoGap == \A i \in Used, j \in Indices : j <= i => j \in Used

Ages ==
    \A r \in issued :
        /\ r.handle.index \in Used
        /\ LET i == r.handle.index
           IN  \/ r.lap < laps[i]
               \/ /\ r.lap = laps[i]
                  /\ \/ r.handle.generation < slots[i].generation
                     \/ /\ r.handle.generation = slots[i].generation
                        /\ slots[i].value = r.object

\* The inductive invariant.
HandlesInv ==
    /\ HandlesTypeOK
    /\ FreeIsTheEmptySlots
    /\ ReservedNeverIssued
    /\ NoGap
    /\ RefusedOnlyWhenFull
    /\ Ages

-----------------------------------------------------------------------------

\* The next generation of a slot is the next number, or 0 after the last one
\* (handles.rs `remove`: `(generation + 1) & GEN_MASK`).
LEMMA NextGenerationSteps ==
    ASSUME NEW g \in 0 .. Generations - 1
    PROVE  /\ NextGeneration(g) \in 0 .. Generations - 1
           /\ NextGeneration(g) = IF g = Generations - 1 THEN 0 ELSE g + 1
BY HandlesAssumption DEF NextGeneration

\* What storing an object in slot i does to each variable (handles.rs `insert`).
LEMMA StoreTypes ==
    ASSUME HandlesTypeOK, NEW i \in Indices, NEW g \in 0 .. Generations - 1, Store(i, g)
    PROVE  /\ Used' = Used \cup {i}
           /\ slots' \in [Used' -> Slot]
           /\ slots'[i] = [generation |-> g, value |-> inserted + 1]
           /\ \A j \in Used \ {i} : slots'[j] = slots[j]
           /\ issued' \subseteq Issue
           /\ inserted' \in Nat /\ refused' = FALSE /\ laps' = laps
<1> USE DEF Store, HandlesTypeOK, Used
<1>1. Used' = Used \cup {i}
  OBVIOUS
<1>2. [generation |-> g, value |-> inserted + 1] \in Slot
  BY DEF Slot
<1>3. slots' \in [Used' -> Slot]
  BY <1>1, <1>2
<1>4. [handle |-> [index |-> i, generation |-> g], object |-> inserted + 1, lap |-> laps[i]] \in Issue
  BY DEF Issue, Handle
<1>5. slots'[i] = [generation |-> g, value |-> inserted + 1] /\ \A j \in Used \ {i} : slots'[j] = slots[j]
  OBVIOUS
<1>6. issued' \subseteq Issue
  BY <1>4
<1>7. inserted' \in Nat /\ refused' = FALSE /\ laps' = laps
  OBVIOUS
<1> QED
  BY <1>1, <1>3, <1>5, <1>6, <1>7

\* What freeing the object of a handle does (handles.rs `remove`).
LEMMA RemoveTypes ==
    ASSUME HandlesTypeOK, NEW h \in Handle, Remove(h)
    PROVE  /\ h.index \in Used /\ Used' = Used
           /\ slots[h.index].value # Empty /\ slots[h.index].generation = h.generation
           /\ slots' \in [Used -> Slot]
           /\ slots'[h.index].value = Empty
           /\ slots'[h.index].generation = NextGeneration(h.generation)
           /\ \A j \in Used \ {h.index} : slots'[j] = slots[j]
           /\ laps' \in [Indices -> Nat]
           /\ laps'[h.index] = IF NextGeneration(h.generation) = 0
                               THEN laps[h.index] + 1 ELSE laps[h.index]
           /\ \A j \in Indices \ {h.index} : laps'[j] = laps[j]
           /\ free' = Append(free, h.index) /\ free' \in Seq(Used)
           /\ issued' = issued /\ inserted' = inserted /\ refused' = FALSE
<1> USE DEF HandlesTypeOK, Used
<1>1. h.index \in Used /\ slots[h.index].value # Empty /\ slots[h.index].generation = h.generation
  BY DEF Remove, Get
<1>2. NextGeneration(h.generation) \in 0 .. Generations - 1
  BY NextGenerationSteps DEF Handle
<1>3. [generation |-> NextGeneration(h.generation), value |-> Empty] \in Slot
  BY <1>2 DEF Slot, Empty
<1>4. slots' = [slots EXCEPT ![h.index] = [generation |-> NextGeneration(h.generation), value |-> Empty]]
  BY <1>1 DEF Remove
<1>5. Used' = Used /\ slots' \in [Used -> Slot]
  BY <1>1, <1>3, <1>4
<1>6. laps' = IF NextGeneration(h.generation) = 0 THEN [laps EXCEPT ![h.index] = @ + 1] ELSE laps
  BY <1>1 DEF Remove
<1>7. free' = Append(free, h.index) /\ free' \in Seq(Used)
  BY <1>1 DEF Remove
<1>8. issued' = issued /\ inserted' = inserted /\ refused' = FALSE
  BY DEF Remove
<1>9. h.index \in Indices
  BY DEF Handle
<1> QED
  BY <1>1, <1>4, <1>5, <1>6, <1>7, <1>8, <1>9

\* The slot a reuse takes is the last one freed, an existing one.
LEMMA ReuseTypes ==
    ASSUME HandlesTypeOK, InsertReuse
    PROVE  \E i \in Used :
             /\ i = free[Len(free)] /\ Len(free) \in DOMAIN free
             /\ slots[i].generation \in 0 .. Generations - 1
             /\ Store(i, slots[i].generation)
             /\ Used' = Used
             /\ free' = SubSeq(free, 1, Len(free) - 1) /\ free' \in Seq(Used)
<1>1. Len(free) \in DOMAIN free /\ free[Len(free)] \in Used
  BY DEF HandlesTypeOK, InsertReuse
<1>2. slots[free[Len(free)]] \in Slot
  BY <1>1 DEF HandlesTypeOK
<1>3. slots[free[Len(free)]].generation \in 0 .. Generations - 1
  BY <1>2 DEF Slot
<1>4. free' = SubSeq(free, 1, Len(free) - 1) /\ free' \in Seq(Used)
  BY DEF HandlesTypeOK, InsertReuse
<1>5. free[Len(free)] \in Indices /\ Store(free[Len(free)], slots[free[Len(free)]].generation)
  BY <1>1 DEF HandlesTypeOK, InsertReuse
<1>6. Used' = Used \cup {free[Len(free)]}
  BY <1>3, <1>5, StoreTypes
<1> QED
  BY <1>1, <1>3, <1>4, <1>5, <1>6

-----------------------------------------------------------------------------

\* The first state has the right types.
LEMMA InitTypes == HandlesInit => HandlesTypeOK
<1> SUFFICES ASSUME HandlesInit PROVE HandlesTypeOK
  OBVIOUS
<1>1. Used = {0} /\ slots \in [Used -> Slot]
  BY HandlesAssumption DEF HandlesInit, Used, Slot, Empty
<1> QED
  BY <1>1, HandlesAssumption DEF HandlesInit, HandlesTypeOK, Indices

\* A step keeps the types: an insertion gives a slot that exists, or the next
\* one, a handle whose fields are in range.
LEMMA StepTypes == HandlesTypeOK /\ [HandlesNext]_handlesVars => HandlesTypeOK'
<1> SUFFICES ASSUME HandlesTypeOK, [HandlesNext]_handlesVars
             PROVE  HandlesTypeOK'
  OBVIOUS
<1> USE DEF HandlesTypeOK
<1>1. CASE InsertReuse
  <2>1. PICK i \in Used : /\ slots[i].generation \in 0 .. Generations - 1
                          /\ Store(i, slots[i].generation)
                          /\ Used' = Used /\ free' \in Seq(Used)
    BY <1>1, ReuseTypes
  <2> QED
    BY <2>1, StoreTypes
<1>2. CASE InsertNew
  <2>1. PICK i \in Indices : Store(i, 0)
    BY <1>2 DEF InsertNew
  <2>2. 0 \in 0 .. Generations - 1
    BY HandlesAssumption
  <2>3. free' = <<>> /\ free' \in Seq(Used')
    BY <1>2 DEF InsertNew
  <2> QED
    BY <2>1, <2>2, <2>3, StoreTypes
<1>3. CASE InsertRefused
  BY <1>3 DEF InsertRefused, Used
<1>4. ASSUME NEW h \in Handle, Remove(h)
      PROVE  HandlesTypeOK'
  BY <1>4, RemoveTypes
<1>5. CASE UNCHANGED handlesVars
  BY <1>5 DEF handlesVars, Used
<1> QED
  BY <1>1, <1>2, <1>3, <1>4, <1>5 DEF HandlesNext

\* Every state of the table has the types of HandlesTypeOK: every handle given out
\* fits the two bit fields of the u32, and every index on the stack of free
\* slots is that of a slot.
THEOREM HandlesTypes == HandlesSpec => []HandlesTypeOK
BY InitTypes, StepTypes, PTL DEF HandlesSpec

-----------------------------------------------------------------------------

\* Taking the last free slot, or a new one, leaves the other empty slots free;
\* freeing a slot adds it to them.
LEMMA FreeStep ==
    HandlesTypeOK /\ ReservedNeverIssued /\ FreeIsTheEmptySlots /\ [HandlesNext]_handlesVars => FreeIsTheEmptySlots'
<1> SUFFICES ASSUME HandlesTypeOK, ReservedNeverIssued, FreeIsTheEmptySlots, [HandlesNext]_handlesVars
             PROVE  FreeIsTheEmptySlots'
  OBVIOUS
<1>0. /\ \A p, q \in DOMAIN free : free[p] = free[q] => p = q
      /\ \A j : j \in Used \ {0} /\ slots[j].value = Empty <=> \E p \in DOMAIN free : free[p] = j
  BY DEF FreeIsTheEmptySlots, EmptySlots
<1>a. Used \subseteq Indices /\ free \in Seq(Used) /\ inserted \in Nat
  BY DEF HandlesTypeOK
<1>b. SUFFICES /\ \A p, q \in DOMAIN free' : free'[p] = free'[q] => p = q
               /\ \A j : j \in Used' \ {0} /\ slots'[j].value = Empty <=> \E p \in DOMAIN free' : free'[p] = j
  BY DEF FreeIsTheEmptySlots, EmptySlots, Used
<1>1. CASE InsertReuse
  <2>1. PICK i \in Used : /\ i = free[Len(free)] /\ Len(free) \in DOMAIN free
                          /\ slots[i].generation \in 0 .. Generations - 1
                          /\ Store(i, slots[i].generation)
                          /\ Used' = Used
                          /\ free' = SubSeq(free, 1, Len(free) - 1) /\ free' \in Seq(Used)
    BY <1>1, ReuseTypes
  <2>2. DOMAIN free' = DOMAIN free \ {Len(free)} /\ \A p \in DOMAIN free' : free'[p] = free[p]
    BY <2>1, <1>a
  <2>3. i \in Indices
    BY <1>a
  <2>4. slots'[i] = [generation |-> slots[i].generation, value |-> inserted + 1]
        /\ \A j \in Used \ {i} : slots'[j] = slots[j]
    BY <2>1, <2>3, StoreTypes
  <2>5. slots'[i].value # Empty
    BY <2>4, <1>a DEF Empty
  <2>6. \A j : (\E p \in DOMAIN free' : free'[p] = j) <=> j # i /\ \E p \in DOMAIN free : free[p] = j
    BY <1>0, <2>1, <2>2
  <2>7. \A j : j \in Used' \ {0} /\ slots'[j].value = Empty
               <=> j # i /\ j \in Used \ {0} /\ slots[j].value = Empty
    BY <2>1, <2>4, <2>5
  <2> QED
    BY <1>0, <2>2, <2>6, <2>7
<1>2. CASE InsertNew
  <2>1. PICK i \in Indices : i \notin Used /\ Store(i, 0)
    BY <1>2 DEF InsertNew
  <2>2. 0 \in 0 .. Generations - 1
    BY HandlesAssumption
  <2>3. /\ Used' = Used \cup {i}
        /\ slots'[i] = [generation |-> 0, value |-> inserted + 1]
        /\ \A j \in Used \ {i} : slots'[j] = slots[j]
    BY <2>1, <2>2, StoreTypes
  <2>4. slots'[i].value # Empty
    BY <2>3, <1>a DEF Empty
  <2>5. free = <<>> /\ free' = <<>>
    BY <1>2 DEF InsertNew
  <2> QED
    BY <1>0, <2>1, <2>3, <2>4, <2>5
<1>3. CASE InsertRefused
  BY <1>0, <1>3 DEF InsertRefused, Used
<1>4. CASE \E h \in Handle : Remove(h)
  <2>0. PICK h \in Handle : Remove(h)
    BY <1>4
  <2>1. /\ h.index \in Used /\ Used' = Used
        /\ slots[h.index].value # Empty /\ slots'[h.index].value = Empty
        /\ \A j \in Used \ {h.index} : slots'[j] = slots[j]
        /\ free' = Append(free, h.index)
    BY <2>0, RemoveTypes
  <2>2. h.index # 0
    BY <2>1 DEF ReservedNeverIssued
  <2>3. /\ DOMAIN free' = DOMAIN free \cup {Len(free) + 1}
        /\ free'[Len(free) + 1] = h.index /\ Len(free) + 1 \notin DOMAIN free
        /\ \A p \in DOMAIN free : free'[p] = free[p]
    BY <2>1, <1>a
  <2>4. \A p \in DOMAIN free : free[p] # h.index
    BY <1>0, <1>a, <2>1, <2>2
  <2>5. \A j : (\E p \in DOMAIN free' : free'[p] = j) <=> j = h.index \/ \E p \in DOMAIN free : free[p] = j
    BY <2>3
  <2>6. \A j : j \in Used' \ {0} /\ slots'[j].value = Empty
               <=> j = h.index \/ (j \in Used \ {0} /\ slots[j].value = Empty)
    BY <2>1, <2>2
  <2>7. \A p, q \in DOMAIN free' : free'[p] = free'[q] => p = q
    BY <1>0, <2>3, <2>4
  <2> QED
    BY <1>0, <2>5, <2>6, <2>7
<1>5. CASE UNCHANGED handlesVars
  BY <1>0, <1>5 DEF handlesVars, Used
<1> QED
  BY <1>1, <1>2, <1>3, <1>4, <1>5 DEF HandlesNext


\* No insertion takes slot 0: it is never free, and the slots start at it.
LEMMA ReservedStep ==
    HandlesTypeOK /\ ReservedNeverIssued /\ FreeIsTheEmptySlots /\ [HandlesNext]_handlesVars => ReservedNeverIssued'
<1> SUFFICES ASSUME HandlesTypeOK, ReservedNeverIssued, FreeIsTheEmptySlots, [HandlesNext]_handlesVars
             PROVE  ReservedNeverIssued'
  OBVIOUS
<1>0. 0 \in Used /\ slots[0].value = Empty /\ \A r \in issued : r.handle.index # 0
  BY DEF HandlesTypeOK, ReservedNeverIssued
<1>1. ASSUME NEW i \in Indices, NEW g \in 0 .. Generations - 1, Store(i, g), i # 0
      PROVE  ReservedNeverIssued'
  <2>1. slots'[0] = slots[0]
    BY <1>0, <1>1, StoreTypes
  <2>2. issued' = issued \cup {[handle |-> [index |-> i, generation |-> g],
                                object |-> inserted + 1, lap |-> laps[i]]}
    BY <1>1 DEF Store
  <2> QED
    BY <1>0, <1>1, <2>1, <2>2 DEF ReservedNeverIssued
<1>2. CASE InsertReuse
  <2>1. PICK i \in Used : /\ i = free[Len(free)] /\ Len(free) \in DOMAIN free
                          /\ slots[i].generation \in 0 .. Generations - 1
                          /\ Store(i, slots[i].generation)
    BY <1>2, ReuseTypes
  <2>2. i \in Indices
    BY DEF HandlesTypeOK
  <2>3. i # 0
    BY <2>1 DEF FreeIsTheEmptySlots, EmptySlots
  <2> QED
    BY <1>1, <2>1, <2>2, <2>3
<1>3. CASE InsertNew
  <2>1. PICK i \in Indices : i \notin Used /\ Store(i, 0)
    BY <1>3 DEF InsertNew
  <2> QED
    BY <1>0, <1>1, <2>1, HandlesAssumption
<1>4. CASE InsertRefused
  BY <1>0, <1>4 DEF InsertRefused, ReservedNeverIssued
<1>5. ASSUME NEW h \in Handle, Remove(h)
      PROVE  ReservedNeverIssued'
  <2>1. h.index # 0 /\ slots'[0] = slots[0] /\ issued' = issued
    BY <1>0, <1>5, RemoveTypes
  <2> QED
    BY <1>0, <2>1 DEF ReservedNeverIssued
<1>6. CASE UNCHANGED handlesVars
  BY <1>0, <1>6 DEF handlesVars, ReservedNeverIssued
<1> QED
  BY <1>2, <1>3, <1>4, <1>5, <1>6 DEF HandlesNext


\* The slots stay numbered without a gap: a new one takes the next number.
LEMMA NoGapStep == HandlesTypeOK /\ NoGap /\ [HandlesNext]_handlesVars => NoGap'
<1> SUFFICES ASSUME HandlesTypeOK, NoGap, [HandlesNext]_handlesVars
             PROVE  NoGap'
  OBVIOUS
<1>1. CASE InsertReuse
  <2>1. Used' = Used
    BY <1>1, ReuseTypes
  <2> QED
    BY <2>1 DEF NoGap
<1>2. CASE InsertNew
  <2>1. PICK i \in Indices : i - 1 \in Used /\ Store(i, 0)
    BY <1>2 DEF InsertNew
  <2>2. 0 \in 0 .. Generations - 1
    BY HandlesAssumption
  <2>3. Used' = Used \cup {i}
    BY <2>1, <2>2, StoreTypes
  <2>4. \A j \in Indices : j <= i => j = i \/ j <= i - 1
    BY DEF Indices
  <2> QED
    BY <2>1, <2>3, <2>4 DEF NoGap
<1>3. CASE InsertRefused
  BY <1>3 DEF InsertRefused, NoGap, Used
<1>4. CASE \E h \in Handle : Remove(h)
  <2>1. Used' = Used
    BY <1>4, RemoveTypes
  <2> QED
    BY <2>1 DEF NoGap
<1>5. CASE UNCHANGED handlesVars
  BY <1>5 DEF handlesVars, NoGap, Used
<1> QED
  BY <1>1, <1>2, <1>3, <1>4, <1>5 DEF HandlesNext

\* An insertion is refused in a state whose last slot exists and none is free.
LEMMA RefusedStep ==
    HandlesTypeOK /\ NoGap /\ FreeIsTheEmptySlots /\ RefusedOnlyWhenFull /\ [HandlesNext]_handlesVars => RefusedOnlyWhenFull'
<1> SUFFICES ASSUME HandlesTypeOK, NoGap, FreeIsTheEmptySlots, RefusedOnlyWhenFull, [HandlesNext]_handlesVars
             PROVE  RefusedOnlyWhenFull'
  OBVIOUS
<1>1. CASE InsertReuse \/ InsertNew \/ \E h \in Handle : Remove(h)
  BY <1>1 DEF InsertReuse, InsertNew, Store, Remove, RefusedOnlyWhenFull
<1>2. CASE InsertRefused
  <2>1. MaxHandles \in Indices /\ \A i \in Indices : i <= MaxHandles
    BY HandlesAssumption DEF Indices
  <2>2. Indices \subseteq Used
    BY <1>2, <2>1 DEF InsertRefused, NoGap
  <2>3. EmptySlots = {}
    BY <1>2 DEF InsertRefused, FreeIsTheEmptySlots
  <2> QED
    BY <1>2, <2>2, <2>3 DEF InsertRefused, RefusedOnlyWhenFull, EmptySlots, Used
<1>3. CASE UNCHANGED handlesVars
  BY <1>3 DEF handlesVars, RefusedOnlyWhenFull, Used
<1> QED
  BY <1>1, <1>2, <1>3 DEF HandlesNext

\* Within a lap, the generation of a slot only grows; the handle of the object
\* a slot holds was given out with the generation the slot has.
LEMMA AgesStep == HandlesTypeOK /\ Ages /\ FreeIsTheEmptySlots /\ [HandlesNext]_handlesVars => Ages'
<1> SUFFICES ASSUME HandlesTypeOK, Ages, FreeIsTheEmptySlots, [HandlesNext]_handlesVars
             PROVE  Ages'
  OBVIOUS
<1>0. /\ issued \subseteq Issue /\ laps \in [Indices -> Nat] /\ inserted \in Nat
      /\ Used \subseteq Indices /\ slots \in [Used -> Slot]
  BY DEF HandlesTypeOK
<1>1. ASSUME NEW i \in Indices, NEW g \in 0 .. Generations - 1, Store(i, g),
             i \in Used => slots[i].value = Empty /\ g = slots[i].generation
      PROVE  Ages'
  <2>1. /\ Used' = Used \cup {i} /\ laps' = laps
        /\ slots'[i] = [generation |-> g, value |-> inserted + 1]
        /\ \A j \in Used \ {i} : slots'[j] = slots[j]
    BY <1>1, StoreTypes
  <2>2. issued' = issued \cup {[handle |-> [index |-> i, generation |-> g],
                                object |-> inserted + 1, lap |-> laps[i]]}
    BY <1>1 DEF Store
  <2>3. ASSUME NEW r \in issued
        PROVE  /\ r.handle.index \in Used'
               /\ LET j == r.handle.index
                  IN  \/ r.lap < laps'[j]
                      \/ /\ r.lap = laps'[j]
                         /\ \/ r.handle.generation < slots'[j].generation
                            \/ /\ r.handle.generation = slots'[j].generation
                               /\ slots'[j].value = r.object
    <3>1. r.object \in Nat \ {0} /\ r \in Issue
      BY <1>0 DEF Issue
    <3>2. CASE r.handle.index = i
      <4>1. i \in Used /\ slots[i].value # r.object
        BY <1>1, <3>1, <3>2 DEF Ages, Empty
      <4> QED
        BY <1>1, <2>1, <3>2, <4>1 DEF Ages
    <3>3. CASE r.handle.index # i
      BY <2>1, <3>3 DEF Ages
    <3> QED
      BY <3>2, <3>3
  <2> QED
    BY <2>1, <2>2, <2>3 DEF Ages
<1>2. CASE InsertReuse
  <2>1. PICK i \in Used : /\ i = free[Len(free)] /\ Len(free) \in DOMAIN free
                          /\ slots[i].generation \in 0 .. Generations - 1
                          /\ Store(i, slots[i].generation)
    BY <1>2, ReuseTypes
  <2>2. slots[i].value = Empty
    BY <2>1 DEF FreeIsTheEmptySlots, EmptySlots
  <2> QED
    BY <1>0, <1>1, <2>1, <2>2
<1>3. CASE InsertNew
  <2>1. PICK i \in Indices : i \notin Used /\ Store(i, 0)
    BY <1>3 DEF InsertNew
  <2> QED
    BY <1>1, <2>1, HandlesAssumption
<1>4. CASE InsertRefused
  BY <1>4 DEF InsertRefused, Ages, Used
<1>5. ASSUME NEW h \in Handle, Remove(h)
      PROVE  Ages'
  <2>1. /\ h.index \in Used /\ Used' = Used
        /\ slots[h.index].generation = h.generation
        /\ slots'[h.index].generation = NextGeneration(h.generation)
        /\ \A j \in Used \ {h.index} : slots'[j] = slots[j]
        /\ laps'[h.index] = IF NextGeneration(h.generation) = 0
                            THEN laps[h.index] + 1 ELSE laps[h.index]
        /\ \A j \in Indices \ {h.index} : laps'[j] = laps[j]
        /\ issued' = issued
    BY <1>5, RemoveTypes
  <2>2. h.generation \in 0 .. Generations - 1
    BY DEF Handle
  <2>3. NextGeneration(h.generation) = 0 \/ NextGeneration(h.generation) = h.generation + 1
    BY <2>2, NextGenerationSteps
  <2>4. ASSUME NEW r \in issued
        PROVE  /\ r.handle.index \in Used'
               /\ LET j == r.handle.index
                  IN  \/ r.lap < laps'[j]
                      \/ /\ r.lap = laps'[j]
                         /\ \/ r.handle.generation < slots'[j].generation
                            \/ /\ r.handle.generation = slots'[j].generation
                               /\ slots'[j].value = r.object
    <3>1. r.handle.index \in Used /\ r.lap \in Nat /\ r.handle.generation \in Int
      BY <1>0 DEF Ages, Issue, Handle
    <3>2. CASE r.handle.index = h.index
      <4>1. \/ r.lap < laps[h.index]
            \/ r.lap = laps[h.index] /\ r.handle.generation <= h.generation
        BY <2>1, <2>2, <3>1, <3>2 DEF Ages
      <4>2. laps[h.index] \in Nat
        BY <1>0, <2>1
      <4>3. CASE NextGeneration(h.generation) = 0
        BY <2>1, <3>1, <3>2, <4>1, <4>2, <4>3
      <4>4. CASE NextGeneration(h.generation) = h.generation + 1
        BY <2>1, <2>2, <3>1, <3>2, <4>1, <4>2, <4>4
      <4> QED
        BY <2>3, <4>3, <4>4
    <3>3. CASE r.handle.index # h.index
      BY <1>0, <2>1, <3>1, <3>3 DEF Ages
    <3> QED
      BY <3>2, <3>3
  <2> QED
    BY <2>1, <2>4 DEF Ages
<1>6. CASE UNCHANGED handlesVars
  BY <1>6 DEF handlesVars, Ages, Used
<1> QED
  BY <1>2, <1>3, <1>4, <1>5, <1>6 DEF HandlesNext

-----------------------------------------------------------------------------

\* The invariant holds first and is kept by every step.
LEMMA HandlesInvariant == HandlesSpec => []HandlesInv
<1>1. HandlesInit => HandlesInv
  <2> SUFFICES ASSUME HandlesInit PROVE HandlesInv
    OBVIOUS
  <2>1. HandlesTypeOK
    BY InitTypes
  <2>2. Used = {0} /\ slots[0].value = Empty /\ free = <<>> /\ issued = {} /\ ~refused
    BY DEF HandlesInit, Used
  <2>3. FreeIsTheEmptySlots
    BY <2>2 DEF FreeIsTheEmptySlots, EmptySlots
  <2>4. NoGap
    BY <2>2, HandlesAssumption DEF NoGap, Indices
  <2> QED
    BY <2>1, <2>2, <2>3, <2>4 DEF HandlesInv, ReservedNeverIssued, RefusedOnlyWhenFull, Ages
<1>2. HandlesInv /\ [HandlesNext]_handlesVars => HandlesInv'
  BY StepTypes, FreeStep, ReservedStep, NoGapStep, RefusedStep, AgesStep DEF HandlesInv
<1> QED
  BY <1>1, <1>2, PTL DEF HandlesSpec

\* The stack of free slots never names a live object's slot, nor one slot twice,
\* and forgets none (handles.rs `insert`, `remove`).
THEOREM FreeSlotsExact == HandlesSpec => []FreeIsTheEmptySlots
BY HandlesInvariant, PTL DEF HandlesInv

\* An insertion fails only when MaxHandles objects are alive.
THEOREM FullOnlyWhenFull == HandlesSpec => []RefusedOnlyWhenFull
BY HandlesInvariant, PTL DEF HandlesInv

\* Handle 0 is never given out and never reaches an object.
THEOREM ReservedSlot == HandlesSpec => []ReservedNeverIssued
BY HandlesInvariant, PTL DEF HandlesInv

\* A handle whose object was freed is refused, however often its slot was used
\* again, until the generation of the slot comes back to it.
THEOREM StaleHandles == HandlesSpec => []StaleHandleRefused
<1>1. HandlesInv => StaleHandleRefused
  <2> SUFFICES ASSUME HandlesInv, NEW r \in issued,
                      Get(r.handle) # Empty, Get(r.handle) # r.object
               PROVE  laps[r.handle.index] > r.lap
    BY DEF StaleHandleRefused
  <2>1. slots[r.handle.index].generation = r.handle.generation
        /\ slots[r.handle.index].value # r.object
    BY DEF Get
  <2>2. /\ r.lap \in Nat /\ r.handle.generation \in Int
        /\ r.handle.index \in Indices /\ laps[r.handle.index] \in Nat
    BY DEF HandlesInv, HandlesTypeOK, Issue, Handle
  <2> QED
    BY <2>1, <2>2 DEF HandlesInv, Ages
<1> QED
  BY <1>1, HandlesInvariant, PTL

-----------------------------------------------------------------------------

(* The captured states of the process. *)


Chained ==
    \A n \in DOMAIN nodes :
      /\ nodes[n].count = Count(Before(n)) + 1
      /\ nodes[n].address \notin UpTo(Before(n))
      /\ nodes[n].upTo = UpTo(Before(n)) \cup {nodes[n].address}

Inv == TypeOK /\ Chained /\ SetIsItsNode

Node == [address : Symbols, count : Nat, previous : Nat, upTo : SUBSET Symbols]

-----------------------------------------------------------------------------

\* The counters of an instruction stay in range (AttrSite::property).
LEMMA PropertyInRange ==
    ASSUME NEW state \in AttrStates, NEW class \in Classes
    PROVE  Property(state, class) \in AttrStates
<1> USE RememberedAssumption DEF AttrStates
<1>1. Ones[MaxBackoff] \in Nat \ {0}
  OBVIOUS
<1>2. CASE state.specialized = class
  BY <1>2 DEF Property
<1>3. CASE state.specialized # class /\ state.value = 0
  BY <1>1, <1>3 DEF Property
<1>4. CASE state.specialized # class /\ state.value # 0
  <2>1. Property(state, class) = [state EXCEPT !.value = state.value - 1]
    BY <1>4 DEF Property
  <2>2. state.value - 1 \in 0 .. (Cooldown + Ones[MaxBackoff])
    BY <1>1, <1>4
  <2> QED BY <2>1, <2>2
<1> QED BY <1>2, <1>3, <1>4

\* ... and AttrSite::plain.
LEMMA PlainInRange ==
    ASSUME NEW state \in AttrStates
    PROVE  Plain(state) \in AttrStates
<1> USE RememberedAssumption DEF AttrStates
<1>1. Ones[MaxBackoff] \in Nat \ {0}
  OBVIOUS
<1>2. CASE state.value > 0
  <2>1. Plain(state) = [state EXCEPT !.value = state.value - 1]
    BY <1>2 DEF Plain
  <2>2. state.value - 1 \in 0 .. (Cooldown + Ones[MaxBackoff])
    BY <1>1, <1>2
  <2> QED BY <2>1, <2>2
<1>3. CASE ~(state.value > 0)
  <2> DEFINE backoff == IF state.backoff < MaxBackoff THEN state.backoff + 1
                        ELSE MaxBackoff
  <2>1. backoff \in 1 .. MaxBackoff
    OBVIOUS
  <2>2. Ones[backoff] \in Nat \ {0} /\ Ones[backoff] <= Ones[MaxBackoff]
    BY <2>1
  <2>3. Plain(state) = [value |-> Ones[backoff] - 1, backoff |-> backoff,
                        specialized |-> NoClass]
    BY <1>3 DEF Plain
  <2> HIDE DEF backoff
  <2> QED BY <1>1, <2>1, <2>2, <2>3
<1> QED BY <1>2, <1>3

\* A sequence of a set is one of every larger set.
LEMMA LargerSeq ==
    ASSUME NEW S, NEW T, S \subseteq T, NEW s \in Seq(S)
    PROVE  s \in Seq(T)
<1>1. \A i \in 1 .. Len(s) : s[i] \in T
  OBVIOUS
<1> QED BY <1>1

\* What is done stays a set of facts.
LEMMA DoneIsFacts ==
    ASSUME NEW F, NEW done \in SUBSET F, NEW fact \in F, NEW room
    PROVE  DoneAfter(fact, done, room) \in SUBSET F
BY DEF DoneAfter

\* A node has at least one interning, the first place none.
LEMMA Counted ==
    ASSUME Inv, NEW n \in Places
    PROVE  Count(n) \in Nat /\ (Count(n) = 0 <=> n = 0)
<1>1. CASE n = 0
  BY <1>1 DEF Count
<1>2. CASE n # 0
  <2>1. nodes \in Seq(Node) /\ \A m \in DOMAIN nodes : nodes[m].previous < m
    BY DEF Inv, TypeOK, Node
  <2>2. n \in DOMAIN nodes
    BY <1>2, <2>1 DEF Places
  <2>3. nodes[n] \in Node
    BY <2>1, <2>2
  <2>4. Before(n) \in Nat /\ Before(n) < n
    BY <2>1, <2>2, <2>3 DEF Before, Node
  <2>5. Before(n) = 0 \/ Before(n) \in DOMAIN nodes
    BY <2>1, <2>2, <2>4
  <2>6. Count(Before(n)) \in Nat
    <3>1. ASSUME Before(n) \in DOMAIN nodes PROVE nodes[Before(n)] \in Node
      BY <2>1, <3>1
    <3> QED BY <2>5, <3>1 DEF Count, Node
  <2>7. nodes[n].count = Count(Before(n)) + 1
    BY <2>2 DEF Inv, Chained
  <2> QED BY <1>2, <2>6, <2>7 DEF Count
<1> QED BY <1>1, <1>2

\* The nodes of the import are chained.
LEMMA ImportIsChained ==
    ASSUME Init PROVE Inv
<1> USE ProcessAssumption DEF Init
<1>1. Len(Imported) \in Nat /\ DOMAIN Imported = 1 .. Len(Imported)
      /\ \A i \in 1 .. Len(Imported) : Imported[i] \in Symbols
  OBVIOUS
<1>2. /\ DOMAIN nodes = 1 .. Len(Imported) /\ Len(nodes) = Len(Imported)
      /\ nodes \in Seq(Node)
  <2>1. \A i \in 1 .. Len(Imported) : nodes[i] \in Node
    BY <1>1 DEF ImportedChain, Node
  <2> QED BY <1>1, <2>1 DEF ImportedChain
<1>3. \A n \in DOMAIN nodes :
        /\ nodes[n].address = Imported[n] /\ nodes[n].count = n
        /\ nodes[n].previous = n - 1
        /\ nodes[n].upTo = {Imported[j] : j \in 1 .. n}
  BY <1>1, <1>2 DEF ImportedChain
<1>4. \A n \in 0 .. Len(Imported) : UpTo(n) = {Imported[j] : j \in 1 .. n}
  BY <1>1, <1>2, <1>3 DEF UpTo
<1>5. Chained
  <2> SUFFICES ASSUME NEW n \in DOMAIN nodes
               PROVE  /\ nodes[n].count = Count(Before(n)) + 1
                      /\ nodes[n].address \notin UpTo(Before(n))
                      /\ nodes[n].upTo = UpTo(Before(n)) \cup {nodes[n].address}
    BY DEF Chained
  <2>1. n \in 1 .. Len(Imported) /\ Before(n) = n - 1 /\ n - 1 \in 0 .. Len(Imported)
    BY <1>1, <1>2, <1>3 DEF Before
  <2>2. UpTo(n - 1) = {Imported[j] : j \in 1 .. n - 1}
    BY <1>4, <2>1
  <2>3. Imported[n] \notin UpTo(n - 1)
    BY <1>1, <2>1, <2>2
  <2>4. {Imported[j] : j \in 1 .. n} = {Imported[j] : j \in 1 .. n - 1} \cup {Imported[n]}
    BY <2>1
  <2>5. Count(n - 1) = n - 1
    BY <1>2, <1>3, <2>1 DEF Count
  <2> QED BY <1>3, <2>1, <2>2, <2>3, <2>4, <2>5
<1>6. SetIsItsNode
  BY <1>1, <1>4 DEF SetIsItsNode, NoWalk
<1>7. Warmup \in AttrStates
  BY RememberedAssumption DEF Warmup, AttrStates
<1>8. TypeOK
  BY <1>1, <1>2, <1>3, <1>7
     DEF TypeOK, Node, Places, RestStates, Fresh, NoWalk, Answers
<1> QED BY <1>5, <1>6, <1>8 DEF Inv

-----------------------------------------------------------------------------

\* The chain only grows: what a node knows is kept when nodes are added.
LEMMA NodesAreKept ==
    ASSUME Inv, NEW node \in Node, nodes' = Append(nodes, node),
           NEW n \in Places
    PROVE  Count(n)' = Count(n) /\ UpTo(n)' = UpTo(n)
<1>1. nodes \in Seq(Node)
  BY DEF Inv, TypeOK, Node
<1>2. n # 0 => n \in 1 .. Len(nodes) /\ nodes'[n] = nodes[n]
  BY <1>1 DEF Places
<1> QED BY <1>2 DEF Count, UpTo

\* Interned::insert keeps the invariant (py_intern).
LEMMA InternKeeps ==
    ASSUME Inv, NEW symbol \in Symbols, NEW room \in Rooms, Intern(symbol, room)
    PROVE  Inv'
<1> DEFINE new == [ address |-> symbol, count |-> Count(last) + 1,
                    previous |-> last, upTo |-> UpTo(last) \cup {symbol} ]
<1> USE DEF Intern
<1>1. nodes \in Seq(Node) /\ last \in Places /\ Len(nodes) \in Nat
  BY DEF Inv, TypeOK, Node
<1>2. answer' \in Answers
  BY DEF Answer, Answers
<1>3. CASE UNCHANGED <<nodes, set, last>>
  BY <1>2, <1>3 DEF Inv, TypeOK, Chained, SetIsItsNode, Count, UpTo, Before,
                    Places, Target
<1>4. CASE Insert(symbol) /\ symbol \notin set
  <2>1. /\ nodes' = Append(nodes, new)
        /\ set' = set \cup {symbol}
        /\ last' = Len(nodes) + 1
    BY <1>4 DEF Insert
  <2>2. set = UpTo(last) /\ ~walk.on /\ walk' = walk /\ set \in SUBSET Symbols
    BY DEF Inv, TypeOK, SetIsItsNode
  <2>3. Count(last) \in Nat
    BY <1>1, Counted
  <2>4. last \in Nat
    BY <1>1 DEF Places
  <2>5. new \in Node
    BY <2>2, <2>3, <2>4 DEF Node
  <2>6. nodes' \in Seq(Node) /\ Len(nodes') = Len(nodes) + 1
    BY <1>1, <2>1, <2>5
  <2>7. /\ nodes'[Len(nodes) + 1] = new
        /\ \A n \in DOMAIN nodes : nodes'[n] = nodes[n]
        /\ DOMAIN nodes' = DOMAIN nodes \cup {Len(nodes) + 1}
    BY <1>1, <2>1, <2>5
  <2>8. \A n \in Places : Count(n)' = Count(n) /\ UpTo(n)' = UpTo(n)
    BY <2>1, <2>5, NodesAreKept
  <2>9. \A n \in DOMAIN nodes' : nodes'[n].previous < n
    BY <1>1, <2>7, <2>4 DEF Inv, TypeOK, Places
  <2>10. Chained'
    <3> SUFFICES ASSUME NEW n \in DOMAIN nodes'
                 PROVE  /\ nodes'[n].count = Count(Before(n))' + 1
                        /\ nodes'[n].address \notin UpTo(Before(n))'
                        /\ nodes'[n].upTo = UpTo(Before(n))' \cup {nodes'[n].address}
      BY DEF Chained
    <3>1. CASE n \in DOMAIN nodes
      <4>1. nodes'[n] = nodes[n] /\ nodes[n] \in Node /\ nodes[n].previous < n
        BY <1>1, <2>7, <3>1 DEF Inv, TypeOK
      <4>2. Before(n) \in Places /\ Before(n)' = Before(n)
        BY <1>1, <3>1, <4>1 DEF Before, Places, Node
      <4>3. Count(Before(n))' = Count(Before(n)) /\ UpTo(Before(n))' = UpTo(Before(n))
        BY <2>8, <4>2 DEF Count, UpTo
      <4> QED BY <3>1, <4>1, <4>3 DEF Inv, Chained
    <3>2. CASE n = Len(nodes) + 1
      <4>1. nodes'[n] = new /\ Before(n)' = last
        BY <2>7, <3>2 DEF Before
      <4>2. Count(Before(n))' = Count(last) /\ UpTo(Before(n))' = UpTo(last)
        BY <1>1, <2>8, <4>1 DEF Count, UpTo
      <4> QED BY <1>4, <2>2, <4>1, <4>2
    <3> QED BY <2>7, <3>1, <3>2
  <2>11. SetIsItsNode'
    <3>1. UpTo(last)' = set \cup {symbol}
      BY <1>1, <2>1, <2>2, <2>7 DEF UpTo
    <3> QED BY <2>1, <2>2, <3>1 DEF SetIsItsNode
  <2>12. TypeOK'
    <3>1. Places \subseteq Places' /\ last' \in Places' /\ set' \in SUBSET Symbols
      BY <1>1, <2>1, <2>2, <2>6 DEF Places
    <3>2. snapshots' = snapshots /\ rests' = rests /\ rest' = rest
      OBVIOUS
    <3>3. snapshots' \in Seq([node : Places', rest : DOMAIN rests'])
      <4>1. snapshots \in Seq([node : Places, rest : DOMAIN rests])
        BY DEF Inv, TypeOK
      <4>2. [node : Places, rest : DOMAIN rests]
              \subseteq [node : Places', rest : DOMAIN rests']
        BY <3>1, <3>2
      <4> QED BY <3>2, <4>1, <4>2, LargerSeq
    <3>4. walk' \in [ on : BOOLEAN, here : Places', there : Places',
                      forward : SUBSET Symbols, snapshot : Nat ]
      BY <2>2, <3>1 DEF Inv, TypeOK
    <3>5. /\ rest' \in RestStates /\ rests' \in Seq(RestStates)
          /\ walk'.on => walk'.snapshot \in DOMAIN snapshots'
      BY <2>2, <3>2 DEF Inv, TypeOK
    <3> QED BY <1>2, <2>6, <2>9, <3>1, <3>3, <3>4, <3>5 DEF TypeOK, Node
  <2> QED BY <2>10, <2>11, <2>12 DEF Inv
<1>5. CASE Insert(symbol) /\ symbol \in set
  BY <1>3, <1>5 DEF Insert
<1> QED BY <1>3, <1>4, <1>5

\* The rest changes: the interned symbols and the snapshots do not.
LEMMA RestKeeps ==
    ASSUME Inv, rest' \in RestStates, answer' \in Answers,
           UNCHANGED <<nodes, set, last, rests, snapshots, walk>>
    PROVE  Inv'
BY DEF Inv, TypeOK, Chained, SetIsItsNode, Count, UpTo, Before, Places, Target

\* A thing done on first use.
LEMMA ThingKeeps ==
    ASSUME Inv, NEW thing \in Things \cup Sites, NEW room \in Rooms,
           DoThing(thing, room)
    PROVE  Inv'
<1>1. rest \in RestStates
  BY DEF Inv, TypeOK
<1>2. DoneAfter(thing, rest.done, room) \in SUBSET (Things \cup Sites)
  BY <1>1, DoneIsFacts DEF RestStates
<1>3. rest' \in RestStates
  BY <1>1, <1>2 DEF DoThing, RestStates
<1> QED BY <1>3, RestKeeps DEF DoThing, Answer, Answers

\* An attribute loaded, of an object or of a class.
LEMMA LoadKeeps ==
    ASSUME Inv, NEW site \in AttrSites,
           \/ LoadPlain(site)
           \/ \E class \in Classes, room \in Rooms : LoadProperty(site, class, room)
    PROVE  Inv'
<1>1. rest \in RestStates /\ rest.attrs[site] \in AttrStates
  BY DEF Inv, TypeOK, RestStates
<1>2. \E state \in AttrStates : rest' = [rest EXCEPT !.attrs[site] = state]
  <2>1. CASE LoadPlain(site)
    BY <1>1, <2>1, PlainInRange DEF LoadPlain
  <2>2. CASE \E class \in Classes, room \in Rooms : LoadProperty(site, class, room)
    BY <1>1, <2>2, PropertyInRange DEF LoadProperty
  <2> QED BY <2>1, <2>2
<1>3. rest' \in RestStates
  BY <1>1, <1>2 DEF RestStates
<1> QED BY <1>3, RestKeeps DEF LoadPlain, LoadProperty, Answer, Answers

-----------------------------------------------------------------------------

\* The values a snapshot is made of.
SnapshotsOf(places, values) == [node : places, rest : DOMAIN values]

\* ProcessState::capture keeps the invariant.
LEMMA CaptureKeeps ==
    ASSUME Inv, Capture
    PROVE  Inv'
<1> USE DEF Capture
<1>1. /\ rests \in Seq(RestStates) /\ rest \in RestStates /\ last \in Places
      /\ snapshots \in Seq(SnapshotsOf(Places, rests))
  BY DEF Inv, TypeOK, SnapshotsOf
<1>2. /\ rests' \in Seq(RestStates) /\ rests' # <<>>
      /\ DOMAIN rests \subseteq DOMAIN rests'
  <2>1. CASE rests # <<>> /\ rests' = rests
    BY <1>1, <2>1
  <2>2. CASE rests' = Append(rests, rest)
    BY <1>1, <2>2
  <2> QED BY <2>1, <2>2
<1>3. Places' = Places /\ nodes' = nodes
  BY DEF Places
<1>4. Len(rests') \in DOMAIN rests'
  BY <1>2
<1>5. snapshots' \in Seq(SnapshotsOf(Places', rests'))
  <2>1. [node |-> last, rest |-> Len(rests')] \in SnapshotsOf(Places', rests')
    BY <1>1, <1>3, <1>4 DEF SnapshotsOf
  <2>2. snapshots \in Seq(SnapshotsOf(Places', rests'))
    <3>1. SnapshotsOf(Places, rests) \subseteq SnapshotsOf(Places', rests')
      BY <1>2, <1>3 DEF SnapshotsOf
    <3> QED BY <1>1, <3>1, LargerSeq
  <2> QED BY <2>1, <2>2
<1>6. ~walk.on /\ walk' = walk
  OBVIOUS
<1>7. TypeOK'
  BY <1>2, <1>3, <1>5, <1>6 DEF Inv, TypeOK, SnapshotsOf, Answers
<1>8. Chained' /\ SetIsItsNode'
  BY <1>3, <1>6 DEF Inv, Chained, SetIsItsNode, Count, UpTo, Before
<1> QED BY <1>7, <1>8 DEF Inv

\* What a snapshot keeps exists.
LEMMA SnapshotTyped ==
    ASSUME Inv, NEW i \in DOMAIN snapshots
    PROVE  /\ snapshots[i].node \in Places
           /\ snapshots[i].rest \in DOMAIN rests
           /\ i \in Nat
<1>1. snapshots \in Seq(SnapshotsOf(Places, rests))
  BY DEF Inv, TypeOK, SnapshotsOf
<1>2. snapshots[i] \in SnapshotsOf(Places, rests) /\ i \in Nat
  BY <1>1
<1> QED BY <1>2 DEF SnapshotsOf

\* A restore begins where the process stands.
LEMMA BeginKeeps ==
    ASSUME Inv, NEW i \in DOMAIN snapshots, BeginRestore(i)
    PROVE  Inv'
<1> USE DEF BeginRestore
<1>1. snapshots[i].node \in Places /\ i \in Nat
  BY SnapshotTyped
<1>2. TypeOK'
  BY <1>1 DEF Inv, TypeOK, Places
<1>3. SetIsItsNode'
  BY DEF Inv, SetIsItsNode, UpTo, Target
<1> QED BY <1>2, <1>3 DEF Inv, Chained, Count, UpTo, Before

\* A node on a chain: its place, and what its interning added.
LEMMA NodeOnChain ==
    ASSUME Inv, NEW n \in Places, n # 0
    PROVE  /\ nodes[n].address \in Symbols
           /\ Before(n) \in Places
           /\ UpTo(n) = UpTo(Before(n)) \cup {nodes[n].address}
           /\ nodes[n].address \notin UpTo(Before(n))
<1>1. nodes \in Seq(Node) /\ n \in DOMAIN nodes /\ nodes[n].previous < n
  BY DEF Inv, TypeOK, Node, Places
<1>2. nodes[n] \in Node
  BY <1>1
<1>3. Before(n) \in Nat /\ Before(n) < n /\ n \in 1 .. Len(nodes)
  BY <1>1, <1>2 DEF Before, Node
<1>4. UpTo(n) = nodes[n].upTo
  BY DEF UpTo
<1> QED BY <1>1, <1>2, <1>3, <1>4 DEF Inv, Chained, Places, Node

\* A turn of the walk keeps the invariant: what is undone is what the node left
\* behind had added.
LEMMA WalkKeeps ==
    ASSUME Inv, WalkBack \/ WalkForward
    PROVE  Inv'
<1>1. /\ walk \in [ on : BOOLEAN, here : Places, there : Places,
                    forward : SUBSET Symbols, snapshot : Nat ]
      /\ set \in SUBSET Symbols
      /\ walk.on
  BY DEF Inv, TypeOK, WalkBack, WalkForward
<1>2. /\ set = UpTo(walk.here)
      /\ UpTo(walk.there) \cup walk.forward = UpTo(Target)
  BY <1>1 DEF Inv, SetIsItsNode
<1>3. CASE WalkBack
  <2>1. /\ Before(walk.here) \in Places
        /\ UpTo(walk.here) = UpTo(Before(walk.here)) \cup {nodes[walk.here].address}
        /\ nodes[walk.here].address \notin UpTo(Before(walk.here))
    BY <1>1, <1>3, NodeOnChain DEF WalkBack
  <2>2. walk' = [walk EXCEPT !.here = Before(walk.here)] /\ Places' = Places
    BY <1>3 DEF WalkBack, Places
  <2>3. /\ walk' \in [ on : BOOLEAN, here : Places, there : Places,
                       forward : SUBSET Symbols, snapshot : Nat ]
        /\ walk'.here = Before(walk.here) /\ walk'.on
        /\ walk'.there = walk.there /\ walk'.forward = walk.forward
        /\ walk'.snapshot = walk.snapshot
    BY <1>1, <2>1, <2>2
  <2>4. set' = UpTo(Before(walk.here)) /\ set' \in SUBSET Symbols
    BY <1>1, <1>2, <1>3, <2>1 DEF WalkBack
  <2>5. TypeOK'
    BY <1>3, <2>2, <2>3, <2>4 DEF WalkBack, Inv, TypeOK
  <2>6. SetIsItsNode'
    BY <1>2, <1>3, <2>3, <2>4 DEF WalkBack, SetIsItsNode, UpTo, Target
  <2> QED BY <1>3, <2>5, <2>6 DEF Inv, Chained, Count, UpTo, Before, WalkBack
<1>4. CASE WalkForward
  <2>1. /\ nodes[walk.there].address \in Symbols
        /\ Before(walk.there) \in Places
        /\ UpTo(walk.there) = UpTo(Before(walk.there)) \cup {nodes[walk.there].address}
    BY <1>1, <1>4, NodeOnChain DEF WalkForward
  <2>2. /\ walk' = [walk EXCEPT !.there = Before(walk.there),
                       !.forward = walk.forward \cup {nodes[walk.there].address}]
        /\ Places' = Places
    BY <1>4 DEF WalkForward, Places
  <2>3. /\ walk' \in [ on : BOOLEAN, here : Places, there : Places,
                       forward : SUBSET Symbols, snapshot : Nat ]
        /\ walk'.there = Before(walk.there) /\ walk'.on /\ walk'.here = walk.here
        /\ walk'.forward = walk.forward \cup {nodes[walk.there].address}
        /\ walk'.snapshot = walk.snapshot
    BY <1>1, <2>1, <2>2
  <2>4. TypeOK'
    BY <1>4, <2>2, <2>3 DEF WalkForward, Inv, TypeOK
  <2>5. UpTo(walk'.there) \cup walk'.forward = UpTo(Target)
    BY <1>2, <2>1, <2>3
  <2>6. SetIsItsNode'
    BY <1>2, <1>4, <2>3, <2>5 DEF WalkForward, SetIsItsNode, UpTo, Target
  <2> QED BY <1>4, <2>4, <2>6 DEF Inv, Chained, Count, UpTo, Before, WalkForward
<1> QED BY <1>3, <1>4

\* The walk has met: what is left of it gives the target's symbols.
LEMMA EndKeeps ==
    ASSUME Inv, EndRestore
    PROVE  Inv'
<1> USE DEF EndRestore
<1>1. walk.snapshot \in DOMAIN snapshots /\ set \in SUBSET Symbols
      /\ walk.forward \in SUBSET Symbols
  BY DEF Inv, TypeOK
<1>2. /\ snapshots[walk.snapshot].node \in Places
      /\ snapshots[walk.snapshot].rest \in DOMAIN rests
      /\ rests \in Seq(RestStates)
  BY <1>1, SnapshotTyped DEF Inv, TypeOK
<1>3. rests[snapshots[walk.snapshot].rest] \in RestStates
  BY <1>2
<1>4. set' = UpTo(Target)
  BY DEF Inv, SetIsItsNode
<1>5. TypeOK'
  BY <1>1, <1>2, <1>3 DEF Inv, TypeOK, Places, NoWalk, Answers, Target
<1>6. SetIsItsNode'
  BY <1>4 DEF SetIsItsNode, NoWalk, UpTo
<1> QED BY <1>5, <1>6 DEF Inv, Chained, Count, UpTo, Before

\* Every step keeps the invariant.
LEMMA StepKeeps ==
    ASSUME Inv, [Next]_vars
    PROVE  Inv'
<1>1. CASE UNCHANGED vars
  BY <1>1 DEF vars, Inv, TypeOK, Chained, SetIsItsNode, Count, UpTo, Before, Places, Target
<1>2. CASE Next
  BY <1>2, InternKeeps, ThingKeeps, LoadKeeps, CaptureKeeps, BeginKeeps, WalkKeeps, EndKeeps
     DEF Next
<1> QED BY <1>1, <1>2

\* The inductive invariant holds of every state of the process.
THEOREM ProcessInvariant == Spec => []Inv
BY ImportIsChained, StepKeeps, PTL DEF Spec

\* The state of the process keeps its types, for any number of internings and
\* snapshots.
THEOREM ProcessTypeOK == Spec => []TypeOK
BY ProcessInvariant, PTL DEF Inv

\* A snapshot, which keeps one node, keeps the interned symbols exactly, and a
\* restore puts them back across any branches (Interned::restore).
THEOREM ProcessSetIsItsNode == Spec => []SetIsItsNode
BY ProcessInvariant, PTL DEF Inv

\* The walk of a restore never passes the first node: the two `expect`s of
\* Interned::restore do not panic.
THEOREM ProcessWalkHasNodes == Spec => []WalkHasNodes
<1>1. Inv => WalkHasNodes
  <2> SUFFICES ASSUME Inv, walk.on, walk.here # walk.there
               PROVE  IF Longer(walk.here, walk.there) THEN walk.here # 0
                      ELSE walk.there # 0
    BY DEF WalkHasNodes
  <2>1. walk.here \in Places /\ walk.there \in Places
    BY DEF Inv, TypeOK
  <2>2. /\ Count(walk.here) \in Nat /\ (Count(walk.here) = 0 <=> walk.here = 0)
        /\ Count(walk.there) \in Nat /\ (Count(walk.there) = 0 <=> walk.there = 0)
    BY <2>1, Counted
  <2> QED BY <2>2 DEF Longer
<1> QED BY <1>1, ProcessInvariant, PTL

-----------------------------------------------------------------------------

\* The operators of the memory are those of the process.
LEMMA SameOperators ==
    /\ AsMemory!Facts = Facts
    /\ AsMemory!Rooms = Rooms
    /\ AsMemory!Warmup = Warmup
    /\ \A b \in BOOLEAN : AsMemory!Answer(b) = Answer(b)
    /\ \A f, done, room : AsMemory!Fits(f, done, room) = Fits(f, done, room)
    /\ \A f, done, room : AsMemory!DoneAfter(f, done, room) = DoneAfter(f, done, room)
    /\ \A state, class : AsMemory!UnitsOf(state, class) = UnitsOf(state, class)
    /\ \A state, class : AsMemory!Property(state, class) = Property(state, class)
    /\ \A state : AsMemory!Plain(state) = Plain(state)
BY DEF AsMemory!Facts, Facts, AsMemory!Rooms, Rooms, AsMemory!Warmup, Warmup,
       AsMemory!Answer, Answer, AsMemory!Fits, Fits, AsMemory!DoneAfter, DoneAfter,
       AsMemory!UnitsOf, UnitsOf, AsMemory!Property, Property, AsMemory!Plain, Plain

\* The refinement mapping does not move with a restore until its end.
LEMMA MappingStays ==
    ASSUME UNCHANGED <<nodes, last, rest, rests, snapshots, answer>>
    PROVE  UNCHANGED AsMemory!vars
BY DEF AsMemory!vars, UpTo, Copy

\* Interned symbols and the rest are told apart: an operation on one of them asks
\* and changes the same in the whole memory.
LEMMA SymbolApart ==
    ASSUME NEW F \in SUBSET Symbols, NEW G \in SUBSET (Things \cup Sites),
           NEW f \in Symbols, NEW room
    PROVE  /\ Fits(f, F, room) <=> Fits(f, F \cup G, room)
           /\ DoneAfter(f, F \cup G, room) =
                (IF Fits(f, F, room) THEN F \cup {f} ELSE F) \cup G
<1>1. (f \in F <=> f \in F \cup G) /\ f \notin Sites
  BY RememberedAssumption
<1>2. Fits(f, F, room) <=> Fits(f, F \cup G, room)
  BY <1>1 DEF Fits
<1> HIDE DEF Fits
<1> QED BY <1>1, <1>2 DEF DoneAfter

\* What else was done, F, makes no difference to a thing, and stays.
LEMMA ThingApart ==
    ASSUME NEW F \in SUBSET Symbols, NEW G \in SUBSET (Things \cup Sites),
           NEW f \in Things \cup Sites, NEW room
    PROVE  /\ Fits(f, G, room) <=> Fits(f, F \cup G, room)
           /\ DoneAfter(f, F \cup G, room) = F \cup DoneAfter(f, G, room)
<1>1. f \in G <=> f \in F \cup G
  BY RememberedAssumption
<1>2. Fits(f, G, room) <=> Fits(f, F \cup G, room)
  BY <1>1 DEF Fits
<1> QED BY <1>2 DEF DoneAfter

\* py_intern leaves the nodes that exist as they are.
LEMMA InternKeepsNodes ==
    ASSUME Inv, NEW symbol \in Symbols, NEW room \in Rooms, Intern(symbol, room),
           NEW n \in Places
    PROVE  UpTo(n)' = UpTo(n)
<1>1. nodes \in Seq(Node)
  BY DEF Inv, TypeOK, Node
<1>2. \A m \in DOMAIN nodes : nodes'[m] = nodes[m]
  BY <1>1 DEF Intern, Insert
<1>3. n # 0 => n \in DOMAIN nodes
  BY <1>1 DEF Places
<1> QED BY <1>2, <1>3 DEF UpTo

\* A capture, whether it shares the rest with the snapshot before or not, is a
\* copy of the memory, and leaves the other copies as they are (Rest::same).
LEMMA CaptureIsACopy ==
    ASSUME Inv, Capture
    PROVE  AsMemory!Capture
<1> USE DEF Capture
<1>1. /\ rests \in Seq(RestStates) /\ rest \in RestStates
      /\ snapshots \in Seq(SnapshotsOf(Places, rests))
  BY DEF Inv, TypeOK, SnapshotsOf
<1>2. /\ \A i \in DOMAIN rests : rests'[i] = rests[i]
      /\ rests'[Len(rests')].done = rest.done /\ rests'[Len(rests')].attrs = rest.attrs
  <2>1. CASE rests # <<>> /\ Same(rests[Len(rests)], rest) /\ rests' = rests
    BY <2>1 DEF Same
  <2>2. CASE rests' = Append(rests, rest)
    BY <1>1, <2>2
  <2> QED BY <2>1, <2>2
<1>3. /\ snapshots' = Append(snapshots, [node |-> last, rest |-> Len(rests')])
      /\ DOMAIN snapshots' = DOMAIN snapshots \cup {Len(snapshots) + 1}
      /\ snapshots'[Len(snapshots) + 1] = [node |-> last, rest |-> Len(rests')]
      /\ \A i \in DOMAIN snapshots : snapshots'[i] = snapshots[i]
  BY <1>1
<1>4. \A i \in DOMAIN snapshots : Copy(snapshots[i])' = Copy(snapshots[i])
  BY <1>2, <1>3, SnapshotTyped DEF Copy, UpTo
<1> DEFINE copies == [i \in DOMAIN snapshots |-> Copy(snapshots[i])]
           copy == [done |-> UpTo(last) \cup rest.done, attrs |-> rest.attrs]
<1>5. \A k \in DOMAIN snapshots' :
        k = Len(snapshots) + 1 => Copy(snapshots[k])' = copy
  <2> SUFFICES ASSUME NEW k \in DOMAIN snapshots', k = Len(snapshots) + 1
               PROVE  Copy(snapshots[k])' = copy
    OBVIOUS
  <2>1. snapshots'[k].node = last /\ snapshots'[k].rest = Len(rests')
    BY <1>3
  <2> QED BY <1>2, <2>1 DEF Copy, UpTo
<1>6. copies' = Append(copies, copy)
  <2>1. copies \in Seq({Copy(snapshots[i]) : i \in DOMAIN snapshots})
        /\ Len(copies) = Len(snapshots)
    BY <1>1
  <2> HIDE DEF copy
  <2>2. Append(copies, copy) =
          [i \in DOMAIN snapshots \cup {Len(snapshots) + 1} |->
             IF i \in DOMAIN snapshots THEN Copy(snapshots[i]) ELSE copy]
    BY <1>1, <2>1
  <2>3. copies' = [i \in DOMAIN snapshots \cup {Len(snapshots) + 1} |->
                     IF i \in DOMAIN snapshots THEN Copy(snapshots[i]) ELSE copy]
    BY <1>1, <1>3, <1>4, <1>5
  <2> QED BY <2>2, <2>3
<1> QED BY <1>6 DEF AsMemory!Capture, UpTo

\* A new process has the memory of a new one.
LEMMA InitIsAMemory ==
    ASSUME Init PROVE AsMemory!Init
<1>1. Inv /\ set = UpTo(last) /\ rest.done = {}
  BY ImportIsChained DEF Init, Inv, SetIsItsNode, NoWalk, Fresh
<1>2. set \in SUBSET Symbols
  BY <1>1 DEF Inv, TypeOK
<1>3. UpTo(last) \cup rest.done \in SUBSET Symbols
  BY <1>1, <1>2
<1>4. rest.attrs = [s \in AttrSites |-> AsMemory!Warmup]
  BY SameOperators DEF Init, Fresh
<1>5. [i \in DOMAIN snapshots |-> Copy(snapshots[i])] = <<>>
  BY DEF Init
<1> QED BY <1>3, <1>4, <1>5 DEF Init, AsMemory!Init

\* A step of the code is a step of the memory, or none.
LEMMA StepIsAMemoryStep ==
    ASSUME Inv, [Next]_vars
    PROVE  [AsMemory!Next]_(AsMemory!vars)
<1> DEFINE done == UpTo(last) \cup rest.done
<1>1. /\ rest \in RestStates /\ last \in Places
      /\ rest.done \in SUBSET (Things \cup Sites)
  BY DEF Inv, TypeOK, RestStates
<1>2. set \in SUBSET Symbols
  BY DEF Inv, TypeOK
<1>3. ~walk.on => set = UpTo(last)
  BY DEF Inv, SetIsItsNode
<1>4. ASSUME NEW symbol \in Symbols, NEW room \in Rooms, Intern(symbol, room)
      PROVE  AsMemory!Do(symbol, room)
  <2>1. set = UpTo(last) /\ symbol \in Facts
    BY <1>3, <1>4 DEF Intern, Facts
  <2>2. answer' = Answer(Fits(symbol, done, room))
    <3>1. Fits(symbol, set, room) <=> Fits(symbol, done, room)
      BY <1>1, <1>2, <2>1, SymbolApart
    <3> QED BY <1>4, <3>1 DEF Intern, Answer
  <2>3. \A i \in DOMAIN snapshots : Copy(snapshots[i])' = Copy(snapshots[i])
    <3> SUFFICES ASSUME NEW i \in DOMAIN snapshots
                 PROVE  Copy(snapshots[i])' = Copy(snapshots[i])
      OBVIOUS
    <3>1. snapshots[i].node \in Places /\ snapshots' = snapshots /\ rests' = rests
      BY <1>4, SnapshotTyped DEF Intern
    <3>2. UpTo(snapshots[i].node)' = UpTo(snapshots[i].node)
      BY <1>4, <3>1, InternKeepsNodes
    <3> QED BY <3>1, <3>2 DEF Copy
  <2>4. UpTo(last)' \cup rest'.done = DoneAfter(symbol, done, room)
    <3>1. Inv'
      BY <1>4, InternKeeps
    <3>2. UpTo(last)' = set' /\ rest' = rest
      BY <1>4, <3>1 DEF Intern, Inv, SetIsItsNode
    <3>3. set' = IF Fits(symbol, set, room) THEN set \cup {symbol} ELSE set
      BY <1>4 DEF Intern, Insert
    <3>4. DoneAfter(symbol, done, room) =
            (IF Fits(symbol, set, room) THEN set \cup {symbol} ELSE set) \cup rest.done
      BY <1>1, <1>2, <2>1, SymbolApart
    <3> QED BY <3>2, <3>3, <3>4
  <2>5. Fits(symbol, done, room) \in BOOLEAN
    BY DEF Fits
  <2> QED BY <1>4, <2>2, <2>3, <2>4, <2>5, SameOperators DEF Intern, AsMemory!Do
<1>5. ASSUME NEW thing \in Things \cup Sites, NEW room \in Rooms, DoThing(thing, room)
      PROVE  AsMemory!Do(thing, room)
  <2>1. set = UpTo(last) /\ UpTo(last)' = UpTo(last)
    BY <1>3, <1>5 DEF DoThing, UpTo
  <2>2. answer' = Answer(Fits(thing, done, room))
    <3>1. Fits(thing, rest.done, room) <=> Fits(thing, done, room)
      BY <1>1, <1>2, <2>1, ThingApart
    <3> QED BY <1>5, <3>1 DEF DoThing, Answer
  <2>3. rest'.done = DoneAfter(thing, rest.done, room) /\ rest'.attrs = rest.attrs
    BY <1>1, <1>5 DEF DoThing, RestStates
  <2>4. UpTo(last)' \cup rest'.done = DoneAfter(thing, done, room)
    <3>1. DoneAfter(thing, done, room) = set \cup DoneAfter(thing, rest.done, room)
      BY <1>1, <1>2, <2>1, ThingApart
    <3> QED BY <2>1, <2>3, <3>1
  <2>5. Fits(thing, done, room) \in BOOLEAN
    BY DEF Fits
  <2>6. \A i \in DOMAIN snapshots : Copy(snapshots[i])' = Copy(snapshots[i])
    BY <1>5 DEF DoThing, Copy, UpTo
  <2> HIDE DEF done
  <2>7. answer' = AsMemory!Answer(AsMemory!Fits(thing, done, room))
    BY <2>2, <2>5, SameOperators
  <2>8. UpTo(last)' \cup rest'.done = AsMemory!DoneAfter(thing, done, room)
    BY <2>4, SameOperators
  <2> USE DEF done
  <2> QED BY <1>5, <2>3, <2>6, <2>7, <2>8 DEF DoThing, AsMemory!Do
<1>6. ASSUME NEW site \in AttrSites, NEW class \in Classes, NEW room \in Rooms,
             LoadProperty(site, class, room)
      PROVE  AsMemory!LoadProperty(site, class, room)
  <2>1. /\ rest'.done = rest.done
        /\ rest'.attrs = [rest.attrs EXCEPT ![site] = Property(rest.attrs[site], class)]
    BY <1>1, <1>6 DEF LoadProperty, RestStates
  <2>2. answer' = AsMemory!Answer(room >= AsMemory!UnitsOf(rest.attrs[site], class))
    BY <1>6 DEF LoadProperty, AsMemory!Answer, Answer, AsMemory!UnitsOf, UnitsOf
  <2>3. UpTo(last)' = UpTo(last)
        /\ \A i \in DOMAIN snapshots : Copy(snapshots[i])' = Copy(snapshots[i])
    BY <1>6 DEF LoadProperty, Copy, UpTo
  <2> QED BY <1>6, <2>1, <2>2, <2>3, SameOperators DEF LoadProperty, AsMemory!LoadProperty
<1>7. ASSUME NEW site \in AttrSites, LoadPlain(site)
      PROVE  AsMemory!LoadPlain(site)
  <2>1. /\ rest'.done = rest.done
        /\ rest'.attrs = [rest.attrs EXCEPT ![site] = Plain(rest.attrs[site])]
    BY <1>1, <1>7 DEF LoadPlain, RestStates
  <2>2. UpTo(last)' = UpTo(last)
        /\ \A i \in DOMAIN snapshots : Copy(snapshots[i])' = Copy(snapshots[i])
    BY <1>7 DEF LoadPlain, Copy, UpTo
  <2> QED BY <1>7, <2>1, <2>2, SameOperators DEF LoadPlain, AsMemory!LoadPlain
<1>8. ASSUME Capture PROVE AsMemory!Capture
  BY <1>8, CaptureIsACopy
<1>9. ASSUME NEW i \in DOMAIN snapshots, BeginRestore(i)
      PROVE  UNCHANGED AsMemory!vars
  BY <1>9, MappingStays DEF BeginRestore
<1>10. ASSUME WalkBack \/ WalkForward PROVE UNCHANGED AsMemory!vars
  BY <1>10, MappingStays DEF WalkBack, WalkForward
<1>11. ASSUME EndRestore PROVE AsMemory!Restore(walk.snapshot)
  BY <1>11 DEF EndRestore, AsMemory!Restore, Copy, UpTo, Target, Inv, TypeOK
<1>12. ASSUME EndRestore PROVE walk.snapshot \in DOMAIN snapshots
  BY <1>12 DEF EndRestore, Inv, TypeOK
<1>13. CASE UNCHANGED vars
  BY <1>13, MappingStays DEF vars
<1> HIDE DEF done
<1>14. Symbols \subseteq Facts /\ (Things \cup Sites) \subseteq Facts
  BY DEF Facts
<1>15. DOMAIN [i \in DOMAIN snapshots |-> Copy(snapshots[i])] = DOMAIN snapshots
  OBVIOUS
<1>16. CASE Next
  BY <1>4, <1>5, <1>6, <1>7, <1>8, <1>9, <1>10, <1>11, <1>12, <1>14, <1>15, <1>16,
     SameOperators
     DEF Next, AsMemory!Next
<1> QED BY <1>13, <1>16

\* Taken and put back as a whole, the shared chain and the shared parts answer
\* every operation as a memory that is copied and put back (process_state.rs).
THEOREM ProcessImplementsMemory == Spec => ImplementsMemory
<1>1. Init => AsMemory!Init
  BY InitIsAMemory
<1>2. Inv /\ [Next]_vars => [AsMemory!Next]_(AsMemory!vars)
  BY StepIsAMemoryStep
<1> QED BY <1>1, <1>2, ProcessInvariant, PTL DEF Spec, ImplementsMemory, AsMemory!Spec

=============================================================================
