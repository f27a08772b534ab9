-------------------------------- MODULE Memory --------------------------------
(***************************************************************************)
(* The memory of a Python process as the boundary needs it: one value,     *)
(* which capture copies and restore puts back.  ProcessState implements it *)
(* without copying.                                                        *)
(***************************************************************************)
EXTENDS Remembered, Sequences

VARIABLES
    done,   \* what the process has done
    attrs,  \* its LOAD_ATTR instructions
    copies, \* the copies captured
    answer  \* how the last operation ended, if nothing came after it

vars == <<done, attrs, copies, answer>>

Init ==
    /\ \E imported \in SUBSET Symbols : done = imported
    /\ attrs = [s \in AttrSites |-> Warmup]
    /\ copies = <<>>
    /\ answer = "none"

Do(fact, room) ==
    /\ answer' = Answer(Fits(fact, done, room))
    /\ done' = DoneAfter(fact, done, room)
    /\ UNCHANGED <<attrs, copies>>

LoadProperty(site, class, room) ==
    /\ answer' = Answer(room >= UnitsOf(attrs[site], class))
    /\ attrs' = [attrs EXCEPT ![site] = Property(@, class)]
    /\ UNCHANGED <<done, copies>>

LoadPlain(site) ==
    /\ answer' = "fits"
    /\ attrs' = [attrs EXCEPT ![site] = Plain(@)]
    /\ UNCHANGED <<done, copies>>

Capture ==
    /\ copies' = Append(copies, [done |-> done, attrs |-> attrs])
    /\ answer' = "none"
    /\ UNCHANGED <<done, attrs>>

Restore(i) ==
    /\ done' = copies[i].done
    /\ attrs' = copies[i].attrs
    /\ answer' = "none"
    /\ UNCHANGED copies

Next ==
    \/ \E fact \in Facts, room \in Rooms : Do(fact, room)
    \/ \E site \in AttrSites, class \in Classes, room \in Rooms :
          LoadProperty(site, class, room)
    \/ \E site \in AttrSites : LoadPlain(site)
    \/ Capture
    \/ \E i \in DOMAIN copies : Restore(i)

Spec == Init /\ [][Next]_vars
===============================================================================
