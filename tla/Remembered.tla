------------------------------ MODULE Remembered ------------------------------
(***************************************************************************)
(* What one operation of the port asks of the memory of the Python process *)
(* it models, and what it leaves there: the first time costs more frames   *)
(* or C units than the next ones, so the memory decides where a            *)
(* RecursionError falls (pycompat: re_cache.rs, typing_cache.rs,           *)
(* logging.rs, warnings.rs, specialize.rs; pdfminer: psparser.rs py_intern,*)
(* cmapdb.rs).                                                             *)
(*                                                                         *)
(* The two limits of CPython (frames and C units, recursion.rs) are one    *)
(* number here, the room left where the operation runs.                    *)
(***************************************************************************)
EXTENDS Integers, FiniteSets

CONSTANTS
    Symbols,   \* names the process can intern
    Things,    \* patterns, subscriptions, logger levels, warnings, CMaps
    Sites,     \* call sites: executed even when their call raises
    FirstTime, \* the room each needs the first time (a function)
    NextTimes, \* ... and from then on
    AttrSites, \* LOAD_ATTR instructions
    Classes,   \* the classes of the objects they load from
    NoClass,   \* the generic form of the instruction
    Cooldown,  \* misses before another specialization (52)
    MaxBackoff,\* largest exponent of the counter's backoff (12)
    Ones,      \* the counter of each backoff, (1 << backoff) - 1 (a function)
    MaxRoom    \* bound of the model: rooms tried

Facts == Symbols \cup Things \cup Sites
Rooms == 0 .. MaxRoom

ASSUME RememberedAssumption ==
    /\ Symbols \cap (Things \cup Sites) = {}
    /\ FirstTime \in [Facts -> Nat]
    /\ NextTimes \in [Facts -> Nat]
    /\ Cooldown \in Nat \ {0}
    /\ MaxBackoff \in Nat \ {0}
    /\ Ones \in [1 .. MaxBackoff -> Nat \ {0}]
    /\ \A i \in 1 .. MaxBackoff : Ones[i] <= Ones[MaxBackoff]
    /\ NoClass \notin Classes
    /\ MaxRoom \in Nat

\* The operation fits in the room it has: the check of each function before it
\* does anything (leaf, py_frames, check_c, c_call).
Fits(fact, done, room) ==
    room >= IF fact \in done THEN NextTimes[fact] ELSE FirstTime[fact]

\* What is done after it: an operation that raises leaves nothing, but the
\* execution of a call site.
DoneAfter(fact, done, room) ==
    IF Fits(fact, done, room) \/ fact \in Sites THEN done \cup {fact} ELSE done

\* The adaptive counter of an instruction.
AttrStates ==
    [ value : 0 .. (Cooldown + Ones[MaxBackoff]),
      backoff : 0 .. MaxBackoff,
      specialized : Classes \cup {NoClass} ]
Warmup == [value |-> 1, backoff |-> 1, specialized |-> NoClass]

\* The units the caller of a property holds (AttrSite::property): none when the
\* instruction is, or now gets, specialized for the class.
UnitsOf(state, class) ==
    IF state.specialized = class \/ state.value = 0 THEN 0 ELSE 2

\* The instruction after the load of a property of class.
Property(state, class) ==
    IF state.specialized = class THEN state
    ELSE IF state.value = 0
         THEN [value |-> Cooldown, backoff |-> 0, specialized |-> class]
         ELSE [state EXCEPT !.value = @ - 1]

\* Mutation of Plain: no MAX_BACKOFF.
PlainUncapped(state) ==
    IF state.value > 0 THEN [state EXCEPT !.value = @ - 1]
    ELSE [ value |-> Ones[MaxBackoff] - 1, backoff |-> state.backoff + 1,
           specialized |-> NoClass ]

\* ... and after the load of an attribute that is no property (AttrSite::plain).
Plain(state) ==
    IF state.value > 0 THEN [state EXCEPT !.value = @ - 1]
    ELSE LET backoff == IF state.backoff < MaxBackoff THEN state.backoff + 1
                        ELSE MaxBackoff
         IN  [ value |-> Ones[backoff] - 1, backoff |-> backoff,
               specialized |-> NoClass ]

Answer(fits) == IF fits THEN "fits" ELSE "raised"
Answers == {"none", "fits", "raised"}
===============================================================================
