-------------------------------- MODULE Opening --------------------------------
(***************************************************************************)
(* Which core a document opens in (js/src/api.ts: configure, dropCore,      *)
(* compileWasm, getCore), in worker mode.  The promise of the current core  *)
(* is shared by the opens that find it; each waits for it in its own time,  *)
(* and configure, dropCore, a crash or a failure may come in between.       *)
(***************************************************************************)
EXTENDS Integers, Sequences, FiniteSets

CONSTANTS
    Opens,         \* the calls of open()
    Sources,       \* the WebAssembly sources an application may configure
    Default,       \* the source of the first options
    MaxConfigures, \* bound: the calls of configure
    MaxDrops,      \* bound: the calls of dropCore
    MaxCores       \* bound: the cores created

ASSUME OpeningAssumption ==
    /\ Default \in Sources
    /\ MaxConfigures \in Nat
    /\ MaxDrops \in Nat
    /\ MaxCores \in Nat

VARIABLES
    options,     \* runtimeOptions: how many times configure was called, the source
    drops,       \* of each call of dropCore, the core it dropped (0: none; a
                 \* history of the model)
    corePromise, \* the current core (0: undefined)
    cores,       \* sequence of the cores created: options, module, state
    modules,     \* sequence of the modules compiled: source, state
    compiled,    \* the module kept (0: undefined)
    open         \* of each open: its stage, the core it waits for, the calls of
                 \* configure and of dropCore that came before it

openingVars == <<options, drops, corePromise, cores, modules, compiled, open>>

Ids(s) == 1 .. Len(s)

\* The calls of configure and of dropCore so far.
Asked == [configures |-> options.count, drops |-> Len(drops)]

OpeningInit ==
    /\ options = [count |-> 0, source |-> Default]
    /\ drops = <<>>
    /\ corePromise = 0 /\ compiled = 0
    /\ cores = <<>> /\ modules = <<>>
    /\ open = [o \in Opens |-> [stage |-> "none", core |-> 0, asked |-> Asked]]

-----------------------------------------------------------------------------

\* Mutation of the next: the current core is kept.
CoreKept == corePromise

\* The current core once the options changed.
NoCore == 0

Configure(source) ==
    /\ options.count < MaxConfigures
    /\ options' = [count |-> options.count + 1, source |-> source]
    /\ corePromise' = NoCore
    /\ UNCHANGED <<drops, cores, modules, compiled, open>>

\* Mutation of the next: a core that has not started is not stopped.
StoppedOnceStarted(core) ==
    IF core.state = "ready" THEN [core EXCEPT !.state = "dead"] ELSE core

\* A core stopped by its owner: at once, or as soon as it has started.
Stopped(core) ==
    IF core.state = "pending" THEN [core EXCEPT !.dropped = TRUE]
    ELSE IF core.state = "ready" THEN [core EXCEPT !.state = "dead"]
    ELSE core

DropCore ==
    /\ Len(drops) < MaxDrops
    /\ drops' = Append(drops, corePromise)
    /\ corePromise' = 0
    /\ cores' = [c \in Ids(cores) |->
                   IF c = corePromise THEN Stopped(cores[c]) ELSE cores[c]]
    /\ UNCHANGED <<options, modules, compiled, open>>

\* compileWasm: the module kept, if it is of the source the options name, else
\* a new one, which is kept.
CompileWasm ==
    IF compiled # 0 /\ modules[compiled].source = options.source
    THEN UNCHANGED <<modules, compiled>>
    ELSE /\ modules' = Append(modules, [source |-> options.source, state |-> "pending"])
         /\ compiled' = Len(modules) + 1

\* The core made now.
ThisCore == Len(cores) + 1

\* getCore, its end: open o, of a configuration, makes a new core, which is the
\* current one from now on.
NewCore(o, asked) ==
    /\ Len(cores) < MaxCores
    /\ CompileWasm
    /\ cores' = Append(cores, [options |-> options, drops |-> Len(drops),
                            module |-> compiled', state |-> "pending",
                            dropped |-> FALSE])
    /\ corePromise' = ThisCore
    /\ open' = [open EXCEPT ![o] = [stage |-> "making", core |-> ThisCore,
                                    asked |-> asked]]
    /\ UNCHANGED <<options, drops>>

\* getCore finds no core.
OpenFirst(o) ==
    /\ open[o].stage = "none"
    /\ corePromise = 0
    /\ NewCore(o, Asked)

\* getCore finds one, and waits for it.
OpenShared(o) ==
    /\ open[o].stage = "none"
    /\ corePromise # 0
    /\ open' = [open EXCEPT ![o] = [stage |-> "waiting", core |-> corePromise,
                                    asked |-> Asked]]
    /\ UNCHANGED <<options, drops, corePromise, cores, modules, compiled>>

\* The core is there: the document opens in it.
Share(o) ==
    /\ open[o].stage = "waiting"
    /\ cores[open[o].core].state = "ready"
    /\ open' = [open EXCEPT ![o].stage = "open"]
    /\ UNCHANGED <<options, drops, corePromise, cores, modules, compiled>>

\* It failed, or crashed: its worker is stopped, and another core is made.
Replace(o) ==
    /\ open[o].stage = "waiting"
    /\ cores[open[o].core].state \in {"failed", "dead"}
    /\ NewCore(o, open[o].asked)

\* The core an open made is there, or failed: the open goes on, or rejects.
Made(o) ==
    /\ open[o].stage = "making"
    /\ cores[open[o].core].state # "pending"
    /\ open' = [open EXCEPT ![o].stage =
                  IF cores[open[o].core].state = "failed" THEN "rejected" ELSE "open"]
    /\ UNCHANGED <<options, drops, corePromise, cores, modules, compiled>>

-----------------------------------------------------------------------------

\* The module is compiled, or it cannot be fetched or compiled: it is not kept
\* any more, unless another replaced it.
Compiles(m) ==
    /\ modules[m].state = "pending"
    /\ modules' = [modules EXCEPT ![m].state = "ready"]
    /\ UNCHANGED <<options, drops, corePromise, cores, compiled, open>>

\* The module kept once m failed.
CompiledAfter(m) == IF compiled = m THEN 0 ELSE compiled

CompileFails(m) ==
    /\ modules[m].state = "pending"
    /\ modules' = [modules EXCEPT ![m].state = "failed"]
    /\ compiled' = CompiledAfter(m)
    /\ UNCHANGED <<options, drops, corePromise, cores, open>>

\* The worker starts, with its core.
CoreStarts(c) ==
    /\ cores[c].state = "pending"
    /\ modules[cores[c].module].state = "ready"
    /\ cores' = [cores EXCEPT ![c].state = IF cores[c].dropped THEN "dead" ELSE "ready"]
    /\ UNCHANGED <<options, drops, corePromise, modules, compiled, open>>

\* The current core once the making of a core failed, whichever it was.
CurrentAfterFailure == 0

\* Its module or its worker fails.
StartFails(c) ==
    /\ cores[c].state = "pending"
    /\ modules[cores[c].module].state # "pending"
    /\ cores' = [cores EXCEPT ![c].state = "failed"]
    /\ corePromise' = CurrentAfterFailure
    /\ UNCHANGED <<options, drops, modules, compiled, open>>

\* A core traps, or its worker fails: the worker is stopped.
Crashes(c) ==
    /\ cores[c].state = "ready"
    /\ cores' = [cores EXCEPT ![c].state = "dead"]
    /\ UNCHANGED <<options, drops, corePromise, modules, compiled, open>>

OpeningNext ==
    \/ \E source \in Sources : Configure(source)
    \/ DropCore
    \/ \E o \in Opens : OpenFirst(o)
    \/ \E o \in Opens : OpenShared(o)
    \/ \E o \in Opens : Share(o)
    \/ \E o \in Opens : Replace(o)
    \/ \E o \in Opens : Made(o)
    \/ \E m \in Ids(modules) : Compiles(m)
    \/ \E m \in Ids(modules) : CompileFails(m)
    \/ \E c \in Ids(cores) : CoreStarts(c)
    \/ \E c \in Ids(cores) : StartFails(c)
    \/ \E c \in Ids(cores) : Crashes(c)

OpeningSpec == OpeningInit /\ [][OpeningNext]_openingVars

-----------------------------------------------------------------------------

(***************************************************************************)
(* configure "applies to the documents opened afterwards" (api.ts): an open *)
(* never gets a core of options older than those it was called under,       *)
(* however long it waited and whatever it waited for, and a core runs the   *)
(* module its options name, though modules are kept from core to core.     *)
(***************************************************************************)
OptionsApply ==
    /\ \A o \in Opens :
         open[o].core # 0 =>
           cores[open[o].core].options.count >= open[o].asked.configures
    /\ \A c \in Ids(cores) :
         modules[cores[c].module].source = cores[c].options.source

(***************************************************************************)
(* A dropped core is stopped (api.ts `dropCore`: its worker "would          *)
(* otherwise keep its WebAssembly memory alive"), even if it was still in   *)
(* the making; and "the next document opens in a new core": no open called  *)
(* after the drop is in it, however long it waited.                        *)
(***************************************************************************)
DroppedIsStopped ==
    \A k \in Ids(drops) : drops[k] # 0 =>
      /\ cores[drops[k]].state # "ready"
      /\ \A o \in Opens : open[o].core = drops[k] => open[o].asked.drops < k

(***************************************************************************)
(* "The core the next document opens in (a new one after a crash)" (api.ts  *)
(* `getCore`): with the same options, and no dropCore, a new core is made   *)
(* only when there is none left.                                           *)
(***************************************************************************)
OneCore ==
    \A c, d \in Ids(cores) :
      /\ cores[c].options = cores[d].options
      /\ cores[c].drops = cores[d].drops
      /\ {cores[c].state, cores[d].state} \subseteq {"pending", "ready"}
      => c = d

=============================================================================
