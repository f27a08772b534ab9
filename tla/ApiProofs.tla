------------------------------- MODULE ApiProofs -------------------------------
(***************************************************************************)
(* The two components of the API: which core a document opens in (Opening), *)
(* the lifetimes of the document and of its pages (Pages).                  *)
(*                                                                         *)
(* Opening: options apply, and a dropped core is stopped and forgotten, for *)
(* any opens, sources and calls of configure and dropCore, and any order of *)
(* failures.  The current core is the one fact that everything hangs on     *)
(* (Current): it has the options as they are and was never dropped.  An     *)
(* open that finds it therefore gets what was configured before, and an     *)
(* open that makes another core makes it of options at least as new.        *)
(*                                                                         *)
(* Pages: for any number of pages, calls, documents and collections, a page *)
(* object has the handle of its page as long as it lives, a free reaches    *)
(* what it was made for, no handle of a derived page is forgotten, and a    *)
(* reference gives the page it names.  A handle has one of three keepers,   *)
(* and PagesInv says which: a page of a list is never freed before its      *)
(* document; a derived page is freed by its finalizer, which runs at most   *)
(* once and only when nothing reaches the object (Watched); a derived page  *)
(* whose annotations were read is kept by the document (Pinning), and its   *)
(* finalizer is to free nothing any more (Kept).                            *)
(***************************************************************************)
EXTENDS Opening, Pages, FiniteSetTheorems, TLAPS

-----------------------------------------------------------------------------

(* Opening: the current core, and the cores the opens wait for. *)

Options == [count : Nat, source : Sources]
AskedFor == [configures : Nat, drops : Nat]
CoreStates == {"pending", "ready", "failed", "dead"}
Core == [options : Options, drops : Nat, module : Nat, state : CoreStates,
         dropped : BOOLEAN]
Module == [source : Sources, state : {"pending", "ready", "failed"}]
Stages == {"none", "waiting", "making", "open", "rejected"}

TypeOK ==
    /\ options \in Options
    /\ cores \in Seq(Core)
    /\ modules \in Seq(Module)
    /\ corePromise \in 0 .. Len(cores)
    /\ compiled \in 0 .. Len(modules)
    /\ drops \in Seq(0 .. Len(cores))
    /\ open \in [Opens -> [stage : Stages, core : 0 .. Len(cores), asked : AskedFor]]

\* The current core has the options as they are, and was not dropped.
Current ==
    corePromise # 0 =>
      /\ cores[corePromise].options = options
      /\ \A k \in Ids(drops) : drops[k] # corePromise

\* A core runs the module of its options.
RunsItsModule ==
    \A c \in Ids(cores) :
      /\ cores[c].module \in Ids(modules)
      /\ modules[cores[c].module].source = cores[c].options.source

\* An open was called before now, and its core is of no older options.
InItsOptions ==
    \A o \in Opens :
      /\ open[o].asked.configures <= options.count
      /\ open[o].asked.drops <= Len(drops)
      /\ open[o].core # 0 =>
           cores[open[o].core].options.count >= open[o].asked.configures

\* A dropped core is stopped, or will be once it has started; the opens in it
\* came before.
Dropped ==
    \A k \in Ids(drops) : drops[k] # 0 =>
      /\ cores[drops[k]].state # "ready"
      /\ cores[drops[k]].state = "pending" => cores[drops[k]].dropped
      /\ \A o \in Opens : open[o].core = drops[k] => open[o].asked.drops < k

Inv == TypeOK /\ Current /\ RunsItsModule /\ InItsOptions /\ Dropped

-----------------------------------------------------------------------------

\* Nothing is configured, nothing made.
LEMMA OpeningInitInv == OpeningInit => Inv
<1> SUFFICES ASSUME OpeningInit PROVE Inv
  OBVIOUS
<1> USE OpeningAssumption DEF OpeningInit
<1>1. TypeOK
  BY DEF TypeOK, Options, AskedFor, Stages, Asked
<1>2. Current /\ RunsItsModule /\ Dropped
  BY DEF Current, RunsItsModule, Dropped, Ids
<1>3. InItsOptions
  BY DEF InItsOptions, Asked
<1> QED BY <1>1, <1>2, <1>3 DEF Inv

-----------------------------------------------------------------------------
(* One lemma for each operation. *)

\* configure() with another source.
LEMMA ConfigureKeeps ==
    ASSUME Inv, NEW source \in Sources, Configure(source)
    PROVE  Inv'
<1> USE DEF Inv, Configure, NoCore
<1>1. TypeOK'
  BY DEF TypeOK, Options
<1>2. Current' /\ RunsItsModule'
  BY DEF Current, RunsItsModule, Ids
<1>3. InItsOptions'
  BY DEF InItsOptions, TypeOK, Options, AskedFor
<1>4. Dropped'
  BY DEF Dropped, Ids
<1> QED BY <1>1, <1>2, <1>3, <1>4 DEF Inv

\* A core that is stopped is never ready again.
LEMMA StoppedIsACore ==
    ASSUME NEW made \in Core
    PROVE  /\ Stopped(made) \in Core
           /\ Stopped(made).state # "ready"
           /\ Stopped(made).state = "pending" => Stopped(made).dropped
           /\ Stopped(made).options = made.options
           /\ Stopped(made).module = made.module
           /\ Stopped(made).state = "ready" => made.state = "ready"
           /\ Stopped(made).state = "pending" => made.state = "pending"
           /\ made.dropped => Stopped(made).dropped
BY DEF Stopped, Core, CoreStates

\* The core is dropped.
LEMMA DropCoreKeeps ==
    ASSUME Inv, DropCore
    PROVE  Inv'
<1> USE DEF Inv
<1>1. /\ cores' = [c \in Ids(cores) |->
                     IF c = corePromise THEN Stopped(cores[c]) ELSE cores[c]]
      /\ drops' = Append(drops, corePromise)
      /\ corePromise' = 0
      /\ UNCHANGED <<options, modules, compiled, open>>
  BY DEF DropCore
<1>2. \A c \in Ids(cores) : cores[c] \in Core
  BY DEF TypeOK, Ids
<1>3. /\ Len(cores') = Len(cores) /\ Ids(cores') = Ids(cores)
      /\ cores' \in Seq(Core)
  <2>1. \A c \in Ids(cores) : cores'[c] \in Core
    BY <1>1, <1>2, StoppedIsACore
  <2>2. Len(cores) \in Nat
    BY DEF TypeOK
  <2>3. cores' \in Seq(Core)
    BY <1>1, <2>1, <2>2 DEF Ids
  <2>4. Len(cores') = Len(cores)
    BY <1>1, <2>2, <2>3 DEF Ids
  <2> QED BY <2>3, <2>4 DEF Ids
<1>4. \A c \in Ids(cores) :
        /\ cores'[c].options = cores[c].options
        /\ cores'[c].module = cores[c].module
        /\ cores'[c].state = "ready" => cores[c].state = "ready"
        /\ cores'[c].state = "pending" => cores[c].state = "pending"
        /\ cores[c].dropped => cores'[c].dropped
  BY <1>1, <1>2, StoppedIsACore
<1>5. TypeOK'
  <2>1. drops' = Append(drops, corePromise) /\ corePromise' = 0
        /\ UNCHANGED <<options, modules, compiled, open>>
    BY <1>1
  <2>2. drops' \in Seq(0 .. Len(cores))
    BY <2>1 DEF TypeOK
  <2>3. Len(cores') = Len(cores) /\ cores' \in Seq(Core) /\ Len(cores) \in Nat
    BY <1>3 DEF TypeOK
  <2> QED BY <2>1, <2>2, <2>3 DEF TypeOK
<1>6. Current' /\ RunsItsModule'
  BY <1>1, <1>3, <1>4 DEF Current, RunsItsModule
<1>7. Len(drops') = Len(drops) + 1 /\ Len(drops) \in Nat
  BY <1>1 DEF TypeOK
<1>8. InItsOptions'
  <2>1. \A o \in Opens : open[o].core # 0 => open[o].core \in Ids(cores)
    BY DEF TypeOK, Ids
  <2>2. \A o \in Opens : open[o].asked.drops \in Nat
    BY DEF TypeOK, AskedFor
  <2> QED BY <1>1, <1>4, <1>7, <2>1, <2>2 DEF InItsOptions
<1>9. Dropped'
  <2> SUFFICES ASSUME NEW k \in Ids(drops)', drops'[k] # 0
               PROVE  /\ cores'[drops'[k]].state # "ready"
                      /\ cores'[drops'[k]].state = "pending" => cores'[drops'[k]].dropped
                      /\ \A o \in Opens : open'[o].core = drops'[k] =>
                                            open'[o].asked.drops < k
    BY DEF Dropped
  <2>1. CASE k = Len(drops) + 1
    <3>1. drops'[k] = corePromise /\ corePromise \in Ids(cores)
      BY <1>1, <2>1 DEF TypeOK, Ids
    <3>2. cores'[corePromise] = Stopped(cores[corePromise])
      BY <1>1, <3>1
    <3>3. \A o \in Opens : open'[o].asked.drops < k
      BY <1>1, <1>7, <2>1 DEF InItsOptions, TypeOK, AskedFor
    <3> QED BY <3>1, <3>2, <3>3, <1>2, StoppedIsACore
  <2>2. CASE k # Len(drops) + 1
    <3>1. k \in Ids(drops) /\ drops'[k] = drops[k]
      BY <1>1, <1>7, <2>2 DEF TypeOK, Ids
    <3>2. drops[k] \in Ids(cores)
      BY <3>1 DEF TypeOK, Ids
    <3> QED BY <1>1, <1>4, <3>1, <3>2 DEF Dropped
  <2> QED BY <2>1, <2>2
<1> QED BY <1>5, <1>6, <1>8, <1>9 DEF Inv

\* A new core is the current one; it runs the module of the options as they are,
\* compiled before or now.
LEMMA NewCoreKeeps ==
    ASSUME Inv, NEW o \in Opens, NEW asked \in AskedFor, NewCore(o, asked),
           asked.configures <= options.count, asked.drops <= Len(drops)
    PROVE  Inv'
<1> USE DEF Inv
<1> DEFINE made == [options |-> options, drops |-> Len(drops), module |-> compiled',
                    state |-> "pending", dropped |-> FALSE]
           here == [stage |-> "making", core |-> Len(cores) + 1, asked |-> asked]
<1>1. /\ cores' = Append(cores, made)
      /\ corePromise' = Len(cores) + 1
      /\ open' = [open EXCEPT ![o] = here]
      /\ UNCHANGED <<options, drops>>
      /\ CompileWasm
  BY DEF NewCore, ThisCore
<1>2. Len(cores) \in Nat /\ Len(modules) \in Nat /\ Len(drops) \in Nat
  BY DEF TypeOK
<1>3. /\ modules' \in Seq(Module) /\ Len(modules') \in Nat
      /\ Len(modules) <= Len(modules')
      /\ \A m \in Ids(modules) : modules'[m] = modules[m]
      /\ compiled' \in Ids(modules')
      /\ modules'[compiled'].source = options.source
  <2>1. CASE compiled # 0 /\ modules[compiled].source = options.source
    BY <1>1, <1>2, <2>1 DEF CompileWasm, TypeOK, Ids
  <2>2. CASE ~(compiled # 0 /\ modules[compiled].source = options.source)
    <3> DEFINE module == [source |-> options.source, state |-> "pending"]
    <3>1. modules' = Append(modules, module) /\ compiled' = Len(modules) + 1
      BY <1>1, <2>2 DEF CompileWasm
    <3>2. module \in Module
      BY DEF TypeOK, Options, Module
    <3>3. modules' \in Seq(Module) /\ Len(modules') = Len(modules) + 1
      BY <3>1, <3>2 DEF TypeOK
    <3>4. \A m \in Ids(modules) : modules'[m] = modules[m]
      BY <3>1 DEF TypeOK, Ids
    <3>5. modules'[compiled'] = module
      BY <3>1, <1>2 DEF TypeOK
    <3> QED BY <3>1, <3>3, <3>4, <3>5, <1>2 DEF Ids
  <2> QED BY <2>1, <2>2
<1>4. made \in Core
  BY <1>2, <1>3 DEF TypeOK, Core, CoreStates, Ids
<1> HIDE DEF made
<1>5. /\ cores' \in Seq(Core) /\ Len(cores') = Len(cores) + 1
      /\ \A c \in Ids(cores) : cores'[c] = cores[c]
      /\ cores'[Len(cores) + 1] = made
  BY <1>1, <1>2, <1>4 DEF TypeOK, Ids
<1>6. made.options = options /\ made.module = compiled' /\ made.state = "pending"
  BY DEF made
<1>7. /\ open'[o] = here
      /\ \A p \in Opens : p # o => open'[p] = open[p]
  BY <1>1 DEF TypeOK
<1>8. TypeOK'
  <2>1. drops' \in Seq(0 .. Len(cores'))
    <3>1. \A k \in 1 .. Len(drops) : drops[k] \in 0 .. Len(cores')
      BY <1>2, <1>5 DEF TypeOK
    <3> QED BY <1>1, <3>1 DEF TypeOK
  <2>2. open' \in [Opens -> [stage : Stages, core : 0 .. Len(cores'), asked : AskedFor]]
    BY <1>1, <1>2, <1>5 DEF TypeOK, Stages
  <2> QED BY <1>1, <1>2, <1>3, <1>5, <2>1, <2>2 DEF TypeOK, Ids
<1>9. Current'
  <2>1. \A k \in Ids(drops) : drops[k] # Len(cores) + 1
    BY <1>2 DEF TypeOK, Ids
  <2> QED BY <1>1, <1>5, <1>6, <2>1 DEF Current
<1>10. RunsItsModule'
  <2> SUFFICES ASSUME NEW c \in Ids(cores)'
               PROVE  /\ cores'[c].module \in Ids(modules')
                      /\ modules'[cores'[c].module].source = cores'[c].options.source
    BY DEF RunsItsModule
  <2>1. CASE c = Len(cores) + 1
    BY <1>3, <1>5, <1>6, <2>1
  <2>2. CASE c # Len(cores) + 1
    <3>1. c \in Ids(cores)
      BY <1>2, <1>5, <2>2 DEF Ids
    <3> QED BY <1>2, <1>3, <1>5, <3>1 DEF RunsItsModule, Ids
  <2> QED BY <2>1, <2>2
<1>11. InItsOptions'
  <2> SUFFICES ASSUME NEW p \in Opens
               PROVE  /\ open'[p].asked.configures <= options.count
                      /\ open'[p].asked.drops <= Len(drops)
                      /\ open'[p].core # 0 => cores'[open'[p].core].options.count
                                                >= open'[p].asked.configures
    BY <1>1 DEF InItsOptions
  <2>1. CASE p = o
    <3>1. open'[p].asked = asked /\ open'[p].core = Len(cores) + 1
      BY <1>7, <2>1
    <3>2. cores'[open'[p].core].options = options
      BY <1>5, <1>6, <3>1
    <3>3. options.count \in Nat /\ asked.configures \in Nat
      BY DEF TypeOK, Options, AskedFor
    <3> QED BY <3>1, <3>2, <3>3
  <2>2. CASE p # o
    <3>1. open[p].core \in 0 .. Len(cores)
      BY DEF TypeOK
    <3> QED BY <1>5, <1>7, <2>2, <3>1 DEF InItsOptions, Ids
  <2> QED BY <2>1, <2>2
<1>12. Dropped'
  <2> SUFFICES ASSUME NEW k \in Ids(drops), drops[k] # 0
               PROVE  /\ cores'[drops[k]].state # "ready"
                      /\ cores'[drops[k]].state = "pending" => cores'[drops[k]].dropped
                      /\ \A p \in Opens : open'[p].core = drops[k] =>
                                            open'[p].asked.drops < k
    BY <1>1 DEF Dropped
  <2>1. drops[k] \in Ids(cores)
    BY DEF TypeOK, Ids
  <2>2. drops[k] # Len(cores) + 1
    BY <1>2, <2>1 DEF Ids
  <2>3. \A p \in Opens : open'[p].core = drops[k] => open[p] = open'[p]
    BY <1>7, <2>2
  <2> QED BY <1>5, <2>1, <2>3 DEF Dropped
<1> QED BY <1>8, <1>9, <1>10, <1>11, <1>12 DEF Inv

\* A document opens in the core that is there.
LEMMA OpenSharedKeeps ==
    ASSUME Inv, NEW o \in Opens, OpenShared(o)
    PROVE  Inv'
<1> USE DEF Inv
<1> DEFINE here == [stage |-> "waiting", core |-> corePromise, asked |-> Asked]
<1>1. /\ corePromise # 0
      /\ open' = [open EXCEPT ![o] = here]
      /\ UNCHANGED <<options, drops, corePromise, cores, modules, compiled>>
  BY DEF OpenShared
<1>2. Len(drops) \in Nat /\ options.count \in Nat
  BY DEF TypeOK, Options
<1>3. Asked \in AskedFor /\ Asked.configures = options.count /\ Asked.drops = Len(drops)
  BY <1>2 DEF Asked, AskedFor
<1>4. open'[o] = here /\ \A p \in Opens : p # o => open'[p] = open[p]
  BY <1>1 DEF TypeOK
<1>5. TypeOK'
  BY <1>1, <1>3 DEF TypeOK, Stages
<1>6. Current' /\ RunsItsModule'
  BY <1>1 DEF Current, RunsItsModule, Ids
<1>7. InItsOptions'
  BY <1>1, <1>2, <1>3, <1>4 DEF InItsOptions, Current
<1>8. Dropped'
  BY <1>1, <1>4 DEF Dropped, Current, Ids
<1> QED BY <1>5, <1>6, <1>7, <1>8 DEF Inv

\* An open that goes on in its core, or rejects.
LEMMA StageKeeps ==
    ASSUME Inv, NEW o \in Opens, NEW stage \in Stages,
           open' = [open EXCEPT ![o].stage = stage],
           UNCHANGED <<options, drops, corePromise, cores, modules, compiled>>
    PROVE  Inv'
<1> USE DEF Inv
<1>1. \A p \in Opens : open'[p].core = open[p].core /\ open'[p].asked = open[p].asked
  BY DEF TypeOK
<1>2. TypeOK'
  BY DEF TypeOK
<1>3. Current' /\ RunsItsModule'
  BY DEF Current, RunsItsModule, Ids
<1>4. InItsOptions' /\ Dropped'
  BY <1>1 DEF InItsOptions, Dropped, Ids
<1> QED BY <1>2, <1>3, <1>4 DEF Inv

\* A module that settles keeps its source.
LEMMA ModuleKeeps ==
    ASSUME Inv, NEW m \in Ids(modules), NEW state \in {"ready", "failed"},
           modules' = [modules EXCEPT ![m].state = state],
           compiled' \in {0, compiled},
           UNCHANGED <<options, drops, corePromise, cores, open>>
    PROVE  Inv'
<1> USE DEF Inv
<1>1. /\ modules' \in Seq(Module) /\ Len(modules') = Len(modules)
      /\ \A n \in Ids(modules) : modules'[n].source = modules[n].source
  <2> DEFINE module == [modules[m] EXCEPT !.state = state]
  <2>1. modules[m] \in Module /\ modules \in Seq(Module) /\ m \in 1 .. Len(modules)
    BY DEF TypeOK, Ids
  <2>2. module \in Module /\ module.source = modules[m].source
    BY <2>1 DEF Module
  <2>3. modules' = [modules EXCEPT ![m] = module]
    OBVIOUS
  <2> HIDE DEF module
  <2> QED BY <2>1, <2>2, <2>3 DEF Ids
<1>2. TypeOK'
  BY <1>1 DEF TypeOK
<1>3. RunsItsModule'
  BY <1>1 DEF RunsItsModule, Ids
<1>4. Current' /\ InItsOptions' /\ Dropped'
  BY DEF Current, InItsOptions, Dropped, Ids
<1> QED BY <1>2, <1>3, <1>4 DEF Inv

\* A core that starts, fails or crashes keeps its options and its module, and a
\* dropped one is not ready.
LEMMA CoreKeeps ==
    ASSUME Inv, NEW c \in Ids(cores), NEW state \in CoreStates \ {"pending"},
           state = "ready" => cores[c].state = "pending" /\ ~cores[c].dropped,
           cores' = [cores EXCEPT ![c].state = state],
           corePromise' \in {0, corePromise},
           UNCHANGED <<options, drops, modules, compiled, open>>
    PROVE  Inv'
<1> USE DEF Inv
<1>1. /\ cores' \in Seq(Core) /\ Len(cores') = Len(cores)
      /\ \A d \in Ids(cores) :
           /\ cores'[d].options = cores[d].options
           /\ cores'[d].module = cores[d].module
           /\ cores'[d].dropped = cores[d].dropped
           /\ cores'[d].state = IF d = c THEN state ELSE cores[d].state
  <2> DEFINE made == [cores[c] EXCEPT !.state = state]
  <2>1. cores[c] \in Core /\ cores \in Seq(Core) /\ c \in 1 .. Len(cores)
    BY DEF TypeOK, Ids
  <2>2. /\ made \in Core /\ made.state = state
        /\ made.options = cores[c].options /\ made.module = cores[c].module
        /\ made.dropped = cores[c].dropped
    BY <2>1 DEF Core
  <2>3. cores' = [cores EXCEPT ![c] = made]
    OBVIOUS
  <2> HIDE DEF made
  <2> QED BY <2>1, <2>2, <2>3 DEF Ids
<1>2. TypeOK'
  BY <1>1 DEF TypeOK
<1>3. Current' /\ RunsItsModule'
  BY <1>1 DEF Current, RunsItsModule, TypeOK, Ids
<1>4. InItsOptions'
  BY <1>1 DEF InItsOptions, TypeOK, Ids
<1>5. Dropped'
  <2> SUFFICES ASSUME NEW k \in Ids(drops), drops[k] # 0
               PROVE  /\ cores'[drops[k]].state # "ready"
                      /\ cores'[drops[k]].state = "pending" => cores'[drops[k]].dropped
                      /\ \A p \in Opens : open[p].core = drops[k] =>
                                            open[p].asked.drops < k
    BY DEF Dropped, Ids
  <2>1. drops[k] \in Ids(cores)
    BY DEF TypeOK, Ids
  <2> QED BY <1>1, <2>1 DEF Dropped
<1> QED BY <1>2, <1>3, <1>4, <1>5 DEF Inv

-----------------------------------------------------------------------------

\* Every step of the openings.
LEMMA OpeningStep == Inv /\ [OpeningNext]_openingVars => Inv'
<1> SUFFICES ASSUME Inv, [OpeningNext]_openingVars PROVE Inv'
  OBVIOUS
<1>1. ASSUME NEW source \in Sources, Configure(source) PROVE Inv'
  BY <1>1, ConfigureKeeps
<1>2. CASE DropCore
  BY <1>2, DropCoreKeeps
<1>3. ASSUME NEW o \in Opens, OpenFirst(o) PROVE Inv'
  <2>1. NewCore(o, Asked)
    BY <1>3 DEF OpenFirst
  <2>2. /\ Asked \in AskedFor
        /\ Asked.configures <= options.count /\ Asked.drops <= Len(drops)
    BY DEF Asked, AskedFor, Inv, TypeOK, Options
  <2> QED BY <2>1, <2>2, NewCoreKeeps
<1>4. ASSUME NEW o \in Opens, OpenShared(o) PROVE Inv'
  BY <1>4, OpenSharedKeeps
<1>5. ASSUME NEW o \in Opens, Share(o) PROVE Inv'
  <2>1. "open" \in Stages
    BY DEF Stages
  <2> QED BY <1>5, <2>1, StageKeeps DEF Share
<1>6. ASSUME NEW o \in Opens, Replace(o) PROVE Inv'
  <2>1. NewCore(o, open[o].asked)
    BY <1>6 DEF Replace
  <2>2. /\ open[o].asked \in AskedFor
        /\ open[o].asked.configures <= options.count
        /\ open[o].asked.drops <= Len(drops)
    BY DEF Inv, TypeOK, InItsOptions
  <2> QED BY <2>1, <2>2, NewCoreKeeps
<1>7. ASSUME NEW o \in Opens, Made(o) PROVE Inv'
  <2>1. \E stage \in Stages : open' = [open EXCEPT ![o].stage = stage]
    BY <1>7 DEF Made, Stages
  <2> QED BY <1>7, <2>1, StageKeeps DEF Made
<1>8. ASSUME NEW m \in Ids(modules), Compiles(m) PROVE Inv'
  BY <1>8, ModuleKeeps DEF Compiles
<1>9. ASSUME NEW m \in Ids(modules), CompileFails(m) PROVE Inv'
  BY <1>9, ModuleKeeps DEF CompileFails, CompiledAfter
<1>10. ASSUME NEW c \in Ids(cores), CoreStarts(c) PROVE Inv'
  <2>1. CASE cores[c].dropped
    <3>1. cores' = [cores EXCEPT ![c].state = "dead"] /\ "dead" \in CoreStates \ {"pending"}
      BY <1>10, <2>1 DEF CoreStarts, CoreStates
    <3> QED BY <1>10, <3>1, CoreKeeps DEF CoreStarts
  <2>2. CASE ~cores[c].dropped
    <3>1. cores' = [cores EXCEPT ![c].state = "ready"] /\ "ready" \in CoreStates \ {"pending"}
      BY <1>10, <2>2 DEF CoreStarts, CoreStates
    <3> QED BY <1>10, <2>2, <3>1, CoreKeeps DEF CoreStarts
  <2> QED BY <2>1, <2>2
<1>11. ASSUME NEW c \in Ids(cores), StartFails(c) PROVE Inv'
  <2>1. "failed" \in CoreStates \ {"pending"}
    BY DEF CoreStates
  <2> QED BY <1>11, <2>1, CoreKeeps DEF StartFails, CurrentAfterFailure
<1>12. ASSUME NEW c \in Ids(cores), Crashes(c) PROVE Inv'
  <2>1. "dead" \in CoreStates \ {"pending"}
    BY DEF CoreStates
  <2> QED BY <1>12, <2>1, CoreKeeps DEF Crashes
<1>13. CASE UNCHANGED openingVars
  BY <1>13 DEF openingVars, Inv, TypeOK, Current, RunsItsModule, InItsOptions, Dropped, Ids
<1> QED
  BY <1>1, <1>2, <1>3, <1>4, <1>5, <1>6, <1>7, <1>8, <1>9, <1>10, <1>11, <1>12,
     <1>13 DEF OpeningNext

\* What every reachable state has: the current core is of the options as they are,
\* every core runs the module of its options, no open is in older ones, and the
\* dropped cores are stopped or will be.
THEOREM OpeningInvariant == OpeningSpec => []Inv
BY OpeningInitInv, OpeningStep, PTL DEF OpeningSpec

\* configure applies to the documents opened afterwards: an open never gets a core
\* of options older than those it was called under, and a core runs the module its
\* options name (getCore, compileWasm).
THEOREM OpeningOptionsApply == OpeningSpec => []OptionsApply
<1>1. Inv => OptionsApply
  BY DEF Inv, RunsItsModule, InItsOptions, OptionsApply
<1> QED BY <1>1, OpeningInvariant, PTL

\* A dropped core is stopped, also when it was in the making, and no open called
\* afterwards is in it (dropCore).
THEOREM OpeningDroppedIsStopped == OpeningSpec => []DroppedIsStopped
<1>1. Inv => DroppedIsStopped
  BY DEF Inv, Dropped, DroppedIsStopped
<1> QED BY <1>1, OpeningInvariant, PTL

-----------------------------------------------------------------------------

(* Pages: documents, pages, references and handles. *)

PageNames ==
    [kind : {"page", "derived", "document", "other"}, id : Nat, number : Nat]
Entries == [handle : Nat, page : PageNames, live : BOOLEAN]

\* The place of n among the members of S.
Rank(S, n) == Cardinality({m \in S : m <= n})

\* A place is among the places.
LEMMA RankType ==
    ASSUME NEW S, IsFiniteSet(S), S \subseteq Int, NEW n \in S
    PROVE  Rank(S, n) \in 1 .. Cardinality(S)
<1> DEFINE below == {m \in S : m <= n}
<1>1. below \in SUBSET S /\ n \in below  OBVIOUS
<1>2. IsFiniteSet(below) /\ Cardinality(below) <= Cardinality(S)
  BY <1>1, FS_Subset
<1>3. Cardinality(below) \in Nat /\ Cardinality(below) # 0 /\ Cardinality(S) \in Nat
  BY <1>1, <1>2, FS_EmptySet, FS_CardinalityType
<1> HIDE DEF below
<1>4. Cardinality(below) \in 1 .. Cardinality(S)
  BY <1>2, <1>3
<1> QED  BY <1>4 DEF Rank, below

\* No two members have one place.
LEMMA RanksDiffer ==
    ASSUME NEW S, IsFiniteSet(S), S \subseteq Int, NEW n, NEW p, n \in S, p \in S, n < p
    PROVE  Rank(S, n) # Rank(S, p)
<1> DEFINE low == {m \in S : m <= n}
           high == {m \in S : m <= p}
<1>1. low \in SUBSET high /\ low # high
  <2>1. p \in high /\ p \notin low  OBVIOUS
  <2>2. \A m \in low : m \in high  OBVIOUS
  <2> QED  BY <2>1, <2>2
<1>2. IsFiniteSet(high)  BY FS_Subset
<1>3. Cardinality(high) # Cardinality(low)  BY <1>1, <1>2, FS_Subset
<1> QED  BY <1>3 DEF Rank

(***************************************************************************)
(* The members of a finite set of numbers have the ranks 1, 2, ..., each    *)
(* one of them.                                                            *)
(***************************************************************************)
LEMMA RankExists ==
    ASSUME NEW S, IsFiniteSet(S), S \subseteq Int, NEW k, k \in 1 .. Cardinality(S)
    PROVE  \E n \in S : Rank(S, n) = k
<1> DEFINE T == 1 .. Cardinality(S)
           f == [n \in S |-> Rank(S, n)]
<1>1. f \in [S -> T]  BY RankType
<1>2. ASSUME NEW n \in S, NEW p \in S, f[n] = f[p]  PROVE n = p
  <2>1. n \in Int /\ p \in Int  OBVIOUS
  <2>2. Rank(S, n) = Rank(S, p)  BY <1>2
  <2>3. ~(n < p) /\ ~(p < n)  BY <2>2, RanksDiffer
  <2> QED  BY <2>1, <2>3
<1>3. f \in Injection(S, T)
  BY <1>1, <1>2 DEF Injection, IsInjective
<1>4. Cardinality(S) \in Nat  BY FS_CardinalityType
<1>5. IsFiniteSet(T) /\ Cardinality(T) = Cardinality(S)
  BY <1>4, FS_Interval
<1>6. f \in Surjection(S, T)
  BY <1>3, <1>5, FS_Injection
<1>7. k \in T  OBVIOUS
<1>8. \E n \in S : f[n] = k
  BY <1>6, <1>7 DEF Surjection
<1> QED  BY <1>8

\* The page p is in the core under the handle h.
HoldsIn(table, h, p) ==
    \E i \in DOMAIN table : table[i].live /\ table[i].handle = h /\ table[i].page = p
Holds(h, p) == HoldsIn(core, h, p)

\* The handle table: the document is its first entry, a handle is that of one
\* live object, a derived page has an identity of its own.
CoreInv ==
    /\ core \in Seq(Entries)
    /\ core # <<>>
    /\ core[1].page = TheDocument /\ core[1].handle = 1
    /\ \A i \in DOMAIN core :
         /\ core[i].handle > 0
         /\ core[i].page = TheDocument => i = 1
         /\ core[i].page.kind = "derived" => core[i].page.id = i - 1
         /\ core[i].page.kind \in {"page", "derived"} => core[i].page.number \in Numbers
    /\ \A i, k \in DOMAIN core :
         core[i].live /\ core[k].live /\ core[i].handle = core[k].handle => i = k

\* The first n numbers are n.
LEMMA FirstNumbers ==
    ASSUME NEW n, n \in Nat
    PROVE  IsFiniteSet(1 .. n) /\ Cardinality(1 .. n) = n
BY FS_Interval

\* The table has an entry, the document's.
LEMMA CoreDomain ==
    ASSUME CoreInv
    PROVE  Len(core) \in Nat \ {0} /\ DOMAIN core = 1 .. Len(core) /\ 1 \in DOMAIN core
BY DEF CoreInv

(***************************************************************************)
(* The k-th free handle is free, and the k-th: there are no more objects   *)
(* than entries, so it is among the first Len(core) + k.                   *)
(***************************************************************************)
LEMMA InUseIsFinite ==
    ASSUME CoreInv
    PROVE  IsFiniteSet(InUse) /\ Cardinality(InUse) <= Len(core) /\ Cardinality(InUse) \in Nat
<1> DEFINE L == {k \in DOMAIN core : core[k].live}
           f == [i \in L |-> core[i].handle]
<1>1. Len(core) \in Nat /\ DOMAIN core = 1 .. Len(core)  BY CoreDomain
<1>2. IsFiniteSet(1 .. Len(core)) /\ Cardinality(1 .. Len(core)) = Len(core)
  BY <1>1, FirstNumbers
<1>3. L \in SUBSET (1 .. Len(core))  BY <1>1
<1>4. IsFiniteSet(L) /\ Cardinality(L) <= Len(core)
  BY <1>2, <1>3, FS_Subset
<1>5. f \in Surjection(L, InUse)
  BY DEF Surjection, InUse
<1>6. IsFiniteSet(InUse) /\ Cardinality(InUse) <= Cardinality(L)
  BY <1>4, <1>5, FS_Surjection
<1>7. Cardinality(InUse) \in Nat /\ Cardinality(L) \in Nat
  BY <1>4, <1>6, FS_CardinalityType
<1> QED  BY <1>1, <1>4, <1>6, <1>7

\* No handle is 0.
LEMMA InUseIsPositive ==
    ASSUME CoreInv
    PROVE  InUse \subseteq Nat \ {0}
<1>1. \A i \in DOMAIN core : core[i].handle \in Nat /\ core[i].handle > 0
  <2>1. \A i \in DOMAIN core : core[i] \in Entries  BY DEF CoreInv
  <2> QED  BY <2>1 DEF CoreInv, Entries
<1> QED  BY <1>1 DEF InUse

\* The handles the core gives are free, one after the other.
LEMMA FreeHandleIsFree ==
    ASSUME CoreInv, NEW k, k \in Nat \ {0}
    PROVE  /\ FreeHandle(k) \in 1 .. Len(core) + k
           /\ FreeHandle(k) \notin InUse
           /\ Cardinality((1 .. FreeHandle(k)) \ InUse) = k
<1> DEFINE N == Len(core) + k
           S == (1 .. N) \ InUse
<1>1. Len(core) \in Nat /\ N \in Nat  BY CoreDomain
<1>2. IsFiniteSet(1 .. N) /\ Cardinality(1 .. N) = N  BY <1>1, FirstNumbers
<1>3. IsFiniteSet(S) /\ Cardinality(S) = N - Cardinality((1 .. N) \cap InUse)
  BY <1>2, FS_Difference
<1>4. Cardinality((1 .. N) \cap InUse) <= Cardinality(InUse)
  BY InUseIsFinite, FS_Intersection
<1>5. Cardinality((1 .. N) \cap InUse) \in Nat
  BY <1>2, FS_Intersection, FS_CardinalityType
<1>6. Cardinality(InUse) <= Len(core) /\ Cardinality(InUse) \in Nat  BY InUseIsFinite
<1>7. Cardinality(S) \in Nat /\ Cardinality(S) >= k
  BY <1>1, <1>3, <1>4, <1>5, <1>6
<1>8. k \in 1 .. Cardinality(S)  BY <1>7
<1>9. S \subseteq Int  BY <1>1
<1>10. PICK h \in S : Rank(S, h) = k
  <2> HIDE DEF S
  <2> QED  BY <1>3, <1>8, <1>9, RankExists
<1>11. {m \in S : m <= h} = (1 .. h) \ InUse  BY <1>1, <1>10
<1>12. /\ h \in 1 .. Len(core) + k
       /\ h \notin InUse
       /\ Cardinality((1 .. h) \ InUse) = k
  BY <1>10, <1>11 DEF Rank
<1> QED  BY <1>12 DEF FreeHandle

\* Two free handles are two.
LEMMA FreeHandlesDiffer ==
    ASSUME CoreInv, NEW k, NEW m, k \in Nat \ {0}, m \in Nat \ {0},
           FreeHandle(k) = FreeHandle(m)
    PROVE  k = m
<1>1. Cardinality((1 .. FreeHandle(k)) \ InUse) = k  BY FreeHandleIsFree
<1>2. Cardinality((1 .. FreeHandle(m)) \ InUse) = m  BY FreeHandleIsFree
<1> QED  BY <1>1, <1>2

(***************************************************************************)
(* What a live handle reaches is its object.                               *)
(***************************************************************************)
LEMMA HoldsIsUnique ==
    ASSUME CoreInv, NEW h, NEW p, NEW q, Holds(h, p), Holds(h, q)
    PROVE  p = q
BY DEF CoreInv, Holds, HoldsIn

\* A handle under which an object is in the core reaches that object.
LEMMA HoldsGives ==
    ASSUME CoreInv, NEW h, NEW p, Holds(h, p)
    PROVE  h \in InUse /\ PageAt(h) = p /\ h \in Nat \ {0} /\ p \in PageNames
<1>1. PICK i \in DOMAIN core : core[i].live /\ core[i].handle = h /\ core[i].page = p
  BY DEF Holds, HoldsIn
<1>2. At(h) = i
  <2>1. \A k \in DOMAIN core : core[k].live /\ core[k].handle = h => k = i
    BY <1>1 DEF CoreInv
  <2> QED  BY <1>1, <2>1 DEF At
<1>3. core[i] \in Entries  BY <1>1 DEF CoreInv
<1>4. h \in InUse  BY <1>1 DEF InUse
<1>5. PageAt(h) = p  BY <1>1, <1>2 DEF PageAt
<1> QED  BY <1>1, <1>3, <1>4, <1>5 DEF Entries, CoreInv

\* What a handle in use reaches is in the core.
LEMMA InUseHolds ==
    ASSUME CoreInv, NEW h, h \in InUse
    PROVE  Holds(h, PageAt(h))
<1>1. PICK i \in DOMAIN core : core[i].live /\ core[i].handle = h
  BY DEF InUse
<1>2. Holds(h, core[i].page)  BY <1>1 DEF Holds, HoldsIn
<1> QED  BY <1>2, HoldsGives

(***************************************************************************)
(* Every step but a free only adds entries.                                *)
(***************************************************************************)
CoreGrows ==
    /\ Len(core') >= Len(core)
    /\ \A i \in DOMAIN core : i \in DOMAIN core' /\ core'[i] = core[i]

\* An object keeps its handle when entries are added.
LEMMA GrowingKeepsHolds ==
    ASSUME CoreGrows, NEW h, NEW p, Holds(h, p)
    PROVE  HoldsIn(core', h, p)
BY DEF CoreGrows, Holds, HoldsIn

\* Pages that may be given handles, one after the other.
Insertable(pages) ==
    /\ pages \in Seq(PageNames)
    /\ \A k \in DOMAIN pages :
         /\ pages[k] # TheDocument
         /\ pages[k].kind = "derived" => pages[k].id = Len(core) + k - 1
         /\ pages[k].kind \in {"page", "derived"} => pages[k].number \in Numbers

\* The members of s \o t.
Concatenation(s, t, S) ==
    /\ s \o t \in Seq(S) /\ Len(s \o t) = Len(s) + Len(t)
    /\ \A i \in 1 .. Len(s) : (s \o t)[i] = s[i]
    /\ \A k \in 1 .. Len(t) : (s \o t)[Len(s) + k] = t[k]
    /\ DOMAIN (s \o t) = 1 .. Len(s) + Len(t)
    /\ \A i \in DOMAIN (s \o t) :
         i \in DOMAIN s \/ \E k \in DOMAIN t : i = Len(s) + k

\* What the concatenation of two sequences holds.
LEMMA Concatenated ==
    ASSUME NEW S, NEW s, NEW t, s \in Seq(S), t \in Seq(S)
    PROVE  Concatenation(s, t, S)
<1>1. /\ s \o t \in Seq(S) /\ Len(s \o t) = Len(s) + Len(t)
      /\ Len(s) \in Nat /\ Len(t) \in Nat
  OBVIOUS
<1>2. /\ \A i \in 1 .. Len(s) : (s \o t)[i] = s[i]
  OBVIOUS
<1>3. ASSUME NEW k \in 1 .. Len(t)  PROVE (s \o t)[Len(s) + k] = t[k]
  BY <1>1
<1>4. DOMAIN (s \o t) = 1 .. Len(s) + Len(t)  BY <1>1
<1>5. ASSUME NEW i \in 1 .. Len(s) + Len(t), i \notin DOMAIN s
      PROVE  \E k \in DOMAIN t : i = Len(s) + k
  <2>1. i - Len(s) \in DOMAIN t /\ i = Len(s) + (i - Len(s))
    BY <1>1, <1>5
  <2> QED  BY <2>1
<1> QED  BY <1>1, <1>2, <1>3, <1>4, <1>5 DEF Concatenation

\* New entries have handles of their own, and keep the table.
LEMMA InsertKeepsCore ==
    ASSUME CoreInv, NEW pages, Insertable(pages), core' = Insert(pages)
    PROVE  /\ CoreInv' /\ CoreGrows
           /\ Len(core') = Len(core) + Len(pages)
           /\ \A k \in DOMAIN pages :
                 /\ core'[Len(core) + k] =
                      [handle |-> FreeHandle(k), page |-> pages[k], live |-> TRUE]
                 /\ HoldsIn(core', FreeHandle(k), pages[k])
           /\ \A i \in DOMAIN core' :
                 i \in DOMAIN core \/ \E k \in DOMAIN pages : i = Len(core) + k
<1> DEFINE new == [k \in DOMAIN pages |->
                     [handle |-> FreeHandle(k), page |-> pages[k], live |-> TRUE]]
<1>1. Len(core) \in Nat \ {0} /\ DOMAIN core = 1 .. Len(core)  BY CoreDomain
<1>2. Len(pages) \in Nat /\ DOMAIN pages = 1 .. Len(pages)  BY DEF Insertable
<1>3. \A k \in DOMAIN pages : FreeHandle(k) \in Nat /\ FreeHandle(k) > 0 /\ FreeHandle(k) \notin InUse
  <2> SUFFICES ASSUME NEW k \in DOMAIN pages
               PROVE  FreeHandle(k) \in Nat /\ FreeHandle(k) > 0 /\ FreeHandle(k) \notin InUse
    OBVIOUS
  <2>1. k \in Nat \ {0}  BY <1>2
  <2>2. FreeHandle(k) \in 1 .. Len(core) + k /\ FreeHandle(k) \notin InUse
    BY <2>1, FreeHandleIsFree
  <2> QED  BY <2>1, <2>2, <1>1
<1>4. new \in Seq(Entries) /\ Len(new) = Len(pages)
  <2>1. new \in [1 .. Len(pages) -> Entries]
    BY <1>2, <1>3 DEF Entries, Insertable
  <2> QED  BY <2>1, <1>2
<1>5. core \in Seq(Entries)  BY DEF CoreInv
<1>6. core' = core \o new  BY DEF Insert
<1> HIDE DEF new
<1>18. /\ core' \in Seq(Entries) /\ Len(core') = Len(core) + Len(new)
       /\ \A i \in 1 .. Len(core) : core'[i] = core[i]
       /\ \A k \in 1 .. Len(new) : core'[Len(core) + k] = new[k]
       /\ \A i \in DOMAIN core' :
            i \in DOMAIN core \/ \E k \in DOMAIN new : i = Len(core) + k
  <2>1. Concatenation(core, new, Entries)
    BY <1>4, <1>5, Concatenated
  <2> QED  BY <2>1, <1>6 DEF Concatenation
<1>7. /\ core' \in Seq(Entries) /\ Len(core') = Len(core) + Len(pages)
      /\ \A i \in 1 .. Len(core) : core'[i] = core[i]
      /\ \A k \in 1 .. Len(pages) : core'[Len(core) + k] = new[k]
  BY <1>4, <1>18
<1>8. DOMAIN core' = 1 .. Len(core) + Len(pages)  BY <1>7, <1>1, <1>2
<1>9. CoreGrows  BY <1>1, <1>2, <1>7, <1>8 DEF CoreGrows
<1>10. \A k \in DOMAIN pages : core'[Len(core) + k] =
          [handle |-> FreeHandle(k), page |-> pages[k], live |-> TRUE]
  BY <1>2, <1>7 DEF new
<1>11. \A i \in DOMAIN core' : i \in DOMAIN core \/ \E k \in DOMAIN pages : i = Len(core) + k
  BY <1>18 DEF new
<1>12. \A k \in DOMAIN pages : Len(core) + k \in DOMAIN core'
  BY <1>1, <1>2, <1>8
<1>13. \A k \in DOMAIN pages : HoldsIn(core', FreeHandle(k), pages[k])
  <2> SUFFICES ASSUME NEW k \in DOMAIN pages
               PROVE  HoldsIn(core', FreeHandle(k), pages[k])
    OBVIOUS
  <2>1. core'[Len(core) + k] = [handle |-> FreeHandle(k), page |-> pages[k], live |-> TRUE]
    BY <1>10
  <2>2. Len(core) + k \in DOMAIN core'  BY <1>12
  <2> QED  BY <2>1, <2>2 DEF HoldsIn
<1>14. \A i \in DOMAIN core' :
         /\ core'[i].handle > 0
         /\ core'[i].page = TheDocument => i = 1
         /\ core'[i].page.kind = "derived" => core'[i].page.id = i - 1
         /\ core'[i].page.kind \in {"page", "derived"} => core'[i].page.number \in Numbers
  <2> SUFFICES ASSUME NEW i \in DOMAIN core'
               PROVE
         /\ core'[i].handle > 0
         /\ core'[i].page = TheDocument => i = 1
         /\ core'[i].page.kind = "derived" => core'[i].page.id = i - 1
         /\ core'[i].page.kind \in {"page", "derived"} => core'[i].page.number \in Numbers
    OBVIOUS
  <2>1. CASE i \in DOMAIN core  BY <2>1, <1>1, <1>7 DEF CoreInv
  <2>2. ASSUME NEW k \in DOMAIN pages, i = Len(core) + k
        PROVE  /\ core'[i].handle > 0
               /\ core'[i].page = TheDocument => i = 1
               /\ core'[i].page.kind = "derived" => core'[i].page.id = i - 1
               /\ core'[i].page.kind \in {"page", "derived"} => core'[i].page.number \in Numbers
    <3>1. core'[Len(core) + k] = [handle |-> FreeHandle(k), page |-> pages[k], live |-> TRUE]
      BY <1>10
    <3>2. /\ core'[i].handle = FreeHandle(k) /\ core'[i].page = pages[k]
      BY <3>1, <2>2
    <3>3. FreeHandle(k) > 0  BY <1>3
    <3> QED  BY <2>2, <3>2, <3>3 DEF Insertable
  <2> QED  BY <2>1, <2>2, <1>11
<1>15. \A i, j \in DOMAIN core' :
         core'[i].live /\ core'[j].live /\ core'[i].handle = core'[j].handle => i = j
  <2> SUFFICES ASSUME NEW i \in DOMAIN core', NEW j \in DOMAIN core',
                      core'[i].live, core'[j].live, core'[i].handle = core'[j].handle
               PROVE  i = j
    OBVIOUS
  <2>1. CASE i \in DOMAIN core /\ j \in DOMAIN core
    BY <2>1, <1>1, <1>7 DEF CoreInv
  <2>2. \A m \in DOMAIN core : core[m].live => core[m].handle \in InUse
    BY DEF InUse
  <2>3. ASSUME NEW k \in DOMAIN pages
        PROVE  core'[Len(core) + k].handle = FreeHandle(k) /\ FreeHandle(k) \notin InUse
    <3>1. core'[Len(core) + k] = [handle |-> FreeHandle(k), page |-> pages[k], live |-> TRUE]
      BY <1>10
    <3> QED  BY <3>1, <1>3
  <2>4. CASE i \in DOMAIN core /\ \E k \in DOMAIN pages : j = Len(core) + k
    BY <2>2, <2>3, <2>4, <1>1, <1>7
  <2>5. CASE j \in DOMAIN core /\ \E k \in DOMAIN pages : i = Len(core) + k
    BY <2>2, <2>3, <2>5, <1>1, <1>7
  <2>6. ASSUME NEW k \in DOMAIN pages, NEW m \in DOMAIN pages, i = Len(core) + k, j = Len(core) + m
        PROVE  i = j
    <3>1. FreeHandle(k) = FreeHandle(m)  BY <2>3, <2>6
    <3>2. k \in Nat \ {0} /\ m \in Nat \ {0}  BY <1>2
    <3> QED  BY <3>1, <3>2, <2>6, FreeHandlesDiffer
  <2> QED  BY <2>1, <2>4, <2>5, <2>6, <1>11
<1>16. core' # <<>> /\ core'[1].page = TheDocument /\ core'[1].handle = 1
  <2>1. core'[1] = core[1]  BY <1>1, <1>7
  <2> QED  BY <2>1, <1>1, <1>2, <1>7 DEF CoreInv
<1>17. CoreInv'
  BY <1>7, <1>14, <1>15, <1>16 DEF CoreInv
<1> QED  BY <1>7, <1>9, <1>10, <1>11, <1>13, <1>17

(***************************************************************************)
(* What a free does to the table: the entries, one by one.                 *)
(***************************************************************************)
LEMMA FreedEntries ==
    ASSUME CoreInv, NEW h, core' = Freed(h)
    PROVE  /\ CoreInv'
           /\ Len(core') = Len(core) /\ DOMAIN core' = DOMAIN core
           /\ \A k \in DOMAIN core :
                core'[k].page = core[k].page /\ core'[k].handle = core[k].handle
<1>1. Len(core) \in Nat \ {0} /\ DOMAIN core = 1 .. Len(core) /\ core \in Seq(Entries)
  BY CoreDomain DEF CoreInv
<1>2. \A k \in DOMAIN core : core[k] \in Entries  BY <1>1
<1>3. DOMAIN core' = 1 .. Len(core)  BY <1>1 DEF Freed
<1>4. \A k \in DOMAIN core :
        /\ core'[k] \in Entries
        /\ core'[k].page = core[k].page /\ core'[k].handle = core[k].handle
        /\ core'[k].live => core[k].live
  <2> SUFFICES ASSUME NEW k \in DOMAIN core
               PROVE  /\ core'[k] \in Entries
                      /\ core'[k].page = core[k].page /\ core'[k].handle = core[k].handle
                      /\ core'[k].live => core[k].live
    OBVIOUS
  <2>1. core[k] \in Entries  BY <1>2
  <2>2. core'[k] = core[k] \/ core'[k] = [core[k] EXCEPT !.live = FALSE]
    BY DEF Freed
  <2> QED  BY <2>1, <2>2 DEF Entries
<1>5. core' \in Seq(Entries) /\ Len(core') = Len(core)
  <2>1. core' \in [1 .. Len(core) -> Entries]
    BY <1>1, <1>4 DEF Freed
  <2> QED  BY <2>1, <1>1
<1>6. core' # <<>> /\ 1 \in DOMAIN core  BY <1>1, <1>5
<1>7. \A i \in DOMAIN core' :
         /\ core'[i].handle > 0
         /\ core'[i].page = TheDocument => i = 1
         /\ core'[i].page.kind = "derived" => core'[i].page.id = i - 1
         /\ core'[i].page.kind \in {"page", "derived"} => core'[i].page.number \in Numbers
  BY <1>1, <1>3, <1>4 DEF CoreInv
<1>8. \A i, k \in DOMAIN core' :
         core'[i].live /\ core'[k].live /\ core'[i].handle = core'[k].handle => i = k
  BY <1>1, <1>3, <1>4 DEF CoreInv
<1>9. core'[1].page = TheDocument /\ core'[1].handle = 1
  BY <1>4, <1>6 DEF CoreInv
<1> QED  BY <1>1, <1>3, <1>4, <1>5, <1>6, <1>7, <1>8, <1>9 DEF CoreInv

(***************************************************************************)
(* The free of a page takes its entry, and no other.                       *)
(***************************************************************************)
LEMMA FreedPage ==
    ASSUME CoreInv, NEW i, i \in DOMAIN core, core[i].live, i # 1,
           core' = Freed(core[i].handle)
    PROVE  /\ \A k \in DOMAIN core : k # i => core'[k] = core[k]
           /\ ~core'[i].live
<1> DEFINE h == core[i].handle
<1>1. Holds(h, core[i].page)  BY DEF Holds, HoldsIn
<1>2. h \in InUse /\ PageAt(h) = core[i].page  BY <1>1, HoldsGives
<1>3. PageAt(h) # TheDocument  BY <1>2 DEF CoreInv
<1>4. \A k \in DOMAIN core : core[k].live /\ core[k].handle = h => k = i
  BY DEF CoreInv
<1>5. core[i] \in Entries
  <2>1. core \in Seq(Entries)  BY DEF CoreInv
  <2> QED  BY <2>1
<1>6. core'[i] = [core[i] EXCEPT !.live = FALSE]
  BY <1>2 DEF Freed
<1>7. ASSUME NEW k \in DOMAIN core, k # i  PROVE core'[k] = core[k]
  BY <1>3, <1>4, <1>7 DEF Freed
<1> QED  BY <1>5, <1>6, <1>7 DEF Entries

\* The free of the document takes its entry.
LEMMA FreedDocument ==
    ASSUME CoreInv, core[1].live, core' = Freed(1)
    PROVE  ~core'[1].live
<1>1. 1 \in DOMAIN core  BY CoreDomain
<1>2. core[1] \in Entries
  <2>1. core \in Seq(Entries)  BY DEF CoreInv
  <2> QED  BY <2>1, <1>1
<1>3. core[1].handle = 1  BY DEF CoreInv
<1>4. 1 \in InUse  BY <1>1, <1>3 DEF InUse
<1>5. core'[1] = [core[1] EXCEPT !.live = FALSE]
  BY <1>1, <1>3, <1>4 DEF Freed
<1> QED  BY <1>2, <1>5 DEF Entries

(***************************************************************************)
(* What a label names: a live handle of the page, a new one if there was   *)
(* none.                                                                   *)
(***************************************************************************)
LEMMA FirstIsIn ==
    ASSUME NEW S, S \subseteq Nat, S # {}
    PROVE  First(S) \in S
<1>1. \E i \in S : \A k \in S : i <= k
  <2> DEFINE Less == {p \in Nat \X Nat : p[1] < p[2]}
  <2>1. IsWellFoundedOn(Less, Nat)
    BY NatLessThanWellFounded, Zenon DEF OpToRel, Less
  <2>2. \E x \in S : \A y \in S : ~(<<y, x>> \in Less)
    <3> HIDE DEF Less
    <3> QED  BY <2>1, WFMin
  <2>3. PICK x \in S : \A y \in S : ~(<<y, x>> \in Less)  BY <2>2
  <2>4. ASSUME NEW y \in S  PROVE x <= y
    <3>1. <<y, x>> \notin Less  BY <2>3
    <3>2. x \in Nat /\ y \in Nat  OBVIOUS
    <3> QED  BY <3>1, <3>2
  <2> QED  BY <2>4
<1> QED  BY <1>1 DEF First

\* The label of a page reaches it; a page that is derived gets no new entry.
LEMMA LabelledKeepsCore ==
    ASSUME CoreInv, NEW p, p \in PageNames, p.kind = "page" \/ \E h : Holds(h, p),
           p.kind = "page" => p.number \in Numbers,
           core' = Labelled(p)
    PROVE  /\ CoreInv' /\ CoreGrows /\ HoldsIn(core', LabelOf(p), p)
           /\ \A i \in DOMAIN core' : i \in DOMAIN core \/ core'[i].page.kind # "derived"
<1>1. CASE Labels(p) = {}
  <2>1. \A h : ~Holds(h, p)  BY <1>1 DEF Labels, Holds, HoldsIn
  <2>2. p.kind = "page"  BY <2>1
  <2>3. Insertable(<<p>>)
    <3>1. p # TheDocument  BY <2>2 DEF TheDocument
    <3>2. <<p>> \in Seq(PageNames) /\ DOMAIN <<p>> = {1} /\ <<p>>[1] = p  OBVIOUS
    <3> QED  BY <2>2, <3>1, <3>2 DEF Insertable
  <2>4. core' = Insert(<<p>>)  BY <1>1 DEF Labelled
  <2>5. 1 \in DOMAIN <<p>> /\ <<p>>[1] = p  OBVIOUS
  <2>6. HoldsIn(core', FreeHandle(1), <<p>>[1])  BY <2>3, <2>4, <2>5, InsertKeepsCore
  <2>7. LabelOf(p) = FreeHandle(1)  BY <1>1 DEF LabelOf
  <2>8. \A i \in DOMAIN core' :
          i \in DOMAIN core \/ \E k \in DOMAIN <<p>> : i = Len(core) + k
    BY <2>3, <2>4, InsertKeepsCore
  <2>9. core'[Len(core) + 1] = [handle |-> FreeHandle(1), page |-> <<p>>[1], live |-> TRUE]
    BY <2>3, <2>4, <2>5, InsertKeepsCore
  <2>10. core'[Len(core) + 1].page = p  BY <2>5, <2>9
  <2>11. DOMAIN <<p>> = {1}  OBVIOUS
  <2>12. \A i \in DOMAIN core' : i \in DOMAIN core \/ core'[i].page = p
    BY <2>8, <2>10, <2>11
  <2> QED  BY <2>2, <2>3, <2>4, <2>5, <2>6, <2>7, <2>12, InsertKeepsCore
<1>2. CASE Labels(p) # {}
  <2>1. core' = core  BY <1>2 DEF Labelled
  <2>2. Labels(p) \subseteq Nat  BY CoreDomain DEF Labels
  <2>3. First(Labels(p)) \in Labels(p)  BY <1>2, <2>2, FirstIsIn
  <2>4. HoldsIn(core', LabelOf(p), p)
    BY <1>2, <2>1, <2>3 DEF LabelOf, Labels, HoldsIn
  <2>5. CoreInv'  BY <2>1 DEF CoreInv
  <2>6. CoreGrows  BY <2>1, CoreDomain DEF CoreGrows
  <2> QED  BY <2>1, <2>4, <2>5, <2>6
<1> QED  BY <1>1, <1>2

PageJobs ==
    [op : {"pages", "annots", "close", "page", "crop", "page_annots", "free"},
     page : Nat, ref : Nat, handle : Nat, meant : Nat]
Replies == [made : BOOLEAN, handles : Seq(Nat), current : BOOLEAN]
PageObjects ==
    [handle : Nat, parent : Nat, held : BOOLEAN,
     state : {"live", "collected", "finalized"}, registered : BOOLEAN,
     names : PageNames]
PageRefs == [handle : Nat, number : Nat, epoch : Nat, names : PageNames, page : Nat]

PagesTypeOK ==
    /\ closed \in Nat /\ epoch \in Nat /\ released \in BOOLEAN
    /\ document \in {"held", "dropped", "collected", "finalized"}
    /\ queue \in Seq(PageJobs)
    /\ reply \in Replies
    /\ objs \in Seq(PageObjects)
    /\ refs \in Seq(PageRefs)
    /\ array \in {<<>>} \cup [Numbers -> DOMAIN objs]
    /\ byHandle \in [DOMAIN byHandle -> DOMAIN objs] /\ DOMAIN byHandle \subseteq Nat
    /\ weak \in [DOMAIN weak -> DOMAIN objs] /\ DOMAIN weak \subseteq Nat
    /\ current \in [DOMAIN current -> DOMAIN objs] /\ DOMAIN current \subseteq Numbers

\* A page of the list or a derived one, of a number the document has.
IsPage(p) == p.kind \in {"page", "derived"} /\ p.number \in Numbers

\* The finalizer of a page is still to run, if the collector takes the page.
Watched(o) == objs[o].registered /\ objs[o].state # "finalized"

\* No finalizer is to free the handle of the page.
Kept(p) == \A o \in DOMAIN objs : objs[o].names = p => ~objs[o].registered

\* A page object has its handle as long as it lives or its finalizer is to free
\* it; a derived page has one object the registry may track.
ObjInv ==
    /\ \A o \in DOMAIN objs :
         /\ Live(o) \/ Watched(o) => Holds(objs[o].handle, objs[o].names)
         /\ IsPage(objs[o].names)
         /\ objs[o].names.kind = "page" => objs[o].names.id <= epoch
         /\ objs[o].names.kind = "derived" => objs[o].names.id < Len(core)
         /\ objs[o].parent # 0 => objs[o].names.kind = "derived"
         /\ objs[o].registered => objs[o].parent # 0
         /\ objs[o].names.kind = "derived" /\ objs[o].parent = 0 =>
              released /\ Kept(objs[o].names)
    /\ \A o, p \in DOMAIN objs :
         objs[o].parent # 0 /\ objs[p].parent # 0 /\ objs[o].names = objs[p].names => o = p

\* The document object is there for its finalizer to come.
InPlay == document \in {"held", "dropped"}

\* What the application, a job or the document reaches was not collected.
LifeInv ==
    /\ \A o \in DOMAIN objs : objs[o].held => Live(o)
    /\ \A i \in DOMAIN queue :
         /\ queue[i].op # "free" => InPlay
         /\ queue[i].op \in {"crop", "page_annots"} =>
              queue[i].page \in DOMAIN objs /\ Live(queue[i].page)
         /\ queue[i].op = "page" => queue[i].ref \in DOMAIN refs
    /\ refs # <<>> => InPlay
    /\ InPlay =>
         /\ \A n \in DOMAIN array : Live(array[n])
         /\ \A h \in DOMAIN byHandle : Live(byHandle[h])
         /\ \A n \in DOMAIN current : Live(current[n])

\* A handle names its object; a derived page that is not tracked is kept, for a
\* reference that was or is being read.
MapInv ==
    /\ \A h \in DOMAIN byHandle :
         objs[byHandle[h]].handle = h /\ ~objs[byHandle[h]].registered
    /\ \A h \in DOMAIN weak : objs[weak[h]].handle = h
    /\ ~released => \A o \in DOMAIN objs :
         objs[o].parent # 0 /\ ~objs[o].registered =>
           /\ objs[o].handle \in DOMAIN byHandle /\ byHandle[objs[o].handle] = o
           /\ refs # <<>> \/ \E i \in DOMAIN queue : queue[i].op = "page_annots"

\* A page the document keeps under its handle, until it is released.
Pinning(h, p) ==
    /\ Kept(p)
    /\ ~released => h \in DOMAIN byHandle /\ objs[byHandle[h]].names = p

\* The handle of a reference is that of its page, which is not freed before the
\* document; a reference of the current list was read since the last close().
RefInv ==
    \A r \in DOMAIN refs :
      /\ Holds(refs[r].handle, refs[r].names)
      /\ IsPage(refs[r].names)
      /\ refs[r].number = refs[r].names.number
      /\ refs[r].epoch <= epoch
      /\ refs[r].names.kind = "page" =>
           /\ refs[r].names.id <= epoch
           /\ ReadsFlushed \/ refs[r].names.id = refs[r].epoch
      /\ refs[r].page \in {0} \cup DOMAIN objs
      /\ refs[r].names.kind = "derived" => Pinning(refs[r].handle, refs[r].names)

\* The page whose annotations a job reads: it is pinned, or of the list that is
\* current when the job runs.
AnnotsInv ==
    \A i \in DOMAIN queue : queue[i].op = "page_annots" =>
      /\ objs[queue[i].page].names.kind = "derived" =>
           Pinning(objs[queue[i].page].handle, objs[queue[i].page].names)
      /\ objs[queue[i].page].names.kind = "page" =>
           \/ ReadsFlushed
           \/ /\ objs[queue[i].page].names.id = closed
              /\ \A k \in DOMAIN queue : k <= i => queue[k].op # "close"

\* A free is meant for the page whose finalizer made it, which has its handle
\* still; that of the document comes last.
MeantForPage(job) ==
    /\ job.meant \in DOMAIN core /\ job.meant # 1
    /\ core[job.meant].live /\ core[job.meant].handle = job.handle
    /\ core[job.meant].page.kind = "derived"
    /\ \E o \in DOMAIN objs :
         /\ objs[o].names = core[job.meant].page
         /\ objs[o].registered /\ objs[o].state = "finalized"

FreeInv ==
    /\ \A i \in DOMAIN queue : queue[i].op = "free" =>
         \/ queue[i].handle = 1 /\ queue[i].meant = 1 /\ released /\ i = Len(queue)
         \/ MeantForPage(queue[i])
    /\ \A i, k \in DOMAIN queue :
         queue[i].op = "free" /\ queue[k].op = "free" /\ queue[i].meant = queue[k].meant => i = k
    /\ released => /\ Len(queue) \in DOMAIN queue
                   /\ queue[Len(queue)].op = "free" /\ queue[Len(queue)].meant = 1
    /\ document = "finalized" => released

\* What the running job got, until it ends.
NewDerived(h) ==
    \E i \in DOMAIN core :
      /\ core[i].live /\ core[i].handle = h
      /\ core[i].page.kind = "derived"
      /\ \A o \in DOMAIN objs : objs[o].names # core[i].page
      /\ \A r \in DOMAIN refs : refs[r].names # core[i].page

Running(op) == reply.made /\ queue[1].op = op

ReplyInv ==
    /\ reply.made => 1 \in DOMAIN queue /\ queue[1].op # "free"
    /\ closed = IF Running("close") THEN epoch + 1 ELSE epoch
    /\ Running("pages") =>
         \A n \in Numbers : Holds(reply.handles[n], ListPage(closed, n))
    /\ Running("annots") =>
         \E n \in Numbers : Holds(reply.handles[1], ListPage(closed, n))
    /\ Running("page_annots") => Holds(reply.handles[1], objs[queue[1].page].names)
    /\ Running("crop") => NewDerived(reply.handles[1]) /\ reply.handles = <<reply.handles[1]>>
    /\ Running("page") =>
         LET r == queue[1].ref IN
           /\ ~released => refs[r].names.kind = "page"
           /\ reply.current <=> refs[r].epoch = epoch
           /\ reply.current => refs[r].number \notin DOMAIN current

\* The pages of the current list, and the references to them.
InTheList(o) ==
    \A n \in Numbers :
      objs[o].names = ListPage(epoch, n) => n \in DOMAIN current /\ current[n] = o

CurrentInv ==
    /\ \A n \in DOMAIN current : objs[current[n]].names = ListPage(epoch, n)
    /\ array # <<>> => array = current
    /\ \A h \in DOMAIN byHandle : InTheList(byHandle[h])
    /\ \A h \in DOMAIN weak :
         objs[weak[h]].names.kind = "page" => objs[weak[h]].names.id < epoch
    /\ \A r \in DOMAIN refs : refs[r].page # 0 =>
         objs[refs[r].page].names = refs[r].names /\ InTheList(refs[r].page)

\* A derived page in the core has an object that lives or is watched, or its
\* free is queued, or its object is being made.
Remembered(i) ==
    \/ \E o \in DOMAIN objs :
         objs[o].names = core[i].page /\ objs[o].parent # 0 /\ (Live(o) \/ Watched(o))
    \/ \E k \in DOMAIN queue : queue[k].op = "free" /\ queue[k].meant = i
    \/ Running("crop") /\ reply.handles[1] = core[i].handle

LeakInv ==
    \A i \in DOMAIN core :
      core[i].live /\ core[i].page.kind = "derived" => Remembered(i)

\* The document is in the core.
Serving ==
    /\ ObjInv /\ LifeInv /\ MapInv /\ RefInv /\ AnnotsInv /\ FreeInv /\ ReplyInv
    /\ ~released /\ ~ReadsFlushed => CurrentInv
    /\ ~released => LeakInv

\* The document was freed: nothing runs any more.
Gone == released /\ queue = <<>> /\ ~reply.made

PagesInv ==
    /\ CoreInv /\ PagesTypeOK
    /\ core[1].live => Serving
    /\ ~core[1].live => Gone

\* The domains of the sequences, the types of their members.
LEMMA QueueDomain ==
    ASSUME PagesTypeOK
    PROVE  /\ Len(queue) \in Nat /\ DOMAIN queue = 1 .. Len(queue)
           /\ Len(objs) \in Nat /\ DOMAIN objs = 1 .. Len(objs)
           /\ Len(refs) \in Nat /\ DOMAIN refs = 1 .. Len(refs)
           /\ \A i \in DOMAIN queue : queue[i] \in PageJobs
           /\ \A o \in DOMAIN objs : objs[o] \in PageObjects
           /\ \A r \in DOMAIN refs : refs[r] \in PageRefs
           /\ queue # <<>> <=> 1 \in DOMAIN queue
BY DEF PagesTypeOK

\* A page of a list is given by its list and its number.
LEMMA ListPageIsItsFields ==
    ASSUME NEW p, p \in PageNames, p.kind = "page"
    PROVE  p = ListPage(p.id, p.number)
BY DEF PageNames, ListPage

\* The invariant implies the properties of Pages.
LEMMA PagesInvGives ==
    ASSUME PagesInv
    PROVE  /\ HandlesKeepTheirPages /\ FreesItsOwn /\ NothingLeaks
           /\ ~ReadsFlushed => PagesAreCurrent /\ RefsNameTheirPages /\ SameObject
<1>1. CoreInv /\ PagesTypeOK  BY DEF PagesInv
<1>2. CASE ~core[1].live
  <2>1. released /\ queue = <<>>  BY <1>2 DEF PagesInv, Gone
  <2> QED
    BY <1>2, <2>1 DEF HandlesKeepTheirPages, FreesItsOwn, NothingLeaks, PagesAreCurrent,
       RefsNameTheirPages, SameObject, Starts
<1>3. CASE core[1].live
  <2>1. Serving  BY <1>3 DEF PagesInv
  <2>2. HandlesKeepTheirPages
    <3> SUFFICES ASSUME NEW o \in DOMAIN objs, Live(o)
                 PROVE  objs[o].handle \in InUse /\ PageAt(objs[o].handle) = objs[o].names
      BY DEF HandlesKeepTheirPages
    <3>1. Holds(objs[o].handle, objs[o].names)  BY <2>1 DEF Serving, ObjInv
    <3> QED  BY <1>1, <3>1, HoldsGives
  <2>3. FreesItsOwn
    <3> SUFFICES ASSUME Starts("free")
                 PROVE  /\ core[Head(queue).meant].live
                        /\ core[Head(queue).meant].handle = Head(queue).handle
      BY DEF FreesItsOwn
    <3>1. Head(queue) = queue[1] /\ 1 \in DOMAIN queue /\ queue[1].op = "free"
      BY <1>1, QueueDomain DEF Starts, PagesTypeOK
    <3>2. \/ queue[1].handle = 1 /\ queue[1].meant = 1
          \/ MeantForPage(queue[1])
      BY <3>1, <2>1 DEF Serving, FreeInv
    <3> QED  BY <1>1, <1>3, <3>1, <3>2 DEF MeantForPage, CoreInv
  <2>4. NothingLeaks
    <3> SUFFICES ASSUME ~released, NEW i \in DOMAIN core, core[i].live,
                        core[i].page.kind = "derived"
                 PROVE
          \/ \E o \in DOMAIN objs :
               /\ objs[o].names = core[i].page
               /\ Live(o) \/ (objs[o].state = "collected" /\ objs[o].registered)
          \/ \E k \in DOMAIN queue : queue[k].op = "free" /\ queue[k].meant = i
          \/ reply.made /\ reply.handles = <<core[i].handle>>
      BY DEF NothingLeaks
    <3>1. Remembered(i)  BY <2>1 DEF Serving, LeakInv
    <3>2. ASSUME NEW o \in DOMAIN objs, Watched(o)
          PROVE  Live(o) \/ (objs[o].state = "collected" /\ objs[o].registered)
      <4>1. objs[o] \in PageObjects  BY <1>1, QueueDomain
      <4> QED  BY <3>2, <4>1 DEF Watched, Live, PageObjects
    <3>3. Running("crop") => reply.made /\ reply.handles = <<reply.handles[1]>>
      BY <2>1 DEF Serving, ReplyInv, Running
    <3> QED  BY <3>1, <3>2, <3>3 DEF Remembered
  <2>5. ASSUME ~ReadsFlushed, ~released  PROVE CurrentInv
    BY <2>1, <2>5 DEF Serving
  <2>6. ~ReadsFlushed => PagesAreCurrent
    <3> SUFFICES ASSUME ~ReadsFlushed, ~released, epoch = closed
                 PROVE  /\ \A n \in DOMAIN current : objs[current[n]].names = ListPage(closed, n)
                        /\ array # <<>> =>
                             \A n \in Numbers : objs[array[n]].names = ListPage(closed, n)
      BY DEF PagesAreCurrent
    <3>1. array # <<>> => DOMAIN array = Numbers  BY <1>1 DEF PagesTypeOK
    <3> QED  BY <2>5, <3>1 DEF CurrentInv
  <2>7. ~ReadsFlushed => RefsNameTheirPages
    BY <2>5 DEF RefsNameTheirPages, CurrentInv
  <2>8. ~ReadsFlushed => SameObject
    <3> SUFFICES ASSUME ~ReadsFlushed, ~released, epoch = closed, array # <<>>,
                        NEW r \in DOMAIN refs, refs[r].page # 0,
                        refs[r].names.kind = "page", refs[r].names.id = closed
                 PROVE  array[refs[r].names.number] = refs[r].page
      BY DEF SameObject
    <3>1. CurrentInv /\ RefInv  BY <2>1, <2>5 DEF Serving
    <3>2. refs[r].names \in PageNames
      <4>1. refs[r] \in PageRefs  BY <1>1, QueueDomain
      <4> QED  BY <4>1 DEF PageRefs
    <3>3. refs[r].names = ListPage(epoch, refs[r].names.number)
      BY <3>2, ListPageIsItsFields
    <3>4. refs[r].names.number \in Numbers  BY <3>1 DEF RefInv, IsPage
    <3>5. /\ objs[refs[r].page].names = refs[r].names
          /\ InTheList(refs[r].page)
          /\ array = current
      BY <3>1 DEF CurrentInv
    <3> QED  BY <3>3, <3>4, <3>5 DEF InTheList
  <2> QED  BY <2>2, <2>3, <2>4, <2>6, <2>7, <2>8
<1> QED  BY <1>2, <1>3

\* The invariant holds at the start.
LEMMA PagesInvInit == Init => PagesInv
<1> SUFFICES ASSUME Init PROVE PagesInv  OBVIOUS
<1>1. /\ core = <<[handle |-> 1, page |-> TheDocument, live |-> TRUE]>>
      /\ queue = <<>> /\ objs = <<>> /\ refs = <<>> /\ reply = NoReply
      /\ array = <<>> /\ byHandle = <<>> /\ weak = <<>> /\ current = <<>>
      /\ closed = 0 /\ epoch = 0 /\ released = FALSE /\ document = "held"
  BY DEF Init
<1>2. DOMAIN core = {1} /\ core[1] = [handle |-> 1, page |-> TheDocument, live |-> TRUE]
  BY <1>1
<1>3. CoreInv
  <2>1. core[1] \in Entries
    BY <1>2 DEF Entries, PageNames, TheDocument
  <2>2. core \in Seq(Entries) /\ core # <<>>  BY <1>1, <2>1
  <2> QED  BY <1>2, <2>2 DEF CoreInv, TheDocument
<1>4. /\ DOMAIN queue = {} /\ DOMAIN objs = {} /\ DOMAIN refs = {} /\ DOMAIN array = {}
      /\ DOMAIN byHandle = {} /\ DOMAIN weak = {} /\ DOMAIN current = {}
  BY <1>1
<1>5. PagesTypeOK
  <2>1. queue \in Seq(PageJobs) /\ objs \in Seq(PageObjects) /\ refs \in Seq(PageRefs)
    BY <1>1
  <2>2. reply \in Replies
    <3>1. <<>> \in Seq(Nat)  OBVIOUS
    <3> QED  BY <1>1, <3>1 DEF NoReply, Replies
  <2>3. <<>> \in [{} -> DOMAIN objs]  OBVIOUS
  <2> QED  BY <1>1, <1>4, <2>1, <2>2, <2>3 DEF PagesTypeOK
<1>6. ~reply.made  BY <1>1 DEF NoReply
<1>7. ObjInv /\ LifeInv /\ MapInv /\ RefInv /\ AnnotsInv /\ FreeInv
  BY <1>1, <1>4 DEF ObjInv, LifeInv, MapInv, RefInv, AnnotsInv, FreeInv
<1>8. ReplyInv  BY <1>1, <1>6 DEF ReplyInv, Running
<1>9. CurrentInv  BY <1>1, <1>4 DEF CurrentInv
<1>10. LeakInv  BY <1>2 DEF LeakInv, TheDocument
<1> QED  BY <1>2, <1>3, <1>5, <1>7, <1>8, <1>9, <1>10 DEF PagesInv, Serving

\* A job is appended; the head is removed.
Appended(job) ==
    /\ Len(queue') = Len(queue) + 1
    /\ \A i \in DOMAIN queue : i \in DOMAIN queue' /\ queue'[i] = queue[i]
    /\ Len(queue') \in DOMAIN queue' /\ queue'[Len(queue')] = job
    /\ \A i \in DOMAIN queue' : i \in DOMAIN queue \/ (i = Len(queue') /\ i \notin DOMAIN queue)
    /\ 1 \in DOMAIN queue'

Shifted ==
    /\ Len(queue') = Len(queue) - 1
    /\ \A i \in DOMAIN queue' : i + 1 \in DOMAIN queue /\ queue'[i] = queue[i + 1]
    /\ \A i \in DOMAIN queue : i # 1 => i - 1 \in DOMAIN queue' /\ queue'[i - 1] = queue[i]

\* A job is appended to the queue.
LEMMA AppendedJob ==
    ASSUME PagesTypeOK, NEW job, job \in PageJobs, queue' = Append(queue, job)
    PROVE  Appended(job) /\ queue' \in Seq(PageJobs)
<1>1. Len(queue) \in Nat /\ DOMAIN queue = 1 .. Len(queue) /\ queue \in Seq(PageJobs)
  BY QueueDomain DEF PagesTypeOK
<1>2. /\ queue' \in Seq(PageJobs) /\ Len(queue') = Len(queue) + 1
      /\ DOMAIN queue' = 1 .. Len(queue) + 1
      /\ \A i \in 1 .. Len(queue) : queue'[i] = queue[i]
      /\ queue'[Len(queue) + 1] = job
  BY <1>1
<1> QED  BY <1>1, <1>2 DEF Appended

\* The head of the queue leaves it.
LEMMA ShiftedQueue ==
    ASSUME PagesTypeOK, 1 \in DOMAIN queue, queue' = Tail(queue)
    PROVE  Shifted /\ queue' \in Seq(PageJobs)
<1>1. Len(queue) \in Nat /\ DOMAIN queue = 1 .. Len(queue) /\ queue \in Seq(PageJobs)
  BY QueueDomain DEF PagesTypeOK
<1>2. /\ queue' \in Seq(PageJobs) /\ Len(queue') = Len(queue) - 1
      /\ DOMAIN queue' = 1 .. Len(queue) - 1
      /\ \A i \in 1 .. Len(queue) - 1 : queue'[i] = queue[i + 1]
  BY <1>1
<1>3. \A i \in DOMAIN queue' : i + 1 \in DOMAIN queue /\ queue'[i] = queue[i + 1]
  BY <1>1, <1>2
<1>4. ASSUME NEW i \in DOMAIN queue, i # 1
      PROVE  i - 1 \in DOMAIN queue' /\ queue'[i - 1] = queue[i]
  <2>1. i - 1 \in DOMAIN queue'  BY <1>1, <1>2, <1>4
  <2>2. queue'[i - 1] = queue[(i - 1) + 1]  BY <1>3, <2>1
  <2>3. (i - 1) + 1 = i  BY <1>1
  <2> QED  BY <2>1, <2>2, <2>3
<1> QED  BY <1>2, <1>3, <1>4 DEF Shifted

\* The head of the queue is its first job.
LEMMA HeadIsFirst ==
    ASSUME PagesTypeOK, queue # <<>>
    PROVE  Head(queue) = queue[1] /\ 1 \in DOMAIN queue /\ queue[1] \in PageJobs
BY QueueDomain DEF PagesTypeOK

\* The types of the fields of page objects and references.
LEMMA FieldTypes ==
    ASSUME PagesTypeOK
    PROVE  /\ \A o \in DOMAIN objs :
                /\ objs[o] \in PageObjects /\ objs[o].names \in PageNames
                /\ objs[o].names.id \in Nat /\ objs[o].handle \in Nat
           /\ \A r \in DOMAIN refs :
                /\ refs[r] \in PageRefs /\ refs[r].names \in PageNames
                /\ refs[r].names.id \in Nat /\ refs[r].epoch \in Nat
<1>1. \A o \in DOMAIN objs : objs[o] \in PageObjects  BY QueueDomain
<1>2. \A r \in DOMAIN refs : refs[r] \in PageRefs  BY QueueDomain
<1> QED  BY <1>1, <1>2 DEF PageObjects, PageRefs, PageNames

(***************************************************************************)
(* What a step leaves alone stays true.                                    *)
(***************************************************************************)
LEMMA CoreStays ==
    ASSUME CoreInv, UNCHANGED core
    PROVE  CoreInv' /\ CoreGrows
BY CoreDomain DEF CoreInv, CoreGrows

\* A step that touches nothing of a part of the invariant keeps it: the types, ...
LEMMA TypesStay ==
    ASSUME PagesTypeOK, UNCHANGED <<closed, queue, reply, objs, refs, maps, released, document>>
    PROVE  PagesTypeOK'
BY DEF PagesTypeOK, maps

\* ... the handles to be freed, ...
LEMMA FreeStays ==
    ASSUME FreeInv, CoreGrows, UNCHANGED <<queue, objs, released, document>>
    PROVE  FreeInv'
BY DEF FreeInv, MeantForPage, CoreGrows

\* ... the lives of the pages, ...
LEMMA LifeStays ==
    ASSUME LifeInv, UNCHANGED <<objs, queue, refs, array, byHandle, current, document>>
    PROVE  LifeInv'
BY DEF LifeInv, Live, InPlay

\* ... the pages by their handles, ...
LEMMA MapStays ==
    ASSUME MapInv, UNCHANGED <<objs, queue, refs, byHandle, weak, released>>
    PROVE  MapInv'
BY DEF MapInv

\* ... the annotations, ...
LEMMA AnnotsStay ==
    ASSUME AnnotsInv, UNCHANGED <<objs, queue, closed, byHandle, released>>
    PROVE  AnnotsInv'
BY DEF AnnotsInv, Pinning, Kept

\* ... the references, while the core grows, ...
LEMMA RefsStay ==
    ASSUME RefInv, CoreGrows, UNCHANGED <<objs, refs, epoch, byHandle, released>>
    PROVE  RefInv'
<1>1. \A h, p : Holds(h, p) => HoldsIn(core', h, p)  BY GrowingKeepsHolds
<1> QED  BY <1>1 DEF RefInv, Holds, Pinning, Kept

\* ... the pages and their handles, ...
LEMMA ObjsStay ==
    ASSUME PagesTypeOK, ObjInv, CoreGrows, CoreInv, CoreInv', UNCHANGED <<objs, epoch, released>>
    PROVE  ObjInv'
<1>1. \A h, p : Holds(h, p) => HoldsIn(core', h, p)  BY GrowingKeepsHolds
<1>2. Len(core) \in Nat /\ Len(core') \in Nat /\ Len(core') >= Len(core)
  BY DEF CoreInv, CoreGrows
<1>3. ASSUME NEW o \in DOMAIN objs, objs[o].names.kind = "derived"
      PROVE  objs[o].names.id < Len(core')
  <2>1. objs[o].names.id \in Nat  BY FieldTypes
  <2>2. objs[o].names.id < Len(core)  BY <1>3 DEF ObjInv
  <2> QED  BY <1>2, <2>1, <2>2
<1> QED  BY <1>1, <1>3 DEF ObjInv, Holds, Live, Watched, Kept

\* ... the pages of the current list, ...
LEMMA CurrentStays ==
    ASSUME CurrentInv, UNCHANGED <<objs, refs, array, byHandle, weak, current, epoch>>
    PROVE  CurrentInv'
BY DEF CurrentInv, InTheList

\* ... and the answer under way.
LEMMA ReplyStays ==
    ASSUME ReplyInv, CoreGrows,
           UNCHANGED <<closed, epoch, reply, queue, objs, refs, current, released>>
    PROVE  ReplyInv'
<1>1. \A h, p : Holds(h, p) => HoldsIn(core', h, p)  BY GrowingKeepsHolds
<1>2. \A h : NewDerived(h) => NewDerived(h)'
  BY DEF NewDerived, CoreGrows
<1> QED  BY <1>1, <1>2 DEF ReplyInv, Running, Holds

(***************************************************************************)
(* The calls that only make a job.                                         *)
(***************************************************************************)
LEMMA CallKeepsInv ==
    ASSUME PagesInv, core[1].live, Call, NEW job, job \in PageJobs,
           queue' = Append(queue, job), job.op \notin {"free", "page_annots"},
           job.op = "crop" => job.page \in DOMAIN objs /\ Live(job.page),
           job.op = "page" => job.ref \in DOMAIN refs,
           UNCHANGED <<python, reply, objs, refs, maps, released, document>>
    PROVE  PagesInv'
<1>1. CoreInv /\ PagesTypeOK /\ Serving /\ ~released /\ document = "held"
  BY DEF PagesInv, Call
<1>2. Appended(job) /\ queue' \in Seq(PageJobs)  BY <1>1, AppendedJob
<1>3. UNCHANGED <<closed, core, reply, objs, refs, array, byHandle, weak, current, epoch,
                  released, document>>
  BY DEF python, maps
<1>4. CoreInv' /\ CoreGrows /\ core'[1].live  BY <1>1, <1>3, CoreStays
<1>5. PagesTypeOK'  BY <1>1, <1>2, <1>3 DEF PagesTypeOK
<1>6. ObjInv'  BY <1>1, <1>3, <1>4, ObjsStay DEF Serving
<1>7. LifeInv'
  <2>1. InPlay  BY <1>1 DEF InPlay
  <2> QED  BY <1>1, <1>2, <1>3, <2>1 DEF Serving, LifeInv, Live, InPlay, Appended
<1>8. MapInv'  BY <1>1, <1>2, <1>3 DEF Serving, MapInv, Appended
<1>9. RefInv'  BY <1>1, <1>3, <1>4, RefsStay DEF Serving
<1>10. AnnotsInv'
  <2>1. ASSUME NEW i \in DOMAIN queue', queue'[i].op = "page_annots"
        PROVE  /\ i \in DOMAIN queue /\ queue'[i] = queue[i]
               /\ \A k \in DOMAIN queue' : k <= i => k \in DOMAIN queue /\ queue'[k] = queue[k]
    <3>1. i \in DOMAIN queue  BY <1>2, <2>1 DEF Appended
    <3>2. Len(queue) \in Nat /\ DOMAIN queue = 1 .. Len(queue)  BY <1>1, QueueDomain
    <3> QED  BY <1>2, <3>1, <3>2 DEF Appended
  <2>2. AnnotsInv  BY <1>1 DEF Serving
  <2> QED  BY <1>3, <2>1, <2>2 DEF AnnotsInv, Pinning, Kept
<1>11. FreeInv'
  <2>1. FreeInv  BY <1>1 DEF Serving
  <2>2. ASSUME NEW i \in DOMAIN queue', queue'[i].op = "free"
        PROVE  i \in DOMAIN queue /\ queue'[i] = queue[i]
    BY <1>2, <2>2 DEF Appended
  <2> QED  BY <1>1, <1>3, <2>1, <2>2 DEF FreeInv, MeantForPage
<1>12. ReplyInv'
  <2>1. reply.made => 1 \in DOMAIN queue /\ queue'[1] = queue[1]
    BY <1>1, <1>2 DEF Serving, ReplyInv, Appended
  <2>2. 1 \in DOMAIN queue'  BY <1>2 DEF Appended
  <2> QED  BY <1>1, <1>3, <2>1, <2>2 DEF Serving, ReplyInv, Running, Holds, HoldsIn, NewDerived
<1>13. ~ReadsFlushed => CurrentInv'  BY <1>1, <1>3, CurrentStays DEF Serving
<1>14. LeakInv'
  <2>1. LeakInv /\ ReplyInv  BY <1>1 DEF Serving
  <2>2. Running("crop") => Running("crop")'
    BY <1>2, <1>3, <2>1 DEF Running, ReplyInv, Appended
  <2> QED  BY <1>2, <1>3, <2>1, <2>2 DEF LeakInv, Remembered, Appended, Live, Watched
<1> QED
  BY <1>1, <1>3, <1>4, <1>5, <1>6, <1>7, <1>8, <1>9, <1>10, <1>11, <1>12, <1>13, <1>14
  DEF PagesInv, Serving

\* A job is one.
LEMMA JobType ==
    ASSUME NEW op, op \in {"pages", "annots", "close", "page", "crop", "page_annots", "free"}
    PROVE  Job(op) \in PageJobs /\ Job(op).op = op
BY DEF Job, PageJobs

\* pdf.pages, pdf.annots, pdf.close() queue a job.
LEMMA PlainCallsKeepInv ==
    ASSUME PagesInv, core[1].live, CallPages \/ CallAnnots \/ CallClose
    PROVE  PagesInv'
<1>1. PICK op \in {"pages", "annots", "close"} : Make(op)
  BY DEF CallPages, CallAnnots, CallClose
<1>2. Job(op) \in PageJobs /\ Job(op).op = op  BY JobType
<1> QED  BY <1>1, <1>2, CallKeepsInv DEF Make, Enqueue, maps

\* pdf.page(ref) queues a job of a reference.
LEMMA CallPageKeepsInv ==
    ASSUME PagesInv, core[1].live, NEW r, r \in DOMAIN refs, CallPage(r)
    PROVE  PagesInv'
<1> DEFINE job == [Job("page") EXCEPT !.ref = r]
<1>1. PagesTypeOK  BY DEF PagesInv
<1>2. r \in Nat  BY <1>1, QueueDomain
<1>3. job \in PageJobs /\ job.op = "page" /\ job.ref = r
  BY <1>2 DEF Job, PageJobs
<1>4. /\ Call /\ queue' = Append(queue, job)
      /\ UNCHANGED <<python, reply, objs, refs, maps, released, document>>
  BY DEF CallPage, Enqueue, maps
<1> HIDE DEF job
<1> QED  BY <1>3, <1>4, CallKeepsInv

\* page.crop() queues a job of a page that the application holds.
LEMMA CallCropKeepsInv ==
    ASSUME PagesInv, core[1].live, NEW o, o \in DOMAIN objs, CallCrop(o)
    PROVE  PagesInv'
<1> DEFINE job == [Job("crop") EXCEPT !.page = o]
<1>1. PagesTypeOK /\ LifeInv  BY DEF PagesInv, Serving
<1>2. o \in Nat  BY <1>1, QueueDomain
<1>3. job \in PageJobs /\ job.op = "crop" /\ job.page = o
  BY <1>2 DEF Job, PageJobs
<1>4. /\ Call /\ queue' = Append(queue, job)
      /\ UNCHANGED <<python, reply, objs, refs, maps, released, document>>
  BY DEF CallCrop, Enqueue, maps
<1>5. Live(o)  BY <1>1 DEF CallCrop, LifeInv
<1> HIDE DEF job
<1> QED  BY <1>3, <1>4, <1>5, CallKeepsInv

(***************************************************************************)
(* What the application gives up, what another document takes.             *)
(***************************************************************************)
LEMMA DropKeepsInv ==
    ASSUME PagesInv, core[1].live, NEW o, o \in DOMAIN objs, Drop(o)
    PROVE  PagesInv'
<1>1. CoreInv /\ PagesTypeOK /\ Serving  BY DEF PagesInv
<1>2. /\ UNCHANGED <<closed, core, queue, reply, refs, array, byHandle, weak, current, epoch,
                     released, document>>
      /\ objs' = [objs EXCEPT ![o].held = FALSE]
  BY DEF Drop, python, maps
<1>3. /\ DOMAIN objs' = DOMAIN objs
      /\ \A p \in DOMAIN objs :
           /\ objs'[p] \in PageObjects
           /\ objs'[p].handle = objs[p].handle /\ objs'[p].parent = objs[p].parent
           /\ objs'[p].state = objs[p].state /\ objs'[p].registered = objs[p].registered
           /\ objs'[p].names = objs[p].names
           /\ objs'[p].held => objs[p].held
  <2>1. DOMAIN objs' = DOMAIN objs  BY <1>2
  <2>2. \A p \in DOMAIN objs : objs[p] \in PageObjects  BY <1>1, QueueDomain
  <2>3. objs'[o] = [objs[o] EXCEPT !.held = FALSE]  BY <1>2
  <2>4. \A p \in DOMAIN objs : p # o => objs'[p] = objs[p]  BY <1>2
  <2>5. objs[o] \in PageObjects  BY <2>2
  <2>6. /\ objs'[o] \in PageObjects
        /\ objs'[o].handle = objs[o].handle /\ objs'[o].parent = objs[o].parent
        /\ objs'[o].state = objs[o].state /\ objs'[o].registered = objs[o].registered
        /\ objs'[o].names = objs[o].names
        /\ ~objs'[o].held
    BY <2>3, <2>5 DEF PageObjects
  <2> QED  BY <2>1, <2>2, <2>4, <2>6
<1>4. CoreInv' /\ CoreGrows /\ core'[1].live  BY <1>1, <1>2, CoreStays
<1>5. PagesTypeOK'
  <2>1. objs' \in Seq(PageObjects)
    <3>1. DOMAIN objs = 1 .. Len(objs) /\ Len(objs) \in Nat  BY <1>1, QueueDomain
    <3>2. objs' \in [1 .. Len(objs) -> PageObjects]  BY <1>2, <1>3, <3>1
    <3> QED  BY <3>1, <3>2
  <2> QED  BY <1>1, <1>2, <1>3, <2>1 DEF PagesTypeOK
<1>6. ObjInv'
  BY <1>1, <1>2, <1>3 DEF Serving, ObjInv, Live, Watched, Kept, Holds, HoldsIn
<1>7. LifeInv'  BY <1>1, <1>2, <1>3 DEF Serving, LifeInv, Live, InPlay, PagesTypeOK
<1>8. MapInv'  BY <1>1, <1>2, <1>3 DEF Serving, MapInv, PagesTypeOK
<1>9. \A h, p : Pinning(h, p) => Pinning(h, p)'
  BY <1>1, <1>2, <1>3 DEF Pinning, Kept, PagesTypeOK
<1>10. RefInv'  BY <1>1, <1>2, <1>3, <1>9 DEF Serving, RefInv, Holds, HoldsIn
<1>11. AnnotsInv'
  BY <1>1, <1>2, <1>3, <1>9 DEF Serving, AnnotsInv, LifeInv
<1>12. FreeInv'  BY <1>1, <1>2, <1>3 DEF Serving, FreeInv, MeantForPage
<1>13. ReplyInv'
  <2>1. \A h : NewDerived(h) => NewDerived(h)'  BY <1>2, <1>3 DEF NewDerived
  <2>2. Running("page_annots") => objs'[queue[1].page].names = objs[queue[1].page].names
    BY <1>1, <1>3 DEF Serving, ReplyInv, LifeInv, Running
  <2> QED  BY <1>1, <1>2, <2>1, <2>2 DEF Serving, ReplyInv, Running, Holds, HoldsIn
<1>14. ~released /\ ~ReadsFlushed => CurrentInv'
  BY <1>1, <1>2, <1>3 DEF Serving, CurrentInv, InTheList, PagesTypeOK, RefInv
<1>15. ~released => LeakInv'
  BY <1>1, <1>2, <1>3 DEF Serving, LeakInv, Remembered, Live, Watched, Running
<1> QED
  BY <1>2, <1>4, <1>5, <1>6, <1>7, <1>8, <1>10, <1>11, <1>12, <1>13, <1>14, <1>15
  DEF PagesInv, Serving

\* The document is given up, then collected.
LEMMA DocumentLeavesInv ==
    ASSUME PagesInv, core[1].live, DropDocument \/ CollectDocument
    PROVE  PagesInv'
<1>1. CoreInv /\ PagesTypeOK /\ Serving  BY DEF PagesInv
<1>2. /\ UNCHANGED <<closed, core, queue, reply, objs, refs, array, byHandle, weak, current,
                     epoch, released>>
      /\ document' \in {"dropped", "collected"}
  BY DEF DropDocument, CollectDocument, python, maps
<1>3. CoreInv' /\ CoreGrows /\ core'[1].live  BY <1>1, <1>2, CoreStays
<1>4. PagesTypeOK'  BY <1>1, <1>2 DEF PagesTypeOK
<1>5. LifeInv'
  <2>1. CASE DropDocument
    <3>1. InPlay /\ InPlay'  BY <2>1 DEF DropDocument, InPlay
    <3> QED  BY <1>1, <1>2, <3>1 DEF Serving, LifeInv, Live
  <2>2. CASE CollectDocument
    <3>1. /\ ~InPlay' /\ refs = <<>>
          /\ \A i \in DOMAIN queue : queue[i].op = "free"
      BY <2>2 DEF CollectDocument, InPlay
    <3> QED  BY <1>1, <1>2, <3>1 DEF Serving, LifeInv, Live
  <2> QED  BY <2>1, <2>2
<1>6. ObjInv' /\ RefInv' /\ ReplyInv'
  BY <1>1, <1>2, <1>3, ObjsStay, RefsStay, ReplyStays DEF Serving
<1>7. MapInv' /\ AnnotsInv'  BY <1>1, <1>2, MapStays, AnnotsStay DEF Serving
<1>8. FreeInv'  BY <1>1, <1>2 DEF Serving, FreeInv, MeantForPage
<1>9. ~released /\ ~ReadsFlushed => CurrentInv'  BY <1>1, <1>2, CurrentStays DEF Serving
<1>10. ~released => LeakInv'
  BY <1>1, <1>2 DEF Serving, LeakInv, Remembered, Live, Watched, Running
<1> QED
  BY <1>2, <1>3, <1>4, <1>5, <1>6, <1>7, <1>8, <1>9, <1>10 DEF PagesInv, Serving

\* Another document may take a handle.
LEMMA OtherInsertable ==
    ASSUME CoreInv
    PROVE  Insertable(<<Other>>)
<1>1. Other \in PageNames /\ Other # TheDocument /\ Other.kind = "other"
  BY DEF Other, TheDocument, PageNames
<1>2. <<Other>> \in Seq(PageNames) /\ DOMAIN <<Other>> = {1} /\ <<Other>>[1] = Other
  BY <1>1
<1> QED  BY <1>1, <1>2 DEF Insertable

\* Another document takes a free handle, which names no page.
LEMMA OtherTakesKeepsInv ==
    ASSUME PagesInv, core[1].live, OtherTakes
    PROVE  PagesInv'
<1>1. CoreInv /\ PagesTypeOK /\ Serving  BY DEF PagesInv
<1>2. /\ UNCHANGED <<closed, queue, reply, objs, refs, array, byHandle, weak, current, epoch,
                     released, document>>
      /\ core' = Insert(<<Other>>)
  BY DEF OtherTakes, maps
<1>3. Insertable(<<Other>>)  BY <1>1, OtherInsertable
<1>4. /\ CoreInv' /\ CoreGrows
      /\ \A i \in DOMAIN core' : i \in DOMAIN core \/ core'[i].page = Other
  <2>1. CoreInv' /\ CoreGrows  BY <1>1, <1>2, <1>3, InsertKeepsCore
  <2>2. \A k \in DOMAIN <<Other>> : core'[Len(core) + k].page = Other
    <3>1. DOMAIN <<Other>> = {1} /\ <<Other>>[1] = Other  OBVIOUS
    <3>2. \A k \in DOMAIN <<Other>> : core'[Len(core) + k] =
            [handle |-> FreeHandle(k), page |-> <<Other>>[k], live |-> TRUE]
      BY <1>1, <1>2, <1>3, InsertKeepsCore
    <3>4. core'[Len(core) + 1] = [handle |-> FreeHandle(1), page |-> Other, live |-> TRUE]
      <4>1. 1 \in DOMAIN <<Other>>  BY <3>1
      <4>2. core'[Len(core) + 1] =
              [handle |-> FreeHandle(1), page |-> <<Other>>[1], live |-> TRUE]
        BY <3>2, <4>1
      <4> QED  BY <3>1, <4>2
    <3>3. core'[Len(core) + 1].page = Other  BY <3>4
    <3> QED  BY <3>1, <3>3
  <2>3. \A i \in DOMAIN core' : i \in DOMAIN core \/ \E k \in DOMAIN <<Other>> : i = Len(core) + k
    BY <1>1, <1>2, <1>3, InsertKeepsCore
  <2> QED  BY <2>1, <2>2, <2>3
<1>5. core'[1].live /\ core'[1] = core[1]  BY <1>1, <1>4, CoreDomain DEF CoreGrows
<1>6. PagesTypeOK'  BY <1>1, <1>2 DEF PagesTypeOK
<1>7. ObjInv' /\ RefInv' /\ ReplyInv'
  BY <1>1, <1>2, <1>4, ObjsStay, RefsStay, ReplyStays DEF Serving
<1>8. LifeInv' /\ MapInv' /\ AnnotsInv' /\ FreeInv'
  BY <1>1, <1>2, <1>4, LifeStays, MapStays, AnnotsStay, FreeStays DEF Serving
<1>9. ~released /\ ~ReadsFlushed => CurrentInv'  BY <1>1, <1>2, CurrentStays DEF Serving
<1>10. ~released => LeakInv'
  <2> SUFFICES ASSUME LeakInv, NEW i \in DOMAIN core', core'[i].live,
                      core'[i].page.kind = "derived"
               PROVE  Remembered(i)'
    BY <1>1 DEF Serving, LeakInv
  <2>1. i \in DOMAIN core /\ core'[i] = core[i]  BY <1>4 DEF CoreGrows, Other
  <2>2. Remembered(i)  BY <2>1 DEF LeakInv
  <2> QED  BY <1>2, <2>1, <2>2 DEF Remembered, Live, Watched, Running
<1> QED
  BY <1>2, <1>4, <1>5, <1>6, <1>7, <1>8, <1>9, <1>10 DEF PagesInv, Serving

\* The page objects stay those of their pages.
ObjsKept ==
    /\ DOMAIN objs' = DOMAIN objs /\ Len(objs') = Len(objs)
    /\ objs' \in Seq(PageObjects)
    /\ \A p \in DOMAIN objs :
         /\ objs'[p].handle = objs[p].handle
         /\ objs'[p].parent = objs[p].parent
         /\ objs'[p].names = objs[p].names

\* A function on 1 .. n is a sequence.
LEMMA SequenceOf ==
    ASSUME NEW S, NEW n, n \in Nat, NEW s, s \in [1 .. n -> S]
    PROVE  s \in Seq(S) /\ Len(s) = n /\ DOMAIN s = 1 .. n
OBVIOUS

\* One page object changes, but not what it is.
LEMMA ObjectChanges ==
    ASSUME PagesTypeOK, NEW o, o \in DOMAIN objs, NEW new, new \in PageObjects,
           objs' = [objs EXCEPT ![o] = new],
           new.handle = objs[o].handle, new.parent = objs[o].parent, new.names = objs[o].names
    PROVE  ObjsKept /\ objs'[o] = new /\ \A p \in DOMAIN objs : p # o => objs'[p] = objs[p]
<1>1. DOMAIN objs = 1 .. Len(objs) /\ Len(objs) \in Nat  BY QueueDomain
<1>2. \A p \in DOMAIN objs : objs[p] \in PageObjects  BY QueueDomain
<1>3. /\ DOMAIN objs' = DOMAIN objs /\ objs'[o] = new
      /\ \A p \in DOMAIN objs : p # o => objs'[p] = objs[p]
  OBVIOUS
<1>4. objs' \in [1 .. Len(objs) -> PageObjects]  BY <1>1, <1>2, <1>3
<1>5. objs' \in Seq(PageObjects) /\ Len(objs') = Len(objs)  BY <1>1, <1>4, SequenceOf
<1> QED  BY <1>3, <1>5 DEF ObjsKept

\* Types are kept when page objects stay what they are.
LEMMA KeptTypes ==
    ASSUME PagesTypeOK, ObjsKept, queue' \in Seq(PageJobs), released' \in BOOLEAN,
           UNCHANGED <<closed, reply, refs, maps, document>>
    PROVE  PagesTypeOK'
BY DEF PagesTypeOK, ObjsKept, maps

\* The list is kept when page objects stay what they are.
LEMMA KeptCurrent ==
    ASSUME PagesTypeOK, RefInv, CurrentInv, ObjsKept,
           UNCHANGED <<refs, array, byHandle, weak, current, epoch>>
    PROVE  CurrentInv'
<1>1. /\ \A n \in DOMAIN current : current[n] \in DOMAIN objs
      /\ \A h \in DOMAIN byHandle : byHandle[h] \in DOMAIN objs
      /\ \A h \in DOMAIN weak : weak[h] \in DOMAIN objs
  BY DEF PagesTypeOK
<1>2. \A r \in DOMAIN refs : refs[r].page # 0 => refs[r].page \in DOMAIN objs
  BY DEF RefInv
<1>3. \A p \in DOMAIN objs : objs'[p].names = objs[p].names  BY DEF ObjsKept
<1>4. \A p \in DOMAIN objs : InTheList(p) => InTheList(p)'
  BY <1>3 DEF InTheList
<1> QED  BY <1>1, <1>2, <1>3, <1>4 DEF CurrentInv

\* The collector takes a page that nothing reaches: a page kept for a reference is
\* reached by the document, so the finalizer of a derived page is to run.
LEMMA CollectKeepsInv ==
    ASSUME PagesInv, core[1].live, NEW o, o \in DOMAIN objs, Collect(o)
    PROVE  PagesInv'
<1>1. CoreInv /\ PagesTypeOK /\ Serving  BY DEF PagesInv
<1>2. /\ UNCHANGED <<closed, core, queue, reply, refs, array, byHandle, weak, current, epoch,
                     released, document>>
      /\ objs' = [objs EXCEPT ![o].state = "collected"]
      /\ Live(o) /\ ~Reaches(o)
  BY DEF Collect, python, maps
<1>3. /\ ObjsKept
      /\ objs'[o].state = "collected" /\ objs'[o].held = objs[o].held
      /\ objs'[o].registered = objs[o].registered
      /\ \A p \in DOMAIN objs : p # o => objs'[p] = objs[p]
  <2> DEFINE new == [objs[o] EXCEPT !.state = "collected"]
  <2>1. objs[o] \in PageObjects  BY <1>1, QueueDomain
  <2>2. /\ new \in PageObjects
        /\ new.handle = objs[o].handle /\ new.parent = objs[o].parent
        /\ new.names = objs[o].names /\ new.held = objs[o].held
        /\ new.registered = objs[o].registered /\ new.state = "collected"
    BY <2>1 DEF PageObjects
  <2>3. objs' = [objs EXCEPT ![o] = new]  BY <1>2
  <2> HIDE DEF new
  <2> QED  BY <1>1, <2>2, <2>3, ObjectChanges
<1>4. CoreInv' /\ CoreGrows /\ core'[1].live  BY <1>1, <1>2, CoreStays
<1>5. PagesTypeOK'  BY <1>1, <1>2, <1>3, KeptTypes DEF PagesTypeOK, maps
<1>6. ObjInv'
  <2>1. \A p \in DOMAIN objs :
          /\ Live(p)' \/ Watched(p)' => Live(p) \/ Watched(p)
          /\ objs'[p].registered = objs[p].registered
    BY <1>2, <1>3 DEF Live, Watched, ObjsKept
  <2> QED  BY <1>1, <1>2, <1>3, <2>1 DEF Serving, ObjInv, ObjsKept, Kept, Holds, HoldsIn
<1>7. LifeInv'
  <2>1. ~objs[o].held /\ \A i \in DOMAIN queue : queue[i].page # o  BY <1>2 DEF Reaches
  <2>2. InPlay =>
          /\ \A n \in DOMAIN array : array[n] # o
          /\ \A h \in DOMAIN byHandle : byHandle[h] # o
          /\ \A n \in DOMAIN current : current[n] # o
    BY <1>2 DEF Reaches, InPlay, Range
  <2>3. \A p \in DOMAIN objs : p # o /\ Live(p) => Live(p)'
    BY <1>3 DEF Live
  <2>4. \A p \in DOMAIN objs : p # o => objs'[p].held = objs[p].held  BY <1>3
  <2>5. /\ \A n \in DOMAIN array : array[n] \in DOMAIN objs
        /\ \A h \in DOMAIN byHandle : byHandle[h] \in DOMAIN objs
        /\ \A n \in DOMAIN current : current[n] \in DOMAIN objs
    BY <1>1 DEF PagesTypeOK
  <2>6. LifeInv  BY <1>1 DEF Serving
  <2>7. \A p \in DOMAIN objs' : objs'[p].held => Live(p)'
    BY <1>3, <2>1, <2>3, <2>4, <2>6 DEF LifeInv, ObjsKept
  <2>8. InPlay =>
         /\ \A n \in DOMAIN array : Live(array[n])'
         /\ \A h \in DOMAIN byHandle : Live(byHandle[h])'
         /\ \A n \in DOMAIN current : Live(current[n])'
    BY <1>2, <2>2, <2>3, <2>5, <2>6 DEF LifeInv
  <2>9. \A i \in DOMAIN queue : queue[i].op \in {"crop", "page_annots"} =>
          queue[i].page \in DOMAIN objs' /\ Live(queue[i].page)'
    BY <1>2, <1>3, <2>1, <2>3, <2>6 DEF LifeInv, ObjsKept
  <2> QED  BY <1>2, <2>6, <2>7, <2>8, <2>9 DEF LifeInv, InPlay
<1>8. \A p \in DOMAIN objs : objs'[p].registered = objs[p].registered  BY <1>3
<1>9. MapInv'  BY <1>1, <1>2, <1>3, <1>8 DEF Serving, MapInv, PagesTypeOK, ObjsKept
<1>10. \A h, p : Pinning(h, p) => Pinning(h, p)'
  BY <1>1, <1>2, <1>3, <1>8 DEF Pinning, Kept, PagesTypeOK, ObjsKept
<1>11. RefInv'  BY <1>1, <1>2, <1>3, <1>10 DEF Serving, RefInv, Holds, HoldsIn, ObjsKept
<1>12. AnnotsInv'
  BY <1>1, <1>2, <1>3, <1>10 DEF Serving, AnnotsInv, LifeInv, ObjsKept
<1>13. FreeInv'
  <2>1. \A job : MeantForPage(job) => MeantForPage(job)'
    BY <1>2, <1>3 DEF MeantForPage, ObjsKept, Live
  <2> QED  BY <1>1, <1>2, <2>1 DEF Serving, FreeInv
<1>14. ReplyInv'
  <2>1. \A h : NewDerived(h) => NewDerived(h)'  BY <1>2, <1>3 DEF NewDerived, ObjsKept
  <2>2. Running("page_annots") => objs'[queue[1].page].names = objs[queue[1].page].names
    BY <1>1, <1>3 DEF Serving, ReplyInv, LifeInv, Running, ObjsKept
  <2> QED  BY <1>1, <1>2, <2>1, <2>2 DEF Serving, ReplyInv, Running, Holds, HoldsIn
<1>15. ~released /\ ~ReadsFlushed => CurrentInv'
  BY <1>1, <1>2, <1>3, KeptCurrent DEF Serving
<1>16. ~released => LeakInv'
  <2> SUFFICES ASSUME ~released, NEW i \in DOMAIN core, core[i].live,
                      core[i].page.kind = "derived"
               PROVE  Remembered(i)'
    BY <1>2 DEF LeakInv
  <2>1. Remembered(i)  BY <1>1 DEF Serving, LeakInv
  <2>2. objs[o].parent # 0 => objs[o].registered
    <3> SUFFICES ASSUME objs[o].parent # 0, ~objs[o].registered PROVE FALSE
      OBVIOUS
    <3>1. /\ objs[o].handle \in DOMAIN byHandle /\ byHandle[objs[o].handle] = o
          /\ refs # <<>> \/ \E k \in DOMAIN queue : queue[k].op = "page_annots"
      BY <1>1 DEF Serving, MapInv
    <3>2. InPlay  BY <1>1, <3>1 DEF Serving, LifeInv
    <3> QED  BY <1>2, <3>1, <3>2 DEF Reaches, InPlay, Range
  <2>3. \A p \in DOMAIN objs : objs[p].parent # 0 /\ (Live(p) \/ Watched(p)) =>
                                 (Live(p) \/ Watched(p))'
    BY <1>2, <1>3, <2>2 DEF Live, Watched
  <2> QED  BY <1>2, <1>3, <2>1, <2>3 DEF Remembered, ObjsKept, Running
<1> QED
  BY <1>2, <1>4, <1>5, <1>6, <1>7, <1>9, <1>11, <1>12, <1>13, <1>14, <1>15, <1>16
  DEF PagesInv, Serving

\* The job of a finalizer is one.
LEMMA FreeJobType ==
    ASSUME NEW h, NEW i, h \in Nat, i \in Nat
    PROVE  /\ FreeJob(h, i) \in PageJobs
           /\ FreeJob(h, i).op = "free" /\ FreeJob(h, i).handle = h /\ FreeJob(h, i).meant = i
BY DEF FreeJob, Job, PageJobs

\* Only a free comes to the end of the queue.
FreeAppended(job) == Appended(job) /\ job.op = "free"

(***************************************************************************)
(* What the jobs of the document still need when a free is appended.       *)
(***************************************************************************)
LEMMA AnnotsBeforeFree ==
    ASSUME PagesTypeOK, AnnotsInv, NEW job, FreeAppended(job), UNCHANGED <<closed, refs>>,
           DOMAIN objs' = DOMAIN objs,
           \A i \in DOMAIN queue : queue[i].op = "page_annots" =>
              objs'[queue[i].page].names = objs[queue[i].page].names
                /\ objs'[queue[i].page].handle = objs[queue[i].page].handle,
           \A h, p : Pinning(h, p) => Pinning(h, p)'
    PROVE  AnnotsInv'
<1>1. ASSUME NEW i \in DOMAIN queue', queue'[i].op = "page_annots"
      PROVE  /\ i \in DOMAIN queue /\ queue'[i] = queue[i]
             /\ \A k \in DOMAIN queue' : k <= i => k \in DOMAIN queue /\ queue'[k] = queue[k]
  <2>1. i \in DOMAIN queue  BY <1>1 DEF Appended, FreeAppended
  <2>2. Len(queue) \in Nat /\ DOMAIN queue = 1 .. Len(queue)  BY QueueDomain
  <2> QED  BY <2>1, <2>2 DEF Appended, FreeAppended
<1> QED  BY <1>1 DEF AnnotsInv

\* The finalizer of a derived page queues the free of its entry.
LEMMA FinalizeKeepsInv ==
    ASSUME PagesInv, core[1].live, NEW o, o \in DOMAIN objs, Finalize(o)
    PROVE  PagesInv'
<1>1. PICK i : i = First({k \in DOMAIN core : core[k].page = objs[o].names})  OBVIOUS
<1>2. PICK job : job = FreeJob(objs[o].handle, i)  OBVIOUS
<1>3. CoreInv /\ PagesTypeOK /\ Serving  BY DEF PagesInv
<1>4. /\ UNCHANGED <<closed, core, reply, refs, array, byHandle, weak, current, epoch,
                     released, document>>
      /\ objs' = [objs EXCEPT ![o].state = "finalized"]
      /\ objs[o].state = "collected" /\ objs[o].registered
      /\ queue' = IF released THEN queue ELSE Append(queue, job)
  BY <1>1, <1>2 DEF Finalize, python, maps, Frees
<1>5. /\ ObjsKept
      /\ objs'[o].state = "finalized" /\ objs'[o].held = objs[o].held
      /\ objs'[o].registered
      /\ \A p \in DOMAIN objs : p # o => objs'[p] = objs[p]
  <2> DEFINE new == [objs[o] EXCEPT !.state = "finalized"]
  <2>1. objs[o] \in PageObjects  BY <1>3, QueueDomain
  <2>2. /\ new \in PageObjects
        /\ new.handle = objs[o].handle /\ new.parent = objs[o].parent
        /\ new.names = objs[o].names /\ new.held = objs[o].held
        /\ new.registered /\ new.state = "finalized"
    BY <1>4, <2>1 DEF PageObjects
  <2>3. objs' = [objs EXCEPT ![o] = new]  BY <1>4
  <2> HIDE DEF new
  <2>4. ObjsKept /\ objs'[o] = new /\ \A p \in DOMAIN objs : p # o => objs'[p] = objs[p]
    BY <1>3, <2>2, <2>3, ObjectChanges
  <2> QED  BY <2>2, <2>4
<1>6. CoreInv' /\ CoreGrows /\ core'[1].live  BY <1>3, <1>4, CoreStays
<1>7. objs[o].parent # 0 /\ objs[o].names.kind = "derived"
  BY <1>3, <1>4 DEF Serving, ObjInv
<1>8. /\ i \in DOMAIN core /\ core[i].live /\ core[i].handle = objs[o].handle
      /\ core[i].page = objs[o].names
      /\ \A k \in DOMAIN core : core[k].page = objs[o].names => k = i
  <2>1. Holds(objs[o].handle, objs[o].names)
    BY <1>3, <1>4 DEF Serving, ObjInv, Watched
  <2>2. PICK e \in DOMAIN core :
          core[e].live /\ core[e].handle = objs[o].handle /\ core[e].page = objs[o].names
    BY <2>1 DEF Holds, HoldsIn
  <2>3. \A k \in DOMAIN core : core[k].page = objs[o].names => objs[o].names.id = k - 1
    BY <1>3, <1>7 DEF CoreInv
  <2>4. DOMAIN core \subseteq Nat  BY <1>3, CoreDomain
  <2>5. \A k \in DOMAIN core : core[k].page = objs[o].names => k = e
    <3>1. objs[o].names.id = e - 1  BY <2>2, <2>3
    <3> QED  BY <2>3, <2>4, <3>1
  <2>6. {k \in DOMAIN core : core[k].page = objs[o].names} = {e}  BY <2>2, <2>5
  <2>7. First({e}) = e  BY <2>4 DEF First
  <2>8. i = e  BY <1>1, <2>6, <2>7
  <2> QED  BY <2>2, <2>5, <2>8
<1>9. i # 1
  BY <1>3, <1>7, <1>8 DEF CoreInv, TheDocument
<1>10. i \in Nat /\ objs[o].handle \in Nat
  BY <1>3, <1>8, CoreDomain, FieldTypes
<1>11. job \in PageJobs /\ job.op = "free" /\ job.handle = objs[o].handle /\ job.meant = i
  BY <1>10, <1>2, FreeJobType
<1>12. /\ queue' \in Seq(PageJobs)
       /\ ~released => Appended(job)
       /\ released => queue' = queue
  BY <1>3, <1>4, <1>11, AppendedJob DEF PagesTypeOK
<1>13. PagesTypeOK'  BY <1>3, <1>4, <1>5, <1>12, KeptTypes DEF PagesTypeOK, maps
<1>14. \A p \in DOMAIN objs :
         /\ (Live(p)' <=> Live(p))
         /\ Watched(p)' => Watched(p)
         /\ p # o => (Watched(p)' <=> Watched(p))
         /\ objs'[p].registered = objs[p].registered
         /\ objs'[p].held = objs[p].held
  BY <1>4, <1>5 DEF Live, Watched, ObjsKept
<1>15. ObjInv'
  BY <1>3, <1>4, <1>5, <1>14 DEF Serving, ObjInv, ObjsKept, Kept, Holds, HoldsIn
<1>16. LifeInv'
  <2>1. LifeInv  BY <1>3 DEF Serving
  <2>2. \A k \in DOMAIN queue' : queue'[k].op # "free" => k \in DOMAIN queue /\ queue'[k] = queue[k]
    BY <1>11, <1>12 DEF Appended
  <2>3. \A p \in DOMAIN objs' : objs'[p].held => Live(p)'
    BY <1>5, <1>14, <2>1 DEF LifeInv, ObjsKept
  <2>4. InPlay =>
         /\ \A n \in DOMAIN array : Live(array[n])'
         /\ \A h \in DOMAIN byHandle : Live(byHandle[h])'
         /\ \A n \in DOMAIN current : Live(current[n])'
    BY <1>3, <1>4, <1>14, <2>1 DEF LifeInv, PagesTypeOK
  <2>5. \A k \in DOMAIN queue : queue[k].op \in {"crop", "page_annots"} =>
          queue[k].page \in DOMAIN objs' /\ Live(queue[k].page)'
    BY <1>4, <1>5, <1>14, <2>1 DEF LifeInv, ObjsKept
  <2> QED  BY <1>4, <2>1, <2>2, <2>3, <2>4, <2>5 DEF LifeInv, InPlay
<1>17. MapInv'
  BY <1>3, <1>4, <1>5, <1>12, <1>14 DEF Serving, MapInv, PagesTypeOK, ObjsKept, Appended
<1>18. \A h, p : Pinning(h, p) => Pinning(h, p)'
  BY <1>3, <1>4, <1>5, <1>14 DEF Pinning, Kept, PagesTypeOK, ObjsKept
<1>19. RefInv'  BY <1>3, <1>4, <1>5, <1>18 DEF Serving, RefInv, Holds, HoldsIn, ObjsKept
<1>20. \A k \in DOMAIN queue : queue[k].op = "page_annots" =>
         /\ objs'[queue[k].page].names = objs[queue[k].page].names
         /\ objs'[queue[k].page].handle = objs[queue[k].page].handle
  BY <1>3, <1>5 DEF Serving, LifeInv, ObjsKept
<1>21. AnnotsInv'
  <2>1. CASE released  BY <1>3, <1>4, <1>12, <1>18, <1>20, <2>1 DEF Serving, AnnotsInv
  <2>2. CASE ~released
    BY <1>3, <1>4, <1>5, <1>11, <1>12, <1>18, <1>20, <2>2, AnnotsBeforeFree
    DEF Serving, FreeAppended, ObjsKept
  <2> QED  BY <2>1, <2>2
<1>22. \A j : MeantForPage(j) => MeantForPage(j)'
  BY <1>4, <1>5 DEF MeantForPage, ObjsKept
<1>23. FreeInv'
  <2>1. FreeInv  BY <1>3 DEF Serving
  <2>2. CASE released  BY <1>4, <1>12, <1>22, <2>1, <2>2 DEF FreeInv
  <2>3. CASE ~released
    <3>1. MeantForPage(job)'
      <4>1. /\ i \in DOMAIN core' /\ i # 1 /\ core'[i].live /\ core'[i].handle = job.handle
            /\ core'[i].page.kind = "derived" /\ core'[i].page = objs[o].names
        BY <1>4, <1>7, <1>8, <1>9, <1>11
      <4>2. o \in DOMAIN objs' /\ objs'[o].names = objs[o].names  BY <1>5 DEF ObjsKept
      <4> QED  BY <1>5, <1>11, <4>1, <4>2 DEF MeantForPage
    <3>2. ASSUME NEW k \in DOMAIN queue, queue[k].op = "free", queue[k].meant = i
          PROVE  FALSE
      <4>1. MeantForPage(queue[k])  BY <1>9, <2>1, <3>2 DEF FreeInv
      <4>2. PICK p \in DOMAIN objs :
              objs[p].names = core[i].page /\ objs[p].registered /\ objs[p].state = "finalized"
        BY <3>2, <4>1 DEF MeantForPage
      <4>3. objs[p].parent # 0  BY <1>3, <4>2 DEF Serving, ObjInv
      <4>4. p = o  BY <1>3, <1>7, <1>8, <4>2, <4>3 DEF Serving, ObjInv
      <4> QED  BY <1>4, <4>2, <4>4
    <3>3. \A k \in DOMAIN queue' :
            \/ k \in DOMAIN queue /\ queue'[k] = queue[k]
            \/ queue'[k] = job /\ k = Len(queue')
      BY <1>12, <2>3 DEF Appended
    <3>4. \A k \in DOMAIN queue : queue[k].op = "free" => MeantForPage(queue[k])
      BY <2>1, <2>3 DEF FreeInv
    <3>5. \A k, m \in DOMAIN queue' :
            queue'[k].op = "free" /\ queue'[m].op = "free" /\ queue'[k].meant = queue'[m].meant
              => k = m
      BY <1>11, <2>1, <3>2, <3>3 DEF FreeInv
    <3>6. ~released' /\ document' # "finalized"  BY <1>4, <2>1, <2>3 DEF FreeInv
    <3> QED  BY <1>22, <3>1, <3>3, <3>4, <3>5, <3>6 DEF FreeInv
  <2> QED  BY <2>2, <2>3
<1>24. reply.made => 1 \in DOMAIN queue /\ 1 \in DOMAIN queue' /\ queue'[1] = queue[1]
  BY <1>3, <1>12 DEF Serving, ReplyInv, Appended
<1>25. ReplyInv'
  <2>1. \A h : NewDerived(h) => NewDerived(h)'  BY <1>4, <1>5 DEF NewDerived, ObjsKept
  <2>2. Running("page_annots") => objs'[queue[1].page].names = objs[queue[1].page].names
    BY <1>20, <1>24 DEF Running
  <2> QED  BY <1>3, <1>4, <1>24, <2>1, <2>2 DEF Serving, ReplyInv, Running, Holds, HoldsIn
<1>26. ~released /\ ~ReadsFlushed => CurrentInv'
  BY <1>3, <1>4, <1>5, KeptCurrent DEF Serving
<1>27. ~released => LeakInv'
  <2> SUFFICES ASSUME ~released, NEW e \in DOMAIN core, core[e].live,
                      core[e].page.kind = "derived"
               PROVE  Remembered(e)'
    BY <1>4 DEF LeakInv
  <2>1. Remembered(e)  BY <1>3 DEF Serving, LeakInv
  <2>2. ASSUME NEW k \in DOMAIN queue, queue[k].op = "free", queue[k].meant = e
        PROVE  Remembered(e)'
    BY <1>12, <2>2 DEF Remembered, Appended
  <2>3. CASE Running("crop") /\ reply.handles[1] = core[e].handle
    BY <1>4, <1>24, <2>3 DEF Remembered, Running
  <2>4. ASSUME NEW p \in DOMAIN objs, objs[p].names = core[e].page, objs[p].parent # 0,
               Live(p) \/ Watched(p)
        PROVE  Remembered(e)'
    <3>1. CASE p = o
      <4>1. e = i  BY <1>8, <2>4, <3>1
      <4> QED  BY <1>11, <1>12, <4>1 DEF Remembered, Appended
    <3>2. CASE p # o  BY <1>4, <1>5, <1>14, <2>4, <3>2 DEF Remembered, ObjsKept
    <3> QED  BY <3>1, <3>2
  <2> QED  BY <2>1, <2>2, <2>3, <2>4 DEF Remembered
<1> QED
  BY <1>4, <1>6, <1>13, <1>15, <1>16, <1>17, <1>19, <1>21, <1>23, <1>25, <1>26, <1>27
  DEF PagesInv, Serving

(***************************************************************************)
(* release(): the document forgets its pages, and its free comes last.     *)
(***************************************************************************)
LEMMA ReleaseKeepsInv ==
    ASSUME PagesInv, core[1].live, Release \/ FinalizeDocument
    PROVE  PagesInv'
<1>1. CoreInv /\ PagesTypeOK /\ Serving  BY DEF PagesInv
<1>2. PICK job : job = FreeJob(1, 1)  OBVIOUS
<1>3. job \in PageJobs /\ job.op = "free" /\ job.handle = 1 /\ job.meant = 1
  BY <1>2, FreeJobType
<1>4. /\ UNCHANGED <<closed, core, reply, objs, refs, epoch>>
      /\ queue' = Append(queue, job) /\ ~released /\ released'
  BY <1>2 DEF Release, FinalizeDocument, python, maps, Call
<1>5. \/ /\ UNCHANGED <<array, byHandle, weak, current>> /\ document' = "finalized"
         /\ document = "collected"
      \/ /\ array' = <<>> /\ byHandle' = <<>> /\ weak' = <<>> /\ current' = <<>>
         /\ document' = document /\ document = "held"
  BY DEF Release, FinalizeDocument, maps, Call
<1>6. Appended(job) /\ queue' \in Seq(PageJobs)  BY <1>1, <1>3, <1>4, AppendedJob
<1>7. CoreInv' /\ CoreGrows /\ core'[1].live  BY <1>1, <1>4, CoreStays
<1>8. PagesTypeOK'
  <2>1. /\ array' \in {<<>>} \cup [Numbers -> DOMAIN objs]
        /\ byHandle' \in [DOMAIN byHandle' -> DOMAIN objs] /\ DOMAIN byHandle' \subseteq Nat
        /\ weak' \in [DOMAIN weak' -> DOMAIN objs] /\ DOMAIN weak' \subseteq Nat
        /\ current' \in [DOMAIN current' -> DOMAIN objs] /\ DOMAIN current' \subseteq Numbers
    <3>1. DOMAIN <<>> = {} /\ <<>> \in [{} -> DOMAIN objs]  OBVIOUS
    <3> QED  BY <1>1, <1>5, <3>1 DEF PagesTypeOK
  <2> QED  BY <1>1, <1>4, <1>5, <1>6, <2>1 DEF PagesTypeOK
<1>9. \A p \in DOMAIN objs : ~(objs[p].names.kind = "derived" /\ objs[p].parent = 0)
  BY <1>1, <1>4 DEF Serving, ObjInv
<1>10. ObjInv'
  BY <1>1, <1>4, <1>9 DEF Serving, ObjInv, Live, Watched, Holds, HoldsIn
<1>11. LifeInv'
  <2>1. LifeInv  BY <1>1 DEF Serving
  <2>2. CASE document = "held" /\ document' = document /\ array' = <<>> /\ byHandle' = <<>>
               /\ current' = <<>>
    <3>1. DOMAIN array' = {} /\ DOMAIN byHandle' = {} /\ DOMAIN current' = {}  BY <2>2
    <3>2. InPlay'  BY <2>2 DEF InPlay
    <3> QED  BY <1>3, <1>4, <1>6, <2>1, <3>1, <3>2 DEF LifeInv, Live, Appended
  <2>3. CASE document = "collected" /\ document' = "finalized"
    <3>1. ~InPlay /\ ~InPlay'  BY <2>3 DEF InPlay
    <3> QED  BY <1>3, <1>4, <1>6, <2>1, <3>1 DEF LifeInv, Live, Appended
  <2> QED  BY <1>5, <2>2, <2>3
<1>12. MapInv'
  <2>1. DOMAIN <<>> = {}  OBVIOUS
  <2> QED  BY <1>1, <1>4, <1>5, <2>1 DEF Serving, MapInv
<1>13. \A h, p : Pinning(h, p) => Pinning(h, p)'
  BY <1>4 DEF Pinning, Kept
<1>14. RefInv'  BY <1>1, <1>4, <1>13 DEF Serving, RefInv, Holds, HoldsIn
<1>15. AnnotsInv'
  BY <1>1, <1>3, <1>4, <1>6, <1>13, AnnotsBeforeFree DEF Serving, FreeAppended
<1>16. FreeInv'
  <2>1. FreeInv  BY <1>1 DEF Serving
  <2>2. \A j : MeantForPage(j) => MeantForPage(j)'  BY <1>4 DEF MeantForPage
  <2>3. \A k \in DOMAIN queue : queue[k].op = "free" => MeantForPage(queue[k]) /\ queue[k].meant # 1
    BY <1>4, <2>1 DEF FreeInv, MeantForPage
  <2>4. \A k \in DOMAIN queue' :
            \/ k \in DOMAIN queue /\ queue'[k] = queue[k]
            \/ queue'[k] = job /\ k = Len(queue')
    BY <1>6 DEF Appended
  <2>6. \A k, m \in DOMAIN queue' :
            queue'[k].op = "free" /\ queue'[m].op = "free" /\ queue'[k].meant = queue'[m].meant
              => k = m
    BY <1>3, <2>1, <2>3, <2>4 DEF FreeInv
  <2>7. Len(queue') \in DOMAIN queue' /\ queue'[Len(queue')] = job
    BY <1>6 DEF Appended
  <2>8. \A k \in DOMAIN queue' : queue'[k].op = "free" =>
           \/ queue'[k].handle = 1 /\ queue'[k].meant = 1 /\ released' /\ k = Len(queue')
           \/ MeantForPage(queue[k])'
    BY <1>3, <1>4, <2>2, <2>3, <2>4
  <2> QED  BY <1>3, <1>4, <2>6, <2>7, <2>8 DEF FreeInv
<1>17. ReplyInv'
  <2>1. \A h : NewDerived(h) => NewDerived(h)'  BY <1>4 DEF NewDerived
  <2>2. reply.made => 1 \in DOMAIN queue /\ 1 \in DOMAIN queue' /\ queue'[1] = queue[1]
    BY <1>1, <1>6 DEF Serving, ReplyInv, Appended
  <2>3. DOMAIN current' \subseteq DOMAIN current
    <3>1. DOMAIN <<>> = {}  OBVIOUS
    <3> QED  BY <1>5, <3>1
  <2> QED  BY <1>1, <1>4, <2>1, <2>2, <2>3 DEF Serving, ReplyInv, Running, Holds, HoldsIn
<1> QED
  BY <1>4, <1>7, <1>8, <1>10, <1>11, <1>12, <1>14, <1>15, <1>16, <1>17
  DEF PagesInv, Serving

(***************************************************************************)
(* page.annots: a derived page is pinned, and its finalizer is to free      *)
(* nothing any more.                                                       *)
(***************************************************************************)
LEMMA CallPageAnnotsKeepsInv ==
    ASSUME PagesInv, core[1].live, NEW o, o \in DOMAIN objs, CallPageAnnots(o)
    PROVE  PagesInv'
<1>1. CoreInv /\ PagesTypeOK /\ Serving /\ ~released /\ document = "held"
  BY DEF PagesInv, CallPageAnnots, Enqueue, Call
<1>2. PICK job : job = [Job("page_annots") EXCEPT !.page = o]  OBVIOUS
<1>3. job \in PageJobs /\ job.op = "page_annots" /\ job.page = o
  <2>1. o \in Nat  BY <1>1, QueueDomain
  <2> QED  BY <1>2, <2>1 DEF Job, PageJobs
<1>4. PICK h : h = objs[o].handle  OBVIOUS
<1>5. /\ UNCHANGED <<closed, core, reply, refs, array, current, epoch, released, document>>
      /\ queue' = Append(queue, job)
      /\ objs[o].held
      /\ ReadsFlushed \/ StaysCurrent(o)
      /\ \/ /\ Pinned(o)
            /\ objs' = [objs EXCEPT ![o].registered = FALSE]
            /\ weak' = Restrict(weak, DOMAIN weak \ {h})
            /\ byHandle' = With(byHandle, h, o)
         \/ ~Pinned(o) /\ UNCHANGED <<objs, byHandle, weak>>
  BY <1>2, <1>4 DEF CallPageAnnots, Enqueue, python
<1>6. Appended(job) /\ queue' \in Seq(PageJobs)  BY <1>1, <1>3, <1>5, AppendedJob
<1>7. CoreInv' /\ CoreGrows /\ core'[1].live  BY <1>1, <1>5, CoreStays
<1>8. /\ Live(o) /\ Holds(h, objs[o].names) /\ IsPage(objs[o].names)
      /\ h \in Nat
  BY <1>1, <1>4, <1>5, FieldTypes DEF Serving, LifeInv, ObjInv
\* The objects.
<1>9. /\ ObjsKept
      /\ \A p \in DOMAIN objs : p # o => objs'[p] = objs[p]
      /\ \A p \in DOMAIN objs : objs'[p].held = objs[p].held /\ objs'[p].state = objs[p].state
      /\ \A p \in DOMAIN objs : objs'[p].registered => objs[p].registered
      /\ Pinned(o) => ~objs'[o].registered
  <2>1. CASE ~Pinned(o)
    <3>1. objs' = objs  BY <1>5, <2>1
    <3>2. objs \in Seq(PageObjects)  BY <1>1 DEF PagesTypeOK
    <3> QED  BY <2>1, <3>1, <3>2 DEF ObjsKept
  <2>2. CASE Pinned(o)
    <3>1. PICK new : new = [objs[o] EXCEPT !.registered = FALSE]  OBVIOUS
    <3>2. objs[o] \in PageObjects  BY <1>1, QueueDomain
    <3>3. /\ new \in PageObjects
          /\ new.handle = objs[o].handle /\ new.parent = objs[o].parent
          /\ new.names = objs[o].names /\ new.held = objs[o].held
          /\ ~new.registered /\ new.state = objs[o].state
      BY <3>1, <3>2 DEF PageObjects
    <3>4. objs' = [objs EXCEPT ![o] = new]  BY <1>5, <2>2, <3>1
    <3>5. ObjsKept /\ objs'[o] = new /\ \A p \in DOMAIN objs : p # o => objs'[p] = objs[p]
      BY <1>1, <3>3, <3>4, ObjectChanges
    <3> QED  BY <3>3, <3>5
  <2> QED  BY <2>1, <2>2
<1>10. \A p \in DOMAIN objs : (Live(p)' <=> Live(p)) /\ (Watched(p)' => Watched(p))
  BY <1>9 DEF Live, Watched, ObjsKept
\* The maps.
<1>11. /\ byHandle' \in [DOMAIN byHandle' -> DOMAIN objs] /\ DOMAIN byHandle' \subseteq Nat
       /\ DOMAIN byHandle \subseteq DOMAIN byHandle'
       /\ \A g \in DOMAIN byHandle' :
            \/ g \in DOMAIN byHandle /\ byHandle'[g] = byHandle[g]
            \/ g = h /\ byHandle'[g] = o /\ Pinned(o)
       /\ weak' \in [DOMAIN weak' -> DOMAIN objs] /\ DOMAIN weak' \subseteq Nat
       /\ \A g \in DOMAIN weak' : g \in DOMAIN weak /\ weak'[g] = weak[g]
       /\ objs[o].parent # 0 => h \in DOMAIN byHandle' /\ byHandle'[h] = o
  <2>1. CASE ~Pinned(o)
    <3>1. byHandle' = byHandle /\ weak' = weak  BY <1>5, <2>1
    <3>2. objs[o].parent # 0 => h \in DOMAIN byHandle /\ byHandle[h] = o
      BY <1>4, <2>1 DEF Pinned
    <3> QED  BY <1>1, <3>1, <3>2 DEF PagesTypeOK
  <2>2. CASE Pinned(o)
    <3>1. /\ DOMAIN byHandle' = DOMAIN byHandle \cup {h}
          /\ byHandle'[h] = o
          /\ \A g \in DOMAIN byHandle : g # h => byHandle'[g] = byHandle[g]
      BY <1>5, <2>2 DEF With
    <3>2. byHandle' \in [DOMAIN byHandle' -> DOMAIN objs]
      <4>1. byHandle' = [g \in DOMAIN byHandle' |-> byHandle'[g]]  BY <1>5, <2>2 DEF With
      <4>2. \A g \in DOMAIN byHandle' : byHandle'[g] \in DOMAIN objs
        BY <1>1, <3>1 DEF PagesTypeOK
      <4> QED  BY <4>1, <4>2
    <3>3. DOMAIN weak' = DOMAIN weak \ {h} /\ \A g \in DOMAIN weak' : weak'[g] = weak[g]
      BY <1>5, <2>2 DEF Restrict
    <3>4. weak' \in [DOMAIN weak' -> DOMAIN objs]
      <4>1. weak' = [g \in DOMAIN weak' |-> weak'[g]]  BY <1>5, <2>2 DEF Restrict
      <4>2. \A g \in DOMAIN weak' : weak'[g] \in DOMAIN objs
        BY <1>1, <3>3 DEF PagesTypeOK
      <4> QED  BY <4>1, <4>2
    <3> QED  BY <1>1, <1>8, <2>2, <3>1, <3>2, <3>3, <3>4 DEF PagesTypeOK
  <2> QED  BY <2>1, <2>2
<1>12. PagesTypeOK'
  BY <1>1, <1>5, <1>6, <1>9, <1>11 DEF PagesTypeOK, ObjsKept
<1>13. \A p, q \in DOMAIN objs :
         /\ Live(p) /\ Live(q) /\ objs[p].handle = objs[q].handle => objs[p].names = objs[q].names
  <2>1. \A p \in DOMAIN objs : Live(p) => Holds(objs[p].handle, objs[p].names)
    BY <1>1 DEF Serving, ObjInv
  <2> QED  BY <1>1, <2>1, HoldsIsUnique
<1>14. ObjInv'
  BY <1>1, <1>5, <1>9, <1>10 DEF Serving, ObjInv, ObjsKept, Kept, Holds, HoldsIn
<1>15. InPlay /\ InPlay'  BY <1>1, <1>5 DEF InPlay
<1>16. LifeInv'
  <2>1. LifeInv  BY <1>1 DEF Serving
  <2>2. \A k \in DOMAIN queue' :
          (k \in DOMAIN queue /\ queue'[k] = queue[k]) \/ queue'[k] = job
    BY <1>6 DEF Appended
  <2>3. \A p \in DOMAIN objs' : objs'[p].held => Live(p)'
    BY <1>9, <1>10, <2>1 DEF LifeInv, ObjsKept
  <2>4. \A k \in DOMAIN queue' :
         /\ queue'[k].op \in {"crop", "page_annots"} =>
              queue'[k].page \in DOMAIN objs' /\ Live(queue'[k].page)
         /\ queue'[k].op = "page" => queue'[k].ref \in DOMAIN refs
    BY <1>3, <1>8, <1>9, <2>1, <2>2 DEF LifeInv, ObjsKept
  <2>5. \A k \in DOMAIN queue' :
         queue'[k].op \in {"crop", "page_annots"} => queue'[k].page \in DOMAIN objs
    BY <2>4, <1>9 DEF ObjsKept
  <2>6. /\ \A n \in DOMAIN array : Live(array[n])'
        /\ \A g \in DOMAIN byHandle' : Live(byHandle'[g])
        /\ \A n \in DOMAIN current : Live(current[n])'
    BY <1>1, <1>5, <1>8, <1>10, <1>11, <1>15, <2>1 DEF LifeInv, PagesTypeOK
  <2>7. \A g \in DOMAIN byHandle' : byHandle'[g] \in DOMAIN objs  BY <1>11
  <2>8. \A p \in DOMAIN objs : Live(p) => objs'[p].state = "live"
    BY <1>9 DEF Live
  <2>9. /\ \A k \in DOMAIN queue' : queue'[k].op \in {"crop", "page_annots"} =>
             objs'[queue'[k].page].state = "live"
        /\ \A g \in DOMAIN byHandle' : objs'[byHandle'[g]].state = "live"
    BY <2>4, <2>5, <2>6, <2>7, <2>8
  <2> QED
    BY <1>5, <1>15, <2>3, <2>4, <2>6, <2>9 DEF LifeInv, Live
<1>17. \A g, p : Pinning(g, p) => Pinning(g, p)'
  <2> SUFFICES ASSUME NEW g, NEW p, Pinning(g, p) PROVE Pinning(g, p)'
    OBVIOUS
  <2>1. Kept(p)'  BY <1>9 DEF Pinning, Kept, ObjsKept
  <2>2. g \in DOMAIN byHandle /\ objs[byHandle[g]].names = p /\ byHandle[g] \in DOMAIN objs
    BY <1>1 DEF Pinning, PagesTypeOK
  <2>3. g \in DOMAIN byHandle' /\ objs'[byHandle'[g]].names = p
    <3>1. CASE byHandle'[g] = byHandle[g]
      BY <1>9, <1>11, <2>2, <3>1 DEF ObjsKept
    <3>2. CASE g = h /\ byHandle'[g] = o
      <4>1. objs[byHandle[g]].handle = objs[o].handle /\ Live(byHandle[g])
        BY <1>1, <1>4, <1>15, <2>2, <3>2 DEF Serving, MapInv, LifeInv
      <4>2. objs[o].names = p  BY <1>8, <1>13, <2>2, <4>1
      <4> QED  BY <1>9, <1>11, <2>2, <3>2, <4>2 DEF ObjsKept
    <3> QED  BY <1>11, <2>2, <3>1, <3>2
  <2> QED  BY <2>1, <2>3 DEF Pinning
<1>18. MapInv'
  <2>1. MapInv  BY <1>1 DEF Serving
  <2>2. \A g \in DOMAIN byHandle' :
         objs'[byHandle'[g]].handle = g /\ ~objs'[byHandle'[g]].registered
    <3> SUFFICES ASSUME NEW g \in DOMAIN byHandle'
                 PROVE  objs'[byHandle'[g]].handle = g /\ ~objs'[byHandle'[g]].registered
      OBVIOUS
    <3>1. CASE g \in DOMAIN byHandle /\ byHandle'[g] = byHandle[g]
      <4>1. byHandle[g] \in DOMAIN objs  BY <1>1, <3>1 DEF PagesTypeOK
      <4>2. objs[byHandle[g]].handle = g /\ ~objs[byHandle[g]].registered
        BY <2>1, <3>1 DEF MapInv
      <4> QED  BY <1>9, <3>1, <4>1, <4>2 DEF ObjsKept
    <3>2. CASE g = h /\ byHandle'[g] = o /\ Pinned(o)
      BY <1>4, <1>9, <3>2 DEF ObjsKept
    <3> QED  BY <1>11, <3>1, <3>2
  <2>3. \A g \in DOMAIN weak' : objs'[weak'[g]].handle = g
    <3> SUFFICES ASSUME NEW g \in DOMAIN weak' PROVE objs'[weak'[g]].handle = g
      OBVIOUS
    <3>1. weak'[g] = weak[g] /\ g \in DOMAIN weak  BY <1>11
    <3>2. weak[g] \in DOMAIN objs  BY <1>1, <3>1 DEF PagesTypeOK
    <3>3. objs[weak[g]].handle = g  BY <2>1, <3>1 DEF MapInv
    <3> QED  BY <1>9, <3>1, <3>2, <3>3 DEF ObjsKept
  <2>4. ASSUME NEW p \in DOMAIN objs, objs[p].parent # 0, ~objs'[p].registered
        PROVE  objs[p].handle \in DOMAIN byHandle' /\ byHandle'[objs[p].handle] = p
    <3>1. CASE p = o  BY <1>4, <1>11, <2>4, <3>1
    <3>2. CASE p # o
      <4>1. objs[p].handle \in DOMAIN byHandle /\ byHandle[objs[p].handle] = p
        BY <1>1, <1>9, <2>1, <2>4, <3>2 DEF MapInv
      <4>2. CASE objs[p].handle = h /\ byHandle'[h] = o /\ Pinned(o)
        <5>1. Live(p)  BY <1>1, <1>15, <4>1 DEF Serving, LifeInv
        <5>2. objs[p].names = objs[o].names  BY <1>4, <1>8, <1>13, <4>2, <5>1
        <5>3. objs[o].parent # 0  BY <4>2 DEF Pinned
        <5>4. p = o  BY <1>1, <2>4, <5>2, <5>3 DEF Serving, ObjInv
        <5> QED  BY <3>2, <5>4
      <4> QED  BY <1>11, <4>1, <4>2
    <3> QED  BY <3>1, <3>2
  <2>5. \E k \in DOMAIN queue' : queue'[k].op = "page_annots"
    BY <1>3, <1>6 DEF Appended
  <2>6. \A p \in DOMAIN objs' : objs'[p].parent # 0 /\ ~objs'[p].registered =>
          objs'[p].handle \in DOMAIN byHandle' /\ byHandle'[objs'[p].handle] = p
    BY <1>9, <2>4 DEF ObjsKept
  <2> QED  BY <2>2, <2>3, <2>5, <2>6 DEF MapInv
<1>19. RefInv'
  BY <1>1, <1>5, <1>9, <1>17 DEF Serving, RefInv, Holds, HoldsIn, ObjsKept
<1>20. ASSUME NEW p, p = objs[o].names, p.kind = "derived"
       PROVE  Pinning(h, p)'
  <2>1. objs[o].parent # 0  BY <1>1, <1>20 DEF Serving, ObjInv
  <2>2. h \in DOMAIN byHandle' /\ byHandle'[h] = o  BY <1>11, <2>1
  <2>3. ~objs'[o].registered
    <3>1. CASE Pinned(o)  BY <1>9, <3>1
    <3>2. CASE ~Pinned(o)
      <4>1. h \in DOMAIN byHandle /\ byHandle[h] = o  BY <1>4, <2>1, <3>2 DEF Pinned
      <4>2. ~objs[o].registered  BY <1>1, <4>1 DEF Serving, MapInv
      <4> QED  BY <1>9, <4>2
    <3> QED  BY <3>1, <3>2
  <2>4. \A q \in DOMAIN objs' : objs'[q].names = objs[o].names => ~objs'[q].registered
    <3> SUFFICES ASSUME NEW q \in DOMAIN objs, objs[q].names = objs[o].names, objs'[q].registered
                 PROVE  FALSE
      BY <1>9 DEF ObjsKept
    <3>1. objs[q].registered /\ objs[q].parent # 0  BY <1>1, <1>9 DEF Serving, ObjInv
    <3>2. q = o  BY <1>1, <2>1, <3>1 DEF Serving, ObjInv
    <3> QED  BY <2>3, <3>2
  <2> QED  BY <1>9, <1>20, <2>2, <2>4 DEF Pinning, Kept, ObjsKept
<1>21. AnnotsInv'
  <2>1. AnnotsInv  BY <1>1 DEF Serving
  <2>2. Len(queue) \in Nat /\ DOMAIN queue = 1 .. Len(queue)  BY <1>1, QueueDomain
  <2>3. \A i \in DOMAIN queue : queue'[i] = queue[i] /\ i < Len(queue')
    BY <1>6, <2>2 DEF Appended
  <2>4. \A i \in DOMAIN queue' : i \in DOMAIN queue \/ (i = Len(queue') /\ queue'[i] = job)
    BY <1>6 DEF Appended
  <2>5. Len(queue') = Len(queue) + 1  BY <1>6 DEF Appended
  <2>6. \A i \in DOMAIN queue : queue[i].op = "page_annots" => queue[i].page \in DOMAIN objs
    BY <1>1 DEF Serving, LifeInv
  <2>7. objs[o].names.kind = "page" =>
          \/ ReadsFlushed
          \/ objs[o].names.id = closed /\ \A k \in DOMAIN queue : queue[k].op # "close"
    BY <1>5 DEF StaysCurrent
  <2>8. ASSUME NEW i \in DOMAIN queue', queue'[i].op = "page_annots",
               NEW q, q = queue'[i].page, NEW g, g = objs[q].handle, NEW p, p = objs[q].names
        PROVE  /\ objs'[q].handle = g /\ objs'[q].names = p
               /\ p.kind = "derived" => Pinning(g, p)'
               /\ p.kind = "page" =>
                    \/ ReadsFlushed
                    \/ /\ p.id = closed'
                       /\ \A k \in DOMAIN queue' : k <= i => queue'[k].op # "close"
    <3>1. CASE i \in DOMAIN queue
      <4>1. queue'[i] = queue[i] /\ q = queue[i].page /\ q \in DOMAIN objs
        BY <2>3, <2>6, <2>8, <3>1
      <4>2. \A k \in DOMAIN queue' : k <= i => k \in DOMAIN queue /\ queue'[k] = queue[k]
        BY <2>2, <2>3, <2>4, <2>5, <3>1
      <4>3. p.kind = "derived" => Pinning(g, p)
        BY <2>1, <2>8, <3>1, <4>1 DEF AnnotsInv
      <4>4. p.kind = "page" =>
              \/ ReadsFlushed
              \/ p.id = closed /\ \A k \in DOMAIN queue : k <= i => queue[k].op # "close"
        BY <2>1, <2>8, <3>1, <4>1 DEF AnnotsInv
      <4> QED  BY <1>5, <1>9, <1>17, <2>8, <4>1, <4>2, <4>3, <4>4 DEF ObjsKept
    <3>2. CASE i = Len(queue') /\ queue'[i] = job
      <4>1. q = o /\ g = h /\ p = objs[o].names  BY <1>3, <1>4, <2>8, <3>2
      <4>2. \A k \in DOMAIN queue' :
              queue'[k] = job \/ (k \in DOMAIN queue /\ queue'[k] = queue[k])
        BY <1>6 DEF Appended
      <4>3. \A k \in DOMAIN queue' : queue'[k].op = "close" =>
               k \in DOMAIN queue /\ queue[k].op = "close"
        BY <1>3, <4>2
      <4>4. objs'[q].handle = g /\ objs'[q].names = p
        BY <1>4, <1>9, <4>1 DEF ObjsKept
      <4>5. p.kind = "derived" => Pinning(g, p)'  BY <1>20, <4>1
      <4> QED  BY <1>5, <2>7, <4>1, <4>3, <4>4, <4>5
    <3> QED  BY <2>4, <2>8, <3>1, <3>2
  <2> QED  BY <2>8 DEF AnnotsInv
<1>22. FreeInv'
  <2>1. FreeInv  BY <1>1 DEF Serving
  <2>2. \A j : MeantForPage(j) => MeantForPage(j)'
    <3> SUFFICES ASSUME NEW j, MeantForPage(j) PROVE MeantForPage(j)'
      OBVIOUS
    <3>1. PICK p \in DOMAIN objs :
            objs[p].names = core[j.meant].page /\ objs[p].registered /\ objs[p].state = "finalized"
      BY DEF MeantForPage
    <3>2. p # o  BY <1>8, <3>1 DEF Live
    <3>3. objs'[p] = objs[p] /\ p \in DOMAIN objs'  BY <1>9, <3>2 DEF ObjsKept
    <3> QED  BY <1>5, <3>1, <3>3 DEF MeantForPage
  <2>3. \A k \in DOMAIN queue' : queue'[k].op = "free" => k \in DOMAIN queue /\ queue'[k] = queue[k]
    BY <1>3, <1>6 DEF Appended
  <2>4. \A k \in DOMAIN queue : queue[k].op = "free" => MeantForPage(queue[k])
    BY <1>1, <2>1 DEF FreeInv
  <2> QED  BY <1>1, <1>5, <2>1, <2>2, <2>3, <2>4 DEF FreeInv
<1>23. reply.made => 1 \in DOMAIN queue /\ 1 \in DOMAIN queue' /\ queue'[1] = queue[1]
  BY <1>1, <1>6 DEF Serving, ReplyInv, Appended
<1>24. ReplyInv'
  <2>1. \A g : NewDerived(g) => NewDerived(g)'  BY <1>5, <1>9 DEF NewDerived, ObjsKept
  <2>2. Running("page_annots") => objs'[queue[1].page].names = objs[queue[1].page].names
    BY <1>1, <1>9 DEF Serving, ReplyInv, LifeInv, Running, ObjsKept
  <2> QED  BY <1>1, <1>5, <1>23, <2>1, <2>2 DEF Serving, ReplyInv, Running, Holds, HoldsIn
<1>25. ~ReadsFlushed => CurrentInv'
  <2> SUFFICES ASSUME CurrentInv PROVE CurrentInv'
    BY <1>1 DEF Serving
  <2>1. /\ \A n \in DOMAIN current : current[n] \in DOMAIN objs
        /\ \A g \in DOMAIN byHandle : byHandle[g] \in DOMAIN objs
        /\ \A g \in DOMAIN weak : weak[g] \in DOMAIN objs
    BY <1>1 DEF PagesTypeOK
  <2>2. \A r \in DOMAIN refs : refs[r].page # 0 => refs[r].page \in DOMAIN objs
    BY <1>1 DEF Serving, RefInv
  <2>3. \A p \in DOMAIN objs : objs'[p].names = objs[p].names  BY <1>9 DEF ObjsKept
  <2>4. \A p \in DOMAIN objs : InTheList(p) => InTheList(p)'
    BY <1>5, <2>3 DEF InTheList
  <2>5. Pinned(o) => InTheList(o)
    <3>1. Pinned(o) => objs[o].names.kind = "derived"
      BY <1>1 DEF Pinned, Serving, ObjInv
    <3> QED  BY <3>1 DEF InTheList, ListPage
  <2>6. \A g \in DOMAIN byHandle' : InTheList(byHandle'[g])
    BY <1>11, <2>5 DEF CurrentInv
  <2>7. \A g \in DOMAIN byHandle' : InTheList(byHandle[g])'
    <3> SUFFICES ASSUME NEW g \in DOMAIN byHandle' PROVE InTheList(byHandle[g])'
      OBVIOUS
    <3>1. InTheList(byHandle'[g]) /\ byHandle'[g] \in DOMAIN objs  BY <1>11, <2>6
    <3> QED  BY <1>5, <2>3, <3>1 DEF InTheList
  <2> QED  BY <1>5, <1>11, <2>1, <2>2, <2>3, <2>4, <2>7 DEF CurrentInv
<1>26. LeakInv'
  <2>1. ASSUME NEW e \in DOMAIN core, Remembered(e) PROVE Remembered(e)'
    <3>1. \A p \in DOMAIN objs : Live(p) \/ Watched(p) => (Live(p) \/ Watched(p))'
      BY <1>8, <1>9 DEF Live, Watched
    <3> QED  BY <1>5, <1>6, <1>9, <1>23, <2>1, <3>1 DEF Remembered, ObjsKept, Appended, Running
  <2> QED  BY <1>1, <1>5, <2>1 DEF Serving, LeakInv
<1> QED
  BY <1>1, <1>5, <1>7, <1>12, <1>14, <1>16, <1>18, <1>19, <1>21, <1>22, <1>24, <1>25, <1>26
  DEF PagesInv, Serving

(***************************************************************************)
(* The running job ends: what the next ones need.                          *)
(***************************************************************************)
LEMMA Ending ==
    ASSUME PagesTypeOK, queue # <<>>, Done
    PROVE  /\ Shifted /\ queue' \in Seq(PageJobs)
           /\ DOMAIN queue' = 1 .. Len(queue') /\ Len(queue') \in Nat
           /\ reply' \in Replies /\ ~reply'.made
           /\ 1 \in DOMAIN queue /\ Head(queue) = queue[1]
<1>1. 1 \in DOMAIN queue /\ Head(queue) = queue[1]  BY HeadIsFirst
<1>2. Shifted /\ queue' \in Seq(PageJobs)  BY <1>1, ShiftedQueue DEF Done
<1>3. <<>> \in Seq(Nat)  OBVIOUS
<1>4. reply' \in Replies /\ ~reply'.made  BY <1>3 DEF Done, NoReply, Replies
<1> QED  BY <1>1, <1>2, <1>4

\* The frees that stay queued are meant for the same pages.
LEMMA FreesShift ==
    ASSUME PagesTypeOK, FreeInv, queue # <<>>, Done,
           queue[1].op = "free" => queue[1].meant # 1,
           UNCHANGED <<released, document>>,
           \A i \in DOMAIN queue : i # 1 /\ queue[i].op = "free" =>
              \A job : job = queue[i] /\ MeantForPage(job) => MeantForPage(job)'
    PROVE  FreeInv'
<1>1. /\ Len(queue) \in Nat /\ DOMAIN queue = 1 .. Len(queue)
      /\ DOMAIN queue' = 1 .. Len(queue') /\ Len(queue') \in Nat /\ Len(queue') = Len(queue) - 1
      /\ \A i \in DOMAIN queue' : i + 1 \in DOMAIN queue /\ queue'[i] = queue[i + 1]
  BY QueueDomain, Ending DEF Shifted
<1>2. ASSUME NEW i \in DOMAIN queue', NEW job, job = queue'[i], job.op = "free"
      PROVE  \/ job.handle = 1 /\ job.meant = 1 /\ released' /\ i = Len(queue')
             \/ MeantForPage(job)'
  <2>1. i + 1 \in DOMAIN queue /\ job = queue[i + 1] /\ i + 1 # 1  BY <1>1, <1>2
  <2>2. \/ job.handle = 1 /\ job.meant = 1 /\ released /\ i + 1 = Len(queue)
        \/ MeantForPage(job)
    BY <1>2, <2>1 DEF FreeInv
  <2>3. CASE job.handle = 1 /\ job.meant = 1 /\ released /\ i + 1 = Len(queue)
    BY <1>1, <2>3
  <2>4. CASE MeantForPage(job)  BY <1>2, <2>1, <2>4
  <2> QED  BY <2>2, <2>3, <2>4
<1>3. ASSUME NEW i \in DOMAIN queue', NEW k \in DOMAIN queue',
             queue'[i].op = "free", queue'[k].op = "free", queue'[i].meant = queue'[k].meant
      PROVE  i = k
  <2>1. i + 1 = k + 1  BY <1>1, <1>3 DEF FreeInv
  <2> QED  BY <1>1, <2>1
<1>4. released => /\ Len(queue') \in DOMAIN queue'
                  /\ queue'[Len(queue')].op = "free" /\ queue'[Len(queue')].meant = 1
  <2> SUFFICES ASSUME released
               PROVE  /\ Len(queue') \in DOMAIN queue'
                      /\ queue'[Len(queue')].op = "free" /\ queue'[Len(queue')].meant = 1
    OBVIOUS
  <2>1. queue[Len(queue)].op = "free" /\ queue[Len(queue)].meant = 1  BY DEF FreeInv
  <2>2. Len(queue) # 1  BY <2>1
  <2>3. Len(queue') \in DOMAIN queue'  BY <1>1, <2>2, HeadIsFirst
  <2>4. Len(queue') + 1 = Len(queue)  BY <1>1
  <2>5. queue'[Len(queue')] = queue[Len(queue)]  BY <1>1, <2>3, <2>4
  <2> QED  BY <2>1, <2>3, <2>5
<1>5. \A i \in DOMAIN queue' : queue'[i].op = "free" =>
        \A job : job = queue'[i] =>
             \/ job.handle = 1 /\ job.meant = 1 /\ released' /\ i = Len(queue')
             \/ MeantForPage(job)'
  BY <1>2
<1> QED  BY <1>3, <1>4, <1>5 DEF FreeInv

\* The jobs that read annotations stay queued, one place nearer.
LEMMA AnnotsShift ==
    ASSUME PagesTypeOK, LifeInv, AnnotsInv, queue # <<>>, Done, UNCHANGED closed,
           DOMAIN objs \subseteq DOMAIN objs',
           \A o \in DOMAIN objs : objs'[o].names = objs[o].names /\ objs'[o].handle = objs[o].handle,
           \A h, p : p.kind = "derived" /\ (\E o \in DOMAIN objs : objs[o].names = p)
                       /\ Pinning(h, p) => Pinning(h, p)'
    PROVE  AnnotsInv'
<1>1. /\ Len(queue) \in Nat /\ DOMAIN queue = 1 .. Len(queue)
      /\ DOMAIN queue' = 1 .. Len(queue') /\ Len(queue') \in Nat /\ Len(queue') = Len(queue) - 1
      /\ \A i \in DOMAIN queue' : i + 1 \in DOMAIN queue /\ queue'[i] = queue[i + 1]
  BY QueueDomain, Ending DEF Shifted
<1>2. ASSUME NEW i \in DOMAIN queue', queue'[i].op = "page_annots",
             NEW q, q = queue'[i].page, NEW g, g = objs[q].handle, NEW p, p = objs[q].names
      PROVE  /\ objs'[q].handle = g /\ objs'[q].names = p
             /\ p.kind = "derived" => Pinning(g, p)'
             /\ p.kind = "page" =>
                  \/ ReadsFlushed
                  \/ /\ p.id = closed'
                     /\ \A k \in DOMAIN queue' : k <= i => queue'[k].op # "close"
  <2>1. i + 1 \in DOMAIN queue /\ queue[i + 1].op = "page_annots" /\ q = queue[i + 1].page
    BY <1>1, <1>2
  <2>2. q \in DOMAIN objs  BY <2>1 DEF LifeInv
  <2>3. p.kind = "derived" => Pinning(g, p)  BY <1>2, <2>1 DEF AnnotsInv
  <2>4. p.kind = "page" =>
          \/ ReadsFlushed
          \/ p.id = closed /\ \A k \in DOMAIN queue : k <= i + 1 => queue[k].op # "close"
    BY <1>2, <2>1 DEF AnnotsInv
  <2>5. \A k \in DOMAIN queue' : k <= i => k + 1 \in DOMAIN queue /\ k + 1 <= i + 1
    BY <1>1
  <2> QED  BY <1>1, <1>2, <2>2, <2>3, <2>4, <2>5
<1> QED  BY <1>2 DEF AnnotsInv

\* No answer is left.
LEMMA RepliesEnd ==
    ASSUME ReplyInv, PagesTypeOK, queue # <<>>, Done,
           closed' = epoch'
    PROVE  ReplyInv'
<1>1. ~reply'.made  BY Ending
<1> QED  BY <1>1 DEF ReplyInv, Running

\* A page object keeps what it is; what it is to be held by lives.
ObjsGrow ==
    /\ objs' \in Seq(PageObjects)
    /\ DOMAIN objs \subseteq DOMAIN objs'
    /\ \A o \in DOMAIN objs :
         /\ objs'[o].handle = objs[o].handle /\ objs'[o].parent = objs[o].parent
         /\ objs'[o].names = objs[o].names /\ objs'[o].state = objs[o].state
         /\ objs'[o].registered = objs[o].registered
         /\ objs'[o].held => Live(o)

\* Page objects that do not change grow.
LEMMA SameObjects ==
    ASSUME PagesTypeOK, LifeInv, UNCHANGED objs
    PROVE  ObjsGrow
BY DEF PagesTypeOK, LifeInv, ObjsGrow

(***************************************************************************)
(* A free takes the page whose finalizer made it, which nothing names; that *)
(* of the document comes after all the others.                             *)
(***************************************************************************)
LEMMA FreeKeepsInv ==
    ASSUME PagesInv, core[1].live, Free
    PROVE  PagesInv'
<1>1. CoreInv /\ PagesTypeOK /\ Serving  BY DEF PagesInv
<1>2. /\ queue # <<>> /\ queue[1].op = "free" /\ 1 \in DOMAIN queue /\ ~reply.made
      /\ core' = Freed(queue[1].handle)
      /\ Done
      /\ UNCHANGED <<closed, objs, refs, array, byHandle, weak, current, epoch, released,
                     document>>
  BY <1>1, HeadIsFirst DEF Free, Starts, maps
<1>3. /\ Shifted /\ queue' \in Seq(PageJobs)
      /\ reply' \in Replies /\ ~reply'.made
  BY <1>1, <1>2, Ending
<1>4. PagesTypeOK'  BY <1>1, <1>2, <1>3 DEF PagesTypeOK
<1>5. /\ CoreInv' /\ DOMAIN core' = DOMAIN core /\ Len(core') = Len(core)
      /\ \A k \in DOMAIN core :
           core'[k].page = core[k].page /\ core'[k].handle = core[k].handle
  BY <1>1, <1>2, FreedEntries
<1>6. \/ queue[1].handle = 1 /\ queue[1].meant = 1 /\ released /\ 1 = Len(queue)
      \/ MeantForPage(queue[1])
  BY <1>1, <1>2 DEF Serving, FreeInv
<1>7. CASE queue[1].handle = 1 /\ queue[1].meant = 1 /\ released /\ 1 = Len(queue)
  <2>1. ~core'[1].live  BY <1>1, <1>2, <1>7, FreedDocument
  <2>2. queue' = <<>>
    <3>0. Len(queue') = Len(queue) - 1 /\ Len(queue) = 1  BY <1>3, <1>7 DEF Shifted
    <3>1. Len(queue') = 0  BY <3>0
    <3> QED  BY <1>3, <3>1
  <2> QED  BY <1>2, <1>3, <1>4, <1>5, <1>7, <2>1, <2>2 DEF PagesInv, Gone
<1>8. CASE MeantForPage(queue[1])
  <2>1. PICK i : i = queue[1].meant  OBVIOUS
  <2>2. /\ i \in DOMAIN core /\ i # 1 /\ core[i].live /\ core[i].handle = queue[1].handle
        /\ core[i].page.kind = "derived"
    BY <1>8, <2>1 DEF MeantForPage
  <2>3. PICK d \in DOMAIN objs :
          objs[d].names = core[i].page /\ objs[d].registered /\ objs[d].state = "finalized"
    BY <1>8, <2>1 DEF MeantForPage
  <2>4. (\A k \in DOMAIN core : k # i => core'[k] = core[k]) /\ ~core'[i].live
    BY <1>1, <1>2, <2>2, FreedPage
  <2>5. core'[1].live /\ 1 \in DOMAIN core  BY <1>1, <2>2, <2>4, CoreDomain
  <2>6. \A h, p : Holds(h, p) /\ p # core[i].page => HoldsIn(core', h, p)
    BY <1>5, <2>4 DEF Holds, HoldsIn
  <2>7. \A p \in DOMAIN objs : Live(p) \/ Watched(p) => objs[p].names # core[i].page
    <3> SUFFICES ASSUME NEW p \in DOMAIN objs, Live(p) \/ Watched(p),
                        objs[p].names = core[i].page
                 PROVE  FALSE
      OBVIOUS
    <3>1. objs[d].parent # 0  BY <1>1, <2>3 DEF Serving, ObjInv
    <3>2. CASE objs[p].parent # 0
      <4>1. p = d  BY <1>1, <2>3, <3>1, <3>2 DEF Serving, ObjInv
      <4> QED  BY <2>3, <4>1 DEF Live, Watched
    <3>3. CASE objs[p].parent = 0
      <4>1. Kept(objs[p].names)  BY <1>1, <2>2, <3>3 DEF Serving, ObjInv
      <4> QED  BY <2>3, <4>1 DEF Kept
    <3> QED  BY <3>2, <3>3
  <2>8. ObjInv'
    BY <1>1, <1>2, <1>5, <2>6, <2>7 DEF Serving, ObjInv, Live, Watched, Kept, Holds
  <2>9. LifeInv'
    BY <1>1, <1>2, <1>3 DEF Serving, LifeInv, Shifted, Live, InPlay
  <2>10. MapInv'
    <3>1. \A k \in DOMAIN queue : queue[k].op = "page_annots" =>
            k - 1 \in DOMAIN queue' /\ queue'[k - 1] = queue[k]
      BY <1>2, <1>3 DEF Shifted
    <3>2. (\E k \in DOMAIN queue : queue[k].op = "page_annots") =>
            \E k \in DOMAIN queue' : queue'[k].op = "page_annots"
      BY <3>1
    <3> QED  BY <1>1, <1>2, <3>2 DEF Serving, MapInv
  <2>11. \A h, p : Pinning(h, p) => Pinning(h, p)'  BY <1>2 DEF Pinning, Kept
  <2>12. RefInv'
    <3>1. \A r \in DOMAIN refs : refs[r].names # core[i].page
      BY <1>1, <2>2, <2>3 DEF Serving, RefInv, Pinning, Kept
    <3> QED  BY <1>1, <1>2, <2>6, <2>11, <3>1 DEF Serving, RefInv, Holds
  <2>13. AnnotsInv'
    BY <1>1, <1>2, <2>11, AnnotsShift DEF Serving
  <2>14. FreeInv'
    <3>1. \A k \in DOMAIN queue : k # 1 /\ queue[k].op = "free" =>
            \A job : job = queue[k] /\ MeantForPage(job) => MeantForPage(job)'
      <4> SUFFICES ASSUME NEW k \in DOMAIN queue, k # 1, queue[k].op = "free",
                          NEW job, job = queue[k], MeantForPage(job)
                   PROVE  MeantForPage(job)'
        OBVIOUS
      <4>1. job.meant # i  BY <1>1, <1>2, <2>1 DEF Serving, FreeInv
      <4> QED  BY <1>2, <1>5, <2>4, <4>1 DEF MeantForPage
    <3> QED  BY <1>1, <1>2, <2>1, <2>2, <3>1, FreesShift DEF Serving
  <2>15. ReplyInv'
    <3>1. closed = epoch  BY <1>1, <1>2 DEF Serving, ReplyInv, Running
    <3> QED  BY <1>1, <1>2, <3>1, RepliesEnd DEF Serving
  <2>16. ~released /\ ~ReadsFlushed => CurrentInv'  BY <1>1, <1>2, CurrentStays DEF Serving
  <2>17. ~released => LeakInv'
    <3> SUFFICES ASSUME ~released, NEW k \in DOMAIN core, core'[k].live,
                        core'[k].page.kind = "derived"
                 PROVE  Remembered(k)'
      BY <1>2, <1>5 DEF LeakInv
    <3>1. k # i /\ core'[k] = core[k]  BY <2>4
    <3>2. Remembered(k)  BY <1>1, <3>1 DEF Serving, LeakInv
    <3>3. ASSUME NEW m \in DOMAIN queue, queue[m].op = "free", queue[m].meant = k
          PROVE  Remembered(k)'
      <4>1. m # 1  BY <2>1, <3>1, <3>3
      <4>2. m - 1 \in DOMAIN queue' /\ queue'[m - 1] = queue[m]  BY <1>3, <4>1 DEF Shifted
      <4> QED  BY <3>3, <4>2 DEF Remembered
    <3>4. ~Running("crop")  BY <1>2 DEF Running
    <3>5. ASSUME NEW p \in DOMAIN objs, objs[p].names = core[k].page, objs[p].parent # 0,
                 Live(p) \/ Watched(p)
          PROVE  Remembered(k)'
      BY <1>2, <3>1, <3>5 DEF Remembered, Live, Watched
    <3> QED  BY <3>2, <3>3, <3>4, <3>5 DEF Remembered
  <2> QED
    BY <1>2, <1>4, <1>5, <2>5, <2>8, <2>9, <2>10, <2>12, <2>13, <2>14, <2>15, <2>16, <2>17
    DEF PagesInv, Serving
<1> QED  BY <1>6, <1>7, <1>8

(***************************************************************************)
(* The requests.  One only adds entries to the table, and leaves the        *)
(* answer of the job.                                                      *)
(***************************************************************************)
LEMMA RequestKeepsInv ==
    ASSUME PagesInv, core[1].live, ~reply.made, CoreInv', CoreGrows,
           UNCHANGED <<queue, objs, refs, maps, released, document>>,
           closed' \in Nat, reply' \in Replies, AnnotsInv', ReplyInv',
           \A i \in DOMAIN core' : i \in DOMAIN core \/ core'[i].page.kind # "derived"
                                    \/ Remembered(i)'
    PROVE  PagesInv'
<1>1. CoreInv /\ PagesTypeOK /\ Serving  BY DEF PagesInv
<1>2. UNCHANGED <<queue, objs, refs, array, byHandle, weak, current, epoch, released, document>>
  BY DEF maps
<1>3. PagesTypeOK'  BY <1>1, <1>2 DEF PagesTypeOK
<1>4. core'[1].live /\ core'[1] = core[1]  BY <1>1, CoreDomain DEF CoreGrows
<1>5. ObjInv' /\ RefInv' /\ LifeInv' /\ MapInv' /\ FreeInv'
  BY <1>1, <1>2, ObjsStay, RefsStay, LifeStays, MapStays, FreeStays DEF Serving
<1>6. ~released /\ ~ReadsFlushed => CurrentInv'  BY <1>1, <1>2, CurrentStays DEF Serving
<1>7. ~released => LeakInv'
  <2> SUFFICES ASSUME ~released, NEW i \in DOMAIN core', core'[i].live,
                      core'[i].page.kind = "derived"
               PROVE  Remembered(i)'
    BY <1>2 DEF LeakInv
  <2>1. CASE i \in DOMAIN core
    <3>1. core'[i] = core[i]  BY <2>1 DEF CoreGrows
    <3>2. Remembered(i)  BY <1>1, <2>1, <3>1 DEF Serving, LeakInv
    <3>3. ~Running("crop")  BY DEF Running
    <3> QED  BY <1>2, <3>1, <3>2, <3>3 DEF Remembered, Live, Watched
  <2> QED  BY <2>1
<1> QED  BY <1>3, <1>4, <1>5, <1>6, <1>7 DEF PagesInv, Serving

\* The head of the queue starts: which job it is, and what it gets.
LEMMA Starting ==
    ASSUME PagesInv, core[1].live, NEW op, Starts(op), NEW handles, NEW isCurrent,
           handles \in Seq(Nat), isCurrent \in BOOLEAN, Requested(handles, isCurrent)
    PROVE  /\ 1 \in DOMAIN queue /\ Head(queue) = queue[1] /\ queue[1].op = op
           /\ ~reply.made /\ closed = epoch
           /\ reply' \in Replies /\ reply'.made
           /\ reply'.handles = handles /\ reply'.current = isCurrent
           /\ UNCHANGED <<queue, objs, refs, maps, released, document>>
<1>1. PagesTypeOK /\ ReplyInv  BY DEF PagesInv, Serving
<1>2. 1 \in DOMAIN queue /\ Head(queue) = queue[1] /\ queue[1].op = op /\ ~reply.made
  BY <1>1, HeadIsFirst DEF Starts
<1>3. closed = epoch  BY <1>1, <1>2 DEF ReplyInv, Running
<1>4. reply' = [made |-> TRUE, handles |-> handles, current |-> isCurrent]
  BY DEF Requested
<1>5. reply' \in Replies  BY <1>4 DEF Replies
<1> QED  BY <1>2, <1>3, <1>4, <1>5 DEF Requested

\* pages: a handle to each page of the list.
LEMMA PagesStartKeepsInv ==
    ASSUME PagesInv, core[1].live, PagesStart
    PROVE  PagesInv'
<1>1. CoreInv /\ PagesTypeOK /\ Serving  BY DEF PagesInv
<1>2. PICK pages : pages = [n \in Numbers |-> ListPage(closed, n)]  OBVIOUS
<1>3. PICK handles : handles = [n \in Numbers |-> FreeHandle(n)]  OBVIOUS
<1>4. Starts("pages") /\ core' = Insert(pages) /\ UNCHANGED closed /\ Requested(handles, TRUE)
  BY <1>2, <1>3 DEF PagesStart
<1>5. Numbers = 1 .. LastPage /\ LastPage \in Nat
  BY PagesAssumption DEF Numbers
<1>6. closed \in Nat  BY <1>1 DEF PagesTypeOK
<1>7. Insertable(pages)
  <2>1. \A n \in Numbers : /\ ListPage(closed, n) \in PageNames
                           /\ ListPage(closed, n) # TheDocument
                           /\ ListPage(closed, n).kind = "page"
                           /\ ListPage(closed, n).number = n
    BY <1>5, <1>6 DEF ListPage, PageNames, TheDocument
  <2>2. pages \in [1 .. LastPage -> PageNames]  BY <1>2, <1>5, <2>1
  <2>3. pages \in Seq(PageNames) /\ DOMAIN pages = Numbers  BY <1>5, <2>2, SequenceOf
  <2> QED  BY <1>2, <2>1, <2>3 DEF Insertable
<1>8. handles \in Seq(Nat)
  <2>1. \A n \in Numbers : FreeHandle(n) \in Nat
    <3> SUFFICES ASSUME NEW n \in Numbers PROVE FreeHandle(n) \in Nat
      OBVIOUS
    <3>1. n \in Nat \ {0}  BY <1>5
    <3>2. FreeHandle(n) \in 1 .. Len(core) + n  BY <1>1, <3>1, FreeHandleIsFree
    <3> QED  BY <1>1, <3>1, <3>2, CoreDomain
  <2>2. handles \in [1 .. LastPage -> Nat]  BY <1>3, <1>5, <2>1
  <2> QED  BY <1>5, <2>2, SequenceOf
<1>9. /\ 1 \in DOMAIN queue /\ queue[1].op = "pages" /\ ~reply.made /\ closed = epoch
      /\ reply' \in Replies /\ reply'.made /\ reply'.handles = handles
      /\ UNCHANGED <<queue, objs, refs, maps, released, document>>
  BY <1>4, <1>8, Starting
<1>10. /\ CoreInv' /\ CoreGrows
       /\ \A k \in DOMAIN pages :
            /\ core'[Len(core) + k] =
                 [handle |-> FreeHandle(k), page |-> pages[k], live |-> TRUE]
            /\ HoldsIn(core', FreeHandle(k), pages[k])
       /\ \A i \in DOMAIN core' : i \in DOMAIN core \/ \E k \in DOMAIN pages : i = Len(core) + k
  BY <1>1, <1>4, <1>7, InsertKeepsCore
<1>11. \A i \in DOMAIN core' : i \in DOMAIN core \/ core'[i].page.kind # "derived"
  <2>1. \A k \in DOMAIN pages : core'[Len(core) + k].page.kind = "page"
    <3> SUFFICES ASSUME NEW k \in DOMAIN pages
                 PROVE  core'[Len(core) + k].page.kind = "page"
      OBVIOUS
    <3>1. core'[Len(core) + k].page = pages[k]
      <4>1. core'[Len(core) + k] = [handle |-> FreeHandle(k), page |-> pages[k], live |-> TRUE]
        BY <1>10
      <4> QED  BY <4>1
    <3>2. pages[k].kind = "page"  BY <1>2 DEF ListPage
    <3> QED  BY <3>1, <3>2
  <2> QED  BY <1>10, <2>1
<1>12. ReplyInv'
  <2>1. \A n \in Numbers : HoldsIn(core', handles[n], ListPage(closed, n))
    BY <1>2, <1>3, <1>10
  <2> QED  BY <1>4, <1>9, <2>1 DEF ReplyInv, Running, Holds, maps
<1>13. AnnotsInv'
  BY <1>1, <1>4, <1>9, AnnotsStay DEF Serving, maps
<1> QED
  BY <1>4, <1>6, <1>9, <1>10, <1>11, <1>12, <1>13, RequestKeepsInv

\* page(ref): the handle of the reference is that of its page.
LEMMA PageStartKeepsInv ==
    ASSUME PagesInv, core[1].live, PageStart
    PROVE  PagesInv'
<1>1. CoreInv /\ PagesTypeOK /\ Serving  BY DEF PagesInv
<1>2. PICK r : r = Head(queue).ref  OBVIOUS
<1>3. /\ Starts("page") /\ Known(r) = {} /\ UNCHANGED python
      /\ Requested(<<refs[r].handle>>, Fresh(r))
  BY <1>2 DEF PageStart
<1>4. 1 \in DOMAIN queue /\ Head(queue) = queue[1] /\ queue[1].op = "page"
  BY <1>1, <1>3, HeadIsFirst DEF Starts
<1>5. r \in DOMAIN refs /\ r = queue[1].ref  BY <1>1, <1>2, <1>4 DEF Serving, LifeInv
<1>6. refs[r].handle \in Nat
  <2>1. refs[r] \in PageRefs  BY <1>1, <1>5, QueueDomain
  <2> QED  BY <2>1 DEF PageRefs
<1>7. <<refs[r].handle>> \in Seq(Nat) /\ Fresh(r) \in BOOLEAN
  BY <1>6 DEF Fresh
<1>8. /\ ~reply.made /\ closed = epoch
      /\ reply' \in Replies /\ reply'.made /\ reply'.current = Fresh(r)
      /\ UNCHANGED <<queue, objs, refs, maps, released, document>>
  BY <1>3, <1>7, Starting
<1>9. UNCHANGED <<closed, core>>  BY <1>3 DEF python
<1>10. CoreInv' /\ CoreGrows  BY <1>1, <1>9, CoreStays
<1>11. KnownBy(refs[r].handle) = {} /\ (Fresh(r) => refs[r].number \notin DOMAIN current)
  BY <1>3 DEF Known
<1>12. ~released => refs[r].names.kind = "page"
  <2> SUFFICES ASSUME ~released, refs[r].names.kind # "page" PROVE FALSE
    OBVIOUS
  <2>1. refs[r].names.kind = "derived"  BY <1>1, <1>5 DEF Serving, RefInv, IsPage
  <2>2. refs[r].handle \in DOMAIN byHandle
    BY <1>1, <1>5, <2>1 DEF Serving, RefInv, Pinning
  <2> QED  BY <1>11, <2>2 DEF KnownBy
<1>13. ReplyInv'
  BY <1>4, <1>5, <1>8, <1>9, <1>11, <1>12 DEF ReplyInv, Running, Fresh, maps
<1>14. AnnotsInv'  BY <1>1, <1>8, <1>9, AnnotsStay DEF Serving, maps
<1>15. closed \in Nat /\ DOMAIN core' = DOMAIN core  BY <1>1, <1>9 DEF PagesTypeOK
<1> QED
  BY <1>8, <1>9, <1>10, <1>13, <1>14, <1>15, RequestKeepsInv

(***************************************************************************)
(* The results that name a page: a label is a handle of the page.           *)
(***************************************************************************)
LEMMA LabelKeepsInv ==
    ASSUME PagesInv, core[1].live, NEW op, op \in {"annots", "page_annots"}, Starts(op),
           NEW p, p \in PageNames, IsPage(p), p.kind = "page" \/ \E h : Holds(h, p),
           op = "annots" => \E n \in Numbers : p = ListPage(closed, n),
           op = "page_annots" => p = objs[queue[1].page].names,
           core' = Labelled(p), UNCHANGED closed, Requested(<<LabelOf(p)>>, TRUE)
    PROVE  PagesInv'
<1>1. CoreInv /\ PagesTypeOK /\ Serving  BY DEF PagesInv
<1>2. /\ CoreInv' /\ CoreGrows /\ HoldsIn(core', LabelOf(p), p)
      /\ \A i \in DOMAIN core' : i \in DOMAIN core \/ core'[i].page.kind # "derived"
  BY <1>1, LabelledKeepsCore DEF IsPage
<1>3. PICK h : h = LabelOf(p)  OBVIOUS
<1>4. h \in Nat
  <2>1. PICK i \in DOMAIN core' : core'[i].handle = h  BY <1>2, <1>3 DEF HoldsIn
  <2>2. core'[i] \in Entries
    <3>1. core' \in Seq(Entries)  BY <1>2 DEF CoreInv
    <3> QED  BY <2>1, <3>1
  <2> QED  BY <2>1, <2>2 DEF Entries
<1>5. <<h>> \in Seq(Nat) /\ <<h>>[1] = h  BY <1>4
<1>6. /\ 1 \in DOMAIN queue /\ queue[1].op = op /\ ~reply.made /\ closed = epoch
      /\ reply' \in Replies /\ reply'.made /\ reply'.handles = <<h>>
      /\ UNCHANGED <<queue, objs, refs, maps, released, document>>
  BY <1>3, <1>5, Starting
<1>7. reply'.handles[1] = h  BY <1>5, <1>6
<1>8. ReplyInv'
  BY <1>2, <1>3, <1>6, <1>7 DEF ReplyInv, Running, Holds, maps
<1>9. AnnotsInv'  BY <1>1, <1>6, AnnotsStay DEF Serving, maps
<1>10. closed \in Nat  BY <1>1 DEF PagesTypeOK
<1> QED  BY <1>2, <1>6, <1>8, <1>9, <1>10, RequestKeepsInv

\* annots: the label of the page.
LEMMA AnnotsStartKeepsInv ==
    ASSUME PagesInv, core[1].live, AnnotsStart \/ PageAnnotsStart
    PROVE  PagesInv'
<1>1. CoreInv /\ PagesTypeOK /\ Serving  BY DEF PagesInv
<1>2. CASE AnnotsStart
  <2>1. PICK n \in Numbers :
          core' = Labelled(ListPage(closed, n)) /\ Requested(<<LabelOf(ListPage(closed, n))>>, TRUE)
    BY <1>2 DEF AnnotsStart
  <2>2. PICK p : p = ListPage(closed, n)  OBVIOUS
  <2>3. n \in Nat /\ closed \in Nat  BY <1>1 DEF PagesTypeOK, Numbers
  <2>4. p \in PageNames /\ IsPage(p) /\ p.kind = "page"
    BY <2>2, <2>3 DEF ListPage, PageNames, IsPage
  <2>5. Starts("annots") /\ UNCHANGED closed  BY <1>2 DEF AnnotsStart
  <2> QED  BY <2>1, <2>2, <2>4, <2>5, LabelKeepsInv
<1>3. CASE PageAnnotsStart
  <2>1. PICK q : q = Head(queue).page  OBVIOUS
  <2>2. PICK p : p = PageAt(objs[q].handle)  OBVIOUS
  <2>3. /\ Starts("page_annots") /\ core' = Labelled(p) /\ Requested(<<LabelOf(p)>>, TRUE)
        /\ UNCHANGED closed
    BY <1>3, <2>1, <2>2 DEF PageAnnotsStart
  <2>4. 1 \in DOMAIN queue /\ Head(queue) = queue[1] /\ queue[1].op = "page_annots"
    BY <1>1, <2>3, HeadIsFirst DEF Starts
  <2>5. q \in DOMAIN objs /\ Live(q) /\ q = queue[1].page
    BY <1>1, <2>1, <2>4 DEF Serving, LifeInv
  <2>6. Holds(objs[q].handle, objs[q].names) /\ IsPage(objs[q].names)
    BY <1>1, <2>5 DEF Serving, ObjInv
  <2>7. p = objs[q].names /\ p \in PageNames  BY <1>1, <2>2, <2>6, HoldsGives
  <2> QED  BY <2>3, <2>5, <2>6, <2>7, LabelKeepsInv
<1> QED  BY <1>2, <1>3

\* crop: a new entry, of a page derived now.
LEMMA CropStartKeepsInv ==
    ASSUME PagesInv, core[1].live, CropStart
    PROVE  PagesInv'
<1>1. CoreInv /\ PagesTypeOK /\ Serving  BY DEF PagesInv
<1>2. PICK q : q = Head(queue).page  OBVIOUS
<1>3. PICK p : p = DerivedPage(Len(core), PageAt(objs[q].handle).number)  OBVIOUS
<1>4. /\ Starts("crop") /\ core' = Insert(<<p>>) /\ UNCHANGED closed
      /\ Requested(<<FreeHandle(1)>>, TRUE)
  BY <1>2, <1>3 DEF CropStart
<1>5. 1 \in DOMAIN queue /\ Head(queue) = queue[1] /\ queue[1].op = "crop"
  BY <1>1, <1>4, HeadIsFirst DEF Starts
<1>6. q \in DOMAIN objs /\ Live(q)  BY <1>1, <1>2, <1>5 DEF Serving, LifeInv
<1>7. Holds(objs[q].handle, objs[q].names) /\ IsPage(objs[q].names)
  BY <1>1, <1>6 DEF Serving, ObjInv
<1>8. PageAt(objs[q].handle).number \in Numbers
  <2>1. PageAt(objs[q].handle) = objs[q].names  BY <1>1, <1>7, HoldsGives
  <2> QED  BY <1>7, <2>1 DEF IsPage
<1>9. Len(core) \in Nat \ {0} /\ DOMAIN core = 1 .. Len(core)  BY <1>1, CoreDomain
<1>10. /\ p \in PageNames /\ p.kind = "derived" /\ p.id = Len(core) /\ p.number \in Numbers
       /\ p # TheDocument
  BY <1>3, <1>8, <1>9 DEF DerivedPage, PageNames, TheDocument, Numbers
<1>11. DOMAIN <<p>> = {1} /\ <<p>>[1] = p /\ <<p>> \in Seq(PageNames)  BY <1>10
<1>12. Insertable(<<p>>)  BY <1>9, <1>10, <1>11 DEF Insertable
<1>13. /\ CoreInv' /\ CoreGrows
       /\ \A i \in DOMAIN core' : i \in DOMAIN core \/ \E k \in DOMAIN <<p>> : i = Len(core) + k
       /\ core'[Len(core) + 1] = [handle |-> FreeHandle(1), page |-> <<p>>[1], live |-> TRUE]
       /\ Len(core') = Len(core) + Len(<<p>>)
  <2>1. 1 \in DOMAIN <<p>>  BY <1>11
  <2>2. \A k \in DOMAIN <<p>> : core'[Len(core) + k] =
            [handle |-> FreeHandle(k), page |-> <<p>>[k], live |-> TRUE]
    BY <1>1, <1>4, <1>12, InsertKeepsCore
  <2>3. /\ CoreInv' /\ CoreGrows /\ Len(core') = Len(core) + Len(<<p>>)
        /\ \A i \in DOMAIN core' :
             i \in DOMAIN core \/ \E k \in DOMAIN <<p>> : i = Len(core) + k
    BY <1>1, <1>4, <1>12, InsertKeepsCore
  <2> QED  BY <2>1, <2>2, <2>3
<1>14. PICK h : h = FreeHandle(1)  OBVIOUS
<1>15. /\ Len(core) + 1 \in DOMAIN core'
       /\ core'[Len(core) + 1].handle = h /\ core'[Len(core) + 1].live
       /\ core'[Len(core) + 1].page = p
  <2>1. core'[Len(core) + 1] = [handle |-> h, page |-> p, live |-> TRUE]
    BY <1>11, <1>13, <1>14
  <2>2. Len(<<p>>) = 1  OBVIOUS
  <2>3. DOMAIN core' = 1 .. Len(core')  BY <1>13, CoreDomain DEF CoreInv
  <2> QED  BY <1>9, <1>13, <2>1, <2>2, <2>3
<1>16. h \in Nat
  <2>0. 1 \in Nat \ {0}  OBVIOUS
  <2>1. h \in 1 .. Len(core) + 1  BY <1>1, <1>14, <2>0, FreeHandleIsFree
  <2> QED  BY <1>9, <2>1
<1>17. <<h>> \in Seq(Nat) /\ <<h>>[1] = h  BY <1>16
<1>18. /\ ~reply.made /\ closed = epoch
       /\ reply' \in Replies /\ reply'.made /\ reply'.handles = <<h>>
       /\ UNCHANGED <<queue, objs, refs, maps, released, document>>
  BY <1>4, <1>14, <1>17, Starting
<1>19. reply'.handles[1] = h  BY <1>17, <1>18
<1>20. \A o \in DOMAIN objs : objs[o].names # p
  <2>1. \A o \in DOMAIN objs : objs[o].names.kind = "derived" => objs[o].names.id < Len(core)
    BY <1>1 DEF Serving, ObjInv
  <2> QED  BY <1>9, <1>10, <2>1
<1>21. \A r \in DOMAIN refs : refs[r].names # p
  <2> SUFFICES ASSUME NEW r \in DOMAIN refs, refs[r].names = p PROVE FALSE
    OBVIOUS
  <2>1. Holds(refs[r].handle, p)  BY <1>1 DEF Serving, RefInv
  <2>2. PICK i \in DOMAIN core : core[i].page = p  BY <2>1 DEF Holds, HoldsIn
  <2>3. p.id = i - 1  BY <1>1, <1>10, <2>2 DEF CoreInv
  <2> QED  BY <1>9, <1>10, <2>3
<1>22. NewDerived(h)'
  BY <1>10, <1>15, <1>18, <1>20, <1>21 DEF NewDerived
<1>23. ReplyInv'
  BY <1>4, <1>5, <1>18, <1>19, <1>22 DEF ReplyInv, Running, maps
<1>24. AnnotsInv'  BY <1>1, <1>4, <1>18, AnnotsStay DEF Serving, maps
<1>25. closed \in Nat  BY <1>1 DEF PagesTypeOK
<1>26. \A i \in DOMAIN core' : i \in DOMAIN core \/ Remembered(i)'
  <2>2. \A i \in DOMAIN core' : i \in DOMAIN core \/ i = Len(core) + 1  BY <1>11, <1>13
  <2>3. ASSUME NEW i, i = Len(core) + 1 PROVE Remembered(i)'
    BY <1>5, <1>15, <1>18, <1>19, <2>3 DEF Remembered, Running
  <2> QED  BY <2>2, <2>3
<1> QED
  BY <1>4, <1>13, <1>18, <1>23, <1>24, <1>25, <1>26, RequestKeepsInv

(***************************************************************************)
(* PDF.close(): the pages whose annotations are to be read come from the   *)
(* list only if their jobs were made after it.                             *)
(***************************************************************************)
LEMMA CloseStartKeepsInv ==
    ASSUME PagesInv, core[1].live, CloseStart
    PROVE  PagesInv'
<1>1. CoreInv /\ PagesTypeOK /\ Serving  BY DEF PagesInv
<1>2. Starts("close") /\ closed' = closed + 1 /\ UNCHANGED core /\ Requested(<<>>, TRUE)
  BY DEF CloseStart
<1>3. <<>> \in Seq(Nat) /\ TRUE \in BOOLEAN  OBVIOUS
<1>4. /\ 1 \in DOMAIN queue /\ queue[1].op = "close" /\ ~reply.made /\ closed = epoch
      /\ reply' \in Replies /\ reply'.made
      /\ UNCHANGED <<queue, objs, refs, maps, released, document>>
  BY <1>2, <1>3, Starting
<1>5. CoreInv' /\ CoreGrows /\ DOMAIN core' = DOMAIN core  BY <1>1, <1>2, CoreStays
<1>6. closed' \in Nat  BY <1>1, <1>2 DEF PagesTypeOK
<1>7. ReplyInv'  BY <1>2, <1>4 DEF ReplyInv, Running, maps
<1>8. AnnotsInv'
  <2>1. DOMAIN queue \subseteq Nat \ {0}  BY <1>1, QueueDomain
  <2>2. \A i \in DOMAIN queue : 1 <= i  BY <2>1
  <2>3. \A i \in DOMAIN queue :
          queue[i].op = "page_annots" /\ objs[queue[i].page].names.kind = "page" => ReadsFlushed
    BY <1>1, <1>4, <2>2 DEF Serving, AnnotsInv
  <2>4. \A h, p : Pinning(h, p) => Pinning(h, p)'  BY <1>4 DEF Pinning, Kept, maps
  <2> QED  BY <1>1, <1>4, <2>3, <2>4 DEF Serving, AnnotsInv
<1> QED  BY <1>4, <1>5, <1>6, <1>7, <1>8, RequestKeepsInv

(***************************************************************************)
(* The answers that give pages of the list, or pages known already: the    *)
(* objects made are not derived, and are the pages of their handles.       *)
(***************************************************************************)
NewObjs == DOMAIN objs' \ DOMAIN objs

NewListed(q) ==
    /\ objs'[q].parent = 0 /\ ~objs'[q].registered /\ objs'[q].state = "live"
    /\ Holds(objs'[q].handle, objs'[q].names)
    /\ IsPage(objs'[q].names)
    /\ objs'[q].names.kind = "page" => objs'[q].names.id <= epoch
    /\ objs'[q].names.kind = "derived" => released /\ Kept(objs'[q].names)

\* A handle names the object it named, or a new one.
Rebound ==
    /\ DOMAIN byHandle \subseteq DOMAIN byHandle'
    /\ \A g \in DOMAIN byHandle' :
         \/ g \in DOMAIN byHandle /\ byHandle'[g] = byHandle[g]
         \/ byHandle'[g] \in NewObjs /\ objs'[byHandle'[g]].handle = g

RefsKept ==
    /\ DOMAIN refs' = DOMAIN refs
    /\ \A r \in DOMAIN refs :
         /\ refs'[r].handle = refs[r].handle /\ refs'[r].number = refs[r].number
         /\ refs'[r].epoch = refs[r].epoch /\ refs'[r].names = refs[r].names
         /\ refs'[r].page \in {0} \cup DOMAIN objs'

\* A page that was kept under its handle is kept.
LEMMA ReboundPins ==
    ASSUME CoreInv, PagesTypeOK, ObjInv, LifeInv, MapInv, InPlay, ObjsGrow, Rebound,
           \A q \in NewObjs : NewListed(q), UNCHANGED released,
           NEW g, NEW p, Pinning(g, p)
    PROVE  Pinning(g, p)'
<1>1. Kept(p)'
  <2> SUFFICES ASSUME NEW q \in DOMAIN objs', objs'[q].names = p, objs'[q].registered
               PROVE  FALSE
    BY DEF Kept
  <2>1. CASE q \in DOMAIN objs  BY <2>1 DEF ObjsGrow, Pinning, Kept
  <2>2. CASE q \in NewObjs  BY <2>2 DEF NewListed
  <2> QED  BY <2>1, <2>2 DEF NewObjs
<1>2. ASSUME ~released
      PROVE  g \in DOMAIN byHandle' /\ objs'[byHandle'[g]].names = p
  <2>1. g \in DOMAIN byHandle /\ objs[byHandle[g]].names = p /\ byHandle[g] \in DOMAIN objs
    BY <1>2 DEF Pinning, PagesTypeOK
  <2>2. g \in DOMAIN byHandle'  BY <2>1 DEF Rebound
  <2>3. CASE byHandle'[g] = byHandle[g]  BY <2>1, <2>2, <2>3 DEF ObjsGrow
  <2>4. CASE byHandle'[g] \in NewObjs /\ objs'[byHandle'[g]].handle = g
    <3>1. objs[byHandle[g]].handle = g /\ Live(byHandle[g])
      BY <2>1 DEF MapInv, LifeInv
    <3>2. Holds(g, p)  BY <2>1, <3>1 DEF ObjInv
    <3>3. Holds(g, objs'[byHandle'[g]].names)  BY <2>4 DEF NewListed
    <3> QED  BY <2>2, <3>2, <3>3, HoldsIsUnique
  <2> QED  BY <2>2, <2>3, <2>4 DEF Rebound
<1> QED  BY <1>1, <1>2 DEF Pinning

\* The end of `pages` and of `page`, once the current list is as it should be.
LEMMA ListKeepsInv ==
    ASSUME PagesInv, core[1].live, queue # <<>>, Done, queue[1].op \in {"pages", "page"},
           UNCHANGED <<closed, core, epoch, released, document>>,
           PagesTypeOK', ObjsGrow, \A q \in NewObjs : NewListed(q), Rebound, RefsKept,
           \A h \in DOMAIN weak' : h \in DOMAIN weak /\ weak'[h] = weak[h],
           \A n \in DOMAIN array' : objs'[array'[n]].state = "live",
           \A n \in DOMAIN current' : objs'[current'[n]].state = "live",
           ~released /\ ~ReadsFlushed => CurrentInv'
    PROVE  PagesInv'
<1>1. CoreInv /\ PagesTypeOK /\ Serving  BY DEF PagesInv
<1>2. ObjInv /\ LifeInv /\ MapInv /\ RefInv /\ AnnotsInv /\ FreeInv /\ ReplyInv
  BY <1>1 DEF Serving
<1>3. /\ Shifted /\ queue' \in Seq(PageJobs) /\ 1 \in DOMAIN queue
      /\ reply' \in Replies /\ ~reply'.made
  BY <1>1, Ending
<1>4. InPlay /\ InPlay'  BY <1>2, <1>3 DEF LifeInv, InPlay
<1>5. CoreInv' /\ CoreGrows /\ core'[1].live  BY <1>1, CoreStays
<1>6. \A q \in DOMAIN objs' : q \in DOMAIN objs \/ q \in NewObjs  BY DEF NewObjs
<1>7. \A g, p : Pinning(g, p) => Pinning(g, p)'
  BY <1>1, <1>2, <1>4, ReboundPins
<1>8. \A p : Kept(p) => Kept(p)'
  BY <1>6 DEF Kept, ObjsGrow, NewListed
<1>9. \A p \in DOMAIN objs :
         /\ Live(p)' <=> Live(p)
         /\ Watched(p)' <=> Watched(p)
  BY DEF ObjsGrow, Live, Watched
<1>10. ObjInv'
  <2>1. ASSUME NEW q \in DOMAIN objs', NEW names, names = objs'[q].names
        PROVE  /\ Live(q)' \/ Watched(q)' => Holds(objs'[q].handle, names)
               /\ IsPage(names)
               /\ names.kind = "page" => names.id <= epoch
               /\ names.kind = "derived" => names.id < Len(core)
               /\ objs'[q].parent # 0 => names.kind = "derived"
               /\ objs'[q].registered => objs'[q].parent # 0
               /\ names.kind = "derived" /\ objs'[q].parent = 0 => released /\ Kept(names)'
    <3>1. CASE q \in DOMAIN objs
      <4>1. names = objs[q].names  BY <2>1, <3>1 DEF ObjsGrow
      <4> QED  BY <1>2, <1>8, <1>9, <3>1, <4>1 DEF ObjInv, ObjsGrow
    <3>2. CASE q \in NewObjs
      <4>1. NewListed(q)  BY <3>2
      <4>2. names.kind = "derived" => names.id < Len(core)
        <5> SUFFICES ASSUME names.kind = "derived" PROVE names.id < Len(core)
          OBVIOUS
        <5>1. PICK i \in DOMAIN core : core[i].page = names
          BY <2>1, <4>1 DEF NewListed, Holds, HoldsIn
        <5>2. names.id = i - 1  BY <1>1, <5>1 DEF CoreInv
        <5> QED  BY <1>1, <5>1, <5>2, CoreDomain
      <4> QED  BY <1>8, <2>1, <4>1, <4>2 DEF NewListed
    <3> QED  BY <1>6, <3>1, <3>2
  <2>2. \A q, p \in DOMAIN objs' :
          objs'[q].parent # 0 /\ objs'[p].parent # 0 /\ objs'[q].names = objs'[p].names => q = p
    <3>1. \A q \in DOMAIN objs' : objs'[q].parent # 0 => q \in DOMAIN objs
      BY <1>6 DEF NewListed
    <3> QED  BY <1>2, <3>1 DEF ObjInv, ObjsGrow
  <2> QED  BY <2>1, <2>2 DEF ObjInv, Holds
<1>11. LifeInv'
  <2>1. \A q \in DOMAIN objs' : objs'[q].held => Live(q)'
    BY <1>6 DEF ObjsGrow, NewListed, Live
  <2>2. \A i \in DOMAIN queue' : queue'[i].op \in {"crop", "page_annots"} =>
          queue'[i].page \in DOMAIN objs' /\ objs'[queue'[i].page].state = "live"
    <3> SUFFICES ASSUME NEW i \in DOMAIN queue', queue'[i].op \in {"crop", "page_annots"}
                 PROVE  queue'[i].page \in DOMAIN objs' /\ objs'[queue'[i].page].state = "live"
      OBVIOUS
    <3>1. i + 1 \in DOMAIN queue /\ queue'[i] = queue[i + 1]  BY <1>3 DEF Shifted
    <3>2. queue[i + 1].page \in DOMAIN objs /\ Live(queue[i + 1].page)
      BY <1>2, <3>1 DEF LifeInv
    <3> QED  BY <3>1, <3>2 DEF ObjsGrow, Live
  <2>3. \A i \in DOMAIN queue' : queue'[i].op = "page" => queue'[i].ref \in DOMAIN refs'
    BY <1>2, <1>3 DEF LifeInv, Shifted, RefsKept
  <2>4. \A h \in DOMAIN byHandle' : objs'[byHandle'[h]].state = "live"
    <3> SUFFICES ASSUME NEW h \in DOMAIN byHandle' PROVE objs'[byHandle'[h]].state = "live"
      OBVIOUS
    <3>1. CASE h \in DOMAIN byHandle /\ byHandle'[h] = byHandle[h]
      <4>1. byHandle[h] \in DOMAIN objs /\ Live(byHandle[h])
        BY <1>1, <1>2, <1>4, <3>1 DEF PagesTypeOK, LifeInv
      <4> QED  BY <3>1, <4>1 DEF ObjsGrow, Live
    <3>2. CASE byHandle'[h] \in NewObjs  BY <3>2 DEF NewListed
    <3> QED  BY <3>1, <3>2 DEF Rebound
  <2> QED  BY <1>4, <2>1, <2>2, <2>3, <2>4 DEF LifeInv, Live
<1>12. MapInv'
  <2>1. \A h \in DOMAIN byHandle' :
          objs'[byHandle'[h]].handle = h /\ ~objs'[byHandle'[h]].registered
    <3> SUFFICES ASSUME NEW h \in DOMAIN byHandle'
                 PROVE  objs'[byHandle'[h]].handle = h /\ ~objs'[byHandle'[h]].registered
      OBVIOUS
    <3>1. CASE h \in DOMAIN byHandle /\ byHandle'[h] = byHandle[h]
      <4>1. byHandle[h] \in DOMAIN objs  BY <1>1, <3>1 DEF PagesTypeOK
      <4>2. objs[byHandle[h]].handle = h /\ ~objs[byHandle[h]].registered
        BY <1>2, <3>1 DEF MapInv
      <4> QED  BY <3>1, <4>1, <4>2 DEF ObjsGrow
    <3>2. CASE byHandle'[h] \in NewObjs /\ objs'[byHandle'[h]].handle = h
      BY <3>2 DEF NewListed
    <3> QED  BY <3>1, <3>2 DEF Rebound
  <2>2. \A h \in DOMAIN weak' : objs'[weak'[h]].handle = h
    <3> SUFFICES ASSUME NEW h \in DOMAIN weak' PROVE objs'[weak'[h]].handle = h
      OBVIOUS
    <3>1. h \in DOMAIN weak /\ weak'[h] = weak[h]  OBVIOUS
    <3>2. weak[h] \in DOMAIN objs /\ objs[weak[h]].handle = h
      BY <1>1, <1>2, <3>1 DEF PagesTypeOK, MapInv
    <3> QED  BY <3>1, <3>2 DEF ObjsGrow
  <2>3. ASSUME ~released, NEW o \in DOMAIN objs', objs'[o].parent # 0, ~objs'[o].registered
        PROVE  /\ objs'[o].handle \in DOMAIN byHandle' /\ byHandle'[objs'[o].handle] = o
               /\ refs' # <<>> \/ \E i \in DOMAIN queue' : queue'[i].op = "page_annots"
    <3>1. /\ o \in DOMAIN objs /\ objs[o].parent # 0 /\ ~objs[o].registered
          /\ objs'[o].handle = objs[o].handle
      BY <1>6, <2>3 DEF NewListed, ObjsGrow
    <3>2. /\ objs[o].handle \in DOMAIN byHandle /\ byHandle[objs[o].handle] = o
          /\ refs # <<>> \/ \E i \in DOMAIN queue : queue[i].op = "page_annots"
      BY <1>2, <2>3, <3>1 DEF MapInv
    <3>3. refs # <<>> => refs' # <<>>
      <4>1. DOMAIN refs' = DOMAIN refs  BY DEF RefsKept
      <4>2. refs \in Seq(PageRefs) /\ refs' \in Seq(PageRefs)  BY <1>1 DEF PagesTypeOK
      <4>3. refs # <<>> => 1 \in DOMAIN refs  BY <4>2
      <4> QED  BY <4>1, <4>3
    <3>4. (\E i \in DOMAIN queue : queue[i].op = "page_annots") =>
             \E i \in DOMAIN queue' : queue'[i].op = "page_annots"
      <4> SUFFICES ASSUME NEW i \in DOMAIN queue, queue[i].op = "page_annots"
                   PROVE  \E k \in DOMAIN queue' : queue'[k].op = "page_annots"
        OBVIOUS
      <4>1. i # 1  OBVIOUS
      <4>2. i - 1 \in DOMAIN queue' /\ queue'[i - 1] = queue[i]  BY <1>3, <4>1 DEF Shifted
      <4> QED  BY <4>2
    <3>5. PICK h : h = objs[o].handle  OBVIOUS
    <3>6. CASE byHandle'[h] \in NewObjs /\ objs'[byHandle'[h]].handle = h
      <4>1. Live(o)  BY <1>2, <1>4, <3>2 DEF LifeInv
      <4>2. Holds(h, objs[o].names) /\ objs[o].names.kind = "derived"
        BY <1>2, <3>1, <3>5, <4>1 DEF ObjInv
      <4>3. /\ Holds(h, objs'[byHandle'[h]].names)
            /\ objs'[byHandle'[h]].names.kind # "derived"
        BY <2>3, <3>6 DEF NewListed
      <4> QED  BY <1>1, <4>2, <4>3, HoldsIsUnique
    <3> QED  BY <3>1, <3>2, <3>3, <3>4, <3>5, <3>6 DEF Rebound
  <2> QED  BY <2>1, <2>2, <2>3 DEF MapInv
<1>13. RefInv'
  <2>1. ASSUME NEW r \in DOMAIN refs', NEW h, h = refs'[r].handle, NEW names, names = refs'[r].names
        PROVE  /\ Holds(h, names)
               /\ IsPage(names)
               /\ refs'[r].number = names.number
               /\ refs'[r].epoch <= epoch
               /\ names.kind = "page" =>
                    /\ names.id <= epoch
                    /\ ReadsFlushed \/ names.id = refs'[r].epoch
               /\ refs'[r].page \in {0} \cup DOMAIN objs'
               /\ names.kind = "derived" => Pinning(h, names)'
    <3>1. r \in DOMAIN refs /\ h = refs[r].handle /\ names = refs[r].names  BY <2>1 DEF RefsKept
    <3>2. names.kind = "derived" => Pinning(h, names)  BY <1>2, <3>1 DEF RefInv
    <3> QED  BY <1>2, <1>7, <3>1, <3>2 DEF RefInv, RefsKept
  <2> QED  BY <2>1 DEF RefInv, Holds
<1>14. AnnotsInv'
  BY <1>1, <1>2, <1>7, AnnotsShift DEF ObjsGrow
<1>15. FreeInv'
  <2>1. \A job : MeantForPage(job) => MeantForPage(job)'
    BY DEF MeantForPage, ObjsGrow
  <2> QED  BY <1>1, <1>2, <2>1, FreesShift
<1>16. ReplyInv'
  <2>1. closed = epoch  BY <1>2 DEF ReplyInv, Running
  <2> QED  BY <1>1, <1>2, <2>1, RepliesEnd
<1>17. ~released => LeakInv'
  <2> SUFFICES ASSUME ~released, NEW i \in DOMAIN core, core[i].live,
                      core[i].page.kind = "derived"
               PROVE  Remembered(i)'
    BY DEF LeakInv
  <2>1. Remembered(i)  BY <1>1 DEF Serving, LeakInv
  <2>2. ~Running("crop")  BY DEF Running
  <2>3. ASSUME NEW k \in DOMAIN queue, queue[k].op = "free", queue[k].meant = i
        PROVE  Remembered(i)'
    <3>1. k # 1  BY <2>3
    <3>2. k - 1 \in DOMAIN queue' /\ queue'[k - 1] = queue[k]  BY <1>3, <3>1 DEF Shifted
    <3> QED  BY <2>3, <3>2 DEF Remembered
  <2>4. ASSUME NEW o \in DOMAIN objs, objs[o].names = core[i].page, objs[o].parent # 0,
               Live(o) \/ Watched(o)
        PROVE  Remembered(i)'
    BY <1>9, <2>4 DEF Remembered, ObjsGrow
  <2> QED  BY <2>1, <2>2, <2>3, <2>4 DEF Remembered
<1> QED
  BY <1>5, <1>10, <1>11, <1>12, <1>13, <1>14, <1>15, <1>16, <1>17 DEF PagesInv, Serving

\* The page objects, some of them held from now on.
HeldObjs(held) ==
    /\ held \in Seq(PageObjects) /\ DOMAIN held = DOMAIN objs /\ Len(held) = Len(objs)
    /\ \A o \in DOMAIN objs :
         /\ held[o].handle = objs[o].handle /\ held[o].parent = objs[o].parent
         /\ held[o].names = objs[o].names /\ held[o].state = objs[o].state
         /\ held[o].registered = objs[o].registered
         /\ held[o].held => Live(o)

\* A page that is held again is what it was.
LEMMA HoldTypes ==
    ASSUME PagesTypeOK, LifeInv, NEW os, \A o \in DOMAIN objs : o \in os => Live(o)
    PROVE  HeldObjs(Hold(os))
<1>1. Len(objs) \in Nat /\ DOMAIN objs = 1 .. Len(objs)  BY QueueDomain
<1>2. PICK held : held = Hold(os)  OBVIOUS
<1>3. \A o \in DOMAIN objs :
         /\ held[o] \in PageObjects
         /\ held[o].handle = objs[o].handle /\ held[o].parent = objs[o].parent
         /\ held[o].names = objs[o].names /\ held[o].state = objs[o].state
         /\ held[o].registered = objs[o].registered
         /\ held[o].held => Live(o)
  <2> SUFFICES ASSUME NEW o \in DOMAIN objs
               PROVE  /\ held[o] \in PageObjects
                      /\ held[o].handle = objs[o].handle /\ held[o].parent = objs[o].parent
                      /\ held[o].names = objs[o].names /\ held[o].state = objs[o].state
                      /\ held[o].registered = objs[o].registered
                      /\ held[o].held => Live(o)
    OBVIOUS
  <2>1. objs[o] \in PageObjects  BY QueueDomain
  <2>2. objs[o].held => Live(o)  BY DEF LifeInv
  <2>3. CASE o \in os
    <3>1. held[o] = [objs[o] EXCEPT !.held = TRUE]  BY <1>2, <2>3 DEF Hold
    <3> QED  BY <2>1, <2>3, <3>1 DEF PageObjects
  <2>4. CASE o \notin os
    <3>1. held[o] = objs[o]  BY <1>2, <2>4 DEF Hold
    <3> QED  BY <2>1, <2>2, <3>1
  <2> QED  BY <2>3, <2>4
<1>4. held \in [1 .. Len(objs) -> PageObjects]  BY <1>1, <1>2, <1>3 DEF Hold
<1>5. held \in Seq(PageObjects) /\ DOMAIN held = DOMAIN objs /\ Len(held) = Len(objs)
  BY <1>1, <1>4, SequenceOf
<1>6. HeldObjs(held)  BY <1>3, <1>5 DEF HeldObjs
<1> QED  BY <1>2, <1>6

\* Page objects are held again, others are made.
LEMMA GrownBy ==
    ASSUME PagesTypeOK, NEW held, HeldObjs(held), NEW more, more \in Seq(PageObjects),
           objs' = held \o more
    PROVE  /\ ObjsGrow
           /\ \A k \in DOMAIN more :
                Len(objs) + k \in NewObjs /\ objs'[Len(objs) + k] = more[k]
           /\ \A q \in NewObjs : \E k \in DOMAIN more : q = Len(objs) + k
<1>1. Len(objs) \in Nat /\ DOMAIN objs = 1 .. Len(objs)  BY QueueDomain
<1>2. Len(more) \in Nat /\ DOMAIN more = 1 .. Len(more)  OBVIOUS
<1>3. Concatenation(held, more, PageObjects)  BY Concatenated DEF HeldObjs
<1>4. /\ objs' \in Seq(PageObjects)
      /\ \A o \in DOMAIN objs : objs'[o] = held[o]
      /\ \A k \in DOMAIN more : objs'[Len(objs) + k] = more[k]
      /\ DOMAIN objs' = 1 .. Len(objs) + Len(more)
      /\ \A q \in DOMAIN objs' : q \in DOMAIN objs \/ \E k \in DOMAIN more : q = Len(objs) + k
  BY <1>1, <1>2, <1>3 DEF HeldObjs, Concatenation
<1>5. ObjsGrow  BY <1>1, <1>2, <1>4 DEF ObjsGrow, HeldObjs
<1>6. \A k \in DOMAIN more : Len(objs) + k \in NewObjs
  BY <1>1, <1>2, <1>4 DEF NewObjs
<1> QED  BY <1>4, <1>5, <1>6 DEF NewObjs

\* pages, of a list that was read: the array of the document.
LEMMA PagesAgainKeepsInv ==
    ASSUME PagesInv, core[1].live, PagesAgain
    PROVE  PagesInv'
<1>1. CoreInv /\ PagesTypeOK /\ Serving  BY DEF PagesInv
<1>2. /\ queue # <<>> /\ queue[1].op = "pages" /\ 1 \in DOMAIN queue /\ Done
      /\ objs' = Hold(Range(array))
      /\ UNCHANGED <<closed, core, refs, array, byHandle, weak, current, epoch, released, document>>
  BY <1>1, HeadIsFirst DEF PagesAgain, Starts, python, maps
<1>3. InPlay  BY <1>1, <1>2 DEF Serving, LifeInv
<1>4. \A o \in Range(array) : Live(o)
  BY <1>1, <1>3 DEF Serving, LifeInv, Range
<1>5. HeldObjs(objs')  BY <1>1, <1>2, <1>4, HoldTypes DEF Serving
<1>6. ObjsGrow /\ NewObjs = {} /\ DOMAIN objs' = DOMAIN objs
  BY <1>5 DEF HeldObjs, ObjsGrow, NewObjs
<1>7. Rebound /\ RefsKept
  BY <1>1, <1>2, <1>6 DEF Rebound, RefsKept, Serving, RefInv
<1>8. PagesTypeOK'
  BY <1>1, <1>2, <1>5, <1>6, Ending DEF PagesTypeOK, HeldObjs
<1>9. /\ \A n \in DOMAIN array : array[n] \in DOMAIN objs
      /\ \A n \in DOMAIN current : current[n] \in DOMAIN objs
  BY <1>1 DEF PagesTypeOK
<1>10. /\ \A n \in DOMAIN array' : objs'[array'[n]].state = "live"
       /\ \A n \in DOMAIN current' : objs'[current'[n]].state = "live"
  BY <1>1, <1>2, <1>3, <1>6, <1>9 DEF Serving, LifeInv, Live, ObjsGrow
<1>11. ~released /\ ~ReadsFlushed => CurrentInv'
  <2>1. ObjsKept  BY <1>5 DEF HeldObjs, ObjsKept
  <2> QED  BY <1>1, <1>2, <2>1, KeptCurrent DEF Serving
<1> QED  BY <1>2, <1>6, <1>7, <1>8, <1>10, <1>11, ListKeepsInv

\* What NewPage makes of the handle of a page.
LEMMA NewPageIs ==
    ASSUME CoreInv, NEW h, NEW p, Holds(h, p), NEW parent, parent \in Nat
    PROVE  /\ NewPage(h, parent) \in PageObjects
           /\ NewPage(h, parent).handle = h /\ NewPage(h, parent).parent = parent
           /\ NewPage(h, parent).names = p /\ NewPage(h, parent).state = "live"
           /\ NewPage(h, parent).registered <=> parent # 0
<1>1. h \in InUse /\ PageAt(h) = p /\ h \in Nat /\ p \in PageNames  BY HoldsGives
<1> QED  BY <1>1 DEF NewPage, PageObjects

\* pages: an object is made for each number that has none.
LEMMA PagesEndKeepsInv ==
    ASSUME PagesInv, core[1].live, PagesEnd
    PROVE  PagesInv'
<1>1. CoreInv /\ PagesTypeOK /\ Serving  BY DEF PagesInv
<1> DEFINE missing == Numbers \ DOMAIN current
           handles == reply.handles
           number(k) == CHOOSE n \in missing : Len(objs) + Rank(missing, n) = Len(objs) + k
           list == [n \in Numbers |->
                      IF n \in missing THEN Len(objs) + Rank(missing, n) ELSE current[n]]
           more == [k \in 1 .. Cardinality(missing) |-> NewPage(handles[number(k)], 0)]
           new == [h \in {handles[n] : n \in missing} |->
                     Len(objs) + Rank(missing, CHOOSE n \in missing : handles[n] = h)]
<1>8. /\ Ends("pages") /\ Done
      /\ objs' = Hold(Range(list)) \o more
      /\ byHandle' = WithAll(byHandle, new)
      /\ current' = list /\ array' = list
      /\ UNCHANGED <<closed, core, refs, weak, epoch, released, document>>
  BY DEF PagesEnd, Rank, python
<1>2. missing = Numbers \ DOMAIN current  OBVIOUS
<1>3. handles = reply.handles  OBVIOUS
<1>4. \A k : number(k) = CHOOSE n \in missing : Len(objs) + Rank(missing, n) = Len(objs) + k
  OBVIOUS
<1>5. list = [n \in Numbers |->
                IF n \in missing THEN Len(objs) + Rank(missing, n) ELSE current[n]]
  OBVIOUS
<1>6. more = [k \in 1 .. Cardinality(missing) |-> NewPage(handles[number(k)], 0)]
  OBVIOUS
<1>7. new = [h \in {handles[n] : n \in missing} |->
               Len(objs) + Rank(missing, CHOOSE n \in missing : handles[n] = h)]
  OBVIOUS
<1> HIDE DEF missing, handles, number, list, more, new
<1>9. queue # <<>> /\ 1 \in DOMAIN queue /\ queue[1].op = "pages" /\ Running("pages")
  BY <1>1, <1>8, HeadIsFirst DEF Ends, Running
<1>10. /\ InPlay /\ closed = epoch
       /\ \A n \in Numbers : Holds(handles[n], ListPage(epoch, n))
  BY <1>1, <1>3, <1>9 DEF Serving, LifeInv, ReplyInv, Running
<1>11. /\ IsFiniteSet(missing) /\ missing \subseteq Int /\ missing \subseteq Numbers
       /\ Numbers \subseteq Nat
  <2>1. Numbers = 1 .. LastPage /\ LastPage \in Nat  BY PagesAssumption DEF Numbers
  <2>2. IsFiniteSet(Numbers)  BY <2>1, FirstNumbers
  <2>3. missing \in SUBSET Numbers  BY <1>2
  <2>4. IsFiniteSet(missing)  BY <2>2, <2>3, FS_Subset
  <2>5. Numbers \subseteq Nat /\ missing \subseteq Numbers  BY <2>1, <2>3
  <2> QED  BY <2>4, <2>5
<1>12. PICK size : size = Cardinality(missing)  OBVIOUS
<1>13. size \in Nat /\ Len(objs) \in Nat /\ DOMAIN objs = 1 .. Len(objs)
  BY <1>1, <1>11, <1>12, FS_CardinalityType, QueueDomain
<1>14. \A n \in missing : Rank(missing, n) \in 1 .. size
  BY <1>11, <1>12, RankType
<1>15. \A k \in 1 .. size : number(k) \in missing /\ Rank(missing, number(k)) = k
  <2> SUFFICES ASSUME NEW k \in 1 .. size
               PROVE  number(k) \in missing /\ Rank(missing, number(k)) = k
    OBVIOUS
  <2>1. PICK n \in missing : Rank(missing, n) = k  BY <1>11, <1>12, RankExists
  <2>2. number(k) = CHOOSE m \in missing : Len(objs) + Rank(missing, m) = Len(objs) + k
    BY <1>4, <1>12
  <2>3. number(k) \in missing /\ Len(objs) + Rank(missing, number(k)) = Len(objs) + k
    BY <2>1, <2>2
  <2>4. Rank(missing, number(k)) \in Nat  BY <1>13, <1>14, <2>3
  <2> QED  BY <1>13, <2>3, <2>4
<1>16. \A n \in missing : number(Rank(missing, n)) = n
  <2> SUFFICES ASSUME NEW n \in missing PROVE number(Rank(missing, n)) = n
    OBVIOUS
  <2>1. PICK m : m = number(Rank(missing, n))  OBVIOUS
  <2>2. m \in missing /\ Rank(missing, m) = Rank(missing, n)  BY <1>14, <1>15, <2>1
  <2>3. m \in Int /\ n \in Int  BY <1>11, <2>2
  <2>4. ~(m < n) /\ ~(n < m)  BY <1>11, <2>2, RanksDiffer
  <2> QED  BY <2>1, <2>3, <2>4
<1>17. \A k \in 1 .. size :
         /\ more[k] \in PageObjects
         /\ more[k].handle = handles[number(k)] /\ more[k].parent = 0
         /\ more[k].names = ListPage(epoch, number(k)) /\ more[k].state = "live"
         /\ ~more[k].registered
  <2> SUFFICES ASSUME NEW k \in 1 .. size
               PROVE  /\ more[k] \in PageObjects
                      /\ more[k].handle = handles[number(k)] /\ more[k].parent = 0
                      /\ more[k].names = ListPage(epoch, number(k)) /\ more[k].state = "live"
                      /\ ~more[k].registered
    OBVIOUS
  <2>1. more[k] = NewPage(handles[number(k)], 0)  BY <1>6, <1>12
  <2>2. Holds(handles[number(k)], ListPage(epoch, number(k)))  BY <1>10, <1>11, <1>15
  <2>3. 0 \in Nat  OBVIOUS
  <2> QED  BY <1>1, <2>1, <2>2, <2>3, NewPageIs
<1>18. more \in Seq(PageObjects) /\ DOMAIN more = 1 .. size
  <2>1. more \in [1 .. size -> PageObjects]  BY <1>6, <1>12, <1>17
  <2> QED  BY <1>13, <2>1, SequenceOf
<1>19. \A o \in DOMAIN objs : o \in Range(list) => Live(o)
  <2> SUFFICES ASSUME NEW o \in DOMAIN objs, o \in Range(list) PROVE Live(o)
    OBVIOUS
  <2>1. PICK n \in Numbers : list[n] = o  BY <1>5 DEF Range
  <2>2. CASE n \in missing
    <3>1. o = Len(objs) + Rank(missing, n)  BY <1>5, <2>1, <2>2
    <3> QED  BY <1>13, <1>14, <2>2, <3>1
  <2>3. CASE n \notin missing
    <3>1. n \in DOMAIN current /\ o = current[n]  BY <1>2, <1>5, <2>1, <2>3
    <3> QED  BY <1>1, <1>10, <3>1 DEF Serving, LifeInv
  <2> QED  BY <2>2, <2>3
<1>20. HeldObjs(Hold(Range(list)))  BY <1>1, <1>19, HoldTypes DEF Serving
<1>21. /\ ObjsGrow
       /\ \A k \in 1 .. size : Len(objs) + k \in NewObjs /\ objs'[Len(objs) + k] = more[k]
       /\ \A q \in NewObjs : \E k \in 1 .. size : q = Len(objs) + k
  <2>1. PICK held : held = Hold(Range(list))  OBVIOUS
  <2>2. HeldObjs(held) /\ objs' = held \o more  BY <1>8, <1>20, <2>1
  <2>3. /\ ObjsGrow
        /\ \A k \in DOMAIN more :
             Len(objs) + k \in NewObjs /\ objs'[Len(objs) + k] = more[k]
        /\ \A q \in NewObjs : \E k \in DOMAIN more : q = Len(objs) + k
    BY <1>1, <1>18, <2>2, GrownBy
  <2> QED  BY <1>18, <2>3
<1>22. \A n \in missing :
         /\ list[n] \in NewObjs
         /\ objs'[list[n]].handle = handles[n] /\ objs'[list[n]].names = ListPage(epoch, n)
         /\ objs'[list[n]].state = "live"
  <2> SUFFICES ASSUME NEW n \in missing
               PROVE  /\ list[n] \in NewObjs
                      /\ objs'[list[n]].handle = handles[n]
                      /\ objs'[list[n]].names = ListPage(epoch, n)
                      /\ objs'[list[n]].state = "live"
    OBVIOUS
  <2>1. PICK k \in 1 .. size : k = Rank(missing, n)  BY <1>14
  <2>2. list[n] = Len(objs) + k /\ number(k) = n  BY <1>5, <1>11, <1>16, <2>1
  <2> QED  BY <1>17, <1>21, <2>2
<1>23. \A n \in Numbers \ missing : n \in DOMAIN current /\ list[n] = current[n]
  BY <1>2, <1>5
<1>24. DOMAIN list = Numbers  BY <1>5
<1>25. \A q \in NewObjs : \E n \in missing : q = list[n]
  <2> SUFFICES ASSUME NEW q \in NewObjs PROVE \E n \in missing : q = list[n]
    OBVIOUS
  <2>1. PICK k \in 1 .. size : q = Len(objs) + k  BY <1>21
  <2>2. number(k) \in missing /\ list[number(k)] = Len(objs) + k  BY <1>5, <1>11, <1>15
  <2> QED  BY <2>1, <2>2
<1>26. \A q \in NewObjs : NewListed(q)
  <2> SUFFICES ASSUME NEW q \in NewObjs PROVE NewListed(q)
    OBVIOUS
  <2>1. PICK k \in 1 .. size : q = Len(objs) + k  BY <1>21
  <2>2. objs'[q] = more[k]  BY <1>21, <2>1
  <2>3. /\ objs'[q].parent = 0 /\ ~objs'[q].registered /\ objs'[q].state = "live"
        /\ objs'[q].handle = handles[number(k)] /\ objs'[q].names = ListPage(epoch, number(k))
    BY <1>17, <2>2
  <2>4. number(k) \in Numbers  BY <1>11, <1>15
  <2>5. Holds(handles[number(k)], ListPage(epoch, number(k)))  BY <1>10, <2>4
  <2>6. IsPage(ListPage(epoch, number(k))) /\ ListPage(epoch, number(k)).kind = "page"
    /\ ListPage(epoch, number(k)).id = epoch
    BY <2>4 DEF IsPage, ListPage
  <2>7. epoch \in Nat  BY <1>1 DEF PagesTypeOK
  <2> QED  BY <2>3, <2>5, <2>6, <2>7 DEF NewListed
<1>27. /\ DOMAIN byHandle' = DOMAIN byHandle \cup {handles[n] : n \in missing}
       /\ \A g \in DOMAIN byHandle' :
            \/ g \in DOMAIN byHandle /\ byHandle'[g] = byHandle[g]
            \/ \E n \in missing : g = handles[n] /\ byHandle'[g] = list[n]
  <2>1. DOMAIN new = {handles[n] : n \in missing}  BY <1>7
  <2>2. /\ DOMAIN byHandle' = DOMAIN byHandle \cup DOMAIN new
        /\ \A g \in DOMAIN byHandle' :
             byHandle'[g] = IF g \in DOMAIN new THEN new[g] ELSE byHandle[g]
    BY <1>8 DEF WithAll
  <2>3. ASSUME NEW g \in DOMAIN new
        PROVE  \E n \in missing : g = handles[n] /\ new[g] = list[n]
    <3>1. PICK m : m = CHOOSE n \in missing : handles[n] = g  OBVIOUS
    <3>2. m \in missing /\ handles[m] = g  BY <2>1, <3>1
    <3>3. new[g] = Len(objs) + Rank(missing, m)  BY <1>7, <2>1, <3>1
    <3>4. list[m] = Len(objs) + Rank(missing, m)  BY <1>5, <1>11, <3>2
    <3> QED  BY <3>2, <3>3, <3>4
  <2> QED  BY <2>1, <2>2, <2>3
<1>28. Rebound
  BY <1>22, <1>27 DEF Rebound
<1>29. RefsKept
  BY <1>1, <1>8, <1>21 DEF RefsKept, ObjsGrow, Serving, RefInv
<1>30. \A n \in Numbers : list[n] \in DOMAIN objs' /\ objs'[list[n]].state = "live"
  <2> SUFFICES ASSUME NEW n \in Numbers
               PROVE  list[n] \in DOMAIN objs' /\ objs'[list[n]].state = "live"
    OBVIOUS
  <2>1. CASE n \in missing  BY <1>22, <2>1 DEF NewObjs
  <2>2. CASE n \notin missing
    <3>1. list[n] = current[n] /\ n \in DOMAIN current  BY <1>23, <2>2
    <3>2. current[n] \in DOMAIN objs /\ Live(current[n])
      BY <1>1, <1>10, <3>1 DEF PagesTypeOK, Serving, LifeInv
    <3> QED  BY <1>21, <3>1, <3>2 DEF ObjsGrow, Live
  <2> QED  BY <2>1, <2>2
<1>31. PagesTypeOK'
  <2>1. list \in [Numbers -> DOMAIN objs']  BY <1>5, <1>30
  <2>2. /\ byHandle' \in [DOMAIN byHandle' -> DOMAIN objs'] /\ DOMAIN byHandle' \subseteq Nat
    <3>1. byHandle' = [g \in DOMAIN byHandle' |-> byHandle'[g]]  BY <1>8 DEF WithAll
    <3>2. \A g \in DOMAIN byHandle' : byHandle'[g] \in DOMAIN objs'
      <4> SUFFICES ASSUME NEW g \in DOMAIN byHandle' PROVE byHandle'[g] \in DOMAIN objs'
        OBVIOUS
      <4>1. CASE g \in DOMAIN byHandle /\ byHandle'[g] = byHandle[g]
        <5>1. byHandle[g] \in DOMAIN objs  BY <1>1, <4>1 DEF PagesTypeOK
        <5> QED  BY <1>21, <4>1, <5>1 DEF ObjsGrow
      <4>2. CASE \E n \in missing : g = handles[n] /\ byHandle'[g] = list[n]
        BY <1>22, <4>2 DEF NewObjs
      <4> QED  BY <1>27, <4>1, <4>2
    <3>3. \A n \in missing : handles[n] \in Nat
      BY <1>1, <1>10, <1>11, HoldsGives
    <3>4. DOMAIN byHandle \subseteq Nat  BY <1>1 DEF PagesTypeOK
    <3> QED  BY <1>27, <3>1, <3>2, <3>3, <3>4
  <2>3. weak \in [DOMAIN weak -> DOMAIN objs'] /\ DOMAIN weak \subseteq Nat
    BY <1>1, <1>21 DEF PagesTypeOK, ObjsGrow
  <2>4. objs' \in Seq(PageObjects)  BY <1>21 DEF ObjsGrow
  <2>5. queue' \in Seq(PageJobs) /\ reply' \in Replies  BY <1>1, <1>8, <1>9, Ending
  <2> QED  BY <1>1, <1>8, <1>24, <2>1, <2>2, <2>3, <2>4, <2>5 DEF PagesTypeOK
<1>32. ~released /\ ~ReadsFlushed => CurrentInv'
  <2> SUFFICES ASSUME CurrentInv PROVE CurrentInv'
    BY <1>1 DEF Serving
  <2>1. \A n \in Numbers : objs'[list[n]].names = ListPage(epoch, n)
    <3> SUFFICES ASSUME NEW n \in Numbers PROVE objs'[list[n]].names = ListPage(epoch, n)
      OBVIOUS
    <3>1. CASE n \in missing  BY <1>22, <3>1
    <3>2. CASE n \notin missing
      <4>1. list[n] = current[n] /\ n \in DOMAIN current  BY <1>23, <3>2
      <4>2. current[n] \in DOMAIN objs  BY <1>1, <4>1 DEF PagesTypeOK
      <4> QED  BY <1>21, <4>1, <4>2 DEF CurrentInv, ObjsGrow
    <3> QED  BY <3>1, <3>2
  <2>2. ASSUME NEW o \in DOMAIN objs, InTheList(o)  PROVE InTheList(o)'
    <3> SUFFICES ASSUME NEW n \in Numbers, objs[o].names = ListPage(epoch, n)
                 PROVE  list[n] = o
      BY <1>8, <1>21, <1>24 DEF InTheList, ObjsGrow
    <3>1. n \in DOMAIN current /\ current[n] = o  BY <2>2 DEF InTheList
    <3> QED  BY <1>2, <1>23, <3>1
  <2>3. ASSUME NEW q \in NewObjs  PROVE InTheList(q)'
    <3>1. PICK n \in missing : q = list[n]  BY <1>25
    <3>2. objs'[q].names = ListPage(epoch, n)  BY <1>22, <3>1
    <3>3. \A m : ListPage(epoch, m) = ListPage(epoch, n) => m = n  BY DEF ListPage
    <3> QED  BY <1>8, <1>24, <3>1, <3>2, <3>3 DEF InTheList
  <2>4. ASSUME NEW o \in DOMAIN objs', o \in DOMAIN objs => InTheList(o)
        PROVE  InTheList(o)'
    BY <2>2, <2>3, <2>4 DEF NewObjs
  <2>5. ASSUME NEW g \in DOMAIN byHandle', NEW o, o = byHandle'[g]  PROVE InTheList(o)'
    <3>1. CASE g \in DOMAIN byHandle /\ o = byHandle[g]
      <4>1. o \in DOMAIN objs /\ InTheList(o)
        BY <1>1, <3>1 DEF PagesTypeOK, CurrentInv
      <4> QED  BY <2>2, <4>1
    <3>2. CASE o \in NewObjs  BY <2>3, <3>2
    <3> QED  BY <1>28, <2>5, <3>1, <3>2 DEF Rebound
  <2>6. ASSUME NEW r \in DOMAIN refs, NEW o, o = refs[r].page, o # 0
        PROVE  objs'[o].names = refs[r].names /\ InTheList(o)'
    <3>1. o \in DOMAIN objs /\ InTheList(o) /\ objs[o].names = refs[r].names
      BY <1>1, <2>6 DEF Serving, RefInv, CurrentInv
    <3> QED  BY <1>21, <2>2, <3>1 DEF ObjsGrow
  <2>7. \A h \in DOMAIN weak : objs'[weak[h]].names.kind = "page" =>
                                 objs'[weak[h]].names.id < epoch
    <3> SUFFICES ASSUME NEW h \in DOMAIN weak
                 PROVE  objs'[weak[h]].names.kind = "page" => objs'[weak[h]].names.id < epoch
      OBVIOUS
    <3>1. weak[h] \in DOMAIN objs  BY <1>1 DEF PagesTypeOK
    <3>2. objs'[weak[h]].names = objs[weak[h]].names  BY <1>21, <3>1 DEF ObjsGrow
    <3> QED  BY <3>2 DEF CurrentInv
  <2> QED  BY <1>8, <1>24, <2>1, <2>5, <2>6, <2>7 DEF CurrentInv
<1> QED
  BY <1>8, <1>9, <1>21, <1>24, <1>26, <1>28, <1>29, <1>30, <1>31, <1>32, ListKeepsInv

(***************************************************************************)
(* page(ref): the page known already, or the one made for its handle.       *)
(***************************************************************************)
LEMMA RefReads ==
    ASSUME PagesTypeOK, NEW r, r \in DOMAIN refs, NEW o, o \in Nat,
           refs' = [refs EXCEPT ![r].page = o]
    PROVE  /\ refs' \in Seq(PageRefs) /\ DOMAIN refs' = DOMAIN refs
           /\ refs'[r].page = o
           /\ \A s \in DOMAIN refs :
                /\ refs'[s].handle = refs[s].handle /\ refs'[s].number = refs[s].number
                /\ refs'[s].epoch = refs[s].epoch /\ refs'[s].names = refs[s].names
                /\ s # r => refs'[s].page = refs[s].page
<1>1. Len(refs) \in Nat /\ DOMAIN refs = 1 .. Len(refs)  BY QueueDomain
<1>2. \A s \in DOMAIN refs : refs[s] \in PageRefs  BY QueueDomain
<1>3. PICK new : new = [refs[r] EXCEPT !.page = o]  OBVIOUS
<1>4. refs[r] \in PageRefs  BY <1>2
<1>5. /\ new \in PageRefs /\ new.page = o
      /\ new.handle = refs[r].handle /\ new.number = refs[r].number
      /\ new.epoch = refs[r].epoch /\ new.names = refs[r].names
  BY <1>3, <1>4 DEF PageRefs
<1>6. /\ DOMAIN refs' = DOMAIN refs /\ refs'[r] = new
      /\ \A s \in DOMAIN refs : s # r => refs'[s] = refs[s]
  BY <1>3
<1>7. refs' \in [1 .. Len(refs) -> PageRefs]  BY <1>1, <1>2, <1>3, <1>5, <1>6
<1>8. refs' \in Seq(PageRefs)  BY <1>1, <1>7, SequenceOf
<1> QED  BY <1>5, <1>6, <1>8

\* page(ref): a page that the document keeps, names or lists.
LEMMA PageKnownKeepsInv ==
    ASSUME PagesInv, core[1].live, PageKnown
    PROVE  PagesInv'
<1>1. CoreInv /\ PagesTypeOK /\ Serving  BY DEF PagesInv
<1>2. PICK r : r = Head(queue).ref  OBVIOUS
<1>3. PICK o \in Known(r) :
        /\ objs' = Hold({o})
        /\ refs' = [refs EXCEPT ![r].page = o]
        /\ weak' = IF Dead(refs[r].handle)
                   THEN Restrict(weak, DOMAIN weak \ {refs[r].handle})
                   ELSE weak
  BY <1>2 DEF PageKnown
<1>4. /\ queue # <<>> /\ queue[1].op = "page" /\ 1 \in DOMAIN queue /\ Done /\ r = queue[1].ref
      /\ UNCHANGED <<closed, core, array, byHandle, current, epoch, released, document>>
  BY <1>1, <1>2, HeadIsFirst DEF PageKnown, Starts, python
<1>5. InPlay /\ r \in DOMAIN refs  BY <1>1, <1>4 DEF Serving, LifeInv
<1>6. PICK h : h = refs[r].handle  OBVIOUS
<1>7. \/ h \in DOMAIN byHandle /\ o = byHandle[h]
      \/ h \notin DOMAIN byHandle /\ h \in DOMAIN weak /\ o = weak[h] /\ Live(o)
      \/ /\ h \notin DOMAIN byHandle
         /\ Fresh(r) /\ refs[r].number \in DOMAIN current /\ o = current[refs[r].number]
  BY <1>6 DEF Known, KnownBy
<1>8. o \in DOMAIN objs /\ Live(o)
  BY <1>1, <1>5, <1>7 DEF PagesTypeOK, Serving, LifeInv
<1>9. o \in Nat /\ o # 0  BY <1>1, <1>8, QueueDomain
<1>10. HeldObjs(objs')  BY <1>1, <1>3, <1>8, HoldTypes DEF Serving
<1>11. ObjsGrow /\ NewObjs = {} /\ DOMAIN objs' = DOMAIN objs
  BY <1>10 DEF HeldObjs, ObjsGrow, NewObjs
<1>12. /\ refs' \in Seq(PageRefs) /\ DOMAIN refs' = DOMAIN refs
       /\ refs'[r].page = o
       /\ \A s \in DOMAIN refs :
            /\ refs'[s].handle = refs[s].handle /\ refs'[s].number = refs[s].number
            /\ refs'[s].epoch = refs[s].epoch /\ refs'[s].names = refs[s].names
            /\ s # r => refs'[s].page = refs[s].page
  BY <1>1, <1>3, <1>5, <1>9, RefReads
<1>13. Rebound /\ RefsKept
  <2>1. \A s \in DOMAIN refs : refs'[s].page \in {0} \cup DOMAIN objs'
    BY <1>1, <1>8, <1>11, <1>12 DEF Serving, RefInv
  <2> QED  BY <1>4, <1>12, <2>1 DEF Rebound, RefsKept
<1>14. /\ \A g \in DOMAIN weak' : g \in DOMAIN weak /\ weak'[g] = weak[g]
       /\ weak' \in [DOMAIN weak' -> DOMAIN objs] /\ DOMAIN weak' \subseteq Nat
  <2>1. CASE weak' = weak  BY <1>1, <2>1 DEF PagesTypeOK
  <2>2. CASE weak' = Restrict(weak, DOMAIN weak \ {h})
    <3>1. DOMAIN weak' = DOMAIN weak \ {h} /\ \A g \in DOMAIN weak' : weak'[g] = weak[g]
      BY <2>2 DEF Restrict
    <3>2. weak' = [g \in DOMAIN weak' |-> weak'[g]]  BY <2>2 DEF Restrict
    <3>3. \A g \in DOMAIN weak' : weak'[g] \in DOMAIN objs  BY <1>1, <3>1 DEF PagesTypeOK
    <3>4. DOMAIN weak' \subseteq Nat  BY <1>1, <3>1 DEF PagesTypeOK
    <3> QED  BY <3>1, <3>2, <3>3, <3>4
  <2> QED  BY <1>3, <1>6, <2>1, <2>2
<1>15. PagesTypeOK'
  <2>1. queue' \in Seq(PageJobs) /\ reply' \in Replies  BY <1>1, <1>4, Ending
  <2> QED  BY <1>1, <1>4, <1>10, <1>11, <1>12, <1>14, <2>1 DEF PagesTypeOK, HeldObjs
<1>16. /\ \A n \in DOMAIN array : array[n] \in DOMAIN objs
       /\ \A n \in DOMAIN current : current[n] \in DOMAIN objs
  BY <1>1 DEF PagesTypeOK
<1>17. /\ \A n \in DOMAIN array' : objs'[array'[n]].state = "live"
       /\ \A n \in DOMAIN current' : objs'[current'[n]].state = "live"
  BY <1>1, <1>4, <1>5, <1>11, <1>16 DEF Serving, LifeInv, Live, ObjsGrow
<1>18. ~released /\ ~ReadsFlushed => CurrentInv'
  <2> SUFFICES ASSUME ~released, ~ReadsFlushed, CurrentInv PROVE CurrentInv'
    BY <1>1 DEF Serving
  <2>1. Holds(h, refs[r].names) /\ IsPage(refs[r].names)
    BY <1>1, <1>5, <1>6 DEF Serving, RefInv
  <2>2. objs[o].names = refs[r].names /\ InTheList(o)
    <3>1. CASE h \in DOMAIN byHandle /\ o = byHandle[h]
      <4>1. objs[o].handle = h /\ InTheList(o)
        BY <1>1, <3>1 DEF Serving, MapInv, CurrentInv
      <4>2. Holds(h, objs[o].names)  BY <1>1, <1>8, <4>1 DEF Serving, ObjInv
      <4> QED  BY <1>1, <2>1, <4>1, <4>2, HoldsIsUnique
    <3>2. CASE h \in DOMAIN weak /\ o = weak[h]
      <4>1. objs[o].handle = h
        BY <1>1, <3>2 DEF Serving, MapInv
      <4>2. Holds(h, objs[o].names)  BY <1>1, <1>8, <4>1 DEF Serving, ObjInv
      <4>3. objs[o].names = refs[r].names  BY <1>1, <2>1, <4>2, HoldsIsUnique
      <4>4. objs[o].names.kind = "page" => objs[o].names.id < epoch
        BY <3>2 DEF CurrentInv
      <4>5. epoch \in Nat  BY <1>1 DEF PagesTypeOK
      <4> QED  BY <4>3, <4>4, <4>5 DEF InTheList, ListPage
    <3>3. CASE /\ h \notin DOMAIN byHandle
               /\ Fresh(r) /\ refs[r].number \in DOMAIN current /\ o = current[refs[r].number]
      <4>1. refs[r].names.kind = "page"
        BY <1>1, <1>5, <1>6, <3>3 DEF Serving, RefInv, Pinning, IsPage
      <4>2. refs[r].names.id = epoch /\ refs[r].number = refs[r].names.number
        BY <1>1, <1>5, <3>3, <4>1 DEF Serving, RefInv, Fresh
      <4>3. refs[r].names = ListPage(epoch, refs[r].number)
        BY <1>1, <1>5, <4>1, <4>2, FieldTypes, ListPageIsItsFields
      <4>4. objs[o].names = ListPage(epoch, refs[r].number)  BY <3>3 DEF CurrentInv
      <4>5. \A n : ListPage(epoch, n) = ListPage(epoch, refs[r].number) => n = refs[r].number
        BY DEF ListPage
      <4>6. InTheList(o)  BY <3>3, <4>4, <4>5 DEF InTheList
      <4> QED  BY <4>3, <4>4, <4>6
    <3> QED  BY <1>7, <3>1, <3>2, <3>3
  <2>3. ASSUME NEW q \in DOMAIN objs, InTheList(q)  PROVE InTheList(q)'
    BY <1>4, <1>11, <2>3 DEF InTheList, ObjsGrow
  <2>4. \A n \in DOMAIN current : objs'[current[n]].names = ListPage(epoch, n)
    BY <1>11, <1>16 DEF CurrentInv, ObjsGrow
  <2>5. \A g \in DOMAIN byHandle : InTheList(byHandle[g])'
    BY <1>1, <1>4, <2>3 DEF CurrentInv, PagesTypeOK
  <2>6. \A g \in DOMAIN weak' : objs'[weak'[g]].names.kind = "page" =>
                                  objs'[weak'[g]].names.id < epoch
    <3> SUFFICES ASSUME NEW g \in DOMAIN weak'
                 PROVE  objs'[weak'[g]].names.kind = "page" => objs'[weak'[g]].names.id < epoch
      OBVIOUS
    <3>1. g \in DOMAIN weak /\ weak'[g] = weak[g] /\ weak[g] \in DOMAIN objs
      BY <1>1, <1>14 DEF PagesTypeOK
    <3>2. objs'[weak'[g]].names = objs[weak[g]].names  BY <1>11, <3>1 DEF ObjsGrow
    <3> QED  BY <3>1, <3>2 DEF CurrentInv
  <2>7. ASSUME NEW s \in DOMAIN refs, NEW q, q = refs'[s].page, q # 0
        PROVE  objs'[q].names = refs'[s].names /\ InTheList(q)'
    <3>1. q \in DOMAIN objs /\ objs[q].names = refs[s].names /\ InTheList(q)
      BY <1>1, <1>8, <1>12, <2>2, <2>7 DEF Serving, RefInv, CurrentInv
    <3> QED  BY <1>11, <1>12, <2>3, <3>1 DEF ObjsGrow
  <2> QED  BY <1>4, <1>12, <2>4, <2>5, <2>6, <2>7 DEF CurrentInv
<1> QED
  BY <1>4, <1>11, <1>13, <1>14, <1>15, <1>17, <1>18, ListKeepsInv

\* A page object is made.
LEMMA OneMore ==
    ASSUME PagesTypeOK, LifeInv, NEW new, new \in PageObjects, objs' = Append(objs, new)
    PROVE  /\ ObjsGrow /\ NewObjs = {Len(objs) + 1} /\ objs'[Len(objs) + 1] = new
           /\ DOMAIN objs' = DOMAIN objs \cup {Len(objs) + 1}
           /\ Len(objs) + 1 \in Nat /\ Len(objs) + 1 # 0
<1>1. Len(objs) \in Nat /\ DOMAIN objs = 1 .. Len(objs) /\ objs \in Seq(PageObjects)
  BY QueueDomain DEF PagesTypeOK
<1>2. /\ objs' \in Seq(PageObjects) /\ DOMAIN objs' = 1 .. Len(objs) + 1
      /\ objs'[Len(objs) + 1] = new
      /\ \A o \in DOMAIN objs : objs'[o] = objs[o]
  BY <1>1
<1>3. ObjsGrow  BY <1>1, <1>2 DEF ObjsGrow, LifeInv
<1>4. NewObjs = {Len(objs) + 1} /\ DOMAIN objs' = DOMAIN objs \cup {Len(objs) + 1}
  BY <1>1, <1>2 DEF NewObjs
<1> QED  BY <1>1, <1>2, <1>3, <1>4

\* page(ref): no page was known, one is made.
LEMMA PageEndKeepsInv ==
    ASSUME PagesInv, core[1].live, PageEnd
    PROVE  PagesInv'
<1>1. CoreInv /\ PagesTypeOK /\ Serving  BY DEF PagesInv
<1>2. PICK r : r = Head(queue).ref  OBVIOUS
<1>3. PICK o : o = Len(objs) + 1  OBVIOUS
<1>4. PICK h : h = refs[r].handle  OBVIOUS
<1>5. PICK n : n = refs[r].number  OBVIOUS
<1>6. PICK new : new = NewPage(h, 0)  OBVIOUS
<1>7. /\ Ends("page") /\ Done
      /\ objs' = Append(objs, new)
      /\ refs' = [refs EXCEPT ![r].page = o]
      /\ byHandle' = With(byHandle, h, o)
      /\ current' = IF reply.current /\ n \notin DOMAIN current THEN With(current, n, o) ELSE current
      /\ UNCHANGED <<closed, core, array, weak, epoch, released, document>>
  BY <1>2, <1>3, <1>4, <1>5, <1>6 DEF PageEnd, python
<1>8. /\ queue # <<>> /\ 1 \in DOMAIN queue /\ queue[1].op = "page" /\ r = queue[1].ref
      /\ Running("page")
  BY <1>1, <1>2, <1>7, HeadIsFirst DEF Ends, Running
<1>9. /\ InPlay /\ r \in DOMAIN refs /\ closed = epoch
      /\ ~released => refs[r].names.kind = "page"
      /\ reply.current <=> refs[r].epoch = epoch
      /\ reply.current => n \notin DOMAIN current
  BY <1>1, <1>5, <1>8 DEF Serving, LifeInv, ReplyInv, Running
<1>10. PICK p : p = refs[r].names  OBVIOUS
<1>11. /\ Holds(h, p) /\ IsPage(p) /\ n = p.number /\ n \in Numbers
       /\ p.kind = "page" => p.id <= epoch /\ (ReadsFlushed \/ p.id = refs[r].epoch)
       /\ p.kind = "derived" => Kept(p)
  BY <1>1, <1>4, <1>5, <1>9, <1>10 DEF Serving, RefInv, Pinning, IsPage
<1>12. /\ new \in PageObjects /\ new.handle = h /\ new.parent = 0 /\ new.names = p
       /\ new.state = "live" /\ ~new.registered
  <2>1. 0 \in Nat  OBVIOUS
  <2> QED  BY <1>1, <1>6, <1>11, <2>1, NewPageIs
<1>13. /\ ObjsGrow /\ NewObjs = {o} /\ objs'[o] = new
       /\ DOMAIN objs' = DOMAIN objs \cup {o} /\ o \in Nat /\ o # 0 /\ o \notin DOMAIN objs
  <2>1. /\ ObjsGrow /\ NewObjs = {o} /\ objs'[o] = new
        /\ DOMAIN objs' = DOMAIN objs \cup {o} /\ o \in Nat /\ o # 0
    BY <1>1, <1>3, <1>7, <1>12, OneMore DEF Serving
  <2> QED  BY <2>1 DEF NewObjs
<1>14. \A q \in NewObjs : NewListed(q)
  BY <1>9, <1>10, <1>11, <1>12, <1>13 DEF NewListed, IsPage
<1>15. /\ refs' \in Seq(PageRefs) /\ DOMAIN refs' = DOMAIN refs
       /\ refs'[r].page = o
       /\ \A s \in DOMAIN refs :
            /\ refs'[s].handle = refs[s].handle /\ refs'[s].number = refs[s].number
            /\ refs'[s].epoch = refs[s].epoch /\ refs'[s].names = refs[s].names
            /\ s # r => refs'[s].page = refs[s].page
  BY <1>1, <1>7, <1>9, <1>13, RefReads
<1>16. RefsKept
  <2>1. \A s \in DOMAIN refs : refs'[s].page \in {0} \cup DOMAIN objs'
    BY <1>1, <1>13, <1>15 DEF Serving, RefInv
  <2> QED  BY <1>15, <2>1 DEF RefsKept
<1>17. /\ DOMAIN byHandle' = DOMAIN byHandle \cup {h}
       /\ byHandle'[h] = o
       /\ \A g \in DOMAIN byHandle : g # h => byHandle'[g] = byHandle[g]
  BY <1>7 DEF With
<1>18. Rebound
  BY <1>12, <1>13, <1>17 DEF Rebound
<1>19. /\ \A m \in DOMAIN current' :
            \/ m \in DOMAIN current /\ current'[m] = current[m]
            \/ m = n /\ current'[m] = o /\ reply.current
       /\ DOMAIN current \subseteq DOMAIN current'
       /\ \A m \in DOMAIN current : current'[m] = current[m]
       /\ reply.current => n \in DOMAIN current' /\ current'[n] = o
       /\ current' = [m \in DOMAIN current' |-> current'[m]]
       /\ DOMAIN current' \subseteq Numbers
  <2>0. /\ DOMAIN current \subseteq Numbers
        /\ current = [m \in DOMAIN current |-> current[m]]
    BY <1>1 DEF PagesTypeOK
  <2>1. CASE reply.current
    <3>1. current' = With(current, n, o) /\ n \notin DOMAIN current  BY <1>7, <1>9, <2>1
    <3>2. /\ DOMAIN current' = DOMAIN current \cup {n} /\ current'[n] = o
          /\ \A m \in DOMAIN current : current'[m] = current[m]
          /\ current' = [m \in DOMAIN current' |-> current'[m]]
      BY <3>1 DEF With
    <3> QED  BY <1>11, <2>0, <2>1, <3>2
  <2>2. CASE ~reply.current
    <3>1. current' = current  BY <1>7, <2>2
    <3> QED  BY <2>0, <2>2, <3>1
  <2> QED  BY <2>1, <2>2
<1>20. /\ \A m \in DOMAIN current : current[m] \in DOMAIN objs /\ Live(current[m])
       /\ \A m \in DOMAIN array : array[m] \in DOMAIN objs /\ Live(array[m])
  BY <1>1, <1>9 DEF PagesTypeOK, Serving, LifeInv
<1>21. /\ \A m \in DOMAIN array' : objs'[array'[m]].state = "live"
       /\ \A m \in DOMAIN current' : objs'[current'[m]].state = "live"
  BY <1>7, <1>12, <1>13, <1>19, <1>20 DEF ObjsGrow, Live
<1>22. PagesTypeOK'
  <2>1. queue' \in Seq(PageJobs) /\ reply' \in Replies  BY <1>1, <1>7, <1>8, Ending
  <2>2. byHandle' \in [DOMAIN byHandle' -> DOMAIN objs'] /\ DOMAIN byHandle' \subseteq Nat
    <3>1. byHandle' = [g \in DOMAIN byHandle' |-> byHandle'[g]]  BY <1>7 DEF With
    <3>2. \A g \in DOMAIN byHandle : byHandle[g] \in DOMAIN objs  BY <1>1 DEF PagesTypeOK
    <3>3. \A g \in DOMAIN byHandle' : byHandle'[g] \in DOMAIN objs'  BY <1>13, <1>17, <3>2
    <3>4. h \in Nat  BY <1>1, <1>11, HoldsGives
    <3> QED  BY <1>1, <1>17, <3>1, <3>3, <3>4 DEF PagesTypeOK
  <2>3. current' \in [DOMAIN current' -> DOMAIN objs']
    <3>1. \A m \in DOMAIN current' : current'[m] \in DOMAIN objs'  BY <1>13, <1>19, <1>20
    <3> QED  BY <1>19, <3>1
  <2>4. /\ weak \in [DOMAIN weak -> DOMAIN objs'] /\ DOMAIN weak \subseteq Nat
        /\ array \in {<<>>} \cup [Numbers -> DOMAIN objs']
    BY <1>1, <1>13 DEF PagesTypeOK
  <2> QED  BY <1>1, <1>7, <1>13, <1>15, <1>19, <2>1, <2>2, <2>3, <2>4 DEF PagesTypeOK, ObjsGrow
<1>23. ~released /\ ~ReadsFlushed => CurrentInv'
  <2> SUFFICES ASSUME ~released, ~ReadsFlushed, CurrentInv PROVE CurrentInv'
    BY <1>1 DEF Serving
  <2>1. p.kind = "page" /\ p.id = refs[r].epoch /\ p \in PageNames
    BY <1>1, <1>9, <1>10, <1>11, FieldTypes
  <2>2. p = ListPage(refs[r].epoch, n)  BY <1>11, <2>1, ListPageIsItsFields
  <2>3. \A m, k : ListPage(k, m) = p => m = n /\ k = refs[r].epoch  BY <2>2 DEF ListPage
  <2>4. ASSUME NEW q \in DOMAIN objs, InTheList(q)  PROVE InTheList(q)'
    BY <1>7, <1>13, <1>19, <2>4 DEF InTheList, ObjsGrow
  <2>5. InTheList(o)'
    BY <1>7, <1>9, <1>12, <1>13, <1>19, <2>3 DEF InTheList
  <2>6. \A m \in DOMAIN current' : objs'[current'[m]].names = ListPage(epoch, m)
    <3> SUFFICES ASSUME NEW m \in DOMAIN current'
                 PROVE  objs'[current'[m]].names = ListPage(epoch, m)
      OBVIOUS
    <3>1. CASE m \in DOMAIN current /\ current'[m] = current[m]
      BY <1>13, <1>20, <3>1 DEF CurrentInv, ObjsGrow
    <3>2. CASE m = n /\ current'[m] = o /\ reply.current
      BY <1>9, <1>12, <1>13, <2>2, <3>2
    <3> QED  BY <1>19, <3>1, <3>2
  <2>7. array # <<>> => array = current'
    <3> SUFFICES ASSUME array # <<>> PROVE array = current'
      OBVIOUS
    <3>1. array = current /\ DOMAIN array = Numbers  BY <1>1 DEF CurrentInv, PagesTypeOK
    <3>2. n \in DOMAIN current  BY <1>11, <3>1
    <3> QED  BY <1>7, <3>1, <3>2
  <2>8. ASSUME NEW g \in DOMAIN byHandle', NEW q, q = byHandle'[g]  PROVE InTheList(q)'
    <3>1. CASE g = h  BY <1>17, <2>5, <2>8, <3>1
    <3>2. CASE g # h
      <4>1. g \in DOMAIN byHandle /\ q = byHandle[g]  BY <1>17, <2>8, <3>2
      <4>2. q \in DOMAIN objs /\ InTheList(q)  BY <1>1, <4>1 DEF PagesTypeOK, CurrentInv
      <4> QED  BY <2>4, <4>2
    <3> QED  BY <3>1, <3>2
  <2>9. \A g \in DOMAIN weak : objs'[weak[g]].names.kind = "page" =>
                                 objs'[weak[g]].names.id < epoch
    <3> SUFFICES ASSUME NEW g \in DOMAIN weak
                 PROVE  objs'[weak[g]].names.kind = "page" => objs'[weak[g]].names.id < epoch
      OBVIOUS
    <3>1. weak[g] \in DOMAIN objs  BY <1>1 DEF PagesTypeOK
    <3>2. objs'[weak[g]].names = objs[weak[g]].names  BY <1>13, <3>1 DEF ObjsGrow
    <3> QED  BY <3>2 DEF CurrentInv
  <2>10. ASSUME NEW s \in DOMAIN refs, NEW q, q = refs'[s].page, q # 0
         PROVE  objs'[q].names = refs'[s].names /\ InTheList(q)'
    <3>1. CASE s = r  BY <1>10, <1>12, <1>13, <1>15, <2>5, <2>10, <3>1
    <3>2. CASE s # r
      <4>1. q \in DOMAIN objs /\ objs[q].names = refs[s].names /\ InTheList(q)
        BY <1>1, <1>15, <2>10, <3>2 DEF Serving, RefInv, CurrentInv
      <4> QED  BY <1>13, <1>15, <2>4, <4>1 DEF ObjsGrow
    <3> QED  BY <3>1, <3>2
  <2> QED  BY <1>7, <1>15, <2>6, <2>7, <2>8, <2>9, <2>10 DEF CurrentInv
<1>24. \A g \in DOMAIN weak' : g \in DOMAIN weak /\ weak'[g] = weak[g]  BY <1>7
<1> QED
  BY <1>7, <1>8, <1>13, <1>14, <1>16, <1>18, <1>21, <1>22, <1>23, <1>24, ListKeepsInv

(***************************************************************************)
(* readRefs: the reference has the handle that keeps its page.              *)
(***************************************************************************)
LEMMA AnnotsEndKeepsInv ==
    ASSUME PagesInv, core[1].live, AnnotsEnd
    PROVE  PagesInv'
<1>1. CoreInv /\ PagesTypeOK /\ Serving  BY DEF PagesInv
<1>2. PICK h : h = reply.handles[1]  OBVIOUS
<1>3. PICK p : p = IF h \in InUse THEN PageAt(h) ELSE Other  OBVIOUS
<1>4. PICK new : new = [handle |-> h, number |-> p.number, epoch |-> epoch, names |-> p, page |-> 0]
  OBVIOUS
<1>5. /\ refs' = Append(refs, new) /\ Done
      /\ UNCHANGED <<closed, core, objs, array, byHandle, weak, current, epoch, released, document>>
      /\ \E op \in {"annots", "page_annots"} : Ends(op)
  BY <1>2, <1>3, <1>4 DEF AnnotsEnd, python, maps
<1>6. /\ queue # <<>> /\ 1 \in DOMAIN queue /\ queue[1].op \in {"annots", "page_annots"}
      /\ Running("annots") \/ Running("page_annots")
  BY <1>1, <1>5, HeadIsFirst DEF Ends, Running
<1>7. ObjInv /\ LifeInv /\ MapInv /\ RefInv /\ AnnotsInv /\ FreeInv /\ ReplyInv
  BY <1>1 DEF Serving
<1>8. closed = epoch /\ InPlay  BY <1>6, <1>7 DEF ReplyInv, Running, LifeInv
<1>9. /\ Shifted /\ queue' \in Seq(PageJobs)
      /\ reply' \in Replies /\ ~reply'.made
  BY <1>1, <1>5, <1>6, Ending
<1>10. epoch \in Nat /\ closed \in Nat  BY <1>1 DEF PagesTypeOK
\* The page of the answer.
<1>11. /\ Holds(h, p) /\ IsPage(p)
       /\ p.kind = "page" => p.id <= epoch /\ (ReadsFlushed \/ p.id = epoch)
       /\ p.kind = "derived" => Pinning(h, p)
  <2>1. \A q : Holds(h, q) => q = p
    BY <1>1, <1>3, HoldsGives
  <2>2. CASE Running("annots")
    <3>1. PICK n \in Numbers : Holds(h, ListPage(closed, n))
      BY <1>2, <1>7, <2>2 DEF ReplyInv
    <3>2. p = ListPage(closed, n)  BY <2>1, <3>1
    <3> QED  BY <1>8, <1>10, <3>1, <3>2 DEF ListPage, IsPage
  <2>3. CASE Running("page_annots")
    <3>1. PICK o : o = queue[1].page  OBVIOUS
    <3>2. queue[1].op = "page_annots" /\ o \in DOMAIN objs /\ Live(o)
      BY <1>6, <1>7, <2>3, <3>1 DEF Running, LifeInv
    <3>3. Holds(h, objs[o].names)  BY <1>2, <1>7, <2>3, <3>1 DEF ReplyInv
    <3>4. p = objs[o].names  BY <2>1, <3>3
    <3>5. IsPage(p) /\ Holds(objs[o].handle, p) /\ (p.kind = "page" => p.id <= epoch)
      BY <1>7, <3>2, <3>4 DEF ObjInv
    <3>6. p.kind = "page" => ReadsFlushed \/ p.id = closed
      BY <1>6, <1>7, <3>1, <3>2, <3>4 DEF AnnotsInv
    <3>7. ASSUME p.kind = "derived"  PROVE Pinning(h, p)
      <4>1. Pinning(objs[o].handle, p)  BY <1>6, <1>7, <3>1, <3>2, <3>4, <3>7 DEF AnnotsInv
      <4>2. PICK i \in DOMAIN core : core[i].handle = h /\ core[i].page = p
        BY <3>3, <3>4 DEF Holds, HoldsIn
      <4>3. PICK k \in DOMAIN core : core[k].handle = objs[o].handle /\ core[k].page = p
        BY <3>5 DEF Holds, HoldsIn
      <4>4. p.id = i - 1 /\ p.id = k - 1  BY <1>1, <3>7, <4>2, <4>3 DEF CoreInv
      <4>5. i = k  BY <1>1, <4>4, CoreDomain
      <4> QED  BY <4>1, <4>2, <4>3, <4>5
    <3> QED  BY <1>8, <3>3, <3>4, <3>5, <3>6, <3>7
  <2> QED  BY <1>6, <2>2, <2>3
<1>12. new \in PageRefs
  <2>1. h \in Nat /\ p \in PageNames  BY <1>1, <1>11, HoldsGives
  <2>2. 0 \in Nat /\ p.number \in Nat  BY <2>1 DEF PageNames
  <2> QED  BY <1>4, <1>10, <2>1, <2>2 DEF PageRefs
<1>13. /\ refs' \in Seq(PageRefs)
       /\ DOMAIN refs' = DOMAIN refs \cup {Len(refs) + 1}
       /\ refs'[Len(refs) + 1] = new
       /\ \A r \in DOMAIN refs : refs'[r] = refs[r]
       /\ refs' # <<>>
  <2>1. refs \in Seq(PageRefs) /\ Len(refs) \in Nat /\ DOMAIN refs = 1 .. Len(refs)
    BY <1>1, QueueDomain DEF PagesTypeOK
  <2>2. /\ refs' \in Seq(PageRefs) /\ DOMAIN refs' = 1 .. Len(refs) + 1
        /\ refs'[Len(refs) + 1] = new
        /\ \A r \in 1 .. Len(refs) : refs'[r] = refs[r]
    BY <1>5, <1>12, <2>1
  <2> QED  BY <2>1, <2>2
<1>14. CoreInv' /\ CoreGrows /\ core'[1].live  BY <1>1, <1>5, CoreStays
<1>15. PagesTypeOK'  BY <1>1, <1>5, <1>9, <1>13 DEF PagesTypeOK
<1>16. ObjInv'  BY <1>1, <1>5, <1>14, ObjsStay DEF Serving
<1>17. LifeInv'
  BY <1>5, <1>7, <1>8, <1>9, <1>13 DEF LifeInv, Shifted, Live, InPlay
<1>18. MapInv'  BY <1>5, <1>7, <1>13 DEF MapInv
<1>19. \A g, q : Pinning(g, q) => Pinning(g, q)'  BY <1>5 DEF Pinning, Kept
<1>20. RefInv'
  <2>1. ASSUME NEW r \in DOMAIN refs', NEW g, g = refs'[r].handle, NEW q, q = refs'[r].names
        PROVE  /\ Holds(g, q)
               /\ IsPage(q)
               /\ refs'[r].number = q.number
               /\ refs'[r].epoch <= epoch
               /\ q.kind = "page" =>
                    /\ q.id <= epoch
                    /\ ReadsFlushed \/ q.id = refs'[r].epoch
               /\ refs'[r].page \in {0} \cup DOMAIN objs
               /\ q.kind = "derived" => Pinning(g, q)'
    <3>1. CASE r \in DOMAIN refs
      <4>1. refs'[r] = refs[r]  BY <1>13, <3>1
      <4>2. q.kind = "derived" => Pinning(g, q)  BY <1>7, <2>1, <3>1, <4>1 DEF RefInv
      <4> QED  BY <1>7, <1>19, <2>1, <3>1, <4>1, <4>2 DEF RefInv
    <3>2. CASE r = Len(refs) + 1
      <4>1. refs'[r] = new /\ g = h /\ q = p  BY <1>4, <1>13, <2>1, <3>2
      <4> QED  BY <1>4, <1>10, <1>11, <1>19, <4>1
    <3> QED  BY <1>13, <3>1, <3>2
  <2> QED  BY <1>5, <2>1 DEF RefInv, Holds
<1>21. AnnotsInv'  BY <1>1, <1>5, <1>6, <1>7, <1>19, AnnotsShift
<1>22. FreeInv'
  <2>1. \A job : MeantForPage(job) => MeantForPage(job)'  BY <1>5 DEF MeantForPage
  <2> QED  BY <1>1, <1>5, <1>6, <1>7, <2>1, FreesShift
<1>23. ReplyInv'  BY <1>1, <1>5, <1>6, <1>7, <1>8, RepliesEnd
<1>24. ~released /\ ~ReadsFlushed => CurrentInv'
  <2> SUFFICES ASSUME CurrentInv PROVE CurrentInv'  BY <1>1, <1>5 DEF Serving
  <2>1. \A q : InTheList(q) => InTheList(q)'  BY <1>5 DEF InTheList
  <2>2. ASSUME NEW r \in DOMAIN refs', NEW q, q = refs'[r].page, q # 0
        PROVE  objs[q].names = refs'[r].names /\ InTheList(q)
    BY <1>4, <1>13, <2>2 DEF CurrentInv
  <2> QED  BY <1>5, <2>1, <2>2 DEF CurrentInv
<1>25. ~released => LeakInv'
  <2> SUFFICES ASSUME ~released, NEW i \in DOMAIN core, core[i].live,
                      core[i].page.kind = "derived"
               PROVE  Remembered(i)'
    BY <1>5 DEF LeakInv
  <2>1. Remembered(i)  BY <1>1 DEF Serving, LeakInv
  <2>2. ~Running("crop")  BY <1>6 DEF Running
  <2>3. ASSUME NEW k \in DOMAIN queue, queue[k].op = "free", queue[k].meant = i
        PROVE  Remembered(i)'
    <3>1. k # 1  BY <1>6, <2>3
    <3>2. k - 1 \in DOMAIN queue' /\ queue'[k - 1] = queue[k]  BY <1>9, <3>1 DEF Shifted
    <3> QED  BY <2>3, <3>2 DEF Remembered
  <2>4. ASSUME NEW o \in DOMAIN objs, objs[o].names = core[i].page, objs[o].parent # 0,
               Live(o) \/ Watched(o)
        PROVE  Remembered(i)'
    BY <1>5, <2>4 DEF Remembered, Live, Watched
  <2> QED  BY <2>1, <2>2, <2>3, <2>4 DEF Remembered
<1> QED
  BY <1>14, <1>15, <1>16, <1>17, <1>18, <1>20, <1>21, <1>22, <1>23, <1>24, <1>25, <1>5
  DEF PagesInv, Serving

(***************************************************************************)
(* #derive: the page object of a derived page, which is the first.          *)
(***************************************************************************)
LEMMA CropEndKeepsInv ==
    ASSUME PagesInv, core[1].live, CropEnd
    PROVE  PagesInv'
<1>1. CoreInv /\ PagesTypeOK /\ Serving  BY DEF PagesInv
<1>2. PICK h : h = reply.handles[1]  OBVIOUS
<1>3. PICK parent : parent = Head(queue).page  OBVIOUS
<1>4. PICK new : new = NewPage(h, parent)  OBVIOUS
<1>5. PICK o : o = Len(objs) + 1  OBVIOUS
<1>6. /\ Ends("crop") /\ Done
      /\ objs' = Append(objs, new)
      /\ weak' = With(weak, h, o)
      /\ UNCHANGED <<closed, core, refs, array, byHandle, current, epoch, released, document>>
  BY <1>2, <1>3, <1>4, <1>5 DEF CropEnd, Derived, python
<1>7. ObjInv /\ LifeInv /\ MapInv /\ RefInv /\ AnnotsInv /\ FreeInv /\ ReplyInv
  BY <1>1 DEF Serving
<1>8. /\ queue # <<>> /\ 1 \in DOMAIN queue /\ queue[1].op = "crop" /\ Running("crop")
      /\ parent = queue[1].page
  BY <1>1, <1>3, <1>6, HeadIsFirst DEF Ends, Running
<1>9. closed = epoch /\ InPlay  BY <1>7, <1>8 DEF ReplyInv, Running, LifeInv
<1>10. /\ Shifted /\ queue' \in Seq(PageJobs)
       /\ reply' \in Replies /\ ~reply'.made
  BY <1>1, <1>6, <1>8, Ending
<1>11. parent \in DOMAIN objs /\ parent \in Nat /\ parent # 0
  <2>1. parent \in DOMAIN objs  BY <1>7, <1>8 DEF LifeInv
  <2> QED  BY <1>1, <2>1, QueueDomain
\* The page of the answer.
<1>12. PICK i \in DOMAIN core :
         /\ core[i].live /\ core[i].handle = h
         /\ core[i].page.kind = "derived"
         /\ \A q \in DOMAIN objs : objs[q].names # core[i].page
         /\ \A r \in DOMAIN refs : refs[r].names # core[i].page
  BY <1>2, <1>7, <1>8 DEF ReplyInv, NewDerived
<1>13. PICK p : p = core[i].page  OBVIOUS
<1>14. Holds(h, p) /\ p.kind = "derived" /\ IsPage(p) /\ p.id < Len(core) /\ h \in Nat
  <2>1. Holds(h, p)  BY <1>12, <1>13 DEF Holds, HoldsIn
  <2>2. p.id = i - 1 /\ p.number \in Numbers  BY <1>1, <1>12, <1>13 DEF CoreInv
  <2>3. p.id < Len(core)  BY <1>1, <1>12, <2>2, CoreDomain
  <2> QED  BY <1>1, <1>12, <1>13, <2>1, <2>2, <2>3, HoldsGives DEF IsPage
<1>15. /\ new \in PageObjects /\ new.handle = h /\ new.parent = parent /\ new.names = p
       /\ new.state = "live" /\ new.registered
  BY <1>1, <1>4, <1>11, <1>14, NewPageIs
<1>16. /\ ObjsGrow /\ objs'[o] = new /\ o \in Nat /\ o # 0
       /\ DOMAIN objs' = DOMAIN objs \cup {o} /\ o \notin DOMAIN objs
  <2>1. /\ ObjsGrow /\ NewObjs = {o} /\ objs'[o] = new /\ o \in Nat /\ o # 0
        /\ DOMAIN objs' = DOMAIN objs \cup {o}
    BY <1>1, <1>5, <1>6, <1>15, OneMore DEF Serving
  <2> QED  BY <2>1 DEF NewObjs
<1>17. /\ \A q \in DOMAIN objs : objs[q].names # p
       /\ \A r \in DOMAIN refs : refs[r].names # p
  BY <1>12, <1>13
<1>18. /\ \A q \in DOMAIN objs : (Live(q)' <=> Live(q)) /\ (Watched(q)' <=> Watched(q))
       /\ \A q : q # p /\ Kept(q) => Kept(q)'
  BY <1>15, <1>16 DEF Live, Watched, Kept, ObjsGrow
<1>19. /\ DOMAIN weak' = DOMAIN weak \cup {h} /\ weak'[h] = o
       /\ \A g \in DOMAIN weak : g # h => weak'[g] = weak[g]
       /\ weak' = [g \in DOMAIN weak' |-> weak'[g]]
  BY <1>6 DEF With
<1>20. CoreInv' /\ CoreGrows /\ core'[1].live  BY <1>1, <1>6, CoreStays
<1>21. /\ \A g \in DOMAIN weak : weak[g] \in DOMAIN objs
       /\ \A g \in DOMAIN byHandle : byHandle[g] \in DOMAIN objs
       /\ \A n \in DOMAIN current : current[n] \in DOMAIN objs
       /\ \A n \in DOMAIN array : array[n] \in DOMAIN objs
  BY <1>1 DEF PagesTypeOK
<1>22. PagesTypeOK'
  <2>1. weak' \in [DOMAIN weak' -> DOMAIN objs']
    <3>1. \A g \in DOMAIN weak' : weak'[g] \in DOMAIN objs'  BY <1>16, <1>19, <1>21
    <3> QED  BY <1>19, <3>1
  <2>2. DOMAIN weak' \subseteq Nat  BY <1>1, <1>14, <1>19 DEF PagesTypeOK
  <2>3. /\ array \in {<<>>} \cup [Numbers -> DOMAIN objs']
        /\ byHandle \in [DOMAIN byHandle -> DOMAIN objs']
        /\ current \in [DOMAIN current -> DOMAIN objs']
    BY <1>1, <1>16 DEF PagesTypeOK
  <2> QED  BY <1>1, <1>6, <1>10, <1>16, <2>1, <2>2, <2>3 DEF PagesTypeOK, ObjsGrow
<1>23. ObjInv'
  <2>1. ASSUME NEW q \in DOMAIN objs', NEW names, names = objs'[q].names
        PROVE  /\ Live(q)' \/ Watched(q)' => Holds(objs'[q].handle, names)
               /\ IsPage(names)
               /\ names.kind = "page" => names.id <= epoch
               /\ names.kind = "derived" => names.id < Len(core)
               /\ objs'[q].parent # 0 => names.kind = "derived"
               /\ objs'[q].registered => objs'[q].parent # 0
               /\ names.kind = "derived" /\ objs'[q].parent = 0 => released /\ Kept(names)'
    <3>1. CASE q \in DOMAIN objs
      <4>1. names = objs[q].names /\ names # p  BY <1>16, <1>17, <2>1, <3>1 DEF ObjsGrow
      <4> QED  BY <1>7, <1>16, <1>18, <3>1, <4>1 DEF ObjInv, ObjsGrow
    <3>2. CASE q = o
      <4>1. names = p /\ objs'[q] = new  BY <1>15, <1>16, <2>1, <3>2
      <4> QED  BY <1>11, <1>14, <1>15, <4>1
    <3> QED  BY <1>16, <3>1, <3>2
  <2>2. ASSUME NEW q \in DOMAIN objs', NEW c \in DOMAIN objs',
               objs'[q].parent # 0, objs'[c].parent # 0, objs'[q].names = objs'[c].names
        PROVE  q = c
    <3>1. CASE q \in DOMAIN objs /\ c \in DOMAIN objs
      BY <1>7, <1>16, <2>2, <3>1 DEF ObjInv, ObjsGrow
    <3>2. \A d \in DOMAIN objs : objs'[d].names # objs'[o].names
      BY <1>15, <1>16, <1>17 DEF ObjsGrow
    <3> QED  BY <1>16, <2>2, <3>1, <3>2
  <2> QED  BY <1>6, <2>1, <2>2 DEF ObjInv, Holds
<1>24. LifeInv'
  <2>1. \A q \in DOMAIN objs' : objs'[q].held => objs'[q].state = "live"
    BY <1>15, <1>16 DEF ObjsGrow, Live
  <2>2. ASSUME NEW k \in DOMAIN queue', NEW job, job = queue'[k]
        PROVE  /\ job.op \in {"crop", "page_annots"} =>
                    job.page \in DOMAIN objs' /\ objs'[job.page].state = "live"
               /\ job.op = "page" => job.ref \in DOMAIN refs
    <3>1. k + 1 \in DOMAIN queue /\ job = queue[k + 1]  BY <1>10, <2>2 DEF Shifted
    <3>2. /\ job.op \in {"crop", "page_annots"} => job.page \in DOMAIN objs /\ Live(job.page)
          /\ job.op = "page" => job.ref \in DOMAIN refs
      BY <1>7, <3>1 DEF LifeInv
    <3> QED  BY <1>16, <3>2 DEF ObjsGrow, Live
  <2>3. /\ \A n \in DOMAIN array : objs'[array[n]].state = "live"
        /\ \A g \in DOMAIN byHandle : objs'[byHandle[g]].state = "live"
        /\ \A n \in DOMAIN current : objs'[current[n]].state = "live"
    BY <1>7, <1>9, <1>16, <1>21 DEF LifeInv, ObjsGrow, Live
  <2> QED  BY <1>6, <1>9, <2>1, <2>2, <2>3 DEF LifeInv, Live, InPlay
<1>25. MapInv'
  <2>1. \A g \in DOMAIN byHandle :
          objs'[byHandle[g]].handle = g /\ ~objs'[byHandle[g]].registered
    BY <1>7, <1>16, <1>21 DEF MapInv, ObjsGrow
  <2>2. \A g \in DOMAIN weak' : objs'[weak'[g]].handle = g
    <3> SUFFICES ASSUME NEW g \in DOMAIN weak' PROVE objs'[weak'[g]].handle = g
      OBVIOUS
    <3>1. CASE g = h  BY <1>15, <1>16, <1>19, <3>1
    <3>2. CASE g # h
      <4>1. g \in DOMAIN weak /\ weak'[g] = weak[g]  BY <1>19, <3>2
      <4> QED  BY <1>7, <1>16, <1>21, <4>1 DEF MapInv, ObjsGrow
    <3> QED  BY <3>1, <3>2
  <2>3. ASSUME ~released, NEW q \in DOMAIN objs', objs'[q].parent # 0, ~objs'[q].registered
        PROVE  /\ objs'[q].handle \in DOMAIN byHandle /\ byHandle[objs'[q].handle] = q
               /\ refs # <<>> \/ \E k \in DOMAIN queue' : queue'[k].op = "page_annots"
    <3>1. q \in DOMAIN objs  BY <1>15, <1>16, <2>3
    <3>2. objs[q].parent # 0 /\ ~objs[q].registered /\ objs'[q].handle = objs[q].handle
      BY <1>16, <2>3, <3>1 DEF ObjsGrow
    <3>3. /\ objs[q].handle \in DOMAIN byHandle /\ byHandle[objs[q].handle] = q
          /\ refs # <<>> \/ \E k \in DOMAIN queue : queue[k].op = "page_annots"
      BY <1>7, <2>3, <3>1, <3>2 DEF MapInv
    <3>4. ASSUME NEW k \in DOMAIN queue, queue[k].op = "page_annots"
          PROVE  \E m \in DOMAIN queue' : queue'[m].op = "page_annots"
      <4>1. k # 1  BY <1>8, <3>4
      <4>2. k - 1 \in DOMAIN queue' /\ queue'[k - 1] = queue[k]  BY <1>10, <4>1 DEF Shifted
      <4> QED  BY <3>4, <4>2
    <3> QED  BY <3>2, <3>3, <3>4
  <2> QED  BY <1>6, <2>1, <2>2, <2>3 DEF MapInv
<1>26. \A g, q : q # p /\ Pinning(g, q) => Pinning(g, q)'
  BY <1>6, <1>16, <1>18, <1>21 DEF Pinning, ObjsGrow
<1>27. RefInv'
  <2>1. ASSUME NEW r \in DOMAIN refs, NEW g, g = refs[r].handle, NEW q, q = refs[r].names
        PROVE  /\ Holds(g, q)
               /\ IsPage(q)
               /\ refs[r].number = q.number
               /\ refs[r].epoch <= epoch
               /\ q.kind = "page" =>
                    /\ q.id <= epoch
                    /\ ReadsFlushed \/ q.id = refs[r].epoch
               /\ refs[r].page \in {0} \cup DOMAIN objs'
               /\ q.kind = "derived" => Pinning(g, q)'
    BY <1>7, <1>16, <1>17, <1>26, <2>1 DEF RefInv
  <2> QED  BY <1>6, <2>1 DEF RefInv, Holds
<1>28. AnnotsInv'
  <2>1. \A g, q : q.kind = "derived" /\ (\E c \in DOMAIN objs : objs[c].names = q)
                    /\ Pinning(g, q) => Pinning(g, q)'
    BY <1>17, <1>26
  <2> QED  BY <1>1, <1>6, <1>7, <1>8, <1>16, <2>1, AnnotsShift DEF ObjsGrow
<1>29. FreeInv'
  <2>1. \A job : MeantForPage(job) => MeantForPage(job)'
    BY <1>6, <1>16 DEF MeantForPage, ObjsGrow
  <2> QED  BY <1>1, <1>6, <1>7, <1>8, <2>1, FreesShift
<1>30. ReplyInv'  BY <1>1, <1>6, <1>7, <1>8, <1>9, RepliesEnd
<1>31. ~released /\ ~ReadsFlushed => CurrentInv'
  <2> SUFFICES ASSUME CurrentInv PROVE CurrentInv'  BY <1>1, <1>6 DEF Serving
  <2>1. ASSUME NEW q \in DOMAIN objs, InTheList(q)  PROVE InTheList(q)'
    BY <1>6, <1>16, <2>1 DEF InTheList, ObjsGrow
  <2>2. \A n \in DOMAIN current : objs'[current[n]].names = ListPage(epoch, n)
    BY <1>16, <1>21 DEF CurrentInv, ObjsGrow
  <2>3. \A g \in DOMAIN byHandle : InTheList(byHandle[g])'
    BY <1>6, <1>21, <2>1 DEF CurrentInv
  <2>4. \A g \in DOMAIN weak' : objs'[weak'[g]].names.kind = "page" =>
                                  objs'[weak'[g]].names.id < epoch
    <3> SUFFICES ASSUME NEW g \in DOMAIN weak', objs'[weak'[g]].names.kind = "page"
                 PROVE  objs'[weak'[g]].names.id < epoch
      OBVIOUS
    <3>1. g # h  BY <1>14, <1>15, <1>16, <1>19
    <3>2. g \in DOMAIN weak /\ weak'[g] = weak[g]  BY <1>19, <3>1
    <3>3. objs'[weak'[g]].names = objs[weak[g]].names  BY <1>16, <1>21, <3>2 DEF ObjsGrow
    <3> QED  BY <3>2, <3>3 DEF CurrentInv
  <2>5. ASSUME NEW r \in DOMAIN refs, NEW q, q = refs[r].page, q # 0
        PROVE  objs'[q].names = refs[r].names /\ InTheList(q)'
    <3>1. q \in DOMAIN objs /\ objs[q].names = refs[r].names /\ InTheList(q)
      BY <1>7, <2>5 DEF RefInv, CurrentInv
    <3> QED  BY <1>16, <2>1, <3>1 DEF ObjsGrow
  <2>6. array # <<>> => array = current  BY DEF CurrentInv
  <2> QED  BY <1>6, <2>2, <2>3, <2>4, <2>5, <2>6 DEF CurrentInv
<1>32. ~released => LeakInv'
  <2> SUFFICES ASSUME ~released, NEW k \in DOMAIN core, core[k].live,
                      core[k].page.kind = "derived"
               PROVE  Remembered(k)'
    BY <1>6 DEF LeakInv
  <2>1. Remembered(k)  BY <1>1 DEF Serving, LeakInv
  <2>2. ASSUME NEW m \in DOMAIN queue, queue[m].op = "free", queue[m].meant = k
        PROVE  Remembered(k)'
    <3>1. m # 1  BY <1>8, <2>2
    <3>2. m - 1 \in DOMAIN queue' /\ queue'[m - 1] = queue[m]  BY <1>10, <3>1 DEF Shifted
    <3> QED  BY <2>2, <3>2 DEF Remembered
  <2>3. ASSUME NEW q \in DOMAIN objs, objs[q].names = core[k].page, objs[q].parent # 0,
               Live(q) \/ Watched(q)
        PROVE  Remembered(k)'
    BY <1>6, <1>16, <1>18, <2>3 DEF Remembered, ObjsGrow
  <2>4. ASSUME reply.handles[1] = core[k].handle
        PROVE  Remembered(k)'
    <3>1. k = i  BY <1>1, <1>2, <1>12, <2>4 DEF CoreInv
    <3>2. objs'[o].names = core[k].page /\ objs'[o].parent # 0 /\ objs'[o].state = "live"
      BY <1>11, <1>13, <1>15, <1>16, <3>1
    <3> QED  BY <1>6, <1>16, <3>2 DEF Remembered, Live
  <2> QED  BY <2>1, <2>2, <2>3, <2>4 DEF Remembered
<1> QED
  BY <1>20, <1>22, <1>23, <1>24, <1>25, <1>27, <1>28, <1>29, <1>30, <1>31, <1>32, <1>6
  DEF PagesInv, Serving

(***************************************************************************)
(* close(): the pages of the list are only named, the derived ones kept.    *)
(***************************************************************************)
LEMMA CloseEndKeepsInv ==
    ASSUME PagesInv, core[1].live, CloseEnd
    PROVE  PagesInv'
<1>1. CoreInv /\ PagesTypeOK /\ Serving  BY DEF PagesInv
<1>2. PICK mine : mine = {h \in DOMAIN byHandle : objs[byHandle[h]].parent = 0}  OBVIOUS
<1>3. /\ Ends("close") /\ Done
      /\ byHandle' = Restrict(byHandle, DOMAIN byHandle \ mine)
      /\ weak' = WithAll(weak, Restrict(byHandle, mine))
      /\ array' = <<>> /\ current' = <<>> /\ epoch' = epoch + 1
      /\ UNCHANGED <<closed, core, objs, refs, released, document>>
  BY <1>2 DEF CloseEnd, NoneCurrent, python
<1>4. ObjInv /\ LifeInv /\ MapInv /\ RefInv /\ AnnotsInv /\ FreeInv /\ ReplyInv
  BY <1>1 DEF Serving
<1>5. /\ queue # <<>> /\ 1 \in DOMAIN queue /\ queue[1].op = "close" /\ Running("close")
  BY <1>1, <1>3, HeadIsFirst DEF Ends, Running
<1>6. closed = epoch + 1 /\ InPlay  BY <1>4, <1>5 DEF ReplyInv, LifeInv
<1>7. /\ Shifted /\ queue' \in Seq(PageJobs)
      /\ reply' \in Replies /\ ~reply'.made
  BY <1>1, <1>3, <1>5, Ending
<1>8. epoch \in Nat /\ epoch' \in Nat  BY <1>1, <1>3 DEF PagesTypeOK
<1>9. CoreInv' /\ CoreGrows /\ core'[1].live  BY <1>1, <1>3, CoreStays
\* The maps.
<1>10. /\ DOMAIN byHandle' = DOMAIN byHandle \ mine
       /\ \A h \in DOMAIN byHandle' : byHandle'[h] = byHandle[h]
       /\ byHandle' = [h \in DOMAIN byHandle' |-> byHandle'[h]]
  BY <1>3 DEF Restrict
<1>11. /\ DOMAIN weak' = DOMAIN weak \cup mine
       /\ \A h \in DOMAIN weak' : weak'[h] = IF h \in mine THEN byHandle[h] ELSE weak[h]
       /\ weak' = [h \in DOMAIN weak' |-> weak'[h]]
  <2>1. PICK flushed : flushed = Restrict(byHandle, mine)  OBVIOUS
  <2>2. DOMAIN flushed = mine /\ \A h \in mine : flushed[h] = byHandle[h]
    BY <2>1 DEF Restrict
  <2>3. weak' = WithAll(weak, flushed)  BY <1>3, <2>1
  <2> QED  BY <2>2, <2>3 DEF WithAll
<1>12. /\ mine \subseteq DOMAIN byHandle
       /\ \A h \in DOMAIN byHandle : h \in mine <=> objs[byHandle[h]].parent = 0
  BY <1>2
<1>13. /\ \A h \in DOMAIN byHandle : byHandle[h] \in DOMAIN objs
       /\ \A h \in DOMAIN weak : weak[h] \in DOMAIN objs
  BY <1>1 DEF PagesTypeOK
<1>14. DOMAIN array' = {} /\ DOMAIN current' = {}  BY <1>3
<1>15. PagesTypeOK'
  <2>1. byHandle' \in [DOMAIN byHandle' -> DOMAIN objs]
    BY <1>10, <1>13
  <2>2. weak' \in [DOMAIN weak' -> DOMAIN objs]
    BY <1>11, <1>12, <1>13
  <2>3. DOMAIN byHandle' \subseteq Nat /\ DOMAIN weak' \subseteq Nat
    BY <1>1, <1>10, <1>11, <1>12 DEF PagesTypeOK
  <2>4. current' \in [DOMAIN current' -> DOMAIN objs]  BY <1>3, <1>14
  <2> QED  BY <1>1, <1>3, <1>7, <1>8, <1>14, <2>1, <2>2, <2>3, <2>4 DEF PagesTypeOK
<1>16. /\ \A o \in DOMAIN objs : objs[o].names.kind = "page" =>
            objs[o].names.id <= epoch + 1 /\ objs[o].names.id < epoch + 1
       /\ \A r \in DOMAIN refs :
            /\ refs[r].epoch <= epoch + 1
            /\ refs[r].names.kind = "page" => refs[r].names.id <= epoch + 1
  <2>1. \A o \in DOMAIN objs : objs[o].names.kind = "page" =>
            objs[o].names.id <= epoch + 1 /\ objs[o].names.id < epoch + 1
    <3> SUFFICES ASSUME NEW o \in DOMAIN objs, objs[o].names.kind = "page"
                 PROVE  objs[o].names.id <= epoch + 1 /\ objs[o].names.id < epoch + 1
      OBVIOUS
    <3>1. objs[o].names.id \in Nat /\ objs[o].names.id <= epoch
      BY <1>1, <1>4, FieldTypes DEF ObjInv
    <3> QED  BY <1>8, <3>1
  <2>2. ASSUME NEW r \in DOMAIN refs
        PROVE  /\ refs[r].epoch <= epoch + 1
               /\ refs[r].names.kind = "page" => refs[r].names.id <= epoch + 1
    <3>1. /\ refs[r].epoch \in Nat /\ refs[r].names.id \in Nat
          /\ refs[r].epoch <= epoch
          /\ refs[r].names.kind = "page" => refs[r].names.id <= epoch
      BY <1>1, <1>4, FieldTypes DEF RefInv
    <3> QED  BY <1>8, <3>1
  <2> QED  BY <2>1, <2>2
<1>17. ObjInv'
  BY <1>3, <1>4, <1>16 DEF ObjInv, Live, Watched, Kept, Holds
<1>18. LifeInv'
  <2>1. \A h \in DOMAIN byHandle' : objs'[byHandle'[h]].state = "live"
    BY <1>3, <1>4, <1>6, <1>10 DEF LifeInv, Live
  <2>2. ASSUME NEW k \in DOMAIN queue', NEW job, job = queue'[k]
        PROVE  /\ job.op \in {"crop", "page_annots"} =>
                    job.page \in DOMAIN objs' /\ objs'[job.page].state = "live"
               /\ job.op = "page" => job.ref \in DOMAIN refs
    <3>1. k + 1 \in DOMAIN queue /\ job = queue[k + 1]  BY <1>7, <2>2 DEF Shifted
    <3> QED  BY <1>3, <1>4, <3>1 DEF LifeInv, Live
  <2>3. \A o \in DOMAIN objs' : objs'[o].held => objs'[o].state = "live"
    BY <1>3, <1>4 DEF LifeInv, Live
  <2> QED  BY <1>3, <1>6, <1>14, <2>1, <2>2, <2>3 DEF LifeInv, Live, InPlay
<1>19. MapInv'
  <2>1. \A h \in DOMAIN byHandle' :
          objs[byHandle'[h]].handle = h /\ ~objs[byHandle'[h]].registered
    BY <1>4, <1>10 DEF MapInv
  <2>2. \A h \in DOMAIN weak' : objs[weak'[h]].handle = h
    BY <1>4, <1>11, <1>12 DEF MapInv
  <2>3. ASSUME ~released, NEW o \in DOMAIN objs, objs[o].parent # 0, ~objs[o].registered
        PROVE  /\ objs[o].handle \in DOMAIN byHandle' /\ byHandle'[objs[o].handle] = o
               /\ refs # <<>> \/ \E i \in DOMAIN queue' : queue'[i].op = "page_annots"
    <3>1. /\ objs[o].handle \in DOMAIN byHandle /\ byHandle[objs[o].handle] = o
          /\ refs # <<>> \/ \E i \in DOMAIN queue : queue[i].op = "page_annots"
      BY <1>4, <2>3 DEF MapInv
    <3>2. objs[o].handle \notin mine  BY <1>12, <2>3, <3>1
    <3>3. ASSUME NEW i \in DOMAIN queue, queue[i].op = "page_annots"
          PROVE  \E k \in DOMAIN queue' : queue'[k].op = "page_annots"
      <4>1. i # 1  BY <1>5, <3>3
      <4>2. i - 1 \in DOMAIN queue' /\ queue'[i - 1] = queue[i]  BY <1>7, <4>1 DEF Shifted
      <4> QED  BY <3>3, <4>2
    <3> QED  BY <1>10, <3>1, <3>2, <3>3
  <2> QED  BY <1>3, <2>1, <2>2, <2>3 DEF MapInv
<1>20. ASSUME NEW g, NEW p, p.kind = "derived", Pinning(g, p)
       PROVE  Pinning(g, p)'
  <2>1. ASSUME ~released
        PROVE  g \in DOMAIN byHandle' /\ objs[byHandle'[g]].names = p
    <3>1. g \in DOMAIN byHandle /\ objs[byHandle[g]].names = p  BY <1>20, <2>1 DEF Pinning
    <3>2. objs[byHandle[g]].parent # 0  BY <1>4, <1>13, <1>20, <2>1, <3>1 DEF ObjInv
    <3> QED  BY <1>10, <1>12, <3>1, <3>2
  <2> QED  BY <1>3, <1>20, <2>1 DEF Pinning, Kept
<1>21. RefInv'
  <2>1. ASSUME NEW r \in DOMAIN refs, NEW g, g = refs[r].handle, NEW q, q = refs[r].names
        PROVE  /\ Holds(g, q)
               /\ IsPage(q)
               /\ refs[r].number = q.number
               /\ refs[r].epoch <= epoch'
               /\ q.kind = "page" =>
                    /\ q.id <= epoch'
                    /\ ReadsFlushed \/ q.id = refs[r].epoch
               /\ refs[r].page \in {0} \cup DOMAIN objs
               /\ q.kind = "derived" => Pinning(g, q)'
    <3>1. q.kind = "derived" => Pinning(g, q)  BY <1>4, <2>1 DEF RefInv
    <3> QED  BY <1>3, <1>4, <1>16, <1>20, <2>1, <3>1 DEF RefInv
  <2> QED  BY <1>3, <2>1 DEF RefInv, Holds
<1>22. AnnotsInv'
  <2>1. \A g, p : p.kind = "derived" /\ Pinning(g, p) => Pinning(g, p)'  BY <1>20
  <2> QED  BY <1>1, <1>3, <1>4, <1>5, <2>1, AnnotsShift
<1>23. FreeInv'
  <2>1. \A job : MeantForPage(job) => MeantForPage(job)'  BY <1>3 DEF MeantForPage
  <2> QED  BY <1>1, <1>3, <1>4, <1>5, <2>1, FreesShift
<1>24. ReplyInv'  BY <1>1, <1>3, <1>4, <1>5, <1>6, RepliesEnd
<1>25. ~released /\ ~ReadsFlushed => CurrentInv'
  <2> SUFFICES ASSUME CurrentInv PROVE CurrentInv'  BY <1>1, <1>3 DEF Serving
  <2>1. ASSUME NEW o \in DOMAIN objs  PROVE InTheList(o)'
    <3> SUFFICES ASSUME NEW n \in Numbers, objs[o].names = ListPage(epoch + 1, n)
                 PROVE  FALSE
      BY <1>3 DEF InTheList
    <3>1. objs[o].names.kind = "page" /\ objs[o].names.id = epoch + 1  BY DEF ListPage
    <3> QED  BY <1>8, <1>16, <3>1
  <2>2. ASSUME NEW h \in DOMAIN weak', objs[weak'[h]].names.kind = "page"
        PROVE  objs[weak'[h]].names.id < epoch + 1
    <3>1. weak'[h] \in DOMAIN objs  BY <1>11, <1>12, <1>13
    <3> QED  BY <1>16, <2>2, <3>1
  <2>3. ASSUME NEW h \in DOMAIN byHandle', NEW o, o = byHandle'[h]  PROVE InTheList(o)'
    BY <1>10, <1>13, <2>1, <2>3
  <2>4. ASSUME NEW r \in DOMAIN refs, NEW o, o = refs[r].page, o # 0
        PROVE  objs[o].names = refs[r].names /\ InTheList(o)'
    BY <1>4, <2>1, <2>4 DEF RefInv, CurrentInv
  <2> QED  BY <1>3, <1>14, <2>2, <2>3, <2>4 DEF CurrentInv
<1>26. ~released => LeakInv'
  <2> SUFFICES ASSUME ~released, NEW i \in DOMAIN core, core[i].live,
                      core[i].page.kind = "derived"
               PROVE  Remembered(i)'
    BY <1>3 DEF LeakInv
  <2>1. Remembered(i)  BY <1>1 DEF Serving, LeakInv
  <2>2. ~Running("crop")  BY <1>5 DEF Running
  <2>3. ASSUME NEW k \in DOMAIN queue, queue[k].op = "free", queue[k].meant = i
        PROVE  Remembered(i)'
    <3>1. k # 1  BY <1>5, <2>3
    <3>2. k - 1 \in DOMAIN queue' /\ queue'[k - 1] = queue[k]  BY <1>7, <3>1 DEF Shifted
    <3> QED  BY <2>3, <3>2 DEF Remembered
  <2>4. ASSUME NEW o \in DOMAIN objs, objs[o].names = core[i].page, objs[o].parent # 0,
               Live(o) \/ Watched(o)
        PROVE  Remembered(i)'
    BY <1>3, <2>4 DEF Remembered, Live, Watched
  <2> QED  BY <2>1, <2>2, <2>3, <2>4 DEF Remembered
<1> QED
  BY <1>9, <1>15, <1>17, <1>18, <1>19, <1>21, <1>22, <1>23, <1>24, <1>25, <1>26, <1>3
  DEF PagesInv, Serving

(***************************************************************************)
(* Once the document was freed, nothing runs: objects are given up and      *)
(* collected, other documents take handles.                                *)
(***************************************************************************)
LEMMA GoneObjectsKeepInv ==
    ASSUME PagesInv, ~core[1].live, NEW o, o \in DOMAIN objs, Drop(o) \/ Collect(o) \/ Finalize(o)
    PROVE  PagesInv'
<1>1. CoreInv /\ PagesTypeOK /\ released /\ queue = <<>> /\ ~reply.made
  BY DEF PagesInv, Gone
<1>2. UNCHANGED <<closed, core, queue, reply, refs, maps, released, document>>
  BY <1>1 DEF Drop, Collect, Finalize, Frees, python
<1>3. PICK new : /\ objs' = [objs EXCEPT ![o] = new]
                 /\ \/ new = [objs[o] EXCEPT !.held = FALSE]
                    \/ new = [objs[o] EXCEPT !.state = "collected"]
                    \/ new = [objs[o] EXCEPT !.state = "finalized"]
  BY DEF Drop, Collect, Finalize
<1>4. objs[o] \in PageObjects  BY <1>1, QueueDomain
<1>5. /\ new \in PageObjects
      /\ new.handle = objs[o].handle /\ new.parent = objs[o].parent /\ new.names = objs[o].names
  BY <1>3, <1>4 DEF PageObjects
<1>6. ObjsKept  BY <1>1, <1>3, <1>5, ObjectChanges
<1>7. PagesTypeOK'  BY <1>1, <1>2, <1>6, KeptTypes DEF PagesTypeOK
<1>8. CoreInv'  BY <1>1, <1>2, CoreStays
<1> QED  BY <1>1, <1>2, <1>7, <1>8 DEF PagesInv, Gone

\* No call and no job is left: only the steps that need neither.
LEMMA GoneKeepsInv ==
    ASSUME PagesInv, ~core[1].live, Next
    PROVE  PagesInv'
<1>1. CoreInv /\ PagesTypeOK /\ released /\ queue = <<>> /\ ~reply.made
  BY DEF PagesInv, Gone
<1>2. /\ \A op : ~Starts(op) /\ ~Ends(op)
      /\ ~Call
  BY <1>1 DEF Starts, Ends, Call
<1>3. CASE \E o \in DOMAIN objs : Drop(o) \/ Collect(o) \/ Finalize(o)
  BY <1>3, GoneObjectsKeepInv
<1>4. CASE DropDocument \/ CollectDocument
  <2>1. /\ UNCHANGED <<closed, core, queue, reply, objs, refs, maps, released>>
        /\ document' \in {"dropped", "collected"}
    BY <1>4 DEF DropDocument, CollectDocument, python
  <2>2. PagesTypeOK'  BY <1>1, <2>1 DEF PagesTypeOK, maps
  <2>3. CoreInv'  BY <1>1, <2>1, CoreStays
  <2> QED  BY <1>1, <2>1, <2>2, <2>3 DEF PagesInv, Gone
<1>5. CASE OtherTakes
  <2>1. /\ UNCHANGED <<closed, queue, reply, objs, refs, maps, released, document>>
        /\ core' = Insert(<<Other>>)
    BY <1>5 DEF OtherTakes
  <2>2. CoreInv' /\ CoreGrows  BY <1>1, <2>1, OtherInsertable, InsertKeepsCore
  <2>3. ~core'[1].live  BY <1>1, <2>2, CoreDomain DEF CoreGrows
  <2>4. PagesTypeOK'  BY <1>1, <2>1, TypesStay
  <2> QED  BY <1>1, <2>1, <2>2, <2>3, <2>4 DEF PagesInv, Gone
\* Everything else is a call, or a step of the head of the queue.
<1>6. ~(CallPages \/ CallAnnots \/ CallClose)
  BY <1>2 DEF CallPages, CallAnnots, CallClose, Make, Enqueue
<1>7. /\ \A r \in DOMAIN refs : ~CallPage(r)
      /\ \A o \in DOMAIN objs : ~CallCrop(o) /\ ~CallPageAnnots(o)
  BY <1>2 DEF CallPage, CallCrop, CallPageAnnots, Enqueue
<1>8. ~(PagesAgain \/ PagesStart \/ PagesEnd \/ PageKnown \/ PageStart \/ PageEnd)
  BY <1>2 DEF PagesAgain, PagesStart, PagesEnd, PageKnown, PageStart, PageEnd
<1>9. ~(AnnotsStart \/ PageAnnotsStart \/ AnnotsEnd \/ CropStart \/ CropEnd)
  BY <1>2 DEF AnnotsStart, PageAnnotsStart, AnnotsEnd, CropStart, CropEnd
<1>10. ~(CloseStart \/ CloseEnd \/ Free \/ Release \/ FinalizeDocument)
  BY <1>1, <1>2 DEF CloseStart, CloseEnd, Free, Release, FinalizeDocument
<1> QED
  BY <1>3, <1>4, <1>5, <1>6, <1>7, <1>8, <1>9, <1>10 DEF Next

\* Every step, while the document is in the core.
LEMMA ServingKeepsInv ==
    ASSUME PagesInv, core[1].live, Next
    PROVE  PagesInv'
<1>1. CASE CallPages \/ CallAnnots \/ CallClose  BY <1>1, PlainCallsKeepInv
<1>2. CASE \E r \in DOMAIN refs : CallPage(r)  BY <1>2, CallPageKeepsInv
<1>3. CASE \E o \in DOMAIN objs : CallCrop(o)  BY <1>3, CallCropKeepsInv
<1>4. CASE \E o \in DOMAIN objs : CallPageAnnots(o)  BY <1>4, CallPageAnnotsKeepsInv
<1>5. CASE PagesAgain  BY <1>5, PagesAgainKeepsInv
<1>6. CASE PagesStart  BY <1>6, PagesStartKeepsInv
<1>7. CASE PagesEnd  BY <1>7, PagesEndKeepsInv
<1>8. CASE PageKnown  BY <1>8, PageKnownKeepsInv
<1>9. CASE PageStart  BY <1>9, PageStartKeepsInv
<1>10. CASE PageEnd  BY <1>10, PageEndKeepsInv
<1>11. CASE AnnotsStart \/ PageAnnotsStart  BY <1>11, AnnotsStartKeepsInv
<1>12. CASE AnnotsEnd  BY <1>12, AnnotsEndKeepsInv
<1>13. CASE CropStart  BY <1>13, CropStartKeepsInv
<1>14. CASE CropEnd  BY <1>14, CropEndKeepsInv
<1>15. CASE CloseStart  BY <1>15, CloseStartKeepsInv
<1>16. CASE CloseEnd  BY <1>16, CloseEndKeepsInv
<1>17. CASE Free  BY <1>17, FreeKeepsInv
<1>18. CASE Release \/ FinalizeDocument  BY <1>18, ReleaseKeepsInv
<1>19. CASE \E o \in DOMAIN objs : Drop(o)  BY <1>19, DropKeepsInv
<1>20. CASE DropDocument \/ CollectDocument  BY <1>20, DocumentLeavesInv
<1>21. CASE \E o \in DOMAIN objs : Collect(o)  BY <1>21, CollectKeepsInv
<1>22. CASE \E o \in DOMAIN objs : Finalize(o)  BY <1>22, FinalizeKeepsInv
<1>23. CASE OtherTakes  BY <1>23, OtherTakesKeepsInv
<1> QED
  BY <1>1, <1>2, <1>3, <1>4, <1>5, <1>6, <1>7, <1>8, <1>9, <1>10, <1>11, <1>12, <1>13, <1>14,
     <1>15, <1>16, <1>17, <1>18, <1>19, <1>20, <1>21, <1>22, <1>23
  DEF Next

\* Every step keeps the invariant.
LEMMA PagesInvStep == PagesInv /\ [Next]_vars => PagesInv'
<1> SUFFICES ASSUME PagesInv, [Next]_vars PROVE PagesInv'  OBVIOUS
<1>1. CASE Next /\ core[1].live  BY <1>1, ServingKeepsInv
<1>2. CASE Next /\ ~core[1].live  BY <1>2, GoneKeepsInv
<1>3. CASE UNCHANGED vars
  <2>1. CoreInv /\ PagesTypeOK  BY DEF PagesInv
  <2>2. UNCHANGED <<closed, core, queue, reply, objs, refs, maps, released, document>>
    BY <1>3 DEF vars, python
  <2>3. UNCHANGED <<array, byHandle, weak, current, epoch>>  BY <2>2 DEF maps
  <2>4. CoreInv' /\ CoreGrows  BY <2>1, <2>2, CoreStays
  <2>5. PagesTypeOK'  BY <2>1, <2>2, TypesStay
  <2>6. CASE core[1].live
    <3>1. Serving  BY <2>6 DEF PagesInv
    <3>2. ObjInv' /\ RefInv' /\ ReplyInv'
      BY <2>1, <2>2, <2>3, <2>4, <3>1, ObjsStay, RefsStay, ReplyStays DEF Serving
    <3>3. LifeInv' /\ MapInv' /\ AnnotsInv' /\ FreeInv'
      BY <2>2, <2>3, <2>4, <3>1, LifeStays, MapStays, AnnotsStay, FreeStays DEF Serving
    <3>4. ~released /\ ~ReadsFlushed => CurrentInv'
      BY <2>2, <2>3, <3>1, CurrentStays DEF Serving
    <3>5. ~released => LeakInv'
      BY <2>2, <3>1 DEF Serving, LeakInv, Remembered, Live, Watched, Running
    <3> QED  BY <2>2, <2>4, <2>5, <2>6, <3>2, <3>3, <3>4, <3>5 DEF PagesInv, Serving
  <2>7. CASE ~core[1].live
    BY <2>2, <2>4, <2>5, <2>7 DEF PagesInv, Gone
  <2> QED  BY <2>6, <2>7
<1> QED  BY <1>1, <1>2, <1>3

(***************************************************************************)
(* The invariant of the documents and pages of the API: every reachable     *)
(* state of `Spec` keeps it.                                               *)
(***************************************************************************)
THEOREM PagesInvariant == Spec => []PagesInv
<1>1. PagesInv /\ [Next]_vars => PagesInv'  BY PagesInvStep
<1> QED  BY PagesInvInit, <1>1, PTL DEF Spec

(***************************************************************************)
(* The handle of a page object that was not collected is that of its page.  *)
(***************************************************************************)
THEOREM PagesHandlesKept == Spec => []HandlesKeepTheirPages
<1>1. PagesInv => HandlesKeepTheirPages  BY PagesInvGives
<1> QED  BY PagesInvariant, <1>1, PTL

(***************************************************************************)
(* A queued free reaches the page whose finalizer made it, or the document: *)
(* never an object made under the same handle since.                       *)
(***************************************************************************)
THEOREM PagesFreesItsOwn == Spec => []FreesItsOwn
<1>1. PagesInv => FreesItsOwn  BY PagesInvGives
<1> QED  BY PagesInvariant, <1>1, PTL

(***************************************************************************)
(* While the document is in the core and not released, each derived page of *)
(* the core has an object that lives or is to be finalized, or a free to    *)
(* come, or is the answer of the running job.                              *)
(***************************************************************************)
THEOREM PagesNothingLeaks == Spec => []NothingLeaks
<1>1. PagesInv => NothingLeaks  BY PagesInvGives
<1> QED  BY PagesInvariant, <1>1, PTL

(***************************************************************************)
(* If no annotations are read of pages of a flushed list, the array and the *)
(* current pages of the document are the pages of Python's list.            *)
(***************************************************************************)
THEOREM PagesListIsCurrent ==
    ASSUME ~ReadsFlushed
    PROVE  Spec => []PagesAreCurrent
<1>1. PagesInv => PagesAreCurrent  BY PagesInvGives
<1> QED  BY PagesInvariant, <1>1, PTL

(***************************************************************************)
(* Then page(ref) gives the page that the reference names, until release(). *)
(* (The run pages_flushed shows why the hypothesis is needed.)              *)
(***************************************************************************)
THEOREM PagesRefsNameTheirPages ==
    ASSUME ~ReadsFlushed
    PROVE  Spec => []RefsNameTheirPages
<1>1. PagesInv => RefsNameTheirPages  BY PagesInvGives
<1> QED  BY PagesInvariant, <1>1, PTL

(***************************************************************************)
(* And the page it gives of the current list is the one of pdf.pages.       *)
(***************************************************************************)
THEOREM PagesOnePage ==
    ASSUME ~ReadsFlushed
    PROVE  Spec => []SameObject
<1>1. PagesInv => SameObject  BY PagesInvGives
<1> QED  BY PagesInvariant, <1>1, PTL

=============================================================================
