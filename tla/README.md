# pdfplumber.js in TLA+

pdfplumber.js is a port of Python's pdfplumber and pdfminer.six to Rust, compiled
to WebAssembly and driven from JavaScript, which promises to give *what Python
gives*: same values, same object identities, same exceptions, in the same order.
The repository compares what is extracted with CPython on a corpus. What that
hardly reaches is of two kinds, and these modules are about both:

- the machinery that keeps the promise across the language boundary: a core that
  cannot wait for a file JavaScript has to fetch, calls that are undone and run
  again, handles used again, jobs queued behind fetches, workers that die, garbage
  collectors and finalizers;
- the control of the extraction itself, on files of every shape: a process state
  that is taken and put back without being copied, a tokenizer cut by its blocks
  and its streams, cross-reference sections, page trees and forms that refer to
  each other in any way, caches filled by a call that raised half-way.

Contents: [inventory](#inventory), [plan](#plan), [modules](#modules),
[runs](#runs), [fairness](#fairness), [proofs](#proofs), [findings](#findings),
[what is not modelled](#what-is-not-modelled).

## Inventory

Paths are relative to `src/`.

| component | code | state | operations | modelled by |
|---|---|---|---|---|
| handle table | `crates/wasm/src/handles.rs` | slots with a generation and a value, stack of free slots | `insert`, `remove`, `get` | Handles, CoreStateProofs |
| boundary: calls, history, void calls, replay | `crates/wasm/src/ops.rs`, `pages.rs` | handles, identities, history, flags of documents, process state | `call`, `run_op`, `void`, `replay_entry`, `free` | Operations, PythonProcess, Boundary, BoundaryProofs |
| predefined CMaps, scan of fonts | `cmaps.rs`, `cmap_scan.rs` | loaded, unavailable, missing | `cmap_add`, `cmap_unavailable`, `complete`, `scan` | Boundary |
| process state | `crates/pdfminer/src/process_state.rs`, `psparser.rs` (interning), `crates/pycompat` (`specialize.rs`, `re_cache.rs`, ...) | interned symbols as a chain of nodes, patterns, subscriptions, warnings, CMaps, call sites | `capture`, `restore`, every operation | Remembered, Memory, ProcessState, CoreStateProofs; what a call sees of it, in Operations |
| runtime of the page | `js/src/core/runtime.ts` | FIFO of jobs, fetches in the air, CMaps handed over, dead | `call`, `exclusive`, `loadMissing`, `loadAll`, `addCMap`, `guard` | CoreJobs, Serial, Runtime, proofs |
| worker mode | `js/src/worker/*.ts` | requests in wait, messages, worker's instance | `post`, `onmessage`, `handle`, `stop`, `terminate` | CoreJobs, Serial, Worker, proofs |
| opening | `js/src/api.ts` (34-133) | options, promise of the core, module kept | `configure`, `dropCore`, `getCore`, `compileWasm` | Opening, ApiProofs |
| documents and pages | `js/src/api.ts` (`PDFPlumberDocument`) | pages kept and named, current list, epoch, registry | `pages`, `page`, `annots`, derived pages, `close`, `release`, finalizers | Pages, ApiProofs |
| search, structure tree of JavaScript | `js/src/api/`, `js/src/search.ts` | none | adapters over jobs | no |
| platform | `js/src/platform/` | none | fetch, read, start a worker | its failures, in Runtime, Worker, Opening |
| wire formats, ABI | `crates/wasm/src/wire/`, `abi.rs`, `js/src/core/wire.ts` | one buffer per call | encode, decode | no |
| tokenizer, object stack, lines, inline images | `crates/pdfminer/src/psparser.rs`, `pdfinterp.rs` (`PDFContentParser`) | block and place in the file, state and token of `parse1`, stack of open objects | `nexttoken`, `nextobject`, `nextline`, `revreadlines`, `get_inline_data` | PSChars, Lexer, Lexemes, PSParser, PSParserProofs |
| document, page tree, interpreter | `pdfdocument/`, `pdfpage.rs`, `pdfinterp.rs`, `converter.rs` | sections read, objects read, the generator of pages, the interpreters at work, the device | `init`, `getobj`, `create_pages`, `execute` and the operators | Document, XRefs, PageTree, Interpreter, ExtractionProofs |
| PDF and pages | `crates/pdfplumber/src/pdf.rs`, `page.rs` | list of pages, layout of each, file closed | `open`, `pages`, `close`, `Page.objects`, `Page.close` | Extraction, ExtractionReference, FigureReference, ExtractionProofs |
| fonts, CMaps, filters, layout analysis | `crates/pdfminer` | none beyond caches | pure functions of data | no |
| tables, text, structure tree | `crates/pdfplumber` | caches of a page | pure functions of data | no |
| pycompat | `crates/pycompat` | recursion depth, warnings, specialized sites | `leaf`, `py_frames`, `check_c` | what an operation leaves, in Remembered |
| pdftrace, oracle, scripts, corpus, upstream, demo | | | test tooling and data | no |

How they interact. The application calls the API (`api.ts`). Each call of a
document makes a *job* of its core; a job is one request or several, and the core
(`WasmCore`, or `WorkerCore` that forwards to a `WasmCore` in a worker) serves one
job at a time, to its end. A request crosses the boundary into Rust synchronously:
it runs one or more *operations* on objects named by *handles*. If it asked for a
predefined CMap that JavaScript has not handed over, its answer is *void*: Rust
undoes it by replaying the documents it reached, JavaScript fetches the CMap and
makes the request again. Results hold handles, the API wraps them in objects with
identities, keeps some strongly, and frees handles from finalizers, again through
jobs.

What is hard:

- *Undo by replay.* The state a call leaves is everywhere (caches of the
  document, of the process, of the interpreter, handles made, identities given
  out). Whatever a replay does not put back exactly shows much later.
- *Handles used again.* The history, the registry and the finalizers keep names
  of objects longer than the objects live.
- *Asynchrony around a synchronous core.* Fetches outlive the job that asked for
  them and land in the middle of another; any promise may reject; `configure` and
  `dropCore` come between an `await` and its continuation.
- *Crashes.* A trap kills the instance with jobs queued and fetches in the air;
  a worker may die, or be terminated, at any moment.
- *Two ends of the API.* `pages`, `page(ref)`, `close()` are queued; the state
  they are about (`#current`, `#epoch`) changes when they run.
- *Garbage.* Finalizers run at any time, after `release()` too.
- *A memory that is not copied.* The interned symbols of the process are too many to
  copy at each call: a snapshot is one node of a chain that snapshots share, and
  putting one back walks to the node both branches have. What the process has done
  before decides where a `RecursionError` falls, so one symbol too many or too few
  shows as an exception that Python does not raise.
- *Ends of blocks and of streams.* Every state of the tokenizer may be cut by the
  end of a block; a content may go on in another stream; an inline image moves the
  place of the file under the tokenizer.
- *What refers to what.* Sections, nodes of the page tree and forms are numbers in a
  file that anybody wrote: they refer to their ancestors, to nothing, to each other.
- *A call that raises half-way.* `pdf.pages` caches its list before it is filled; a
  form leaves its own CTM on the device; a closed file reads nothing more, but what
  was read stays.

What makes each component correct:

- handle table: a handle reaches its object or nothing; no two live objects share
  a handle; no capacity is lost;
- boundary: JavaScript cannot tell it from one Python process that has every
  CMap and runs each call once;
- CMaps: a void call asks for something new; the history ends;
- runtime, worker: jobs end, all of them, in the order they were made; a CMap is
  fetched once; nothing reaches a dead core;
- opening: options apply to the documents opened afterwards; one live core for the
  same options; failures are not kept;
- documents and pages: an object of the API is the Python object it stands for,
  once; nothing is freed too early, twice, or never;
- process state: an operation ends as it would in a process whose memory is copied
  whole at each capture;
- tokenizer: tokens, objects, lines and images are those of the text, wherever its
  blocks end; the loops advance;
- document, page tree, interpreter, PDF: every call ends; the pages are those of the
  tree, each once, in order, with inherited attributes; figures nest as forms do;
  a page interpreted again has the layout it had.

`PROJECT.json` lists the hazards one by one, each at its line, with the properties
that would catch it.

## Plan

Done, in this order (the most important behaviour first):

1. Handles, with its inductive invariant.
2. Operations (what one operation does to a document and the process, whoever
   runs it), PythonProcess (the abstract specification), Boundary (the detailed
   one) and the refinement between them, proved.
3. CoreJobs (abstract), Serial (the queue), Runtime over Serial, and the proofs.
4. Worker over Serial: the same abstract specification, proved from the same lemmas.
5. Opening, above Runtime and Worker: which core; proofs.
6. Pages, above a document of one core; proofs.
7. Process state: Remembered (what one operation asks and leaves), Memory (a copied
   memory), ProcessState (the shared chain) and the proof of the refinement.
8. The tokenizer (Lexer) and the parser over it (PSParser), against what a text says
   (Lexemes); that its loops advance, proved.
9. Extraction: Document, then XRefs, PageTree and Interpreter over it, composed in
   Extraction, against what a file says (ExtractionReference, FigureReference); proofs.

Next:

1. *Proofs.* `LayoutIsRepeatable`: two interpretations of a page must be related token by
   token, by an interpreter of a page as a function of the objects it is given; what
   the objects are is proved (`ExtractionObjectsAreTheFiles`).
2. *Composition* of Runtime and Boundary: the names a void call asks for and the
   calls it needs come from Boundary, not from a constant; of Boundary and
   ProcessState: the copy of the process that Operations keeps is the snapshot.
3. *Lifetimes of the other objects*: tables, structure trees, streams
   (`streams.rs`, `structs.rs`), tracked as derived pages are.
4. *Pure algorithms*, as recursive functions checked against a reference
   definition over bounded inputs: LZW, RunLength, ASCII85; `Utf16Index`
   (`ops.rs`); clustering and the table finder of pdfplumber.

How the modules compose:

```
Operations --- PythonProcess  (what is promised)
     \--------- Boundary  -INSTANCE-> PythonProcess       MCBoundary
                    \---- BoundaryProofs
Remembered --- Memory  (what is promised)
     \--------- ProcessState -INSTANCE-> Memory           MCProcess
Handles ------------\---- CoreStateProofs (of both)
CoreJobs   <-INSTANCE- Serial --- Runtime  RuntimeProofs  MCRuntime
                          |---- SerialProofs (used by both)
                          \---- Worker   WorkerProofs   MCWorker
Opening --- ApiProofs                                     MCOpening
Pages --------/
PSChars --- Lexer --- PSParser -INSTANCE-> Lexemes        MCParser
                         \---- PSParserProofs
Document --- XRefs, PageTree, Interpreter
                \---- Extraction --- ExtractionReference --- FigureReference  MCExtraction
                                             \---- ExtractionProofs
```

Runtime takes from Boundary only that a request is answered or void, Worker takes
from Runtime only how a request may be answered, Opening takes from both how a
core may start, fail and die, and Pages assumes a core that serves jobs in order
(CoreJobs) and answers as Python does (PythonProcess). Operations takes from
ProcessState that a process put back is the process captured. Extraction is one
document inside the core; it takes its tokens as the parser gives them (PSParser)
and Pages takes from it that a document has a list of pages.

## Modules

### Handles

`Slot`s and the stack `free` are those of `handles.rs`; slot 0 is reserved. A
handle is the record of its two bit fields (`TypeOK` states they are in range, so
packing is injective). `InsertReuse`, `InsertNew`, `InsertRefused` are the three
ways through `insert`; `Remove` is `remove` of a live handle. Ghosts: `issued`
(every handle given out, its object and the lap of its slot) and `laps` (how often
a generation wrapped). `Generations` is 4096 and `MaxHandles` 2^20 - 1 in the code.

### Operations

A document is its *log*: what was done to it since it was opened and what each
operation *saw* (the full CMap or an empty one, a specialized call site or not).
Two documents with one log are in the same state, caches, pages and changes in
place included; so "the replay put it back" is "the log is the same". Six
operations are kept, those that differ in what they share: `text`, `deep`, `pages`,
`annots`, `crop`, `close`. `Do` is one operation of a call (`Core::op`,
`label_page`), used by Boundary for calls and by PythonProcess.

### PythonProcess

One process with every CMap. `Call` runs the operations of a request once, up to
the first that raises. `Lose` lets a document refuse every operation from then on:
the code keeps that escape for documents it can no longer rebuild, and
`OnlyUnrecordedAreLost` says when it may use it.

### Boundary

| TLA+ | code (`crates/wasm/src`) |
|---|---|
| `objects`, `oids`, `nextOid`, `flags`, `history`, `process` | `Core` (`ops.rs`) and `pdfminer::process_state` |
| `loaded`, `unavailable` | `cmaps::State` |
| `Open`, `Free` | `doc_open`, `free` |
| `Begin` (in `Call`, `CallAgain`), `RunOp`, `Respond` | `Core::call`, `run_op`, the answer |
| `Void`, `ReplayOpen`, `ReplayOp`, `EndVoid` | `Core::void`, `replay_entry` |
| `AddCMap`, `HandOver`, `Abandon` | `cmap_add`, `cmap_unavailable`, as the runtime calls them |

The core runs on one thread, so a call, its replay and its end are one step for
JavaScript; they are cut in one action per operation to name them, and nothing is
interleaved (`phase`). JavaScript's part is `pending`: it hands over what a void
call missed and makes the same request again, which is what Runtime models of
`runtime.ts`. `before` is a ghost. A handle is used again as soon as it is free.
`Free` frees derived pages and documents: no member of the API frees a page of
`pdf.pages` alone. The `retain`s and `filter`s of the history are `Selected`: the members
at some places, in their order, as a recursive function (`SelectSeq` is opaque to the
prover).

### CoreJobs, Serial, Runtime

CoreJobs is the interface `Core`: jobs are made, and end in that order. Serial is
class `Serial`: `made`, and for each job the job whose promise it is chained to
(`after`), its stage and outcome. Runtime adds what a started job does:

| TLA+ | `js/src/core/runtime.ts` |
|---|---|
| `Make`, `Start` | `Serial.run`, the chained callback |
| `Answered`, `AnsweredLong`, `Void`, `Traps`, `Refused` | `callNow` and `guard` |
| `RunAgain`, `Lands`, `Fails`, `LandsDead` | `loadMissing`, `addCMap` |
| `LoadedAll`, `MarkTraps` | `loadAll` |
| `wanted`, `loading`, `added`, `flights` | promises awaited, `loading`, `added`, fetches in the air |

A void run may ask for part of what the call needs (a run that goes without a CMap
may not reach the next), plus guesses of the scan.

### Worker

`client.ts` (`Make`, `Start`, `Post`, `PostRefused`, `Deliver`), `worker.ts`
(`Serve`), the two channels (`inbox`, `outbox`), and the three ways a worker ends:
an error event (`WorkerFails`), `terminate`, a reply that says its instance
crashed. Replies posted before a worker was stopped may still arrive, or be lost
(`LoseReplies`).

### Opening

`configure`, `dropCore`, `getCore`, `compileWasm` in worker mode, cut at each
`await`: `OpenShared` waits for the current promise, `Share` or `Replace` is its
continuation, `NewCore` what `getCore` does synchronously to its end. Modules and
cores settle whenever they settle. Histories: `drops`, the core each `dropCore`
found, and with each open and each core how many `configure` and `dropCore` came
before it.

### Pages

`PDFPlumberDocument`. A job of the document is cut at its request (`...Start`,
`...End`): the application and the collector run in between, other jobs do not.
`objs` are the page objects of the API, `core` the handle table of the core,
`refs` the references (`PageRef`) the application read out of results; `names` in
both is a ghost, the Python page that the handle named when it was answered.
`Reaches` is the reachability the collector uses: held by the application, by a
job, by a derived page, by the maps of a document that is not collected (`#weak`
does not hold). A finalizer runs any time after its object was collected.

Restrictions, each the code's own or named: a crash is left to Runtime and Worker;
`close()` does not fail; jobs queued before a `release()` run after it, when it has
forgotten the maps and `#current`, so `PagesAreCurrent`, `RefsNameTheirPages` and
`SameObject` are stated for a document that is not released; pinning after a release is left out; tables, structure trees and
streams are tracked as derived pages are, and have no action of their own.

### Remembered, Memory, ProcessState

What an operation of the port asks of the process is a *fact* (a symbol interned, a
pattern compiled, a warning given, a call site executed): the first time it needs
more room than the next ones, and it raises `RecursionError` when the room is
smaller. Frames and C units are one number, the room. `DoneAfter` is what it leaves:
nothing when it raises, but for a call site, which counts as executed. The
instructions that specialize (`AttrSite`) have the counter of the code, with its
cooldown and its backoff.

| TLA+ | code |
|---|---|
| `nodes`, `set`, `last` | `InternNode`, `Interned.set`, `Interned.last` (`psparser.rs`) |
| `rest`, `rests`, `snapshots` | the copied parts, those shared by snapshots, the `ProcessState`s kept (`process_state.rs`) |
| `Intern`, `DoThing`, `LoadProperty`, `LoadPlain` | `py_intern`, the functions that ask the caches, `AttrSite::property`, `plain` |
| `Capture` | `ProcessState::capture` with `Rest::same` |
| `BeginRestore`, `WalkBack`, `WalkForward`, `EndRestore` | `restore` and the loop of `Interned::restore`, one turn per action |

`upTo` of a node is a ghost: the symbols interned up to it. Memory is the same
operations on one value that is copied; `ImplementsMemory` is the refinement, with
the set of the last node, not `set`, as what the process has done, so the steps of
a walk change nothing of it.

### PSChars, Lexer, PSParser, Lexemes

PSChars has one or two characters of each class of bytes the tokenizer tells apart.
Lexer is one call of `parse1` as an operator: the twelve states, the token under
way, the next offset, or an `AssertionError`. PSParser reads: blocks of
`bufsiz` bytes, streams one after the other, and one action per turn of a loop:

| TLA+ | code |
|---|---|
| `NextTokenStep`, `NextTokenAtEnd`, `NextTokenAfterEnd` | `nexttoken` with `fillbuf`, the white space tacked on at a change of stream, the end of the last one |
| `TakeValue`, `TakeOpening`, `TakeClosing` | `nextobject`, `start_type`, `end_type`, `flush` |
| `BeginImage`, `SkipImage`, `ImageStep`, `ImageAtEnd` | `do_keyword` of `ID`, `get_inline_data` |
| `NextLineStep`, `RevLine`, `RevBlock` | `nextline`, `revreadlines` |

`given`, `taken`, `read` and `images` are histories: what was returned, how many tokens
went into it, every token or line, every image. `Stop` is the caller that got its
exception; any other standstill is a deadlock, which the run looks for. Lexemes says
the same of a text without blocks or states, by the longest match at each offset.

### Document, XRefs, PageTree, Interpreter

An object is what the page tree and the interpreter tell apart of it; its entry in
a section is the object at that place, or what parsing gives there (corrupt, an
error of another kind), or its place in an object stream. `Getobj` is the lookup
through the sections read, `Reading` what it keeps.

- XRefs: `FindXRef`, `ReadSection`, `FollowXRefStm`, `FollowPrev`, `Scan`, `FindRoot`
  are `PDFDocument.__init__`; the recursion of `read_xref_from` is a stack, which
  raises at `MaxDepth`.
- PageTree: the generator `create_pages` as the state machine `CreatePages` it is in
  Rust: `EnterNew`, `EnterVisited`, `NextKid`, and the pages of the sections for a
  tree that gives none. A generator is a frame, and the one beyond `MaxDepth` raises.
- Interpreter: one action per turn of the loop of `execute`, an action for each
  operator or group of operators that do alike. `interps` is the stack of the
  interpreters at work, `device` the converter with its open figures. A matrix is the
  sequence of the matrices it is a product of, the numbers of a point or a matrix are
  one operand, a string shows one character. `stale` is a ghost: a form ended since
  this interpreter set the device's CTM (the code leaves the form's CTM there).

### Extraction, ExtractionReference, FigureReference

`pdf.rs` and `page.rs` over the three: `open`, `pdf.pages` (`StartPages`, one `TakePage` or
`SkipPage` per page of the generator, `PagesReturn`, `PagesRaise`), `close` (which
makes the list again before it closes the file), `page.objects` and `page.close`. `returned`,
`failed`, `seen` are histories: the list returned last, a `pdf.pages` that raised
since the cache was flushed, the last layout of each page. ExtractionReference has what the
calls give as recursions over what refers to what, down to the frames there are (functions
of the frames left, which a proof can unfold): the sections (`Chain`), the objects without a
cache and of an open file (`Stored`), the pages below a node by the nodes visited before it
(`Tree`), which inherit on the way up. FigureReference has the figures of a page, without a
device.

## Runs

All bounds are constants of the cfg; a bound counts what the environment does (the
calls of JavaScript, objects inserted, cores made, internings), never what the code
does in answer.

| run | checks | bounds, and why they are enough |
|---|---|---|
| `handles` | `TypeOK` `FreeIsTheEmptySlots` `StaleHandleRefused` | 3 slots, 3 generations, 6 objects: the table fills and refuses, slots wrap |
| `boundary` | `ImplementsPython` `VoidLeavesNoTrace` `HistoryIsTheLog` `IdentitiesAreUnique` `OnlyUnrecordedAreLost` | two documents, 5 calls (open, derive a page, free it, void a call, replay; or both opened, and one call that reaches both), 2 CMaps of which the scan finds one, history limit 2; 229,482 states |
| `process` | `ImplementsMemory` `SetIsItsNode` `RestoreEnds` `TypeOK` | 2 symbols beside the imported one, 4 nodes, 2 snapshots: branches that share a node or only the import's, a symbol on both; 1 call site, 1 instruction, rooms 0 to 2; 496,925 states |
| `parser` | `ReadsWhatIsWritten` `StallsAtMostTwice` `NothingIsLost` | all texts over some bytes up to 3 to 5 bytes long, and longer ones around an inline image, in blocks of 1 and of 3, so that every place of a text is the end of a block; two and three streams cut where a token may be under way; 404,917 states |
| `extraction` | `SectionsAreTheChain` `ListsAreWhole` `NoStreamInsideItself` `DeviceFollows` `FiguresAreTheForms` `LayoutIsRepeatable` `CallsEnd` | 288 documents: page trees with kids that are missing, no references, given twice, their own ancestors or deeper than the frames; chains of sections; a page with two forms in combinations of contents; up to 4 calls, so a document is read, closed and read again; recursion limit 6, which circles and a tree of seven levels reach; 39,892 states |
| `runtime` | `ImplementsCore` (with liveness) `OneAtATime` `FetchedOnce` `NoLostFetch` `AsksForAllOnce` `TypeOK` | 3 jobs (one of two calls, one that misses twice), 2 CMaps: a fetch outlives its job, is shared by a later one, lands in its middle |
| `runtime_guess` | violates `GuessesAreFree` | 2 jobs, 2 CMaps |
| `worker` | `ImplementsCore` (with liveness) `EveryRequestIsAnswered` `CrashStopsTheWorker` `TypeOK` | 3 jobs, one of two requests: a late reply, jobs queued behind the one in wait |
| `opening` | `OptionsApply` `DroppedIsStopped` | 3 opens, 2 sources, 2 `configure`, 2 `dropCore`, 4 cores: a core dropped in the making, another made and dropped while opens wait for the first; 2,730,731 states |
| `opening_race` | violates `OneCore` | 3 opens, 1 `configure`, 3 cores |
| `pages` | `HandlesKeepTheirPages` `FreesItsOwn` `PagesAreCurrent` `RefsNameTheirPages` `SameObject` `NothingLeaks` | 1 page, 5 calls, 1 handle taken by another document: read, close, derive, read annotations, resolve; 904,733 states (2 pages and 4 calls hold as well) |
| `pages_flushed` | violates `RefsNameTheirPages` | the same, where the application also reads annotations of pages a `close()` flushed |

What they show. `boundary`: whatever is void, freed and replayed, JavaScript sees
answers, handles and objects of a Python process that runs each call once
(`ImplementsPython`, a refinement), and a void call leaves handles, identities
and history as it found them (`VoidLeavesNoTrace`). `process`: sharing nodes and
parts among snapshots cannot be told from copying. `parser`: no token, line or image
is cut, joined or lost at the end of a block or a stream, a malformed nesting loses no
object, and the tokenizer never stands still for more than two steps. `extraction`:
whatever a file refers to, opening it, listing its pages and drawing them end, and
give what the file says; a list is short only after a call that raised; a layout is
the same the second time, after a `close()` too (but for objects the document names and
does not have, which are looked for again in a file that is closed).
`runtime` and `worker`: both
kinds of core implement the same interface, with crashes and failed fetches.
`opening`: no interleaving of `configure`, `dropCore`, failures and waits makes an
open use options older than those it was called under, leaves a dropped core running,
or gives one to an open called after the drop.
`pages`: as long as the annotations of flushed pages are not read, no order of
reads, closes, collections and finalizers breaks the identity of pages or the
life of a handle.

`CHECK_DEADLOCK` is off where the application may stop calling, or a bound stops it
(`boundary`, `process`, `runtime`, `worker`, `opening`, `pages` and the runs that
expect a violation). It is on in `handles` (a removal or a refused insertion is always
possible), in `parser` (`Stop` is a step only after the caller's exception) and in
`extraction` (`Rest` is a step only between calls).

Each property of a passing run has a mutant in `PROJECT.json`: a definition of the
code changed as a plausible bug would, defined just before it in its module ("Mutation of
..."), which violates that property.

## Fairness

- CoreJobs: the job whose turn it is ends. This is what is to be implemented.
- Runtime: `WF` of what the event loop runs for each job (promise callbacks run)
  and of each fetch to settle, with success, failure or on a dead core (fetch and
  file reads have no timeout of their own in the code, the platform's end them).
  No fairness on `Make`: nothing obliges a caller to make a job. A job may be void
  any number of times in principle; it is not, since each void run asks for
  a CMap not handed over yet, and a fetch that fails ends the job.
- Worker: the same of the calling thread, the worker serves every message
  (`handle` catches whatever it throws and answers), replies are delivered unless
  the worker was terminated. `LoseReplies`, `WorkerFails` and `Terminate` have none.
- ProcessState: the loop of a restore goes on (`WalkBack`, `WalkForward`,
  `EndRestore`): one thread runs it to its end. `RestoreEnds` says there is one.
- Extraction: a call under way goes on (`WF` of `~Idle /\ Next`), for the same reason; in
  such a state all steps are the code's. Whether it ends is `CallsEnd`. No fairness on the
  caller.
- Handles, Boundary, Opening, Pages, PSParser: safety only, no fairness.

## Proofs

TLAPS checks eight modules; the constants are any values that satisfy the named
assumptions (`HandlesAssumption`, `OperationsAssumption`, `SerialAssumption`, `RuntimeAssumption`,
`WorkerAssumption`, `OpeningAssumption`, `PagesAssumption`, `RememberedAssumption`, `ProcessAssumption`,
`PSParserAssumption`: typing, finitely many handles and CMaps, non-emptiness, an import that
interns no symbol twice, and a largest backoff with the largest counter;
`DocumentsAssumption`: there is a frame at least, lists are finite lists, a scan gives a table
or fails, and an object stream is not itself in an object stream, which the standard
forbids and the model leaves out; TLC evaluates them). The documents are any that satisfy
the last: any sections, references, nodes, contents, any number of them.

**CoreStateProofs**, of Handles and of ProcessState: what the core keeps beside its
documents (Handles' names carry its name, so that one module extends both).

*Handles.* `MaxInserts` is a bound of the runs only; the proofs do not use
it. The inductive invariant adds to `TypeOK` and `FreeIsTheEmptySlots` that slots
are numbered without a gap, that the reserved slot is empty, and `Ages`: a handle
given out on this lap has a generation smaller than its slot's, unless the slot still
holds its object. `Ages` is what `StaleHandleRefused`
lacks: a handle's generation must be known to be *behind*, not just different,
to stay different when the slot moves on. Theorems: `HandlesTypes`,
`FreeSlotsExact`, `FullOnlyWhenFull`, `ReservedSlot`, `StaleHandles`.

*ProcessState.* `MaxNodes` and `MaxSnapshots` are bounds of the runs; the proofs
do not use them. `SetIsItsNode` is not inductive: it needs that walking back
over a node removes what the node added and nothing else, so the invariant adds
`Chained`: a node's count and symbols are those of the node before it and one more,
its own, which was not there. A symbol may still be on two branches; the ends
of a walk meet at or before the last shared node because the longer chain is the one
walked. Theorems: `ProcessInvariant`, `ProcessTypeOK`, `ProcessSetIsItsNode`,
`ProcessWalkHasNodes` (the `expect`s of the walk do not panic) and
`ProcessImplementsMemory`: each step is a step of the copied memory or changes
nothing of it.

**BoundaryProofs.** `MaxCalls`, `MaxDocuments` and `HistoryLimit` bound the run only (the
proofs use nothing of them); documents, pages, CMaps, calls and the length of the
history are any. Nothing the run checks is inductive. The invariants, each with
those before it:

- `CoreSane`: the names are right. A handle has its document in the table; an identity
  is given once; an entry of the history acts on, and makes, identities of its own document
  (`EntryNamed`: gone for good, or of an object of the kind it makes); a call under way
  keeps the table and the history it found, and what is left to replay is of the history. It
  gives `IdentitiesAreUnique`, and that taking back what a void call made and recorded
  gives what the call found (`WithoutMade`, `VoidHistory`).
- `Rebuildable`: for a document that is not lost and not marked, its entries tell its log
  one for one (`Told`) and its objects are those its entries made (`Known`). An entry
  *tells* an event when its operation, run from the process it was recorded with on the log
  before the event, would see the same, end the same and miss nothing. That holds only of
  entries that missed no CMap, so during a call it is claimed of the history the call found
  and, as long as nothing was missed, of the one it makes. During a replay (`Rebuilt`)
  each document is what its log was after as many events as it has entries replayed, its
  pages in the table or among the ghosts. It gives `HistoryIsTheLog` and, with no entry
  left, `VoidLeavesNoTrace` (`RebuiltAll`).
- `Marks`: documents lose their history all at once, and only when no CMap can be missed
  any more; a document with a history has entries in it.
- `Roomy`, as long as the handle table does not fill (`Room`): no entry is of an operation
  that found it full, so a replay does not fail (`ReplayNeverFails`) and only
  documents without a history are lost. `OnlyUnrecordedAreEverLost` assumes `[]Room`: without it
  the property is false (see Findings), which the run does not reach with five handles and
  five calls.
- `Followed`: a run of Python's, with every CMap, is as far as the running call, as long as
  that one missed nothing: an operation that missed no CMap does what it does with every
  CMap (`EffectWithAll`), and after an operation that raised no other is run
  (`RaisedIsLast`).

`CoreImplementsPython` is the refinement: `Respond` is Python's `Call`, made whole, by
`Followed`; `Open` and `Free` are Python's; the end of a void call is a `Lose` of the
documents lost, or is not seen; every other step changes nothing JavaScript sees
(`SeenAlike`), because the refinement mapping shows the objects and the process as the running
call found them until it ends. It needs no `Room`: Python's table fills as the core's
does. A recursive operator cannot be used in a proof, and the theorems of induction
neither; what `Selected` and `Ran` compute is proved of the function they define, by its
least counterexample (`LeastNumber`) or by a sequence taken apart at its end
(`ByAppending`). Theorems: `CoreIsSane`, `IdentitiesAlwaysUnique`, `CoreIsRebuildable`,
`HistoryIsAlwaysTheLog`, `VoidNeverLeavesATrace`, `MarksAreRight`,
`OnlyUnrecordedAreEverLost`, `CoreImplementsPython`.

**SerialProofs** holds lemmas about the queue alone, for any stages of a started
job. Its invariant `SerialInv` says that each job is chained to the one made just
before it and that the stages along `made` are: ended ones, at most one that has the core, queued
ones. It is kept by `Run`, `StartJob`, `Goes` and `EndJobs`, implies `OneAtATime`, and
makes an end a step of CoreJobs (`MyTurn`).

**RuntimeProofs.** Every step of Runtime is a step of the queue
(`RuntimeStepIsAQueueStep`), which gives `RuntimeOneAtATime` and
`RuntimeServesInOrder`, the safety part of `ImplementsCore`. For fetches, the
invariant `FetchInv` says that one fetch is in the air of each name to share (`loading`) that was not
handed over, and none of any other (`InTheAir`), and that whoever waits waits for such
names (`Awaited`). Theorems: `RuntimeInvariant`, `RuntimeTypeOK`,
`RuntimeFetchedOnce`, `RuntimeNoLostFetch`, and the action properties
`RuntimeAsksForAllOnce` and `RuntimeDeadIsDead`.

**WorkerProofs.** Every step of Worker is a step of the queue too, but only under an
invariant about messages: a reply may end a job only because that job waits for it.
`MailInv` says that ids rise from the next reply to be delivered to the last request posted
(`Mail`: so no two messages have one id), that an id in wait and a waiting job are
each other's (`Waits`), and that the ids in wait are those of messages on their way, all of
them as long as the worker is not stopped (`OnTheWay`). A late reply is then one
whose id does not wait any more. Theorems: `WorkerInvariant`, `WorkerTypeOK`,
`WorkerOneAtATime`, `WorkerEveryRequestIsAnswered`, `WorkerCrashStopsTheWorker`,
`WorkerServesInOrder`, `WorkerEndsOnce`.

**ApiProofs**, of Opening and of Pages: the two sides of the JavaScript API that keep
a state of their own (Opening's names carry its name, so that one module extends both).

*Opening.* `MaxConfigures`, `MaxDrops` and `MaxCores` bound the runs only.
The invariant hangs on the current core (`Current`): it has the options as they are and
was never dropped. An open that finds it then gets what was configured before, and
one that makes another core makes it of options at least as new (`InItsOptions`); a
core runs the module its options name, kept or compiled (`RunsItsModule`); a dropped core
that is not stopped is still in the making, and is marked to be stopped when it
is ready (`Dropped`). Theorems: `OpeningInvariant`, `OpeningOptionsApply`,
`OpeningDroppedIsStopped`.

*Pages.* `MaxCalls` and `MaxOthers` bound the runs only; the number of pages, calls,
collections and reads is any. No property of the run is inductive. What makes
`HandlesKeepTheirPages` true is that each handle an object has is
somebody's to keep, in one of three ways, which `PagesInv` names: a page of the
document's lists is freed with the document only (`ObjInv`); a derived page
is freed by its finalizer, which runs once, after the object was collected, and whose
request is then the only one queued for the handle (`LifeInv`, `FreeInv`: the finalizer
is *watched* as long as the object lives); a derived page whose
annotations were read is *pinned*, which gives its handle to the document and leaves the
finalizer nothing to free (`MapInv`, `AnnotsInv`). Around these: the maps, the references
and the answers on their way name handles in use (`RefInv`, `ReplyInv`), the current
list is Python's (`CurrentInv`), and what is in use has a keeper (`LeakInv`). When the
document is freed all of it is `Gone`. The slot a new object takes is the first
free one, found by counting (`RankExists`, `FreeHandlesDiffer`: the k-th free handle
exists, and differs for each k). `PagesListIsCurrent`, `PagesRefsNameTheirPages` and
`PagesOnePage` assume `~ReadsFlushed`, as run `pages` does: run `pages_flushed` shows that
the second is false without it. Theorems: `PagesInvariant`,
`PagesHandlesKept`, `PagesFreesItsOwn`, `PagesNothingLeaks` and these three.

**ExtractionProofs.** The invariant of the interpreters at work has three parts: `Chain`
(what an interpreter executes is among the parents of every one above it, and not
among its own), `Running` (there is an interpreter and a device to speak of) and
`DeviceFollows` itself. `Chain` is what makes `NoStreamInsideItself` inductive: a new
interpreter only knows its parents, not the stack. Theorems:
`ExtractionNoStreamInsideItself`, `ExtractionDeviceFollows`, and
`ExtractionEndPageAsserts`: the assertion of `end_page` that no figure is open never
fails, so the interpretation of a page that reaches its end gives a layout.

The list of pages has an invariant of its own, `ListInv`, over the steps of `pdf.pages` and
of the generator: a list has pages that were made (`PagesMade`; only their layouts come and
go afterwards, `Same`), stacked (`ListOK`); while one is made, its last number is not beyond
the count and `doctop` is the bottom of its last page (`Counted`); and, as long as the
generator has not turned to the cross-reference sections, the nodes of its pages, and the
one yielded, are among the visited (`Generator`). The last is what makes the nodes
distinct: a page is yielded for a node not visited before, and
that says nothing of the list unless the list's nodes are known to be visited. Pages found in
the sections are left out, as the code gives an object twice that two sections
have. Theorems: `ExtractionPagesAreStacked` (the pages that `pdf.pages` returns are numbered
upward, and the top of each is where the one before it ends), `ExtractionNodesOnce`.

Three theorems say what the calls give, in three invariants, each with those before it. In
all of them the steps of the code, which keep a stack, are held against a recursion,
which does not; what holds them together is a sequence `T` beside the stack, of what
each level, from the one on top down, will have come to when those above it are done.

- `ChainInv`: while sections are read, `T` starts (on top of the stack) with what is read so
  far (`Got`), goes through what each `read_xref_from` at work still does with it
  (`Onward`, by the frames left to it) and ends with the whole chain. A step of the code
  moves a part of the chain from what is foretold to what is read and leaves `T` below it
  as it is; a section that raises, or is not valid, ends all the levels alike
  (`EndsEarly`). Theorem: `ExtractionSectionsAreTheChain`.
- `CacheInv`: what is in `cached_objs` is what the file has (`StoredCached`). A lookup
  stops at the first section that gives anything, and the object streams read on the
  way are kept as well; that those are the ones a lookup of their own would give is
  where the assumption on object streams is used (`StreamStored`). Theorem:
  `ExtractionObjectsAreTheFiles`: `getobj` gives what the file has, in any order of calls,
  or raises, when the file is closed.
- `WholeInv`: while a list is made, there is a list of the pages given so far that the
  generator is at (`Phase`) and that the list of `pdf.pages` follows (`Progress`): in the tree,
  the pages given and the nodes visited on top, `T` through what each `depth_first_search` at
  work will give (`Gives`: the kids left, the attributes of the node inherited on the way
  up) down to the whole tree (`Climbs`); in the sections, the pages of those before this
  one and of the ids before this one; at the end, all of them. Attributes are
  passed down by the code and up by the reference, so the proof needs that inheriting is
  associative (`MergedAssoc`, `InheritTwice`); an exception half-way leaves the
  beginning of the list (`Prefix`), since each level's pages begin with those of the level
  above. A list made before is as whole as it was (`Whole`), whatever is closed and laid
  out since. Theorem: `ExtractionListsAreWhole`. That the recursion over the tree is down to
  `MaxDepth` is not a weakening: the code's generators raise there too.

**PSParserProofs.** Why the guard of the loops is enough: each state of the tokenizer has
a `Rank`, 0 to 2, and a step that consumes no byte leaves a state of a lower rank (one
lemma for each of the twelve states, `Parse1Advances`). The invariant adds
the steps without a byte to the rank left, which never exceeds 2; that a file which
goes on stands where its block does, and that the guard is not past it (`FileOK`,
`Forward`): a new block, or a new stream, is then where the file goes on or further.
An inline image moves the place back and starts the guard again. Theorems:
`PSParserInvariant`, `PSParserStallsAtMostTwice`.

`NothingIsLost` has the invariant `Whole`: the tokens that carry a value, of those taken, are
in what was given back and what the open levels keep, each once and in order. What
is kept end to end (`Keeping`: the objects given, then those of each open level from the
outermost in) does not change when a level begins (`KeepingStarted`), when it ends and becomes
one object of the level around it (`KeepingEnded`), or when the objects are given back
(`KeepingFlushed`); a value is put at its end (`KeepingPushed`), and its number is above all
the others. `Whole` has what is under way besides: one token read and not yet taken, or none
(`Pending`). An inline image takes its bytes from the file and its dictionary
from the stack, so nothing is claimed once one has begun. Theorem:
`PSParserNothingIsLost`.

Some facts are only proved, and no run repeats them: `FullOnlyWhenFull`,
`ReservedSlot`, `RuntimeDeadIsDead`, `WorkerOneAtATime`, `WorkerEndsOnce`,
`ProcessWalkHasNodes`, `ExtractionEndPageAsserts`, `ExtractionPagesAreStacked`,
`ExtractionNodesOnce`, `ExtractionObjectsAreTheFiles`.

Only model-checked: that the parser reads what is written (`ReadsWhatIsWritten` compares it
with Lexemes, recursive operators over the text, and what those compute for every text
takes an induction over it); that figures are the forms (`FiguresAreTheForms`, recursive
operators over contents); `LayoutIsRepeatable`, which relates two runs of the interpreter;
all liveness: `RestoreEnds`, `CallsEnd` and the liveness part of `ImplementsCore`.

## Findings

1. `runtime_guess`: a call that misses one CMap rejects when another, guessed by
   the scan and not needed, cannot be fetched; `cmap_scan.rs` says a guess is
   "loaded for nothing".
2. `opening_race`: two opens waiting for one dead core make a core each, and a core that
   fails late clears the promise of the newer one; both leave a live
   core that no later open finds.
3. `pages_flushed`: a reference read after a `close()` from a page of the flushed
   list is taken for one of the current list; `page(ref)` may give another page
   object than the one it names.

Met without a run of their own:

- An operation that found the handle table full is recorded with its `MemoryError`. When a
  later call of the document is void, its replay finds no handle to refill and ends with
  `RuntimeError` (`ops.rs` `insert`, while replaying): the replay "does not end as its first run
  did", and the document is lost though nothing is wrong with its history. The proof of
  `OnlyUnrecordedAreLost` stopped there; it assumes `Room`. The head of `ops.rs` allows it:
  such a document is unusable "rather than different from Python's".
- The head of `handles.rs` says that a stale handle is refused; its generation has 12
  bits and wraps after 4096 uses of a slot, as a test of the file knows.
  `StaleHandleRefused` is stated for one lap.
- The replay of `doc_open` forgets that the document was scanned (`ops.rs`), so its
  fonts are scanned again at the next void call. It costs a scan and changes no result.
- A reference read before `pdf.pages` carries another
  handle than the page object it names, so after a `close()` `page(ref)` makes a second
  object for a page the application still holds. No text promises identity for
  flushed pages.
- `pages`, `page(ref)` of a derived page whose annotations were read, and `release()`, called in
  one turn: `release` forgets the pinned page at once (`#byHandle`), the queued `pages` reads
  the list again, and `page(ref)` then finds the list's page of that number and gives it
  for the derived one, although a job queued before `release()` "runs" as before it.
  The proof of `RefsNameTheirPages` stopped at this step; the property is stated until
  `release()`.
- A kid that a document names and that is corrupt is passed over while the file is open,
  and raises once it is closed, when it is looked for again. `ListsAreWhole` first
  compared a list with the file as it is now: TLC found one, made while the file was open,
  that a `close()` made too long, since in the closed file the tree raises at such a kid.
  It now compares with the file as it was when open (`Stored`).
- `get_inline_data` starts a match again at the byte after the one that broke it, so
  the mark in `EEI ` is missed. It is upstream's loop; Lexemes says the same.
- A name cut inside a `#` escape is not ended by a change of stream, and a line end CR LF
  after a backslash is two when a block ends inside it; both are upstream's, and the
  second is why Lexemes takes the length of the blocks.
- `get_objids` of a cross-reference stream counts its entries from the first in every
  range, where `get_pos` does not: the pages of a file without a page tree may be missed
  in later ranges. Upstream's, ported as it is.

## What is not modelled

- At the boundary, the data: an operation is what it reads of shared
  state, what it adds to it, and how it ends.
- Wire formats, strings and error values of the ABI, diagnostics, `lastTyped`:
  encodings of answers.
- Stream handles (`streams.rs`), tables and structure trees: their lifetime is that
  of derived pages; in the plan.
- Search and the structure tree on the JavaScript side: adapters over jobs that are
  modelled.
- Most of the lines of pdfminer and pdfplumber: generated tables (SASLprep, font
  metrics, glyph list, Unicode data) and functions of data without a state of their own
  (fonts, CMaps, filters, layout analysis, text, tables), which the corpus compares
  byte by byte with CPython. Their control is loops over data; the smaller ones are in
  the plan.
- In the document: encryption, `/Info`, outlines, destinations, page labels; object streams
  inside object streams; objects parsed from a stream that is no object stream. The
  `/Contents` of a page is an array: a single stream is read when the page is made
  (`pdfpage.rs`, `_parse_contents`), the streams of an array when it is laid out. An error
  met in reading an XObject is no `KeyError`, which `do_Do` takes for an unknown name. In the
  interpreter: patterns, and the arithmetic of matrices. In
  the tokenizer: the frames of its methods.
- `pdf.pages` objects freed one by one: the core's `free` accepts it, and no member of the
  JavaScript API does it.
- The full handle table at the boundary: a run that fills 2^20 slots is out of
  reach, and the model's `MemoryError` would contradict no text; the refinement to Python is
  proved with a full table too, and Handles has the table's own limit.
- pdftrace, oracle, scripts, corpus, vendored Python, demo: not part of the
  program.
