--------------------------------- MODULE Pages ---------------------------------
(***************************************************************************)
(* The lifetimes of a document of the API and of its pages (js/src/api.ts,  *)
(* PDFPlumberDocument): the jobs of the document, the page objects it keeps *)
(* strongly, weakly or not at all, the references to pages its results hold *)
(* (PageRef), the garbage collector, the finalizers that free handles, and  *)
(* release().                                                              *)
(*                                                                         *)
(* A job runs up to its request, then from the answer on; the application   *)
(* and the collector run in between, other jobs do not (Serial).  The core  *)
(* never crashes here (Runtime, Worker), and its answers are Python's       *)
(* (Boundary).  A handle is used again as soon as it is free, the worst     *)
(* case for whoever keeps it.                                              *)
(***************************************************************************)
EXTENDS Integers, Sequences, FiniteSets, Functions

CONSTANTS
    LastPage,     \* how many pages the document has
    ReadsFlushed, \* whether the application reads the annotations of the pages
                  \* of a list that a close() flushed
    MaxCalls,     \* bound: the calls of the application
    MaxOthers     \* bound: the handles other documents take

ASSUME PagesAssumption ==
    /\ LastPage \in Nat \ {0}
    /\ ReadsFlushed \in BOOLEAN
    /\ MaxCalls \in Nat
    /\ MaxOthers \in Nat

VARIABLES
    closed,   \* Python: how many times PDF.close() flushed `_pages`
    core,     \* the objects given a handle so far: handle, page, live
    queue,    \* the jobs made and not ended: the head is the running one
    reply,    \* what the request of the head answered (NoReply: not made)
    objs,     \* the page objects made by the API
    refs,     \* the references read by the application
    array,    \* #pages (<<>>: undefined)
    byHandle, \* #byHandle: the pages the document keeps
    weak,     \* #weak: the pages it only names
    current,  \* #current: number -> page of the current list
    epoch,    \* #epoch
    released, \* Life.released
    document, \* "held" by the application, "dropped", "collected", "finalized"
    calls     \* how many calls the application made

maps == <<array, byHandle, weak, current, epoch>>
python == <<closed, core>>
vars == <<python, queue, reply, objs, refs, maps, released, document, calls>>

Numbers == 1 .. LastPage

\* The pages of Python: page n of the k-th list of pdf.pages, a page derived
\* from one; and what else has a handle.
ListPage(k, n) == [kind |-> "page", id |-> k, number |-> n]
DerivedPage(i, n) == [kind |-> "derived", id |-> i, number |-> n]
TheDocument == [kind |-> "document", id |-> 0, number |-> 0]
Other == [kind |-> "other", id |-> 0, number |-> 0]

NoReply == [made |-> FALSE, handles |-> <<>>, current |-> FALSE]

\* Map.set: of one key, of each key of another map.
With(map, key, value) ==
    [k \in DOMAIN map \cup {key} |-> IF k = key THEN value ELSE map[k]]
WithAll(map, new) ==
    [k \in DOMAIN map \cup DOMAIN new |-> IF k \in DOMAIN new THEN new[k] ELSE map[k]]

-----------------------------------------------------------------------------

\* The handle table: the object of a handle, the free handles.
InUse == {core[i].handle : i \in {k \in DOMAIN core : core[k].live}}
At(h) == CHOOSE i \in DOMAIN core : core[i].live /\ core[i].handle = h
PageAt(h) == core[At(h)].page

\* The k-th free handle.
FreeHandle(k) ==
    CHOOSE h \in 1 .. Len(core) + k :
        /\ h \notin InUse
        /\ Cardinality((1 .. h) \ InUse) = k

Insert(pages) ==
    core \o [k \in DOMAIN pages |->
               [handle |-> FreeHandle(k), page |-> pages[k], live |-> TRUE]]

\* Core::label_page: the first live handle of a page a result holds, if any.
Labels(page) == {i \in DOMAIN core : core[i].live /\ core[i].page = page}
First(S) == CHOOSE i \in S : \A k \in S : i <= k

Labelled(page) == IF Labels(page) = {} THEN Insert(<<page>>) ELSE core
LabelOf(page) ==
    IF Labels(page) = {} THEN FreeHandle(1) ELSE core[First(Labels(page))].handle

\* free, of the handle h: a document goes with its pages.
Freed(h) ==
    [i \in DOMAIN core |->
       IF h \in InUse /\ core[i].live
            /\ (core[i].handle = h \/ (PageAt(h) = TheDocument /\ core[i].page # Other))
       THEN [core[i] EXCEPT !.live = FALSE]
       ELSE core[i]]

-----------------------------------------------------------------------------

Init ==
    /\ closed = 0
    /\ core = <<[handle |-> 1, page |-> TheDocument, live |-> TRUE]>>
    /\ queue = <<>> /\ reply = NoReply
    /\ objs = <<>> /\ refs = <<>>
    /\ array = <<>> /\ byHandle = <<>> /\ weak = <<>> /\ current = <<>>
    /\ epoch = 0 /\ released = FALSE /\ document = "held"
    /\ calls = 0

\* A job: what it does, of which page, reference or handle; of a `free`, the
\* object it is meant for (ghost).
Job(op) == [op |-> op, page |-> 0, ref |-> 0, handle |-> 0, meant |-> 0]

Live(o) == objs[o].state = "live"

\* The application makes a call of an open document it holds.
Call ==
    /\ document = "held"
    /\ ~released
    /\ calls < MaxCalls
    /\ calls' = calls + 1

Enqueue(job) ==
    /\ Call
    /\ queue' = Append(queue, job)
    /\ UNCHANGED <<python, reply, refs, array, current, epoch, released, document>>

Make(op) == Enqueue(Job(op)) /\ UNCHANGED <<objs, byHandle, weak>>

\* pdf.pages, pdf.annots, pdf.close()
CallPages == Make("pages")
CallAnnots == Make("annots")
CallClose == Make("close")

\* pdf.page(ref)
CallPage(r) ==
    /\ Enqueue([Job("page") EXCEPT !.ref = r])
    /\ UNCHANGED <<objs, byHandle, weak>>

\* page.crop(), and the other operations that derive a page
CallCrop(o) ==
    /\ objs[o].held
    /\ Enqueue([Job("crop") EXCEPT !.page = o])
    /\ UNCHANGED <<objs, byHandle, weak>>

\* Mutation of Pinned: the pages that may be pinned are not.
NeverPinned(o) == FALSE

\* A derived page the document is to keep from now on.
Pinned(o) == objs[o].parent # 0 /\ ~(objs[o].handle \in DOMAIN byHandle
                                       /\ byHandle[objs[o].handle] = o)

\* The page is derived, or it is one of pdf.pages until a close() comes.
StaysCurrent(o) ==
    \/ objs[o].names.kind = "derived"
    \/ /\ objs[o].names.id = closed
       /\ \A i \in DOMAIN queue : queue[i].op # "close"

\* page.annots: the page is pinned at once, the job comes later.
CallPageAnnots(o) ==
    /\ objs[o].held
    /\ ReadsFlushed \/ StaysCurrent(o)
    /\ Enqueue([Job("page_annots") EXCEPT !.page = o])
    /\ LET h == objs[o].handle IN
       IF Pinned(o)
       THEN /\ objs' = [objs EXCEPT ![o].registered = FALSE]
            /\ weak' = Restrict(weak, DOMAIN weak \ {h})
            /\ byHandle' = With(byHandle, h, o)
       ELSE UNCHANGED <<objs, byHandle, weak>>

-----------------------------------------------------------------------------

\* The head of the queue has not made its request yet, or has its answer.
Starts(op) == queue # <<>> /\ Head(queue).op = op /\ ~reply.made
Ends(op) == queue # <<>> /\ Head(queue).op = op /\ reply.made

\* The head made its request: the handles it answered.
Requested(handles, isCurrent) ==
    /\ reply' = [made |-> TRUE, handles |-> handles, current |-> isCurrent]
    /\ UNCHANGED <<queue, objs, refs, maps, released, document, calls>>

Done == queue' = Tail(queue) /\ reply' = NoReply

\* A page object of the API, held by the application that gets it.
NewPage(h, parent) ==
    [ handle |-> h, parent |-> parent, held |-> TRUE, state |-> "live",
      registered |-> parent # 0,
      names |-> IF h \in InUse THEN PageAt(h) ELSE Other ]

Hold(os) == [o \in DOMAIN objs |->
               IF o \in os THEN [objs[o] EXCEPT !.held = TRUE] ELSE objs[o]]

\* pages, once they were read: the same array.
PagesAgain ==
    /\ Starts("pages")
    /\ array # <<>>
    /\ objs' = Hold(Range(array))
    /\ Done
    /\ UNCHANGED <<python, refs, maps, released, document, calls>>

\* pages: doc_pages makes a handle to each page.
PagesStart ==
    /\ Starts("pages")
    /\ array = <<>>
    /\ core' = Insert([n \in Numbers |-> ListPage(closed, n)])
    /\ UNCHANGED closed
    /\ Requested([n \in Numbers |-> FreeHandle(n)], TRUE)

PagesEnd ==
    /\ Ends("pages")
    /\ LET missing == Numbers \ DOMAIN current
           id(n) == Len(objs) + Cardinality({m \in missing : m <= n})
           number(k) == CHOOSE n \in missing : id(n) = Len(objs) + k
           list == [n \in Numbers |-> IF n \in missing THEN id(n) ELSE current[n]]
       IN  /\ objs' = Hold(Range(list))
                      \o [k \in 1 .. Cardinality(missing) |->
                            NewPage(reply.handles[number(k)], 0)]
           /\ byHandle' = WithAll(byHandle,
                           [h \in {reply.handles[n] : n \in missing} |->
                              id(CHOOSE n \in missing : reply.handles[n] = h)])
           /\ current' = list
           /\ array' = list
    /\ Done
    /\ UNCHANGED <<python, refs, weak, epoch, released, document, calls>>

\* #known: the page of a handle, if the document keeps or still names one.
KnownBy(h) ==
    IF h \in DOMAIN byHandle THEN {byHandle[h]}
    ELSE IF h \in DOMAIN weak /\ Live(weak[h]) THEN {weak[h]}
    ELSE {}

\* Mutation of the next: whenever it was read.
AnyEpoch(r) == refs[r].epoch \in Nat

\* The reference was read since the last close().
Fresh(r) == refs[r].epoch = epoch

\* Mutation of the next: the current list is not looked at.
KnownByHandle(r) == KnownBy(refs[r].handle)

\* The page page(ref) finds without asking the core.
Known(r) ==
    IF KnownBy(refs[r].handle) # {} THEN KnownBy(refs[r].handle)
    ELSE IF Fresh(r) /\ refs[r].number \in DOMAIN current
    THEN {current[refs[r].number]}
    ELSE {}

\* The references of a collected page are forgotten on the way.
Dead(h) == h \notin DOMAIN byHandle /\ h \in DOMAIN weak /\ ~Live(weak[h])

PageKnown ==
    /\ Starts("page")
    /\ LET r == Head(queue).ref IN
         \E o \in Known(r) :
           /\ objs' = Hold({o})
           /\ refs' = [refs EXCEPT ![r].page = o]
           /\ weak' = IF Dead(refs[r].handle)
                      THEN Restrict(weak, DOMAIN weak \ {refs[r].handle})
                      ELSE weak
    /\ Done
    /\ UNCHANGED <<python, array, byHandle, current, epoch, released, document, calls>>

\* page(ref): page_info of the handle.
PageStart ==
    /\ Starts("page")
    /\ Known(Head(queue).ref) = {}
    /\ UNCHANGED python
    /\ Requested(<<refs[Head(queue).ref].handle>>, Fresh(Head(queue).ref))

PageEnd ==
    /\ Ends("page")
    /\ LET r == Head(queue).ref
           n == refs[r].number
           o == Len(objs) + 1
       IN  /\ objs' = Append(objs, NewPage(refs[r].handle, 0))
           /\ refs' = [refs EXCEPT ![r].page = o]
           /\ byHandle' = With(byHandle, refs[r].handle, o)
           /\ current' = IF reply.current /\ n \notin DOMAIN current
                         THEN With(current, n, o) ELSE current
    /\ Done
    /\ UNCHANGED <<python, array, weak, epoch, released, document, calls>>

\* pdf.annots and page.annots: the result names a page, of the current list,
\* or the very page the annotations are read from.
AnnotsStart ==
    /\ Starts("annots")
    /\ \E n \in Numbers :
         /\ core' = Labelled(ListPage(closed, n))
         /\ Requested(<<LabelOf(ListPage(closed, n))>>, TRUE)
    /\ UNCHANGED closed

PageAnnotsStart ==
    /\ Starts("page_annots")
    /\ LET page == PageAt(objs[Head(queue).page].handle) IN
         /\ core' = Labelled(page)
         /\ Requested(<<LabelOf(page)>>, TRUE)
    /\ UNCHANGED closed

\* readRefs: the reference is read now.  (The page it names is a ghost.)
AnnotsEnd ==
    /\ \E op \in {"annots", "page_annots"} : Ends(op)
    /\ LET h == reply.handles[1]
           page == IF h \in InUse THEN PageAt(h) ELSE Other
       IN  refs' = Append(refs, [handle |-> h, number |-> page.number,
                                 epoch |-> epoch, names |-> page, page |-> 0])
    /\ Done
    /\ UNCHANGED <<python, objs, maps, released, document, calls>>

\* #derive
CropStart ==
    /\ Starts("crop")
    /\ core' = Insert(<<DerivedPage(Len(core), PageAt(objs[Head(queue).page].handle).number)>>)
    /\ UNCHANGED closed
    /\ Requested(<<FreeHandle(1)>>, TRUE)

\* Mutation of the next: the handle of the page is not freed when it goes.
Untracked(h, parent) == [NewPage(h, parent) EXCEPT !.registered = FALSE]

\* page_, of a derived page: tracked by the registry.
Derived(h, parent) == NewPage(h, parent)

CropEnd ==
    /\ Ends("crop")
    /\ LET h == reply.handles[1] IN
         /\ objs' = Append(objs, Derived(h, Head(queue).page))
         /\ weak' = With(weak, h, Len(objs) + 1)
    /\ Done
    /\ UNCHANGED <<python, refs, array, byHandle, current, epoch, released, document, calls>>

\* close(): PDF.close() flushes the pages and makes them again.
CloseStart ==
    /\ Starts("close")
    /\ closed' = closed + 1
    /\ UNCHANGED core
    /\ Requested(<<>>, TRUE)

\* Mutation of the next: the pages of the list stay current.
CurrentKept == current

\* The current pages once the list was flushed.
NoneCurrent == <<>>

\* Then the document keeps its derived pages only, and names the others.
CloseEnd ==
    /\ Ends("close")
    /\ LET mine == {h \in DOMAIN byHandle : objs[byHandle[h]].parent = 0} IN
         /\ byHandle' = Restrict(byHandle, DOMAIN byHandle \ mine)
         /\ weak' = WithAll(weak, Restrict(byHandle, mine))
    /\ array' = <<>>
    /\ current' = NoneCurrent
    /\ epoch' = epoch + 1
    /\ Done
    /\ UNCHANGED <<python, objs, refs, released, document, calls>>

\* free
Free ==
    /\ Starts("free")
    /\ core' = Freed(Head(queue).handle)
    /\ Done
    /\ UNCHANGED <<closed, objs, refs, maps, released, document, calls>>

FreeJob(h, i) == [Job("free") EXCEPT !.handle = h, !.meant = i]

\* release()
Release ==
    /\ Call
    /\ released' = TRUE
    /\ array' = <<>> /\ byHandle' = <<>> /\ weak' = <<>> /\ current' = <<>>
    /\ queue' = Append(queue, FreeJob(1, 1))
    /\ UNCHANGED <<python, reply, objs, refs, epoch, document>>

-----------------------------------------------------------------------------

\* The application gives up a page, or the document.
Drop(o) ==
    /\ objs[o].held
    /\ objs' = [objs EXCEPT ![o].held = FALSE]
    /\ UNCHANGED <<python, queue, reply, refs, maps, released, document, calls>>

DropDocument ==
    /\ document = "held"
    /\ document' = "dropped"
    /\ UNCHANGED <<python, queue, reply, objs, refs, maps, released, calls>>

\* Who still reaches a page: the application, a job, a page derived from it, or
\* its document.
Reaches(o) ==
    \/ objs[o].held
    \/ \E i \in DOMAIN queue : queue[i].page = o
    \/ \E c \in DOMAIN objs : Live(c) /\ objs[c].parent = o
    \/ /\ document \in {"held", "dropped"}
       /\ o \in Range(array) \cup Range(byHandle) \cup Range(current)

\* The garbage collector.
Collect(o) ==
    /\ Live(o)
    /\ ~Reaches(o)
    /\ objs' = [objs EXCEPT ![o].state = "collected"]
    /\ UNCHANGED <<python, queue, reply, refs, maps, released, document, calls>>

\* A document goes with its references, once no job and no page holds it.
CollectDocument ==
    /\ document = "dropped"
    /\ refs = <<>>
    /\ \A i \in DOMAIN queue : queue[i].op = "free"
    /\ \A o \in DOMAIN objs : ~objs[o].held
    /\ document' = "collected"
    /\ UNCHANGED <<python, queue, reply, objs, refs, maps, released, calls>>

\* Mutation of the next: a finalizer does not ask whether the document lives.
FreesAnyway == TRUE

\* What lets a finalizer free a handle.
Frees == ~released

\* The finalizer of a page.
Finalize(o) ==
    /\ objs[o].state = "collected"
    /\ objs[o].registered
    /\ objs' = [objs EXCEPT ![o].state = "finalized"]
    /\ queue' = IF Frees
                THEN Append(queue, FreeJob(objs[o].handle,
                        First({i \in DOMAIN core : core[i].page = objs[o].names})))
                ELSE queue
    /\ UNCHANGED <<python, reply, refs, maps, released, document, calls>>

\* The finalizer of the document (none once it was released).
FinalizeDocument ==
    /\ document = "collected"
    /\ ~released
    /\ document' = "finalized"
    /\ released' = TRUE
    /\ queue' = Append(queue, FreeJob(1, 1))
    /\ UNCHANGED <<python, reply, objs, refs, maps, calls>>

\* Another document takes a handle that was freed.
OtherTakes ==
    /\ ~reply.made
    /\ Cardinality({i \in DOMAIN core : core[i].page = Other}) < MaxOthers
    /\ \E i \in DOMAIN core : ~core[i].live
    /\ core' = Insert(<<Other>>)
    /\ UNCHANGED <<closed, queue, reply, objs, refs, maps, released, document, calls>>

-----------------------------------------------------------------------------

Next ==
    \/ CallPages
    \/ CallAnnots
    \/ CallClose
    \/ \E r \in DOMAIN refs : CallPage(r)
    \/ \E o \in DOMAIN objs : CallCrop(o)
    \/ \E o \in DOMAIN objs : CallPageAnnots(o)
    \/ PagesAgain
    \/ PagesStart
    \/ PagesEnd
    \/ PageKnown
    \/ PageStart
    \/ PageEnd
    \/ AnnotsStart
    \/ PageAnnotsStart
    \/ AnnotsEnd
    \/ CropStart
    \/ CropEnd
    \/ CloseStart
    \/ CloseEnd
    \/ Free
    \/ Release
    \/ \E o \in DOMAIN objs : Drop(o)
    \/ DropDocument
    \/ \E o \in DOMAIN objs : Collect(o)
    \/ CollectDocument
    \/ \E o \in DOMAIN objs : Finalize(o)
    \/ FinalizeDocument
    \/ OtherTakes

Spec == Init /\ [][Next]_vars

-----------------------------------------------------------------------------

(***************************************************************************)
(* While the document is in the core, the handle of a page object that was  *)
(* not collected is that of its page: nothing the collector, a finalizer or *)
(* another document does takes it away or gives it to another object        *)
(* (api.ts `pin`, `track`, `Life`).                                        *)
(***************************************************************************)
HandlesKeepTheirPages ==
    core[1].live =>
      \A o \in DOMAIN objs :
        Live(o) => objs[o].handle \in InUse /\ PageAt(objs[o].handle) = objs[o].names

(***************************************************************************)
(* A `free` frees the object it is meant for, which is still there: never   *)
(* an object another document made since, and never one that its document   *)
(* took along (api.ts `Life`: "a finalizer must not free a handle of a      *)
(* released document, whose number the core may have given to another       *)
(* object since").                                                         *)
(***************************************************************************)
FreesItsOwn ==
    Starts("free") =>
      LET job == Head(queue) IN
      core[job.meant].live /\ core[job.meant].handle = job.handle

(***************************************************************************)
(* pdf.pages is Python's list: the array the document keeps, and the pages  *)
(* it takes for current, are the pages of the list made since the last      *)
(* close(), however the reads, the closes and the references were queued    *)
(* (api.ts `pages`, `#current`).                                           *)
(***************************************************************************)
PagesAreCurrent ==
    ~released /\ epoch = closed =>
      /\ \A n \in DOMAIN current : objs[current[n]].names = ListPage(closed, n)
      /\ array # <<>> => \A n \in Numbers : objs[array[n]].names = ListPage(closed, n)

(***************************************************************************)
(* page(ref) gives the page that the reference names, the one whose         *)
(* annotations were read (api.ts `annots`: "each annotation's `data.P` is   *)
(* this page"), whenever it is called and whatever was closed, dropped or   *)
(* collected since.  (Until release(), which forgets the pages: a page(ref) *)
(* queued before it may give a page of the list for the derived page.)      *)
(***************************************************************************)
RefsNameTheirPages ==
    ~released =>
      \A r \in DOMAIN refs :
        refs[r].page # 0 => objs[refs[r].page].names = refs[r].names

(***************************************************************************)
(* "The same `PDFPlumberPage` as `pdf.pages` gives for it" (api.ts `page`): *)
(* whichever of the two was called first, and through whichever handle.  (A *)
(* release() in between forgets the pages, for the jobs queued before it.)  *)
(***************************************************************************)
SameObject ==
    ~released /\ epoch = closed /\ array # <<>> =>
      \A r \in DOMAIN refs :
        refs[r].page # 0 /\ refs[r].names.kind = "page" /\ refs[r].names.id = closed
          => array[refs[r].names.number] = refs[r].page

(***************************************************************************)
(* No handle of a derived page is forgotten: while the document is in the   *)
(* core, the page object is alive, or its finalizer is to run, or its free  *)
(* is queued (api.ts `track`: the memory of the core "would grow with every *)
(* iteration").                                                            *)
(***************************************************************************)
NothingLeaks ==
    core[1].live /\ ~released =>
      \A i \in DOMAIN core :
        core[i].live /\ core[i].page.kind = "derived" =>
          \/ \E o \in DOMAIN objs :
               /\ objs[o].names = core[i].page
               /\ Live(o) \/ (objs[o].state = "collected" /\ objs[o].registered)
          \/ \E k \in DOMAIN queue : queue[k].op = "free" /\ queue[k].meant = i
          \/ reply.made /\ reply.handles = <<core[i].handle>>

=============================================================================
