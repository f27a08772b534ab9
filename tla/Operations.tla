------------------------------ MODULE Operations ------------------------------
(***************************************************************************)
(* What one operation does to a document and to the modeled Python process, *)
(* whoever runs it: the calls of JavaScript, their replays, and the Python  *)
(* process they are compared with (crates/wasm/src/pages.rs, ops.rs).       *)
(*                                                                         *)
(* The state a document derives from its bytes is abstracted to its log:   *)
(* what was done to it since it was opened, and what each operation saw    *)
(* when it ran.  Two documents with one log are in the same state, caches, *)
(* pages and in-place changes included.                                    *)
(*                                                                         *)
(* The operations kept are those that differ in what they share:           *)
(*   text   extraction (page_extract_text, doc_objects), which loads a     *)
(*          font's predefined CMap through the font cache of the document  *)
(*   deep   an operation near the recursion limit: it raises unless its    *)
(*          call site is specialized, and specializes it                   *)
(*   pages  pdf.pages: a new handle to the (one) page of the document      *)
(*   annots a result that holds the page: its first live handle, or a new  *)
(*          one                                                            *)
(*   crop   a new page, derived from a page                                *)
(*   close  PDF.close(): the pages are built again                         *)
(***************************************************************************)
EXTENDS Integers, Sequences, FiniteSets

CONSTANTS
    CMaps,   \* the predefined CMaps JavaScript can provide (cmap_configure)
    NoCMap,  \* for the operations that read none
    Site,    \* a call site the interpreter specializes the first time it runs
    Handles, \* the handles of the table (a set of numbers)
    Scripts  \* what one call may do: sequences of operations and their CMaps

\* A state of the modeled process (pdfminer::process_state): the sites
\* specialized and the CMaps `CMapDB` cached.
Process == SUBSET (CMaps \cup {Site})

\* What each kind of object can do.
DocumentOps == {"text", "deep", "pages", "annots", "close"}
PageOps == {"text", "deep", "crop"}

ASSUME OperationsAssumption ==
    /\ IsFiniteSet(CMaps)
    /\ Handles \in SUBSET (Nat \ {0})
    /\ IsFiniteSet(Handles)
    /\ \A s \in Scripts :
         /\ s \in Seq([op : DocumentOps \cup PageOps, cmap : CMaps \cup {NoCMap}])
         /\ s # <<>>
    /\ NoCMap \notin CMaps
    /\ Site \notin CMaps \cup {NoCMap}

\* One step of the life of a document: the operation, the value it acts on
\* (the step that made it; 1, the opening, for the document), the CMap it
\* reads, what it saw of it, and how it ended.
Event(op, on, cmap, saw, outcome) ==
    [op |-> op, on |-> on, cmap |-> cmap, saw |-> saw, outcome |-> outcome]

Opening == Event("open", 0, NoCMap, "nothing", "done")

-----------------------------------------------------------------------------

\* CMapDB.get_cmap finds c: in its cache, or handed over by JavaScript.
Found(c, process, loaded) == c \in process \cup loaded

\* A font of the document holds a CMap for c (PDFResourceManager's font cache).
InFontCache(c, log) == \E i \in DOMAIN log : log[i].cmap = c

\* The CMap an operation decodes with: that of the font in the cache, else the
\* one CMapDB finds, else an empty CMap() (PDFCIDFont.get_cmap_from_spec).
Saw(c, log, process, loaded) ==
    CASE c = NoCMap -> "nothing"
      [] c # NoCMap /\ InFontCache(c, log) ->
           log[CHOOSE i \in DOMAIN log : log[i].cmap = c].saw
      [] c # NoCMap /\ ~InFontCache(c, log) ->
           IF Found(c, process, loaded) THEN "full" ELSE "empty"

\* The names the provider records as missing (JsCMapProvider::load).
Missed(c, log, process, loaded) ==
    IF c = NoCMap \/ InFontCache(c, log) \/ Found(c, process, loaded) THEN {}
    ELSE {c}

Outcome(op, process) ==
    IF op = "deep" /\ Site \notin process THEN "RecursionError" ELSE "done"

\* The process after the operation.
ProcessAfter(op, c, log, process, loaded) ==
    process \cup (IF op = "deep" THEN {Site} ELSE {})
            \cup (IF c = NoCMap \/ InFontCache(c, log) THEN {} ELSE {c} \cap loaded)

\* Every operation on the document itself reads pdf.pages, but "deep".
ReadsPages(event) == event.on = 1 /\ event.op # "deep"

\* The page of pdf.pages: made by the first operation that read it since the
\* document was opened, or since its cache was last flushed by PDF.close(),
\* which makes the pages again itself (to close each of them).
PageOf(log) ==
    CHOOSE i \in DOMAIN log :
        /\ ReadsPages(log[i])
        /\ \A j \in i + 1 .. Len(log) : log[j].op # "close"
        /\ \A j \in 1 .. i - 1 :
              ReadsPages(log[j]) => \E k \in j + 1 .. i : log[k].op = "close"

-----------------------------------------------------------------------------

\* The objects of the handle table.  A page, of the document or derived from
\* another, knows the handle of its document and the step of the log that made
\* it (0: dropped by `reset`).
Document(d, log) == [kind |-> "document", doc |-> d, value |-> 1, log |-> log]
Page(d, value, op) ==
    [ kind |-> IF op = "crop" THEN "derived" ELSE "page",
      doc |-> d, value |-> value, log |-> <<>> ]

DocumentsOf(os) == {h \in DOMAIN os : os[h].kind = "document"}

\* Object::reset
Reset(object) ==
    IF object.kind = "document" THEN [object EXCEPT !.log = <<>>]
    ELSE [object EXCEPT !.value = 0]

\* The objects, those of the documents ds reset.
ResetAll(os, ds) ==
    [h \in DOMAIN os |-> IF os[h].doc \in ds THEN Reset(os[h]) ELSE os[h]]

Without(f, S) == [x \in DOMAIN f \ S |-> f[x]]
With(f, x, y) == [z \in DOMAIN f \cup {x} |-> IF z = x THEN y ELSE f[z]]

\* The objects `free` removes: a document goes with its pages.
FreedWith(os, h) ==
    IF os[h].kind = "document" THEN {k \in DOMAIN os : os[k].doc = h} ELSE {h}

Fresh(used) ==
    CHOOSE h \in Handles \ used : \A k \in Handles \ used : h <= k

-----------------------------------------------------------------------------

\* A request for one operation on the object of a handle.
Request(op, on, cmap) == [op |-> op, on |-> on, cmap |-> cmap]

\* The calls JavaScript can make: scripts run on objects it holds.
RequestsOn(os) ==
    LET Can(op, h) ==
          op \in IF os[h].kind = "document" THEN DocumentOps ELSE PageOps
    IN  UNION { { [i \in DOMAIN s |-> Request(s[i].op, on[i], s[i].cmap)] :
                    on \in {f \in [DOMAIN s -> DOMAIN os] :
                              \A i \in DOMAIN s : Can(s[i].op, f[i])} } :
                s \in Scripts }

\* The effect of an operation on a value of a document whose log is given.
Effect(op, cmap, value, log, process, loaded) ==
    [ event   |-> Event(op, value, cmap,
                        Saw(cmap, log, process, loaded), Outcome(op, process)),
      process |-> ProcessAfter(op, cmap, log, process, loaded),
      missed  |-> Missed(cmap, log, process, loaded) ]

\* The page an operation answers with, once its event is the last of the log
\* (0: none).
PageAnswered(log) ==
    LET event == log[Len(log)] IN
    CASE event.op \in {"pages", "annots"} -> PageOf(log)
      [] event.op = "crop" -> Len(log)
      [] event.op \notin {"pages", "annots", "crop"} -> 0

\* Whether the answer needs a handle made: a page that a result holds keeps
\* the handle of a live object of that page (Core::label_page).
NeedsHandle(os, d, log) ==
    /\ PageAnswered(log) # 0
    /\ \/ log[Len(log)].op # "annots"
       \/ \A h \in DOMAIN os :
            ~ /\ os[h].kind = "page"
              /\ os[h].doc = d
              /\ os[h].value = PageAnswered(log)

\* What a call has done so far: the objects and the process it left, the
\* handles it made, the documents it reached, the CMaps it missed, how its
\* last operation ended and the page that one answered with.
Start(rs, os, process) ==
    [ request |-> rs, objects |-> os, process |-> process, created |-> <<>>, touched |-> {},
      missed |-> {}, outcome |-> "done", page |-> 0 ]

\* One operation of a call (Core::op): it reaches its document, which raises
\* if the document is lost; then it runs, and its result gets its handles.
Do(w, r, loaded, lost) ==
    LET d == w.objects[r.on].doc
        e == Effect(r.op, r.cmap, w.objects[r.on].value, w.objects[d].log,
                    w.process, loaded)
        log == Append(w.objects[d].log, e.event)
        os == [w.objects EXCEPT ![d].log = log]
        ran == [w EXCEPT !.objects = os, !.process = e.process,
                         !.touched = @ \cup {d}, !.missed = @ \cup e.missed,
                         !.outcome = e.event.outcome, !.page = PageAnswered(log)]
        h == Fresh(DOMAIN os)
    IN  CASE d \in lost -> [w EXCEPT !.outcome = "RuntimeError", !.page = 0]
          [] d \notin lost /\ ~NeedsHandle(os, d, log) -> ran
          [] d \notin lost /\ NeedsHandle(os, d, log) ->
               IF Handles \subseteq DOMAIN os
               THEN [ran EXCEPT !.outcome = "MemoryError", !.page = 0]
               ELSE [ran EXCEPT !.objects = With(os, h, Page(d, ran.page, r.op)),
                                !.created = Append(@, h)]

=============================================================================
