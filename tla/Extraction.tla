------------------------------- MODULE Extraction -----------------------------
(***************************************************************************)
(* The core of pdfplumber: a PDF, its pages and their layouts (pdf.rs,     *)
(* page.rs), over the page tree (PageTree) and the interpreter of a page's *)
(* content (Interpreter), in a document that is opened first (XRefs).      *)
(*                                                                         *)
(* The caller calls pdf.pages, page.objects, page.close and pdf.close, one *)
(* after the other; it may keep the pages of a list that close() has       *)
(* dropped.  Left out: the objects made of a layout (page.objects keeps    *)
(* them with it), derived pages, and the other cached properties.          *)
(***************************************************************************)
EXTENDS XRefs, PageTree, Interpreter

CONSTANT
    DefaultHeight \* of a page without /MediaBox (US Letter)

VARIABLES
    pages,    \* PDF._pages: the pages made, by their places in `made`, or NoList
    made,     \* every Page made, in order, with its cached layout
    call,     \* the call under way
    calls,    \* calls so far
    returned, \* what pdf.pages returned last (a history of the model)
    failed,   \* pdf.pages has raised since the cache was flushed (a history)
    seen      \* by page number, what the last layout of it was (a history)

opened == <<doc, xrefs, catalog, opening>>
document == <<opened, loaded>>
vars == <<document, closed, walk, drawing, pages, made, call, calls,
          returned, failed, seen>>
history == <<returned, failed, seen>>

NoList == <<0>>
NoAnswer == [given |-> FALSE, list |-> <<>>]
Answer(list) == [given |-> TRUE, list |-> [k \in DOMAIN list |-> made[list[k]]]]
NoLayout == <<"none">>
NoCall == [what |-> "none", page |-> 0, i |-> 0, doctop |-> 0]
Idle == call = NoCall

Init ==
    /\ doc \in Documents
    /\ xrefs = <<>> /\ catalog = NoCatalog /\ opening = NotOpened
    /\ loaded = <<>> /\ closed = FALSE
    /\ walk = Off
    /\ interps = <<>> /\ device = <<>> /\ inlineImages = 0 /\ status = "idle"
    /\ pages = NoList /\ made = <<>>
    /\ call = [NoCall EXCEPT !.what = "open"] /\ calls = 0
    /\ returned = NoAnswer /\ failed = FALSE /\ seen = <<>>

\* The caller makes at most doc.calls calls, the bound of the model.
Calling == /\ Idle /\ opening.at = "done" /\ calls < doc.calls
           /\ calls' = calls + 1

-----------------------------------------------------------------------------
(* PDF.open. *)

Open ==
    /\ OpenStep
    /\ UNCHANGED <<doc, closed, walk, drawing, pages, made, call, calls, history>>

\* The PDF is made, or the exception is that of the call.
OpenEnds ==
    /\ call.what = "open"
    /\ opening.at \in {"done", "raised"}
    /\ call' = NoCall
    /\ UNCHANGED <<document, closed, walk, drawing, pages, made, calls, history>>

-----------------------------------------------------------------------------
(* PDF.pages: the list is cached, empty, before the first page is made. *)

GetPages ==
    /\ Calling
    /\ pages # NoList
    /\ returned' = Answer(pages)
    /\ UNCHANGED <<document, closed, walk, drawing, pages, made, call, failed, seen>>

MakePages(what) ==
    /\ pages' = <<>>
    /\ walk' = NotStarted
    /\ call' = [NoCall EXCEPT !.what = what]

StartPages ==
    /\ Calling
    /\ pages = NoList
    /\ MakePages("pages")
    /\ UNCHANGED <<document, closed, drawing, made, history>>

\* The generator goes on.
Generate ==
    /\ Walk
    /\ UNCHANGED <<opened, closed, drawing, pages, made, call, calls, history>>

\* A page of the generator: numbered; skipped when its number is not asked for;
\* made, with the height of the pages made before it.
Wanted(n) == doc.wanted = {} \/ n \in doc.wanted
Height(attrs) == IF "MediaBox" \in DOMAIN attrs THEN attrs["MediaBox"] ELSE DefaultHeight
NewPage(n) == [page |-> walk.page, number |-> n, doctop |-> call.doctop, layout |-> NoLayout]

SkipPage ==
    /\ walk.page # NoPage
    /\ ~Wanted(call.i + 1)
    /\ walk' = [walk EXCEPT !.page = NoPage]
    /\ call' = [call EXCEPT !.i = @ + 1]
    /\ UNCHANGED <<document, closed, drawing, pages, made, calls, history>>

TakePage ==
    /\ walk.page # NoPage
    /\ Wanted(call.i + 1)
    /\ ~Object(walk.page.id).badBox
    /\ made' = Append(made, NewPage(call.i + 1))
    /\ pages' = Append(pages, Len(made'))
    /\ walk' = [walk EXCEPT !.page = NoPage]
    /\ call' = [call EXCEPT !.i = @ + 1, !.doctop = @ + Height(walk.page.attrs)]
    /\ UNCHANGED <<document, closed, drawing, calls, history>>

\* The generator, or Page.__init__, raises: the pages made stay in the cache.
PagesRaise ==
    /\ call.what \in {"pages", "close"}
    /\ \/ walk.at = "raised"
       \/ walk.page # NoPage /\ Wanted(call.i + 1) /\ Object(walk.page.id).badBox
    /\ walk' = Off
    /\ call' = NoCall
    /\ failed' = TRUE
    /\ UNCHANGED <<document, closed, drawing, pages, made, calls, returned, seen>>

PagesReturn ==
    /\ call.what = "pages"
    /\ walk.at = "done" /\ walk.page = NoPage
    /\ walk' = Off
    /\ call' = NoCall
    /\ returned' = Answer(pages)
    /\ UNCHANGED <<document, closed, drawing, pages, made, calls, failed, seen>>

-----------------------------------------------------------------------------
(* PDF.close and Page.close. *)

\* close() flushes the cache, makes the pages again, closes each (they have no
\* layout yet) and then the file, when the PDF opened it.
StartClose ==
    /\ Calling
    /\ MakePages("close")
    /\ failed' = FALSE
    /\ returned' = NoAnswer
    /\ UNCHANGED <<document, closed, drawing, made, seen>>

CloseReturns ==
    /\ call.what = "close"
    /\ walk.at = "done" /\ walk.page = NoPage
    /\ walk' = Off
    /\ call' = NoCall
    /\ closed' = ~doc.external
    /\ UNCHANGED <<document, drawing, pages, made, calls, history>>

ClosePage ==
    /\ Calling
    /\ \E p \in DOMAIN made : made' = [made EXCEPT ![p].layout = NoLayout]
    /\ UNCHANGED <<document, closed, walk, drawing, pages, call, history>>

-----------------------------------------------------------------------------
(* Page.objects, through Page.layout. *)

Remember(n, what) == seen' = (n :> what) @@ seen

GetObjects ==
    /\ Calling
    /\ \E p \in DOMAIN made :
        /\ made[p].layout # NoLayout
        /\ Remember(made[p].number, made[p].layout)
    /\ UNCHANGED <<document, closed, walk, drawing, pages, made, call, returned, failed>>

\* What of the page's object the interpreter is given.
Content(p) ==
    LET object == Object(made[p].page.id)
    IN  [contents |-> object.contents, ctm |-> object.ctm,
         resources |-> IF "Resources" \in DOMAIN made[p].page.attrs
                       THEN made[p].page.attrs["Resources"] ELSE "empty"]

StartObjects ==
    /\ Calling
    /\ \E p \in DOMAIN made :
        /\ made[p].layout = NoLayout
        /\ BeginPage(Content(p))
        /\ call' = [NoCall EXCEPT !.what = "objects", !.page = p]
    /\ UNCHANGED <<opened, closed, walk, pages, made, history>>

Draw ==
    /\ Interpret
    /\ UNCHANGED <<opened, closed, walk, pages, made, call, calls, history>>

\* The layout is kept; what the interpretation raises keeps nothing.
NotDrawing == /\ interps' = <<>> /\ device' = <<>> /\ inlineImages' = 0
              /\ status' = "idle"

ObjectsReturn ==
    /\ status = "done"
    /\ made' = [made EXCEPT ![call.page].layout = <<"layout", device.cur.objs>>]
    /\ Remember(made[call.page].number, <<"layout", device.cur.objs>>)
    /\ NotDrawing
    /\ call' = NoCall
    /\ UNCHANGED <<document, closed, walk, pages, calls, returned, failed>>

ObjectsRaise ==
    /\ status = "raised"
    /\ Remember(made[call.page].number, <<"raised">>)
    /\ NotDrawing
    /\ call' = NoCall
    /\ UNCHANGED <<document, closed, walk, pages, made, calls, returned, failed>>

\* The caller makes no more calls.
Rest == Idle /\ UNCHANGED vars

Next == \/ Open \/ OpenEnds
        \/ GetPages \/ StartPages \/ Generate \/ SkipPage \/ TakePage
        \/ PagesRaise \/ PagesReturn \/ StartClose \/ CloseReturns \/ ClosePage
        \/ GetObjects \/ StartObjects \/ Draw \/ ObjectsReturn \/ ObjectsRaise
        \/ Rest

\* A call runs to its end: one thread, which nothing interrupts.
Spec == Init /\ [][Next]_vars /\ WF_vars(~Idle /\ Next)

-----------------------------------------------------------------------------
(* What the calls promise.  ExtractionReference has what they give. *)

\* A stream is executed by one interpreter of the stack at a time: a form that
\* draws itself, directly or through others, is drawn once on the way down.
NoStreamInsideItself ==
    \A i, j \in DOMAIN interps : i # j => interps[i].ids \cap interps[j].ids = {}

\* While no form has ended since an interpreter last set the device's CTM, what
\* it draws has its own CTM; and the open figures are those of the forms at work.
DeviceFollows ==
    status = "running" =>
        /\ ~top.stale => device.ctm = top.ctm
        /\ Len(device.stack) = Len(interps) - 1

\* A page interpreted again, also after close() has closed the file and its list
\* was made again, has the layout it had.  An object that the document refers to
\* and does not have is looked for again, and then needs the file.
Dangling == \E k \in DOMAIN xrefs : \E id \in Ids(Section(xrefs[k])) :
                Lookup(id, FALSE) = Missing
LayoutIsRepeatable ==
    [][\A n \in DOMAIN seen : seen'[n] = seen[n] \/ (closed /\ Dangling)]_seen

\* Every call returns: no page tree and no forms, however they refer to each
\* other, keep it going.
CallsEnd == ~Idle ~> Idle
================================================================================
