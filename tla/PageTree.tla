-------------------------------- MODULE PageTree ------------------------------
(***************************************************************************)
(* The generator PDFPage.create_pages (pdfpage.rs, CreatePages): the pages *)
(* of the page tree, depth first, each node once; when the tree gives no   *)
(* page, the /Page objects of the cross-reference sections.                *)
(*                                                                         *)
(* Its consumer takes a page from `walk.page`; the walk goes on once the   *)
(* page is taken.  Each generator is a frame of Python's.  Left out: the   *)
(* page labels.                                                            *)
(***************************************************************************)
EXTENDS Document

VARIABLE walk \* the generator: its CreateState, and the page it yielded

NoPage == [id |-> 0]
NotStarted == [at |-> "start", stack |-> <<>>, visited |-> {}, pages |-> FALSE,
               xref |-> 1, ids |-> <<>>, page |-> NoPage]
Off == [NotStarted EXCEPT !.at = "off"]

\* One depth_first_search(obj, parent, visited) generator.
Search(kid, parent) ==
    [kid |-> kid, parent |-> parent, kids |-> <<>>, props |-> <<>>, started |-> FALSE]

Resumed == walk.page = NoPage
node == walk.stack[Len(walk.stack)]
Above == SubSeq(walk.stack, 1, Len(walk.stack) - 1)

\* object_properties: the node's own attributes and, for the inheritable ones it
\* does not have, its parent's.
Properties(object, parent) ==
    Merged(IF object = Missing THEN <<>> ELSE object.attrs, parent)

\* PDFPage(...) of a node: what it resolves may raise, which ends the generator.
Yield(w, id, object, attrs) ==
    IF object.bad THEN [w EXCEPT !.at = "raised"]
    ELSE [w EXCEPT !.page = [id |-> id, attrs |-> attrs], !.pages = TRUE]

-----------------------------------------------------------------------------
WalkStarts ==
    /\ walk.at = "start"
    /\ walk' = IF catalog.hasPages
               THEN [walk EXCEPT !.at = "tree",
                        !.stack = <<Search(catalog.pages, catalog.attrs)>>]
               ELSE [walk EXCEPT !.at = "xrefs"]
    /\ UNCHANGED loaded

\* The generator of a node starts.  A number given in place of a reference is
\* looked up, and may not be there; a reference to nothing is an empty node; what is
\* neither has no id (AttributeError).
Entering == walk.at = "tree" /\ Resumed /\ walk.stack # <<>> /\ ~node.started
TooDeep == Len(walk.stack) > MaxDepth
Resolved == IF Entering /\ ~TooDeep THEN {Getobj(node.kid.id)} ELSE {}
Lost(object) == \/ node.kid.by = "neither" \/ object = Raises
                \/ object = Missing /\ node.kid.by = "number"

EnterFails ==
    /\ \/ Entering /\ TooDeep
       \/ \E object \in Resolved : Lost(object)
    /\ walk' = [walk EXCEPT !.at = "raised"]
    /\ UNCHANGED loaded

EnterVisited ==
    /\ \E object \in Resolved : ~Lost(object)
    /\ node.kid.id \in walk.visited
    /\ walk' = [walk EXCEPT !.stack = Above]
    /\ UNCHANGED loaded

\* Neither /Pages with /Kids nor /Page, /Pages, and /Page.
EnterNew ==
    \E object \in Resolved :
        LET id == node.kid.id
            props == Properties(object, node.parent)
            entered == [walk EXCEPT !.visited = @ \cup {id}]
            Stays(kids) == Append(Above, [node EXCEPT !.started = TRUE, !.kids = kids,
                                                      !.props = props])
        IN  /\ ~Lost(object)
            /\ id \notin walk.visited
            /\ \/ /\ object.kind \notin {"pages", "page"}
                  /\ walk' = [entered EXCEPT !.stack = Above]
               \/ /\ object.kind = "pages"
                  /\ walk' = [entered EXCEPT !.stack = Stays(object.kids)]
               \/ /\ object.kind = "page"
                  /\ walk' = Yield([entered EXCEPT !.stack = Stays(<<>>)], id, object, props)
            /\ loaded' = Reading({id})

\* Mutation: a kid has the attributes of the node above this one.
NextKidSkips ==
    /\ walk.at = "tree" /\ Resumed /\ walk.stack # <<>> /\ node.started
    /\ walk' = [walk EXCEPT !.stack =
            IF node.kids = <<>> THEN Above
            ELSE Append(Append(Above, [node EXCEPT !.kids = Tail(@)]),
                        Search(Head(node.kids), node.parent))]
    /\ UNCHANGED loaded

\* Mutation: the kid stays among the kids to come.
NextKidAgain ==
    /\ walk.at = "tree" /\ Resumed /\ walk.stack # <<>> /\ node.started
    /\ walk' = [walk EXCEPT !.stack =
            IF node.kids = <<>> THEN Above
            ELSE Append(@, Search(Head(node.kids), node.props))]
    /\ UNCHANGED loaded

\* for child in kids: yield from depth_first_search(child, ...).
NextKid ==
    /\ walk.at = "tree" /\ Resumed /\ walk.stack # <<>> /\ node.started
    /\ walk' = [walk EXCEPT !.stack =
            IF node.kids = <<>> THEN Above
            ELSE Append(Append(Above, [node EXCEPT !.kids = Tail(@)]),
                        Search(Head(node.kids), node.props))]
    /\ UNCHANGED loaded

TreeEnds ==
    /\ walk.at = "tree" /\ Resumed /\ walk.stack = <<>>
    /\ walk' = [walk EXCEPT !.at = IF walk.pages THEN "done" ELSE "xrefs"]
    /\ UNCHANGED loaded

-----------------------------------------------------------------------------
(* The fallback: the /Page objects of each section, in the order of         *)
(* get_objids.  An object not found is passed over, and nothing inherited.   *)

ScanSection ==
    /\ walk.at = "xrefs" /\ Resumed /\ walk.ids = <<>>
    /\ walk' = IF walk.xref > Len(xrefs) THEN [walk EXCEPT !.at = "done"]
               ELSE [walk EXCEPT !.ids = Objids(Section(xrefs[walk.xref])), !.xref = @ + 1]
    /\ UNCHANGED loaded

ScanObject ==
    /\ walk.at = "xrefs" /\ Resumed /\ walk.ids # <<>>
    /\ \E object \in {Getobj(Head(walk.ids))} :
        LET id == Head(walk.ids)
            rest == [walk EXCEPT !.ids = Tail(@)]
        IN  /\ walk' = IF object = Raises THEN [walk EXCEPT !.at = "raised"]
                       ELSE IF object.kind = "page" THEN Yield(rest, id, object, object.attrs)
                       ELSE rest
            /\ loaded' = Reading({id})

Walk == \/ WalkStarts \/ EnterFails \/ EnterVisited \/ EnterNew
        \/ NextKid \/ TreeEnds \/ ScanSection \/ ScanObject
================================================================================
