---------------------------- MODULE ExtractionReference -----------------------
(***************************************************************************)
(* What the calls of Extraction give, said without its steps: the sections *)
(* of a file and its pages, as recursions over what refers to what, down   *)
(* to the depth that Python's frames allow.                                *)
(***************************************************************************)
EXTENDS Extraction

-----------------------------------------------------------------------------
(* The sections, as a recursion over what leads to what: those of a place and *)
(* below, with how reading them ends.                                         *)

Leads(s) == IF s.kind \in {"invalid", "fails"} THEN {} ELSE {s.xrefstm, s.prev}
Places == {doc.startxref} \cup UNION {Leads(Section(p)) : p \in DOMAIN doc.sections \cup {Scanned}}

ReadNone(outcome) == [read |-> <<>>, outcome |-> outcome]
\* Reading ends before the next section, or goes on with what `below` says of it.
AndThen(a, next, below) ==
    IF a.outcome # "ends" \/ next = None THEN a
    ELSE [read |-> a.read \o below[next].read, outcome |-> below[next].outcome]

ChainOf(pos, below) ==
    LET s == Section(pos)
    IN  IF s.kind = "invalid" THEN ReadNone("scan")
        ELSE IF s.kind = "fails" THEN ReadNone("raised")
        ELSE AndThen(AndThen([read |-> <<pos>>, outcome |-> "ends"], s.xrefstm, below),
                     s.prev, below)

\* By the number of frames left.
Chain[n \in 0 .. MaxDepth] ==
    IF n = 0 THEN [pos \in Places |-> ReadNone("raised")]
    ELSE [pos \in Places |-> ChainOf(pos, Chain[n - 1])]
WholeChain == IF doc.startxref = None THEN ReadNone("scan") ELSE Chain[MaxDepth][doc.startxref]

\* Each section is read before those it leads to, its stream of the same update
\* before the update it follows; a file with one that is not valid is scanned,
\* and what the scan finds comes last; sections that lead in a circle end the
\* opening, as an error that is not taken for a file to scan (pdfdocument/mod.rs,
\* init, read_xref_from).
SectionsAreTheChain ==
    opening.at \in {"trailers", "done", "raised"} =>
        /\ xrefs = IF WholeChain.outcome = "scan" /\ doc.scan.kind # "fails"
                   THEN Append(WholeChain.read, Scanned) ELSE WholeChain.read
        /\ WholeChain.outcome = "raised" => opening.at = "raised"

-----------------------------------------------------------------------------
(* The objects, without cached_objs, read from a file that is open.           *)

StoredStream(id) == First([k \in DOMAIN xrefs |-> Parsed(Entry(xrefs[k], id), FALSE)])
StoredIn(entry) == IF entry.kind # "packed" THEN Parsed(entry, FALSE)
                   ELSE InStream(StoredStream(entry.stream), entry.index)
Stored(id) == First([k \in DOMAIN xrefs |-> StoredIn(Entry(xrefs[k], id))])

-----------------------------------------------------------------------------
(* The pages, as a recursion over the tree.  `search` says what each kid of a *)
(* node gives, by the nodes visited before; what a node's kids give inherits  *)
(* its attributes on the way up.                                              *)

NoPages(visited) == [pages |-> <<>>, visited |-> visited, raised |-> FALSE]
Raising(visited) == [NoPages(visited) EXCEPT !.raised = TRUE]
Inherit(list, attrs) == [k \in DOMAIN list |-> [list[k] EXCEPT !.attrs = Merged(@, attrs)]]

AndKid(found, kid, attrs, search) ==
    IF found.raised THEN found
    ELSE LET more == search[kid][found.visited]
         IN  [more EXCEPT !.pages = found.pages \o Inherit(@, attrs)]
AndKids(found, kids, attrs, search) ==
    LET Upto[k \in 0 .. Len(kids)] ==
            IF k = 0 THEN found ELSE AndKid(Upto[k - 1], kids[k], attrs, search)
    IN  Upto[Len(kids)]

NodeIs(id, object) == [id |-> id, attrs |-> object.attrs]
OfNode(kid, visited, search) ==
    LET object == Stored(kid.id)
        known == visited \cup {kid.id}
    IN  IF \/ kid.by = "neither" \/ object = Raises
           \/ object = Missing /\ kid.by = "number" THEN Raising(visited)
        ELSE IF kid.id \in visited THEN NoPages(visited)
        ELSE IF object.kind = "pages"
        THEN AndKids(NoPages(known), object.kids, object.attrs, search)
        ELSE IF object.kind # "page" THEN NoPages(known)
        ELSE IF object.bad THEN Raising(known)
        ELSE [NoPages(known) EXCEPT !.pages = <<NodeIs(kid.id, object)>>]

StoredIds == UNION {Ids(Section(xrefs[k])) : k \in DOMAIN xrefs}
Nodes == {id \in StoredIds : Stored(id).kind = "pages"}
Kids == {catalog.pages} \cup UNION {Range(Stored(id).kids) : id \in Nodes}
KidIds == {kid.id : kid \in Kids}

\* By the number of frames left.
Tree[n \in 0 .. MaxDepth] ==
    [kid \in Kids |-> [visited \in SUBSET KidIds |->
        IF n = 0 THEN Raising(visited) ELSE OfNode(kid, visited, Tree[n - 1])]]

\* The pages of the sections, for a tree that gives none.
PageAt(id, object) == IF object.kind = "page" THEN <<NodeIs(id, object)>> ELSE <<>>
PagesOf(ids) == FlattenSeq([n \in DOMAIN ids |-> PageAt(ids[n], Stored(ids[n]))])
SectionPages == FlattenSeq([k \in DOMAIN xrefs |-> PagesOf(Objids(Section(xrefs[k])))])

WholeTree == IF catalog.hasPages THEN Tree[MaxDepth][catalog.pages][{}] ELSE NoPages({})
WholeList == IF WholeTree.raised \/ WholeTree.pages # <<>>
             THEN Inherit(WholeTree.pages, catalog.attrs) ELSE SectionPages

\* Pages are numbered upward, and each is under the one before it.
Under(p) == p.doctop + Height(p.page.attrs)
Stacked(list) ==
    /\ \A k, l \in DOMAIN list : k < l => list[k].number < list[l].number
    /\ \A k \in DOMAIN list : list[k].doctop = IF k = 1 THEN 0 ELSE Under(list[k - 1])

\* The list has the pages of these numbers, and those asked for are none too few.
Numbered(list, whole) ==
    \A k \in DOMAIN list :
        list[k].number \in DOMAIN whole /\ list[k].page = whole[list[k].number]
Lists(list, n) == \E k \in DOMAIN list : list[k].number = n
NoneMissing(list, last) == \A n \in 1 .. last : Wanted(n) => Lists(list, n)

\* pdf.pages gives the pages of the tree in its order, each node once, with the
\* attributes of the nearest node above that has them, those that were asked for,
\* one under the other.  It makes no difference what was read before, nor that the
\* file was closed since: a list that lacks pages at its end only follows a call
\* that raised (pdfpage.rs, create_pages; pdf.rs, pages).
ListsAreWhole ==
    returned.given =>
        \E whole \in {WholeList} :
            /\ Stacked(returned.list) /\ Numbered(returned.list, whole)
            /\ \E last \in 0 .. Len(whole) :
                    /\ NoneMissing(returned.list, last)
                    /\ \A k \in DOMAIN returned.list : returned.list[k].number <= last
                    /\ last < Len(whole) \/ WholeTree.raised => failed
===============================================================================
