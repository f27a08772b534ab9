------------------------------ MODULE MCExtraction ----------------------------
(***************************************************************************)
(* Documents for TLC.  Of the first ones the page tree is what matters:    *)
(* kids that are missing, corrupt, given twice, their own ancestors, or in *)
(* no tree.  The others have one page and two forms, with every            *)
(* combination of a few contents, and a stream that ends inside a form's.  *)
(***************************************************************************)
EXTENDS FigureReference

Unset == "none"
Node == [kind |-> "other", kids |-> <<>>, attrs |-> <<>>, bad |-> FALSE,
         badBox |-> FALSE, contents |-> <<>>, ctm |-> <<>>, tokens |-> <<>>,
         resources |-> Unset, matrix |-> <<>>]
Refs(ids) == [k \in DOMAIN ids |-> [by |-> "reference", id |-> ids[k]]]
PagesNode(ids) == [Node EXCEPT !.kind = "pages", !.kids = Refs(ids)]
PageNode(contents) == [Node EXCEPT !.kind = "page", !.contents = contents, !.ctm = <<"page">>]
With(n, attrs) == [n EXCEPT !.attrs = attrs]
Fails == [kind |-> "fails"]
Stream(tokens) == [Node EXCEPT !.kind = "stream", !.tokens = tokens]
Image == [Node EXCEPT !.kind = "image"]
Form(tokens, resources, matrix) ==
    [Node EXCEPT !.kind = "form", !.tokens = tokens, !.resources = resources, !.matrix = matrix]

\* In `S` the names of the two forms are exchanged.
Empty == [cs |-> <<>>, xobjects |-> <<>>, fonts |-> <<>>]
Resources ==
    ("empty" :> Empty)
    @@ ("R" :> [cs |-> ("Two" :> 2) @@ ("Three" :> 3), fonts |-> "F" :> "R",
                xobjects |-> ("A" :> 11) @@ ("B" :> 12) @@ ("I" :> 13) @@ ("X" :> 19)])
    @@ ("S" :> [cs |-> <<>>, fonts |-> "F" :> "S", xobjects |-> ("A" :> 12) @@ ("B" :> 11)])

\* A file: its objects (the catalog is object 20), in the section at 1.
Catalog == [kind |-> "catalog", hasPages |-> TRUE, attrs |-> <<>>,
            pages |-> [by |-> "reference", id |-> 1]]
Table(objects) ==
    [kind |-> "table", offsets |-> objects, root |-> None, xrefstm |-> None, prev |-> None,
     ids |-> SelectSeq([i \in 1 .. 20 |-> i], LAMBDA i : i \in DOMAIN objects)]
Rooted_(section) == [section EXCEPT !.root = 20]
Prev(section, pos) == [section EXCEPT !.prev = pos]
Hybrid(section, pos) == [section EXCEPT !.xrefstm = pos]
File(sections, scan) ==
    [startxref |-> 1, sections |-> sections, scan |-> scan, resources |-> Resources,
     wanted |-> {}, external |-> TRUE, calls |-> 4]
DocOf(objects, cat) ==
    File(1 :> Rooted_(Table(objects @@ (20 :> cat))), [kind |-> "fails"])
Doc(objects) == DocOf(objects, Catalog)
NoTree(objects) == DocOf(objects, [Catalog EXCEPT !.hasPages = FALSE])
Owned(d) == [d EXCEPT !.external = FALSE]
Once(d) == [d EXCEPT !.calls = 2]
Only(d, numbers) == [d EXCEPT !.wanted = numbers]
H(n) == "MediaBox" :> n

-----------------------------------------------------------------------------
(* Page trees. *)

Tall == With(PageNode(<<>>), H(2))
Nested == (1 :> With(PagesNode(<<2, 3, 5>>), H(4) @@ ("Resources" :> "R")))
          @@ (2 :> Tall) @@ (3 :> With(PagesNode(<<4, 2>>), H(1)))
          @@ (4 :> PageNode(<<10>>)) @@ (5 :> PageNode(<<>>))
          @@ (10 :> Stream(<<>>))
Two == (1 :> PagesNode(<<2, 3>>)) @@ (2 :> Tall)
Trees ==
    {Doc(Nested), Only(Doc(Nested), {1, 3}), Owned(Doc(Nested)),
     \* a kid that is an ancestor, one that is not there, one that is no node
     Doc((1 :> PagesNode(<<2, 9, 3>>)) @@ (2 :> PagesNode(<<1, 2, 3>>)) @@ (3 :> Tall)),
     Doc((1 :> PagesNode(<<>>)) @@ (4 :> Tall) @@ (5 :> Corrupt)),
     \* the second page raises: in the generator, in its attributes, in its boxes
     Doc((1 :> PagesNode(<<2, 3, 4>>)) @@ (2 :> Tall) @@ (3 :> Fails) @@ (4 :> Tall)),
     \* more generators than there are frames
     Doc((1 :> PagesNode(<<9, 2, 9>>)) @@ (9 :> Tall)
         @@ [id \in 2 .. 7 |-> PagesNode(<<id + 1>>)]),
     Owned(Doc(Two @@ (3 :> [Tall EXCEPT !.bad = TRUE]))),
     Doc(Two @@ (3 :> [Tall EXCEPT !.badBox = TRUE])),
     Doc((1 :> [PagesNode(<<>>) EXCEPT !.kids = <<[by |-> "number", id |-> 2],
                                                  [by |-> "number", id |-> 9]>>]) @@ (2 :> Tall)),
     \* a kid that is in the list itself
     Doc((1 :> [PagesNode(<<>>) EXCEPT !.kids = <<[by |-> "reference", id |-> 2],
                                                  [by |-> "neither", id |-> 0]>>]) @@ (2 :> Tall)),
     Owned(Doc((1 :> PagesNode(<<2, 9, 3>>)) @@ (2 :> Tall) @@ (3 :> Tall) @@ (9 :> Corrupt))),
     \* a stream that is there only in name: its page reads it while the file is open
     Owned(Doc((1 :> PagesNode(<<2, 3>>)) @@ (2 :> PageNode(<<10, 18>>)) @@ (3 :> Tall)
               @@ (10 :> Stream(<<>>)) @@ (18 :> Corrupt)))}

-----------------------------------------------------------------------------
(* Files of several sections. *)

NotTall == PageNode(<<>>)
New == Rooted_(Table((1 :> PagesNode(<<2, 3>>)) @@ (2 :> Corrupt) @@ (20 :> Catalog)))
Old == Table((1 :> PagesNode(<<3>>)) @@ (2 :> Tall) @@ (3 :> NotTall))
ScannedNew == Rooted_(Table((1 :> PagesNode(<<3, 2>>)) @@ (2 :> NotTall) @@ (3 :> Tall)
                         @@ (20 :> Catalog)))
NoScan == [kind |-> "fails"]
Trailer == Table(<<>>)
Pack(id, index) == [kind |-> "packed", stream |-> id, index |-> index]
ObjStm(objs) == [kind |-> "objstm", objs |-> objs]
XRefStream(ranges, entries) ==
    [kind |-> "stream", ranges |-> ranges, entries |-> entries,
     root |-> 20, xrefstm |-> None, prev |-> None]
\* Objects 1, 2 and 4 in object streams, of which one holds nothing.
PackedFile ==
    XRefStream(<<<<1, 5>>, <<7, 2>>, <<20, 1>>>>,
               <<Pack(7, 1), Pack(7, 3), NotTall, Pack(8, 1), Free,
                 ObjStm(<<PagesNode(<<2, 3, 4>>), Tall>>), Corrupt, Catalog>>)

Files ==
    {Owned(File((1 :> Prev(New, 2)) @@ (2 :> Old), NoScan)),
     \* the stream of an update comes before the update it follows
     File((1 :> Prev(Hybrid(Trailer, 3), 2)) @@ (2 :> Prev(Old, 4))
          @@ (3 :> Prev(New, 4)) @@ (4 :> Table(3 :> Tall)), NoScan),
     \* updates that follow each other
     File((1 :> Prev(New, 2)) @@ (2 :> Prev(Old, 1)), ScannedNew),
     \* an update that is not there, one that ends the opening, none at all
     File(1 :> Prev(New, 9), ScannedNew),
     File((1 :> Prev(New, 2)) @@ (2 :> [kind |-> "fails"]), ScannedNew),
     File(1 :> Prev(New, 9), NoScan),
     Owned([File(1 :> New, ScannedNew) EXCEPT !.startxref = None]),
     File(1 :> Prev(Trailer, 2), NoScan), File((1 :> Prev(Trailer, 2)) @@ (2 :> Old), NoScan),
     \* a root that is not there, is no catalog, cannot be read
     File(1 :> Rooted_(Old), NoScan),
     File(1 :> [New EXCEPT !.root = 2], NoScan), File(1 :> [New EXCEPT !.root = 3], NoScan),
     DocOf(Two, Fails),
     \* no tree: a page that two sections have
     NoTree((2 :> Tall) @@ (1 :> PagesNode(<<>>))),
     [NoTree((2 :> Tall) @@ (1 :> PagesNode(<<>>))) EXCEPT
        !.sections = (1 :> Prev(@[1], 2)) @@ (2 :> Table((2 :> NotTall) @@ (3 :> Tall)))],
     Owned(File(1 :> PackedFile, NoScan)),
     Owned(File((1 :> Prev(PackedFile, 2))
                @@ (2 :> Table((2 :> Tall) @@ (4 :> NotTall) @@ (8 :> ObjStm(<<Tall>>)))),
                NoScan)),
     File((1 :> [PackedFile EXCEPT !.entries[6] = Fails]), NoScan),
     \* objects in a stream that is no object stream, and in no stream at all
     Owned(File((1 :> Prev(XRefStream(<<<<1, 5>>, <<20, 1>>>>,
                                      <<PagesNode(<<2, 3, 4>>), Tall, Pack(5, 1), Pack(2, 1),
                                        Stream(<<>>), Catalog>>), 2))
                @@ (2 :> Table((3 :> NotTall) @@ (4 :> NotTall))), NoScan)),
     \* pages of an xref stream, by its ranges
     File(1 :> XRefStream(<<<<1, 2>>, <<5, 2>>, <<20, 1>>>>,
                          <<Free, Tall, NotTall, NotTall, [Catalog EXCEPT !.hasPages = FALSE]>>),
          NoScan)}

-----------------------------------------------------------------------------
(* Contents. *)

A(v) == [t |-> "arg", v |-> v]
O(v) == [t |-> "op", v |-> v]
DoA == <<A("A"), O("Do")>>
DoB == <<A("B"), O("Do")>>
Inline == <<A("i"), O("EI")>>
Text == <<O("BT"), A("F"), A("1"), O("Tf"), A("x"), O("Tj")>>
Box == <<A("r"), O("re"), O("f")>>

PageContents ==
    <<DoA \o Box,
     <<O("q"), A("m"), O("cm")>> \o DoA \o Box \o <<O("Q")>> \o Text,
     Inline \o DoA \o DoA \o Inline,
     <<A("T"), O("BMC")>> \o DoB \o <<O("S"), O("EMC"), O("S")>> \o Box \o DoA,
     Text \o <<A("t"), O("Td"), A("l"), O("TL"), O("T*")>> \o DoB \o <<A("y"), O("'")>>,
     <<A("w"), A("c"), A("z"), O("\"")>> \o Text \o <<A("w"), A("c"), A("z"), O("\"")>>,
     <<A("Two"), O("cs"), A("1"), O("scn"), A("1"), A("2"), O("scn"),
       A("Three"), O("CS"), A("1"), A("2"), A("3"), O("SCN"), A("0"), O("g")>> \o DoA \o Box,
     <<O("Q"), O("cm"), A("I"), O("Do"), A("Z"), O("Do"), A("X"), O("Do"), O("zz")>> \o DoB,
     <<A("p"), O("m"), A("p"), O("m"), A("p"), O("l"), O("h"), A("p"), O("m"), O("s")>> \o DoA
        \o <<A("p"), O("l"), O("n"), A(Bad), O("EI"), A("y"), O("'"), A(Bad), O("cm"), A(Bad), O("l"), O("f")>>>>
FormContents ==
    <<<<>>, DoA, DoB \o Inline, <<O("q"), A("n"), O("cm"), O("q")>> \o DoB \o Box,
     <<O("Q"), A("n"), O("cm")>> \o Box \o <<A("U"), A("mcid"), O("BDC")>> \o Text,
     Inline \o <<A("I"), O("Do")>>, <<A(Huge), O("Tr")>>,
     <<A("m2"), O("Tm"), A("2"), O("w"), A("dash"), O("d"), A("s"), O("TD"), A("x"), O("Tj")>> \o DoA,
     <<A(Bad), O("MP"), O("F"), A("gs"), O("gs"), A("3"), O("g"), A("q"), A("cs"), O("cs"), O("SCN")>>
        \o DoB>>

Drawn_(page, a, b, contents) ==
    (1 :> With(PagesNode(<<2>>), "Resources" :> "R")) @@ (2 :> PageNode(contents))
    @@ (10 :> Stream(page)) @@ (11 :> Form(a, "S", <<"a">>)) @@ (12 :> Form(b, Unset, <<>>))
    @@ (13 :> Image)

Special ==
    {Owned(Doc(Drawn_(DoA, DoA, DoB, <<10, 11>>) @@ (18 :> Corrupt))),
     Doc(Drawn_(DoA, DoA, DoB, <<10, 14>>) @@ (14 :> Fails)),
     Doc((12 :> Fails) @@ Drawn_(DoB, DoB, DoB, <<10>>))}

MCDocuments ==
    Trees \cup Files \cup Special
    \cup {Owned(Doc(Drawn_(page, DoB \o Inline, DoA, <<10, 19, 10>>))) :
            page \in Range(PageContents)}
    \cup {Once(Doc(Drawn_(PageContents[i], FormContents[j], FormContents[k], <<10>>))) :
            <<i, j, k>> \in {t \in (1 .. 9) \X (1 .. 9) \X (1 .. 9) : (t[1] + t[2] + t[3]) % 3 = 0}}
================================================================================
