------------------------------ MODULE Interpreter ------------------------------
(***************************************************************************)
(* The interpreter of a page's content (pdfinterp.rs,                      *)
(* PDFPageInterpreter) and the device it draws on (converter.rs,           *)
(* PDFLayoutAnalyzer; page.rs, marked_content).                            *)
(*                                                                         *)
(* One action is one turn of the loop of `execute`: an operand pushed, an  *)
(* operator called, the end of a stream.  A Form XObject runs in a         *)
(* sub-interpreter: `interps` is the stack of the interpreters at work.    *)
(*                                                                         *)
(* Data.  A matrix is the sequence of the matrices it is the product of,   *)
(* so that two products are equal only when made of the same factors.  The *)
(* numbers of one matrix, point or rectangle are one operand, and a string *)
(* shows one character.  Left out: the operators that do nothing but take  *)
(* their operands (gs, sh, W, BI...: one of them stands for all), and      *)
(* patterns.                                                               *)
(***************************************************************************)
EXTENDS Document

CONSTANTS
    Bad,      \* an operand that is no number: the operator only warns
    Huge,     \* an operand whose conversion raises OverflowError
    NoFont

VARIABLES
    interps, \* the interpreters at work, the page's first
    device,  \* ctm, cur_item, _stack, cur_tag
    inlineImages, \* inline_images: one cell, which the interpreters share
    status   \* idle, running, done, raised: the page's interpretation

drawing == <<interps, device, inlineImages, status>>

-----------------------------------------------------------------------------
(* The operators: how many operands each takes. *)

Paints == {"S", "s", "f"}
TextParameters == {"Tc", "Tw", "Tz", "TL", "Tr", "Ts"}
Nargs ==
    [op \in {"q", "Q", "h", "F", "n", "SCN", "scn", "BT", "EMC", "T*"} \cup Paints
        |-> 0]
    @@ [op \in {"cm", "w", "d", "gs", "m", "l", "re", "CS", "cs", "G", "g", "MP",
                "BMC", "Td", "TD", "Tm", "Tj", "'", "EI", "Do"} \cup TextParameters
        |-> 1]
    @@ [op \in {"BDC", "Tf"} |-> 2]
    @@ [op \in {"\""} |-> 3]

\* PREDEFINED_COLORSPACE, which init_resources copies into csmap; a color space
\* is the number of its components.
Predefined == [cs \in {"DeviceGray"} |-> 1]

-----------------------------------------------------------------------------
(* The states of an interpreter. *)

NewText == [font |-> NoFont, set |-> [p \in TextParameters |-> "0"],
            matrix |-> <<>>, line |-> <<>>]
NewPaint == [color |-> <<"0">>, cs |-> Predefined["DeviceGray"]]
NewGraphic == [linewidth |-> <<"0">>, dash |-> "none",
               S |-> NewPaint, N |-> NewPaint]

\* stream_value gives a stream without an objid for what is no stream: execute
\* skips it, and those that an interpreter below is executing.
IsStream(id) == Getobj(id).kind \in {"stream", "form", "image"}
Executable(s, parents) == IsStream(s) /\ s \notin parents
Valid(contents, parents) == SelectSeq(contents, LAMBDA s : Executable(s, parents))

\* render_contents: init_resources, init_state and the head of execute.  `stale`
\* is of the model: a form ended since this interpreter set the device's CTM.
Rendering(name, resources, contents, ctm, parents) ==
    [name |-> name, resources |-> resources,
     streams |-> Valid(contents, parents),
     ids |-> {s \in Range(contents) : Executable(s, parents)},
     parents |-> parents, at |-> <<1, 1>>,
     gstack |-> <<>>, ctm |-> ctm, text |-> NewText, graphic |-> NewGraphic,
     curpath |-> <<>>, args |-> <<>>, stale |-> FALSE]

\* Mutation: only what this one is executing.
OwnStreams(i) == i.ids

\* subinterp: what the interpreters below, and this one, are executing.
SubParents(i) == i.parents \cup i.ids

top == interps[Len(interps)]
csmap == doc.resources[top.resources].cs @@ Predefined
xobjmap == doc.resources[top.resources].xobjects
fontmap == doc.resources[top.resources].fonts

\* The token the parser of the interpreter on top is at.
AtToken == /\ status = "running"
           /\ top.at[1] <= Len(top.streams)
           /\ top.at[2] <= Len(Object(top.streams[top.at[1]]).tokens)
token == Object(top.streams[top.at[1]]).tokens[top.at[2]]
Next_(i) == [i EXCEPT !.at[2] = @ + 1]

\* pop(n): the last n operands, all of them when there are fewer.
Popped(n) == SubSeq(top.args, Len(top.args) - n + 1, Len(top.args))
Left(n) == SubSeq(top.args, 1, Len(top.args) - n)

\* The loop has met the operator `op` with all its operands, which it takes.
Called(op) == /\ AtToken
              /\ token = [t |-> "op", v |-> op]
              /\ Len(top.args) >= Nargs[op]
arg(op, k) == Popped(Nargs[op])[k]
After(op) == [Next_(top) EXCEPT !.args = Left(Nargs[op])]
Top(i) == interps' = [interps EXCEPT ![Len(interps)] = i]

\* An operand that is not a number changes nothing.
Number(v) == v # Bad

-----------------------------------------------------------------------------
(* The device. *)

\* LTItem: a character, path, image or figure, with the tag set on it.
Item(kind, what, at, graphic, objs) ==
    [kind |-> kind, what |-> what, at |-> at, graphic |-> graphic,
     objs |-> objs, tag |-> "none"]

NoGraphic == NewGraphic

Adding(d, item) == [d EXCEPT !.cur.objs = Append(@, item)]

\* tag_cur_item: the last object of cur_item, whatever added it.
TagLast(objs, tag) == IF objs = <<>> THEN objs ELSE [objs EXCEPT ![Len(objs)].tag = tag]
Tagged(d) == [d EXCEPT !.cur.objs = TagLast(@, d.tag)]

\* begin_figure: the container being filled waits, the figure has the device's
\* CTM.
BeginFigure(d, name, matrix) ==
    [d EXCEPT !.stack = Append(@, d.cur),
              !.cur = Item("figure", name, matrix \o d.ctm, NoGraphic, <<>>)]

\* Mutation: a figure without objects is dropped.
EndFigureIfDrawn(d) ==
    LET under == [d EXCEPT !.cur = d.stack[Len(d.stack)],
                           !.stack = SubSeq(@, 1, Len(@) - 1)]
    IN  IF d.cur.objs = <<>> THEN under ELSE Adding(under, d.cur)

\* end_figure: the figure goes into the container that waited.
EndFigure(d) ==
    Adding([d EXCEPT !.cur = d.stack[Len(d.stack)],
                     !.stack = SubSeq(@, 1, Len(@) - 1)], d.cur)

\* image_figure: begin_figure, render_image (which tags), end_figure.
ImageFigure(d, name) ==
    LET begun == BeginFigure(d, name, <<>>)
    IN  EndFigure(Tagged(Adding(begun,
                    Item("image", name, begun.cur.at, NoGraphic, <<>>))))

\* paint_path: a path that does not begin with m adds nothing; of one with
\* several m, each m and what follows it up to the next is painted, an m that
\* nothing follows is not; each call tags the last object.
Starts(path) == {k \in DOMAIN path : path[k][1] = "m"}
SubpathAt(path, k) ==
    LET later == {j \in Starts(path) : j > k}
    IN  SubSeq(path, k, IF later = {} THEN Len(path) ELSE Min(later) - 1)

Path(d, graphic, path) == Item("path", <<"path", path>>, d.ctm, graphic, <<>>)

PaintedOn(d, graphic, path) ==
    LET Upto[k \in 0 .. Len(path)] ==
            IF k = 0 THEN d.cur.objs
            ELSE IF k \in Starts(path) /\ Len(SubpathAt(path, k)) > 1
            THEN TagLast(Append(Upto[k - 1], Path(d, graphic, SubpathAt(path, k))), d.tag)
            ELSE Upto[k - 1]
    IN  IF path = <<>> \/ path[1][1] # "m" THEN d.cur.objs
        ELSE IF Cardinality(Starts(path)) = 1
        THEN Append(d.cur.objs, Path(d, graphic, path))
        ELSE Upto[Len(path)]

Painted(d, graphic, path) ==
    [d EXCEPT !.cur.objs = TagLast(PaintedOn(d, graphic, path), d.tag)]

-----------------------------------------------------------------------------
(* A page. *)

\* process_page: a device of its own (page_layout), begin_page, render_contents,
\* which resolves the streams one after the other.
Before(contents) ==
    LET lost == {k \in DOMAIN contents : Getobj(contents[k]) = Raises}
    IN  IF lost = {} THEN contents ELSE SubSeq(contents, 1, Min(lost) - 1)

BeginPage(page) ==
    LET contents == Before(page.contents)
    IN  /\ device' = [ctm |-> page.ctm, tag |-> "none", stack |-> <<>>,
                      cur |-> Item("page", <<"page">>, page.ctm, NoGraphic, <<>>)]
        /\ inlineImages' = 0
        /\ interps' = <<Rendering("page", page.resources, contents, page.ctm, {})>>
        /\ status' = IF contents = page.contents THEN "running" ELSE "raised"
        /\ loaded' = Reading({contents[k] : k \in DOMAIN contents})

\* The operand or operator that the parser returns is no more than noted.
Push ==
    /\ AtToken
    /\ token.t = "arg"
    /\ Top([Next_(top) EXCEPT !.args = Append(@, token.v)])
    /\ UNCHANGED <<device, inlineImages, loaded, status>>

Unknown ==
    /\ AtToken
    /\ token.t = "op" /\ token.v \notin DOMAIN Nargs
    /\ Top(Next_(top))
    /\ UNCHANGED <<device, inlineImages, loaded, status>>

\* Too few operands: they are taken all the same, the operator is not called.
TooFew ==
    /\ AtToken
    /\ token.t = "op" /\ token.v \in DOMAIN Nargs
    /\ Len(top.args) < Nargs[token.v]
    /\ Top([Next_(top) EXCEPT !.args = <<>>])
    /\ UNCHANGED <<device, inlineImages, loaded, status>>

\* fillfp: the parser goes on with the next stream.
NextStream ==
    /\ status = "running"
    /\ top.at[1] < Len(top.streams)
    /\ top.at[2] > Len(Object(top.streams[top.at[1]]).tokens)
    /\ Top([top EXCEPT !.at = <<@[1] + 1, 1>>])
    /\ UNCHANGED <<device, inlineImages, loaded, status>>

-----------------------------------------------------------------------------
(* The graphics state. *)

Nothing ==
    \E op \in {"gs", "F", "MP"} :
        /\ Called(op)
        /\ Top(After(op))
        /\ UNCHANGED <<device, inlineImages, loaded, status>>

SaveState ==
    /\ Called("q")
    /\ Top([After("q") EXCEPT !.gstack =
            Append(@, [ctm |-> top.ctm, text |-> top.text, graphic |-> top.graphic])])
    /\ UNCHANGED <<device, inlineImages, loaded, status>>

\* Mutation: the device is not told.
RestoreStateOnly ==
    /\ Called("Q")
    /\ IF top.gstack = <<>>
       THEN Top(After("Q"))
       ELSE LET saved == top.gstack[Len(top.gstack)]
            IN  Top([After("Q") EXCEPT
                    !.gstack = SubSeq(@, 1, Len(@) - 1), !.ctm = saved.ctm,
                    !.text = saved.text, !.graphic = saved.graphic, !.stale = FALSE])
    /\ UNCHANGED <<device, inlineImages, loaded, status>>

\* do_Q: nothing without a saved state; else the device's CTM follows.
RestoreState ==
    /\ Called("Q")
    /\ IF top.gstack = <<>>
       THEN Top(After("Q")) /\ UNCHANGED device
       ELSE LET saved == top.gstack[Len(top.gstack)]
            IN  /\ Top([After("Q") EXCEPT
                        !.gstack = SubSeq(@, 1, Len(@) - 1), !.ctm = saved.ctm,
                        !.text = saved.text, !.graphic = saved.graphic,
                        !.stale = FALSE])
                /\ device' = [device EXCEPT !.ctm = saved.ctm]
    /\ UNCHANGED <<inlineImages, loaded, status>>

ConcatMatrix ==
    /\ Called("cm")
    /\ LET v == arg("cm", 1)
       IN  IF Number(v)
           THEN /\ Top([After("cm") EXCEPT !.ctm = <<v>> \o @, !.stale = FALSE])
                /\ device' = [device EXCEPT !.ctm = <<v>> \o top.ctm]
           ELSE Top(After("cm")) /\ UNCHANGED device
    /\ UNCHANGED <<inlineImages, loaded, status>>

\* do_w scales the width by the CTM; the other line styles are kept as given.
LineStyle ==
    /\ \/ /\ Called("w")
          /\ LET v == arg("w", 1)
             IN  Top(IF Number(v) THEN [After("w") EXCEPT !.graphic.linewidth = <<v>> \o top.ctm]
                     ELSE After("w"))
       \/ /\ Called("d")
          /\ Top([After("d") EXCEPT !.graphic.dash = arg("d", 1)])
    /\ UNCHANGED <<device, inlineImages, loaded, status>>

Side(op) == IF op \in {"CS", "G", "SCN"} THEN "S" ELSE "N"

\* set_colorspace: nothing for a name that csmap does not have.
ColorSpace ==
    \E op \in {"CS", "cs"} :
        /\ Called(op)
        /\ Top(IF arg(op, 1) \in DOMAIN csmap
               THEN [After(op) EXCEPT !.graphic[Side(op)].cs = csmap[arg(op, 1)]]
               ELSE After(op))
        /\ UNCHANGED <<device, inlineImages, loaded, status>>

\* set_gray, which stands for set_rgb and set_cmyk.
Gray ==
    \E op \in {"G", "g"} :
        /\ Called(op)
        /\ Top(IF Number(arg(op, 1))
               THEN [After(op) EXCEPT !.graphic[Side(op)] =
                        [color |-> <<arg(op, 1)>>, cs |-> csmap["DeviceGray"]]]
               ELSE After(op))
        /\ UNCHANGED <<device, inlineImages, loaded, status>>

\* set_scn takes the operands itself, as many as the color space has components: a
\* gray level, RGB or CMYK, or the color stays.
StandardColor(given) ==
    Len(given) \in {1, 3, 4} /\ \A k \in DOMAIN given : Number(given[k])
SetColor ==
    \E op \in {"SCN", "scn"} :
        /\ Called(op)
        /\ LET n == top.graphic[Side(op)].cs
               given == Popped(IF n > Len(top.args) THEN Len(top.args) ELSE n)
           IN  Top(IF Len(given) = n /\ StandardColor(given)
                   THEN [After(op) EXCEPT !.args = Left(Len(given)),
                                          !.graphic[Side(op)].color = given]
                   ELSE [After(op) EXCEPT !.args = Left(Len(given))])
        /\ UNCHANGED <<device, inlineImages, loaded, status>>

-----------------------------------------------------------------------------
(* Paths. *)

Rectangle(v) == <<<<"m", v>>, <<"l", v>>, <<"l", v>>, <<"l", v>>, <<"h">>>>

PathSegment ==
    /\ \/ \E op \in {"m", "l", "re"} :
            /\ Called(op)
            /\ LET v == arg(op, 1)
               IN  Top(IF ~Number(v) THEN After(op)
                       ELSE IF op = "re" THEN [After(op) EXCEPT !.curpath = @ \o Rectangle(v)]
                       ELSE [After(op) EXCEPT !.curpath = Append(@, <<op, v>>)])
       \/ /\ Called("h")
          /\ Top([After("h") EXCEPT !.curpath = Append(@, <<"h">>)])
    /\ UNCHANGED <<device, inlineImages, loaded, status>>

\* S, s (h, then S) and f, which stands for the other painting operators.
PaintPath ==
    \E op \in Paints :
        /\ Called(op)
        /\ LET path == IF op = "s" THEN Append(top.curpath, <<"h">>) ELSE top.curpath
           IN  device' = Painted(device, top.graphic, path)
        /\ Top([After(op) EXCEPT !.curpath = <<>>])
        /\ UNCHANGED <<inlineImages, loaded, status>>

EndPath ==
    /\ Called("n")
    /\ Top([After("n") EXCEPT !.curpath = <<>>])
    /\ UNCHANGED <<device, inlineImages, loaded, status>>

-----------------------------------------------------------------------------
(* Marked content: one current tag, no stack of them. *)

BeginTag ==
    \E op \in {"BMC", "BDC"} :
        /\ Called(op)
        /\ Top(After(op))
        /\ device' = IF arg(op, 1) = Bad THEN device
                     ELSE [device EXCEPT !.tag = arg(op, 1)]
        /\ UNCHANGED <<inlineImages, loaded, status>>

EndTag ==
    /\ Called("EMC")
    /\ Top(After("EMC"))
    /\ device' = [device EXCEPT !.tag = "none"]
    /\ UNCHANGED <<inlineImages, loaded, status>>

-----------------------------------------------------------------------------
(* Text. *)

BeginText ==
    /\ Called("BT")
    /\ Top([After("BT") EXCEPT !.text.matrix = <<>>, !.text.line = <<>>])
    /\ UNCHANGED <<device, inlineImages, loaded, status>>

\* do_Tc, do_Tw, do_Tz, do_TL, do_Tr, do_Ts; do_Tr converts with safe_int, whose
\* OverflowError nothing catches.
TextParameter ==
    \E op \in TextParameters :
        /\ Called(op)
        /\ LET v == arg(op, 1)
           IN  /\ Top(IF Number(v) THEN [After(op) EXCEPT !.text.set[op] = v] ELSE After(op))
               /\ status' = IF op = "Tr" /\ v = Huge THEN "raised" ELSE status
        /\ UNCHANGED <<device, inlineImages, loaded>>

\* do_Tf: an unknown name is a font without a name.
SetFont ==
    /\ Called("Tf")
    /\ LET f == arg("Tf", 1)
       IN  Top([After("Tf") EXCEPT !.text.font =
                IF f \in DOMAIN fontmap THEN fontmap[f] ELSE "unknown"])
    /\ UNCHANGED <<device, inlineImages, loaded, status>>

\* do_Td, do_TD and do_T_a move the matrix, do_Tm sets it: a new line.  do_TD
\* keeps the leading as given.
Moved(text, by) == [text EXCEPT !.matrix = <<by>> \o @, !.line = <<>>]

MoveText ==
    /\ \/ \E op \in {"Td", "TD"} :
            /\ Called(op)
            /\ LET v == arg(op, 1)
                   moved == IF Number(v) THEN Moved(top.text, v)
                            ELSE [top.text EXCEPT !.line = <<>>]
               IN  Top([After(op) EXCEPT !.text =
                        IF op = "TD" /\ Number(v) THEN [moved EXCEPT !.set["TL"] = v]
                        ELSE moved])
       \/ /\ Called("Tm")
          /\ LET v == arg("Tm", 1)
             IN  Top(IF Number(v)
                     THEN [After("Tm") EXCEPT !.text.matrix = <<v>>, !.text.line = <<>>]
                     ELSE After("Tm"))
       \/ /\ Called("T*")
          /\ Top([After("T*") EXCEPT !.text = Moved(@, @.set["TL"])])
    /\ UNCHANGED <<device, inlineImages, loaded, status>>

\* do_TJ: nothing without a font; else render_string shows the string where the
\* line has come to, in the device's CTM, and tags the character.
Shown(text, s) == [text EXCEPT !.line = Append(@, s)]
Char(text, graphic, s) ==
    Item("char", <<text.font, s>>, text.line \o text.matrix \o device.ctm,
         graphic, <<>>)

Show(op, text, s) ==
    IF text.font = NoFont
    THEN Top([After(op) EXCEPT !.text = text]) /\ UNCHANGED device
    ELSE /\ Top([After(op) EXCEPT !.text = Shown(text, s)])
         /\ device' = Tagged(Adding(device, Char(text, top.graphic, s)))

\* Tj; ' moves to the next line first; the double quote sets the spacings and
\* does not move.
ShowText ==
    /\ \/ Called("Tj") /\ Show("Tj", top.text, arg("Tj", 1))
       \/ /\ Called("'")
          /\ Show("'", Moved(top.text, top.text.set["TL"]), arg("'", 1))
       \/ /\ Called("\"")
          /\ LET Spaced(t, p, v) == IF Number(v) THEN [t EXCEPT !.set[p] = v] ELSE t
             IN  Show("\"", Spaced(Spaced(top.text, "Tw", arg("\"", 1)), "Tc", arg("\"", 2)),
                      arg("\"", 3))
    /\ UNCHANGED <<inlineImages, loaded, status>>

-----------------------------------------------------------------------------
(* Images and forms. *)

\* do_EI: an image's figure for a stream with /W and /H, named by its number.
InlineImage ==
    /\ Called("EI")
    /\ Top(After("EI"))
    /\ IF arg("EI", 1) = Bad
       THEN UNCHANGED <<device, inlineImages>>
       ELSE /\ inlineImages' = inlineImages + 1
            /\ device' = ImageFigure(device, <<"inline", inlineImages>>)
    /\ UNCHANGED <<loaded, status>>

\* do_Do resolves what xobjmap has under the name.
target == xobjmap[arg("Do", 1)]
XObjects == IF Called("Do") /\ arg("Do", 1) \in DOMAIN xobjmap THEN {Getobj(target)} ELSE {}

\* A name that xobjmap does not have, and what is neither form nor image (a
\* reference to nothing is a stream without a subtype).
IgnoreXObject ==
    /\ \/ /\ Called("Do") /\ arg("Do", 1) \notin DOMAIN xobjmap
          /\ UNCHANGED loaded
       \/ /\ \E object \in XObjects : object.kind \notin {"form", "image", "raises"}
          /\ loaded' = Reading({target})
    /\ Top(After("Do"))
    /\ UNCHANGED <<device, inlineImages, status>>

DrawImage ==
    /\ \E object \in XObjects : object.kind = "image"
    /\ Top(After("Do"))
    /\ device' = ImageFigure(device, <<"named", arg("Do", 1)>>)
    /\ loaded' = Reading({target})
    /\ UNCHANGED <<inlineImages, status>>

\* A form: subinterp, begin_figure, then render_contents, whose init_state sets
\* the device's CTM.  The figure takes the device's CTM, the form this
\* interpreter's.  A form without resources has a copy of the current ones.
DrawForm ==
    /\ Len(interps) < MaxDepth
    /\ \E form \in XObjects :
        LET resources == IF form.resources = "none" THEN top.resources ELSE form.resources
            sub == Rendering(arg("Do", 1), resources, <<target>>,
                             form.matrix \o top.ctm, SubParents(top))
            begun == BeginFigure(device, <<"named", arg("Do", 1)>>, form.matrix)
        IN  /\ form.kind = "form"
            /\ interps' = Append([interps EXCEPT ![Len(interps)] = After("Do")], sub)
            /\ device' = [begun EXCEPT !.ctm = sub.ctm]
    /\ loaded' = Reading({target})
    /\ UNCHANGED <<inlineImages, status>>

\* What resolving the XObject raises, and RecursionError, end the page.
DoRaises ==
    /\ \E object \in XObjects :
        object = Raises \/ (object.kind = "form" /\ Len(interps) = MaxDepth)
    /\ status' = "raised"
    /\ UNCHANGED <<interps, device, inlineImages, loaded>>

\* PSEOF: the form's interpreter is done, end_figure; the device keeps its CTM.
Ended == /\ status = "running"
         /\ top.at[1] >= Len(top.streams)
         /\ top.streams # <<>> =>
                top.at[2] > Len(Object(top.streams[top.at[1]]).tokens)

FormEnds ==
    /\ Ended /\ Len(interps) > 1
    /\ interps' = [k \in 1 .. Len(interps) - 1 |->
                    IF k = Len(interps) - 1 THEN [interps[k] EXCEPT !.stale = TRUE]
                    ELSE interps[k]]
    /\ device' = EndFigure(device)
    /\ UNCHANGED <<inlineImages, loaded, status>>

\* end_page, which asserts that no figure is open.
PageEnds ==
    /\ Ended /\ Len(interps) = 1
    /\ status' = IF device.stack = <<>> THEN "done" ELSE "raised"
    /\ UNCHANGED <<interps, device, inlineImages, loaded>>

Interpret ==
    \/ Push \/ Unknown \/ TooFew \/ NextStream \/ Nothing
    \/ SaveState \/ RestoreState \/ ConcatMatrix \/ LineStyle
    \/ ColorSpace \/ Gray \/ SetColor
    \/ PathSegment \/ PaintPath \/ EndPath
    \/ BeginTag \/ EndTag
    \/ BeginText \/ TextParameter \/ SetFont \/ MoveText \/ ShowText
    \/ InlineImage \/ IgnoreXObject \/ DrawImage \/ DrawForm \/ DoRaises
    \/ FormEnds \/ PageEnds
================================================================================
