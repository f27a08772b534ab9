---------------------------- MODULE FigureReference ---------------------------
(***************************************************************************)
(* The figures of a page's layout, said without the steps of Interpreter:  *)
(* a recursion over what the contents and the forms draw.                  *)
(***************************************************************************)
EXTENDS ExtractionReference

-----------------------------------------------------------------------------
\* The figures and images of a layout, without what they are drawn with.
RECURSIVE Figures(_)
Figures(objs) ==
    LET kept == SelectSeq(objs, LAMBDA o : o.kind \in {"figure", "image"})
    IN  [k \in DOMAIN kept |-> [what |-> kept[k].what, objs |-> Figures(kept[k].objs)]]

\* The same from the contents, form by form: `n` inline images were named before.
\* The operand of a Do or EI is the token before it.
Figure(what, objs) == [what |-> what, objs |-> objs]
Picture(what) == Figure(what, <<Figure(what, <<>>)>>)
NoFigures(n) == [figures |-> <<>>, n |-> n]
OneFigure(figure, n) == [figures |-> <<figure>>, n |-> n]

RECURSIVE Drawn(_, _, _, _)
\* One Do of the name v, and the figures of the tokens of streams.
DrawnObject(v, id, object, resources, parents, n) ==
    IF object.kind = "image" THEN OneFigure(Picture(<<"named", v>>), n)
    ELSE IF object.kind = "form"
    THEN LET inner == Drawn(<<id>>,
                            IF object.resources = "none" THEN resources ELSE object.resources,
                            parents, n)
         IN  OneFigure(Figure(<<"named", v>>, inner.figures), inner.n)
    ELSE NoFigures(n)

DrawnTokens(tokens, resources, parents, n) ==
    LET objects == doc.resources[resources].xobjects
        Is(k, op) == tokens[k] = [t |-> "op", v |-> op]
        One(k, v, m) ==
            IF Is(k, "EI") /\ v # Bad THEN OneFigure(Picture(<<"inline", m>>), m + 1)
            ELSE IF Is(k, "Do") /\ v \in DOMAIN objects
            THEN DrawnObject(v, objects[v], Getobj(objects[v]), resources, parents, m)
            ELSE NoFigures(m)
        Upto[k \in 0 .. Len(tokens)] ==
            IF k < 2 THEN NoFigures(n)
            ELSE LET before == Upto[k - 1]
                     one == One(k, tokens[k - 1].v, before.n)
                 IN  [figures |-> before.figures \o one.figures, n |-> one.n]
    IN  Upto[Len(tokens)]

Drawn(contents, resources, parents, n) ==
    LET valid == Valid(contents, parents)
    IN  DrawnTokens(FlattenSeq([k \in DOMAIN valid |-> Object(valid[k]).tokens]),
                    resources, parents \cup {valid[k] : k \in DOMAIN valid}, n)

\* The figures of a page are its forms and images where they are drawn, a form
\* inside itself as an empty figure, and the inline images are numbered through
\* all of them.
FiguresAreTheForms ==
    status = "done" =>
        LET page == Content(call.page)
        IN  Figures(device.cur.objs)
                = Drawn(page.contents, page.resources, {}, 0).figures
================================================================================
