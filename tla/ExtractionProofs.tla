---------------------------- MODULE ExtractionProofs --------------------------
(***************************************************************************)
(* For every document: that no stream is executed inside itself, that the  *)
(* device follows the interpreter, and that no figure is open when a page  *)
(* ends; that the pages of a list are stacked, and that no node of the     *)
(* tree is given twice; that the sections are read as the recursion over   *)
(* them says, that objects are what the file has, whatever was read        *)
(* before, and that a list has the pages of the file.                      *)
(***************************************************************************)
EXTENDS ExtractionReference, SequenceTheorems, WellFoundedInduction, TLAPS

\* Sequences and records whose elements and values may be anything.
Sequence(s) == Len(s) \in Nat /\ s = [k \in 1 .. Len(s) |-> s[k]]
Record(r, names) == names \subseteq DOMAIN r /\ r = [f \in DOMAIN r |-> r[f]]

Interp(i) == Record(i, {"ids", "parents", "ctm", "stale"})
Device(d) == Record(d, {"ctm", "stack", "cur"}) /\ Sequence(d.stack)

\* What is executed below an interpreter is among its parents, and none of that
\* is what it executes itself.
Nesting ==
    /\ Sequence(interps)
    /\ \A k \in DOMAIN interps :
        Interp(interps[k]) /\ interps[k].ids \cap interps[k].parents = {}
    /\ \A j, k \in DOMAIN interps : j < k => interps[j].ids \subseteq interps[k].parents

Running == status = "running" => Len(interps) > 0 /\ Device(device)

IInv == Nesting /\ Running /\ DeviceFollows

-----------------------------------------------------------------------------
(* Steps of an interpreter that leave alone what the invariant is about. *)

\* `i` has gone on from `j`.
Alike(i, j) == /\ Interp(i)
               /\ i.ids = j.ids /\ i.parents = j.parents
               /\ i.ctm = j.ctm /\ i.stale = j.stale

\* The next token changes neither the streams nor the CTM of an interpreter, ...
LEMMA NextAlike ==
    ASSUME NEW i, Interp(i)
    PROVE  Alike(Next_(i), i)
BY DEF Next_, Alike, Interp, Record

\* ... and neither does an operator.
LEMMA AfterAlike ==
    ASSUME NEW op, Interp(top)
    PROVE  Alike(After(op), top)
<1>1. Alike(Next_(top), top)
  BY NextAlike
<1> QED
  BY <1>1 DEF After, Alike, Interp, Record

\* The fields an operator sets besides.
LEMMA SetAlike ==
    ASSUME NEW i, NEW j, Alike(i, j), NEW f, NEW v,
           f \notin {"ids", "parents", "ctm", "stale"}
    PROVE  Alike([i EXCEPT ![f] = v], j)
BY DEF Alike, Interp, Record

-----------------------------------------------------------------------------
\* The interpreter at work is the last one.
LEMMA TopIsLast ==
    ASSUME Nesting, Len(interps) > 0
    PROVE  Len(interps) \in DOMAIN interps /\ Interp(top)
BY DEF Nesting, Sequence, top

\* It may change all but its streams and those of its ancestors.
LEMMA TopKeepsChain ==
    ASSUME Nesting, Len(interps) > 0, NEW i, Interp(i),
           i.ids = top.ids, i.parents = top.parents, Top(i)
    PROVE  Nesting' /\ Len(interps') = Len(interps) /\ top' = i
<1>1. /\ DOMAIN interps' = DOMAIN interps
      /\ \A k \in DOMAIN interps : k # Len(interps) => interps'[k] = interps[k]
      /\ interps'[Len(interps)] = i
  BY TopIsLast DEF Top, Nesting, Sequence
<1>2. Len(interps') = Len(interps) /\ Sequence(interps')
  <2>1. interps \in Seq({interps[k] : k \in DOMAIN interps})
    BY DEF Nesting, Sequence
  <2> DEFINE S == {interps[k] : k \in DOMAIN interps} \cup {i}
  <2>2. interps \in Seq(S)
    BY DEF Nesting, Sequence
  <2>3. interps' \in Seq(S) /\ Len(interps') = Len(interps)
    BY <2>2, TopIsLast DEF Top
  <2> QED
    BY <2>3 DEF Sequence
<1>3. \A k \in DOMAIN interps' :
        Interp(interps'[k]) /\ interps'[k].ids = interps[k].ids
                            /\ interps'[k].parents = interps[k].parents
  BY <1>1 DEF Nesting, top
<1> QED
  BY <1>1, <1>2, <1>3 DEF Nesting, top
-----------------------------------------------------------------------------
(* What each action does to the interpreter on top and to the device. *)

Going(i) == Alike(i, top) /\ Top(i)

\* The operators that only change the state of the interpreter.
Quiet == \/ Push \/ Unknown \/ TooFew \/ NextStream \/ Nothing
         \/ SaveState \/ LineStyle \/ ColorSpace \/ Gray \/ SetColor
         \/ PathSegment \/ EndPath \/ BeginText \/ SetFont \/ MoveText
         \/ IgnoreXObject

\* What an operator that draws nothing does.
LEMMA QuietSteps ==
    ASSUME Interp(top), Quiet
    PROVE  /\ \E i : Going(i)
           /\ UNCHANGED <<device, status>>
<1>1. Alike(Next_(top), top)
  BY NextAlike
<1>2. \A op : Alike(After(op), top)
  BY AfterAlike
<1>3. CASE Push
  <2>1. Alike([Next_(top) EXCEPT !.args = Append(@, token.v)], top)
    BY <1>1 DEF Alike, Interp, Record
  <2> QED
    BY <1>3, <2>1 DEF Push, Going
<1>4. CASE Unknown
  BY <1>1, <1>4 DEF Unknown, Going
<1>5. CASE TooFew
  <2>1. Alike([Next_(top) EXCEPT !.args = <<>>], top)
    BY <1>1 DEF Alike, Interp, Record
  <2> QED
    BY <1>5, <2>1 DEF TooFew, Going
<1>6. CASE NextStream
  <2>1. Alike([top EXCEPT !.at = <<@[1] + 1, 1>>], top)
    BY DEF Alike, Interp, Record
  <2> QED
    BY <1>6, <2>1 DEF NextStream, Going
<1>7. CASE Nothing
  BY <1>2, <1>7 DEF Nothing, Going
<1>8. CASE SaveState
  <2> DEFINE g == Append(After("q").gstack,
                         [ctm |-> top.ctm, text |-> top.text, graphic |-> top.graphic])
  <2>1. Alike([After("q") EXCEPT !.gstack = g], top)
    BY <1>2, SetAlike
  <2> QED
    BY <1>8, <2>1 DEF SaveState, Going
<1>9. CASE LineStyle
  <2>1. \A op : \A v : Alike([After(op) EXCEPT !.graphic = v], top)
    BY <1>2, SetAlike
  <2> QED
    BY <1>2, <1>9, <2>1 DEF LineStyle, Going
<1>10. CASE ColorSpace
  <2>1. \A op : \A v : Alike([After(op) EXCEPT !.graphic = v], top)
    BY <1>2, SetAlike
  <2> QED
    BY <1>2, <1>10, <2>1 DEF ColorSpace, Going
<1>11. CASE Gray
  <2>1. \A op : \A v : Alike([After(op) EXCEPT !.graphic = v], top)
    BY <1>2, SetAlike
  <2> QED
    BY <1>2, <1>11, <2>1 DEF Gray, Going
<1>12. CASE SetColor
  <2>1. \A op : \A v, w : Alike([After(op) EXCEPT !.args = v, !.graphic = w], top)
    BY <1>2 DEF Alike, Interp, Record
  <2>2. \A op : \A v : Alike([After(op) EXCEPT !.args = v], top)
    BY <1>2, SetAlike
  <2> QED
    BY <1>12, <2>1, <2>2 DEF SetColor, Going
<1>13. CASE PathSegment
  <2>1. \A op : \A v : Alike([After(op) EXCEPT !.curpath = v], top)
    BY <1>2, SetAlike
  <2> QED
    BY <1>2, <1>13, <2>1 DEF PathSegment, Going
<1>14. CASE EndPath
  <2>1. Alike([After("n") EXCEPT !.curpath = <<>>], top)
    BY <1>2, SetAlike
  <2> QED
    BY <1>14, <2>1 DEF EndPath, Going
<1>15. \A op : \A v : Alike([After(op) EXCEPT !.text = v], top)
  BY <1>2, SetAlike
<1>16. CASE BeginText
  <2>1. Alike([After("BT") EXCEPT !.text.matrix = <<>>, !.text.line = <<>>], top)
    BY <1>2 DEF Alike, Interp, Record
  <2> QED
    BY <1>16, <2>1 DEF BeginText, Going
<1>17. CASE SetFont
  BY <1>15, <1>17 DEF SetFont, Going
<1>18. CASE MoveText
  BY <1>2, <1>15, <1>18 DEF MoveText, Going
<1>19. CASE IgnoreXObject
  BY <1>2, <1>19 DEF IgnoreXObject, Going
<1> QED
  BY <1>3, <1>4, <1>5, <1>6, <1>7, <1>8, <1>9, <1>10, <1>11, <1>12, <1>13, <1>14,
     <1>16, <1>17, <1>18, <1>19 DEF Quiet

-----------------------------------------------------------------------------
(* The device: what is drawn leaves its CTM and the figures open. *)

Kept(d, e, open) == Device(d) /\ d.ctm = e.ctm /\ Len(d.stack) = open

\* The figure under way may change.
LEMMA CurKept ==
    ASSUME NEW d, Device(d), NEW v
    PROVE  Kept([d EXCEPT !.cur = v], d, Len(d.stack))
BY DEF Device, Record, Kept

\* An item is added to it, ...
LEMMA AddingKept ==
    ASSUME NEW d, Device(d), NEW item
    PROVE  Kept(Adding(d, item), d, Len(d.stack))
BY CurKept DEF Adding

\* ... and is tagged.
LEMMA TaggedKept ==
    ASSUME NEW d, Device(d)
    PROVE  Kept(Tagged(d), d, Len(d.stack))
BY CurKept DEF Tagged

\* A figure begins: one more is open.
LEMMA BeginFigureKept ==
    ASSUME NEW d, Device(d), NEW name, NEW matrix
    PROVE  Kept(BeginFigure(d, name, matrix), d, Len(d.stack) + 1)
<1> DEFINE s == Append(d.stack, d.cur)
           S == {d.stack[k] : k \in DOMAIN d.stack} \cup {d.cur}
<1>1. d.stack \in Seq(S)
  BY DEF Device, Sequence
<1>2. s \in Seq(S) /\ Len(s) = Len(d.stack) + 1
  BY <1>1
<1>3. Sequence(s)
  BY <1>2 DEF Sequence
<1>4. Record(BeginFigure(d, name, matrix), {"ctm", "stack", "cur"})
  BY DEF BeginFigure, Device, Record
<1>5. BeginFigure(d, name, matrix).stack = s /\ BeginFigure(d, name, matrix).ctm = d.ctm
  BY DEF BeginFigure, Device, Record
<1> QED
  BY <1>2, <1>3, <1>4, <1>5 DEF Kept, Device

\* A figure ends: one less.
LEMMA EndFigureKept ==
    ASSUME NEW d, Device(d), Len(d.stack) > 0
    PROVE  Kept(EndFigure(d), d, Len(d.stack) - 1)
<1> DEFINE s == SubSeq(d.stack, 1, Len(d.stack) - 1)
           S == {d.stack[k] : k \in DOMAIN d.stack}
           e == [d EXCEPT !.cur = d.stack[Len(d.stack)], !.stack = SubSeq(@, 1, Len(@) - 1)]
<1>1. d.stack \in Seq(S) /\ Len(d.stack) \in Nat
  BY DEF Device, Sequence
<1>2. s \in Seq(S) /\ Len(s) = Len(d.stack) - 1
  BY <1>1
<1>3. Sequence(s)
  BY <1>2 DEF Sequence
<1>4. Record(e, {"ctm", "stack", "cur"})
  BY DEF Device, Record
<1>5. e.stack = s /\ e.ctm = d.ctm
  BY DEF Device, Record
<1>6. Device(e)
  BY <1>3, <1>4, <1>5 DEF Device
<1> HIDE DEF e, s
<1>7. Kept(Adding(e, d.cur), e, Len(e.stack))
  BY <1>6, AddingKept
<1>8. EndFigure(d) = Adding(e, d.cur)
  BY DEF EndFigure, e
<1> QED
  BY <1>2, <1>5, <1>7, <1>8 DEF Kept

\* The figure of an image begins and ends.
LEMMA ImageFigureKept ==
    ASSUME NEW d, Device(d), NEW name
    PROVE  Kept(ImageFigure(d, name), d, Len(d.stack))
<1> DEFINE b == BeginFigure(d, name, <<>>)
           a == Adding(b, Item("image", name, b.cur.at, NoGraphic, <<>>))
           t == Tagged(a)
<1>1. Kept(b, d, Len(d.stack) + 1)
  BY BeginFigureKept
<1>2. Kept(a, b, Len(b.stack))
  BY <1>1, AddingKept DEF Kept
<1>3. Kept(t, a, Len(a.stack))
  BY <1>2, TaggedKept DEF Kept
<1>4. ImageFigure(d, name) = EndFigure(t)
  BY DEF ImageFigure
<1>5. Len(d.stack) \in Nat
  BY DEF Device, Sequence
<1> HIDE DEF b, a, t
<1>6. Device(t) /\ t.ctm = d.ctm /\ Len(t.stack) = Len(d.stack) + 1
  BY <1>1, <1>2, <1>3 DEF Kept
<1>7. Kept(EndFigure(t), t, Len(t.stack) - 1)
  BY <1>5, <1>6, EndFigureKept
<1> QED
  BY <1>4, <1>5, <1>6, <1>7 DEF Kept

-----------------------------------------------------------------------------
\* The operators that draw or tag.
Drawing == PaintPath \/ BeginTag \/ EndTag \/ ShowText \/ InlineImage \/ DrawImage

\* What an operator that draws does.
LEMMA DrawingSteps ==
    ASSUME Interp(top), Device(device), Drawing
    PROVE  /\ \E i : Going(i)
           /\ Kept(device', device, Len(device.stack))
           /\ UNCHANGED status
<1>1. \A op : Alike(After(op), top)
  BY AfterAlike
<1>2. \A op : \A v : Alike([After(op) EXCEPT !.text = v], top)
  BY <1>1, SetAlike
<1>3. Kept(device, device, Len(device.stack))
  BY DEF Kept
<1>4. \A v : Kept([device EXCEPT !.tag = v], device, Len(device.stack))
  BY DEF Device, Record, Kept
<1>5. CASE PaintPath
  <2>1. \A op : Alike([After(op) EXCEPT !.curpath = <<>>], top)
    BY <1>1, SetAlike
  <2>2. \A graphic, path : Kept(Painted(device, graphic, path), device, Len(device.stack))
    BY CurKept DEF Painted
  <2> QED
    BY <1>5, <2>1, <2>2 DEF PaintPath, Going
<1>6. CASE BeginTag
  BY <1>1, <1>3, <1>4, <1>6 DEF BeginTag, Going
<1>7. CASE EndTag
  BY <1>1, <1>4, <1>7 DEF EndTag, Going
<1>8. CASE ShowText
  <2>1. \A item : Kept(Tagged(Adding(device, item)), device, Len(device.stack))
    BY AddingKept, TaggedKept DEF Kept
  <2>2. \A op, text, s : Show(op, text, s) =>
            /\ \E i : Going(i)
            /\ Kept(device', device, Len(device.stack))
    BY <1>2, <1>3, <2>1 DEF Show, Going
  <2> QED
    BY <1>8, <2>2 DEF ShowText
<1>9. CASE InlineImage
  BY <1>1, <1>3, <1>9, ImageFigureKept DEF InlineImage, Going
<1>10. CASE DrawImage
  BY <1>1, <1>10, ImageFigureKept DEF DrawImage, Going
<1> QED
  BY <1>5, <1>6, <1>7, <1>8, <1>9, <1>10 DEF Drawing

-----------------------------------------------------------------------------
(* The invariant. *)

\* The interpreter that render_contents starts.
LEMMA RenderingStarts ==
    ASSUME NEW name, NEW resources, NEW contents, NEW ctm, NEW parents
    PROVE  LET i == Rendering(name, resources, contents, ctm, parents)
           IN  /\ Interp(i) /\ i.ctm = ctm /\ i.parents = parents
               /\ i.ids \cap i.parents = {}
BY DEF Rendering, Interp, Record, Executable

\* ... and both keep the invariant.
LEMMA GoingKeeps ==
    ASSUME IInv, status = "running", NEW i, Going(i),
           Kept(device', device, Len(device.stack)), status' \in {"running", "raised"}
    PROVE  IInv'
<1>1. Nesting /\ Len(interps) > 0 /\ Interp(i) /\ Top(i)
      /\ i.ids = top.ids /\ i.parents = top.parents
  BY DEF IInv, Running, Going, Alike
<1>2. Nesting' /\ Len(interps') = Len(interps) /\ top' = i
  BY <1>1, TopKeepsChain
<1>3. Running'
  BY <1>1, <1>2 DEF Running, Kept
<1>4. DeviceFollows'
  BY <1>2 DEF IInv, DeviceFollows, Going, Alike, Kept
<1> QED
  BY <1>2, <1>3, <1>4 DEF IInv

\* Q puts the CTM back, on the device too.
LEMMA RestoreStateKeeps ==
    ASSUME IInv, RestoreState
    PROVE  IInv'
<1>1. status = "running" /\ status' = status
  BY DEF RestoreState, Called, AtToken
<1>2. Nesting /\ Len(interps) > 0 /\ Device(device)
  BY <1>1 DEF IInv, Running
<1>3. Interp(top)
  BY <1>2, TopIsLast
<1>4. Alike(After("Q"), top)
  BY <1>3, AfterAlike
<1>5. CASE top.gstack = <<>>
  BY <1>1, <1>2, <1>4, <1>5, GoingKeeps DEF RestoreState, Going, Kept
<1>6. CASE top.gstack # <<>>
  <2> DEFINE saved == top.gstack[Len(top.gstack)]
             i == [After("Q") EXCEPT
                    !.gstack = SubSeq(@, 1, Len(@) - 1), !.ctm = saved.ctm,
                    !.text = saved.text, !.graphic = saved.graphic,
                    !.stale = FALSE]
  <2>1. Top(i) /\ device' = [device EXCEPT !.ctm = saved.ctm]
    BY <1>6 DEF RestoreState
  <2>2. Interp(i) /\ i.ids = top.ids /\ i.parents = top.parents /\ i.ctm = saved.ctm
    BY <1>4 DEF Alike, Interp, Record
  <2> HIDE DEF i
  <2>3. Nesting' /\ Len(interps') = Len(interps) /\ top' = i
    BY <1>2, <2>1, <2>2, TopKeepsChain
  <2>4. Device(device') /\ device'.ctm = saved.ctm /\ device'.stack = device.stack
    BY <1>2, <2>1 DEF Device, Record
  <2>5. DeviceFollows'
    BY <1>1, <2>2, <2>3, <2>4 DEF IInv, DeviceFollows
  <2> QED
    BY <1>2, <2>3, <2>4, <2>5 DEF IInv, Running
<1> QED
  BY <1>5, <1>6

\* cm changes the CTM, on the device too.
LEMMA ConcatMatrixKeeps ==
    ASSUME IInv, ConcatMatrix
    PROVE  IInv'
<1>1. status = "running" /\ status' = status
  BY DEF ConcatMatrix, Called, AtToken
<1>2. Nesting /\ Len(interps) > 0 /\ Device(device)
  BY <1>1 DEF IInv, Running
<1>3. Interp(top)
  BY <1>2, TopIsLast
<1>4. Alike(After("cm"), top)
  BY <1>3, AfterAlike
<1> DEFINE v == arg("cm", 1)
<1>5. CASE ~Number(v)
  BY <1>1, <1>2, <1>4, <1>5, GoingKeeps DEF ConcatMatrix, Going, Kept
<1>6. CASE Number(v)
  <2> DEFINE i == [After("cm") EXCEPT !.ctm = <<v>> \o @, !.stale = FALSE]
  <2>1. Top(i) /\ device' = [device EXCEPT !.ctm = <<v>> \o top.ctm]
    BY <1>6 DEF ConcatMatrix
  <2>2. Interp(i) /\ i.ids = top.ids /\ i.parents = top.parents /\ i.ctm = <<v>> \o top.ctm
    BY <1>4 DEF Alike, Interp, Record
  <2> HIDE DEF i
  <2>3. Nesting' /\ Len(interps') = Len(interps) /\ top' = i
    BY <1>2, <2>1, <2>2, TopKeepsChain
  <2>4. Device(device') /\ device'.ctm = <<v>> \o top.ctm /\ device'.stack = device.stack
    BY <1>2, <2>1 DEF Device, Record
  <2>5. DeviceFollows'
    BY <1>1, <2>2, <2>3, <2>4 DEF IInv, DeviceFollows
  <2> QED
    BY <1>2, <2>3, <2>4, <2>5 DEF IInv, Running
<1> QED
  BY <1>5, <1>6

\* The form's interpreter has what is below it among its parents.
LEMMA DrawFormKeeps ==
    ASSUME IInv, DrawForm
    PROVE  IInv'
<1>1. status = "running" /\ status' = status
  BY DEF DrawForm, XObjects, Called, AtToken
<1>2. Nesting /\ Len(interps) > 0 /\ Device(device)
  BY <1>1 DEF IInv, Running
<1>3. Len(interps) \in DOMAIN interps /\ Interp(top) /\ Len(interps) \in Nat
  BY <1>2, TopIsLast DEF Nesting, Sequence
<1>4. Alike(After("Do"), top)
  BY <1>3, AfterAlike
<1> DEFINE resources(form) == IF form.resources = "none" THEN top.resources ELSE form.resources
           Sub(form) == Rendering(arg("Do", 1), resources(form), <<target>>,
                                  form.matrix \o top.ctm, SubParents(top))
           Begun(form) == BeginFigure(device, <<"named", arg("Do", 1)>>, form.matrix)
           below == [interps EXCEPT ![Len(interps)] = After("Do")]
<1>0. PICK form \in XObjects : /\ interps' = Append(below, Sub(form))
                               /\ device' = [Begun(form) EXCEPT !.ctm = Sub(form).ctm]
  BY DEF DrawForm
<1> DEFINE sub == Sub(form)
           begun == Begun(form)
<1>5. interps' = Append(below, sub) /\ device' = [begun EXCEPT !.ctm = sub.ctm]
  BY <1>0
<1>6. /\ Interp(sub) /\ sub.parents = SubParents(top)
      /\ sub.ids \cap sub.parents = {}
  BY RenderingStarts
<1>7. Kept(begun, device, Len(device.stack) + 1)
  BY <1>2, BeginFigureKept
<1> HIDE DEF sub, begun
<1>8. /\ DOMAIN below = DOMAIN interps
      /\ \A k \in DOMAIN below :
            /\ Interp(below[k]) /\ below[k].ids = interps[k].ids
            /\ below[k].parents = interps[k].parents
  BY <1>2, <1>3, <1>4 DEF Nesting, Alike, top
<1>9. /\ Len(interps') = Len(interps) + 1 /\ Sequence(interps')
      /\ \A k \in DOMAIN below : interps'[k] = below[k]
      /\ interps'[Len(interps) + 1] = sub
      /\ DOMAIN below = 1 .. Len(interps) /\ DOMAIN interps' = 1 .. Len(interps) + 1
  <2> DEFINE S == {interps[k] : k \in DOMAIN interps} \cup {After("Do"), sub}
  <2>1. interps \in Seq(S)
    BY <1>2 DEF Nesting, Sequence
  <2>2. below \in Seq(S) /\ Len(below) = Len(interps)
    BY <1>3, <2>1
  <2> HIDE DEF below
  <2>3. interps' \in Seq(S) /\ Len(interps') = Len(interps) + 1
    BY <1>5, <2>2
  <2>4. /\ \A k \in DOMAIN below : interps'[k] = below[k]
        /\ interps'[Len(interps) + 1] = sub
    BY <1>3, <1>5, <2>2
  <2> QED
    BY <2>2, <2>3, <2>4, <1>3 DEF Sequence
<1> HIDE DEF below
<1>10. Nesting'
  <2>1. \A k \in DOMAIN interps' :
            Interp(interps'[k]) /\ interps'[k].ids \cap interps'[k].parents = {}
    BY <1>2, <1>3, <1>6, <1>8, <1>9 DEF Nesting
  <2>2. \A j \in DOMAIN interps : interps[j].ids \subseteq SubParents(top)
    BY <1>2, <1>3 DEF Nesting, Sequence, SubParents, top
  <2>3. ASSUME NEW j \in DOMAIN interps', NEW k \in DOMAIN interps', j < k
        PROVE  interps'[j].ids \subseteq interps'[k].parents
    <3>1. j \in DOMAIN interps /\ interps'[j].ids = interps[j].ids
      BY <1>3, <1>8, <1>9, <2>3
    <3>2. CASE k \in DOMAIN interps
      BY <1>2, <1>8, <1>9, <2>3, <3>1, <3>2 DEF Nesting
    <3>3. CASE k = Len(interps) + 1
      BY <1>6, <1>9, <2>2, <3>1, <3>3
    <3> QED
      BY <1>3, <1>8, <1>9, <3>2, <3>3
  <2> QED
    BY <1>9, <2>1, <2>3 DEF Nesting
<1>11. Device(device') /\ device'.ctm = sub.ctm /\ Len(device'.stack) = Len(device.stack) + 1
  BY <1>5, <1>7 DEF Kept, Device, Record
<1>12. top' = sub
  BY <1>3, <1>9 DEF top
<1>13. DeviceFollows'
  BY <1>1, <1>3, <1>9, <1>11, <1>12 DEF IInv, DeviceFollows
<1> QED
  BY <1>3, <1>9, <1>10, <1>11, <1>13 DEF IInv, Running

\* The interpreter below goes on, with the device as the form left it.
LEMMA FormEndsKeeps ==
    ASSUME IInv, FormEnds
    PROVE  IInv'
<1>1. status = "running" /\ status' = status /\ Len(interps) > 1
  BY DEF FormEnds, Ended
<1>2. Nesting /\ Device(device) /\ Len(interps) \in Nat /\ DOMAIN interps = 1 .. Len(interps)
  BY <1>1 DEF IInv, Running, Nesting, Sequence
<1> DEFINE n == Len(interps) - 1
           below(k) == IF k = n THEN [interps[k] EXCEPT !.stale = TRUE] ELSE interps[k]
<1>3. interps' = [k \in 1 .. n |-> below(k)]
  BY DEF FormEnds
<1>4. \A k \in 1 .. n :
        /\ Interp(below(k)) /\ below(k).ids = interps[k].ids
        /\ below(k).parents = interps[k].parents
  <2>1. \A i : Interp(i) => LET j == [i EXCEPT !.stale = TRUE]
                            IN  Interp(j) /\ j.ids = i.ids /\ j.parents = i.parents
    BY DEF Interp, Record
  <2>2. \A k \in 1 .. n : Interp(interps[k])
    BY <1>2 DEF Nesting
  <2> QED
    BY <2>1, <2>2
<1>5. below(n).stale = TRUE
  BY <1>1, <1>2 DEF Nesting, Interp, Record
<1> HIDE DEF below
<1>6. Len(interps') = n /\ Sequence(interps') /\ DOMAIN interps' = 1 .. n
  <2> DEFINE S == {below(k) : k \in 1 .. n}
  <2>1. n \in Nat
    BY <1>1, <1>2
  <2> HIDE DEF n
  <2>2. interps' \in Seq(S) /\ Len(interps') = n
    BY <1>3, <2>1
  <2> QED
    BY <1>3, <2>1, <2>2 DEF Sequence
<1>7. Nesting'
  BY <1>2, <1>3, <1>4, <1>6 DEF Nesting
<1>8. Kept(device', device, Len(device.stack) - 1)
  <2>1. Len(device.stack) > 0
    <3>1. Len(device.stack) = Len(interps) - 1
      BY <1>1 DEF IInv, DeviceFollows
    <3>2. Len(interps) > 1 /\ Len(interps) \in Nat
      BY <1>1, <1>2
    <3> QED
      BY ONLY <3>1, <3>2
  <2>2. device' = EndFigure(device)
    BY DEF FormEnds
  <2> QED
    BY <1>2, <2>1, <2>2, EndFigureKept
<1>9. top'.stale = TRUE
  BY <1>1, <1>2, <1>3, <1>5, <1>6 DEF top
<1>10. DeviceFollows'
  BY <1>1, <1>2, <1>6, <1>8, <1>9 DEF IInv, DeviceFollows, Kept
<1> QED
  BY <1>1, <1>2, <1>6, <1>7, <1>8, <1>10 DEF IInv, Running, Kept

\* Every step of the interpreters.
LEMMA InterpretKeeps ==
    ASSUME IInv, Interpret
    PROVE  IInv'
<1>1. status = "running"
  BY DEF Interpret, Push, Unknown, TooFew, NextStream, Nothing, SaveState, RestoreState,
         ConcatMatrix, LineStyle, ColorSpace, Gray, SetColor, PathSegment, PaintPath,
         EndPath, BeginTag, EndTag, BeginText, TextParameter, SetFont, MoveText, ShowText,
         InlineImage, IgnoreXObject, DrawImage, DrawForm, DoRaises, FormEnds, PageEnds,
         XObjects, Called, AtToken, Ended
<1>2. Nesting /\ Len(interps) > 0 /\ Device(device)
  BY <1>1 DEF IInv, Running
<1>3. Interp(top)
  BY <1>2, TopIsLast
<1>4. CASE Quiet
  BY <1>1, <1>2, <1>3, <1>4, QuietSteps, GoingKeeps DEF Kept
<1>5. CASE Drawing
  BY <1>1, <1>2, <1>3, <1>5, DrawingSteps, GoingKeeps
<1>6. CASE TextParameter
  <2>1. \A op : Alike(After(op), top)
    BY <1>3, AfterAlike
  <2>2. \A op : \A v : Alike([After(op) EXCEPT !.text = v], top)
    BY <2>1, SetAlike
  <2>3. (\E i : Going(i)) /\ UNCHANGED device /\ status' \in {"running", "raised"}
    BY <1>1, <1>6, <2>1, <2>2 DEF TextParameter, Going
  <2> QED
    BY <1>1, <1>2, <2>3, GoingKeeps DEF Kept
<1>7. CASE DoRaises \/ PageEnds
  BY <1>2, <1>7 DEF DoRaises, PageEnds, IInv, Running, DeviceFollows, Nesting
<1> QED
  BY <1>4, <1>5, <1>6, <1>7, RestoreStateKeeps, ConcatMatrixKeeps, DrawFormKeeps,
     FormEndsKeeps DEF Interpret, Quiet, Drawing

\* A page begins with one interpreter and no figure.
LEMMA BeginPageKeeps ==
    ASSUME NEW page, BeginPage(page)
    PROVE  IInv'
<1> DEFINE i == Rendering("page", page.resources, Before(page.contents), page.ctm, {})
<1>1. interps' = <<i>> /\ Interp(i) /\ i.ctm = page.ctm /\ i.ids \cap i.parents = {}
  BY RenderingStarts DEF BeginPage
<1> HIDE DEF i
<1>2. Len(interps') = 1 /\ Sequence(interps') /\ DOMAIN interps' = {1} /\ interps'[1] = i
  BY <1>1 DEF Sequence
<1>3. Nesting'
  BY <1>1, <1>2 DEF Nesting
<1>4. Device(device') /\ device'.ctm = page.ctm /\ Len(device'.stack) = 0
  BY DEF BeginPage, Device, Record, Sequence
<1> QED
  BY <1>1, <1>2, <1>3, <1>4 DEF IInv, Running, DeviceFollows, top

\* The other calls draw nothing.
LEMMA NotDrawingKeeps ==
    ASSUME NotDrawing
    PROVE  IInv'
BY DEF NotDrawing, IInv, Nesting, Running, DeviceFollows, Sequence

-----------------------------------------------------------------------------
\* The invariant holds in every state.
LEMMA InvariantHolds == Spec => []IInv
<1>1. Init => IInv
  BY DEF Init, IInv, Nesting, Running, DeviceFollows, Sequence
<1>2. IInv /\ [Next]_vars => IInv'
  <2> SUFFICES ASSUME IInv, [Next]_vars PROVE IInv'
    OBVIOUS
  <2>1. CASE UNCHANGED drawing
    BY <2>1 DEF drawing, IInv, Nesting, Running, DeviceFollows, top
  <2>2. CASE StartObjects
    BY <2>2, BeginPageKeeps DEF StartObjects
  <2>3. CASE Draw
    BY <2>3, InterpretKeeps DEF Draw
  <2>4. CASE ObjectsReturn \/ ObjectsRaise
    BY <2>4, NotDrawingKeeps DEF ObjectsReturn, ObjectsRaise
  <2> QED
    BY <2>1, <2>2, <2>3, <2>4 DEF Next, vars, Open, OpenEnds, GetPages, StartPages, Generate, SkipPage,
       TakePage, PagesRaise, PagesReturn, StartClose, CloseReturns, ClosePage, GetObjects,
       Rest
<1> QED
  BY <1>1, <1>2, PTL DEF Spec

\* NoStreamInsideItself, of Interpreter: what an interpreter executes is none of
\* what the interpreters below it are executing, so that forms that draw each
\* other, in any document, end (pdfinterp.rs, execute).
THEOREM ExtractionNoStreamInsideItself == Spec => []NoStreamInsideItself
<1>1. IInv => NoStreamInsideItself
  <2> SUFFICES ASSUME IInv, NEW j \in DOMAIN interps, NEW k \in DOMAIN interps, j # k
               PROVE  interps[j].ids \cap interps[k].ids = {}
    BY DEF NoStreamInsideItself
  <2>1. j < k \/ k < j
    BY DEF IInv, Nesting, Sequence
  <2> QED
    BY <2>1 DEF IInv, Nesting
<1> QED
  BY <1>1, InvariantHolds, PTL

\* DeviceFollows: since the interpreter on top last set the device's CTM, and
\* until a form it draws has ended, the device has its CTM, and the open figures
\* are those of the forms at work (pdfinterp.rs, do_q, do_Q, do_cm, do_Do).
THEOREM ExtractionDeviceFollows == Spec => []DeviceFollows
<1>1. IInv => DeviceFollows
  BY DEF IInv
<1> QED
  BY <1>1, InvariantHolds, PTL

\* end_page asserts that no figure is open: it never fails, and a page whose
\* interpretation reaches its end has a layout (converter.rs, end_page).
THEOREM ExtractionEndPageAsserts == Spec => [][PageEnds => status' = "done"]_vars
<1>1. IInv /\ PageEnds => status' = "done"
  <2> SUFFICES ASSUME IInv, PageEnds PROVE device.stack = <<>>
    BY DEF PageEnds
  <2>1. status = "running" /\ Len(interps) = 1
    BY DEF PageEnds, Ended
  <2>2. Sequence(device.stack) /\ Len(device.stack) = 0
    BY <2>1 DEF IInv, Running, DeviceFollows, Device
  <2> QED
    BY <2>2 DEF Sequence
<1> QED
  BY <1>1, InvariantHolds, PTL

-----------------------------------------------------------------------------
(* The list of pages under way, and the one returned. *)

Making == call.what \in {"pages", "close"}

\* What pdf.pages returns is numbered upward, each page under the one before it (pdf.rs,
\* pages; page.rs, doctop).
PagesAreStacked == returned.given => Stacked(returned.list)

\* While the generator has not turned to the sections, each page of the list, and the
\* one it has yielded, is another node of the tree.
NodesOnce ==
    Making /\ walk.xref = 1 =>
      /\ \A k, l \in DOMAIN pages : k # l => made[pages[k]].page.id # made[pages[l]].page.id
      /\ walk.page # NoPage =>
           \A k \in DOMAIN pages : made[pages[k]].page.id # walk.page.id

\* A page made keeps what the generator gave for it; only its layout comes and goes.
IsPage(p) == Record(p, {"page", "number", "doctop", "layout"})
PagesMade == Sequence(made) /\ \A k \in DOMAIN made : IsPage(made[k]) /\ made[k].number \in Nat

\* The generator, and what the list has of the tree.
Generator ==
    /\ Record(walk, {"at", "stack", "visited", "pages", "xref", "ids", "page"})
    /\ walk.xref \in Nat \ {0}
    /\ walk.xref = 1 =>
         /\ walk.ids = <<>>
         /\ \A k \in DOMAIN pages : made[pages[k]].page.id \in walk.visited
         /\ walk.page # NoPage => walk.page.id \in walk.visited

\* The pages of the list, as they were made.
Listed == [k \in DOMAIN pages |-> made[pages[k]]]

\* A list has pages made, in the order they are stacked in.
ListOK ==
    /\ Sequence(pages) /\ \A k \in DOMAIN pages : pages[k] \in DOMAIN made
    /\ Stacked(Listed)

\* The list under way: the last number is not beyond the count, and the next page goes
\* under the last.
Counted ==
    /\ call.i \in Nat /\ \A k \in DOMAIN pages : made[pages[k]].number <= call.i
    /\ call.doctop = IF Len(pages) = 0 THEN 0 ELSE Under(made[pages[Len(pages)]])

\* While objects are drawn no list is made; a generator is at work just while one is.
ListInv ==
    /\ PagesMade
    /\ status # "idle" => call.what = "objects"
    /\ ~Making => walk = Off
    /\ Making => pages # NoList /\ Generator /\ Counted
    /\ pages # NoList => ListOK
    /\ NodesOnce
    /\ PagesAreStacked

\* The same page, whatever its layout.
Same(p, q) == p.page = q.page /\ p.number = q.number /\ p.doctop = q.doctop

\* A sequence of which one element changes.
LEMMA SequenceExcept ==
    ASSUME NEW s, Sequence(s), NEW p, NEW w, NEW t, t = [s EXCEPT ![p] = w]
    PROVE  /\ Sequence(t) /\ DOMAIN t = DOMAIN s
           /\ \A k \in DOMAIN s : t[k] = IF k = p THEN w ELSE s[k]
<1>1. /\ DOMAIN s = 1 .. Len(s) /\ Len(s) \in Nat
      /\ t = [k \in 1 .. Len(s) |-> t[k]]
      /\ \A k \in DOMAIN s : t[k] = IF k = p THEN w ELSE s[k]
  BY DEF Sequence
<1>2. Len(t) = Len(s) /\ DOMAIN t = 1 .. Len(s)
  BY <1>1
<1> QED BY <1>1, <1>2 DEF Sequence

\* A list of the same pages is as good, whatever layouts they have.
LEMMA StackedSame ==
    ASSUME NEW f, NEW g, NEW n \in Nat, DOMAIN f = 1 .. n, DOMAIN g = 1 .. n,
           \A k \in 1 .. n : Same(f[k], g[k]), Stacked(g)
    PROVE  Stacked(f)
<1>1. \A k \in 1 .. n : k # 1 => k - 1 \in 1 .. n
  OBVIOUS
<1>2. \A k \in 1 .. n : k # 1 => Under(f[k - 1]) = Under(g[k - 1])
  BY <1>1 DEF Same, Under
<1>3. ASSUME NEW k \in 1 .. n PROVE f[k].doctop = IF k = 1 THEN 0 ELSE Under(f[k - 1])
  BY <1>2 DEF Stacked, Same
<1>4. ASSUME NEW k \in 1 .. n, NEW l \in 1 .. n, k < l PROVE f[k].number < f[l].number
  BY <1>4 DEF Stacked, Same
<1> QED BY <1>3, <1>4 DEF Stacked

\* Nothing is listed, made or under way at first.
LEMMA ListInit == Init => ListInv
<1>1. Init => Sequence(made) /\ DOMAIN made = {}
  BY DEF Init, Sequence
<1> QED BY <1>1 DEF Init, ListInv, PagesMade, Making, NoCall, NodesOnce, PagesAreStacked, NoAnswer

\* Neither the list nor the generator changes, and no list is being made.
LEMMA KeepsList ==
    ASSUME ListInv, ~Making, ~Making', UNCHANGED <<pages, made, walk>>,
           status' # "idle" => call'.what = "objects",
           returned' = returned \/ (pages # NoList /\ returned' = Answer(pages))
    PROVE  ListInv'
<1>1. pages # NoList => Stacked(Answer(pages).list)
  BY DEF ListInv, ListOK, Listed, Answer
<1>2. PagesAreStacked'
  BY <1>1 DEF ListInv, PagesAreStacked
<1>3. (pages # NoList => ListOK)'
  BY DEF ListInv, ListOK, Listed, Stacked
<1> QED BY <1>2, <1>3 DEF ListInv, PagesMade, NodesOnce

\* The call that made it ends, and so does the generator.
LEMMA KeepsEnded ==
    ASSUME ListInv, Making, call' = NoCall, walk' = Off, UNCHANGED <<pages, made, status>>,
           returned' = returned \/ returned' = Answer(pages)
    PROVE  ListInv'
<1>1. pages # NoList /\ Stacked(Answer(pages).list)
  BY DEF ListInv, ListOK, Listed, Answer
<1>2. PagesAreStacked'
  BY <1>1 DEF ListInv, PagesAreStacked
<1>3. (pages # NoList => ListOK)'
  BY DEF ListInv, ListOK, Listed, Stacked
<1>4. ~Making' /\ status' = "idle"
  BY DEF NoCall, Making, ListInv
<1> QED BY <1>2, <1>3, <1>4 DEF ListInv, PagesMade, NodesOnce

\* Layouts come and go.
LEMMA KeepsLayouts ==
    ASSUME ListInv, ~Making, ~Making', UNCHANGED <<pages, walk, returned>>,
           status' # "idle" => call'.what = "objects",
           NEW p, NEW v, made' = [made EXCEPT ![p].layout = v]
    PROVE  ListInv'
<1> DEFINE w == [made[p] EXCEPT !.layout = v]
<1>0. made' = [made EXCEPT ![p] = w]
  OBVIOUS
<1> HIDE DEF w
<1>1. /\ DOMAIN made' = DOMAIN made /\ Sequence(made')
      /\ \A k \in DOMAIN made : made'[k] = IF k = p THEN w ELSE made[k]
  BY <1>0, SequenceExcept DEF ListInv, PagesMade
<1>2. ASSUME NEW k \in DOMAIN made PROVE IsPage(made'[k]) /\ Same(made'[k], made[k])
  <2>1. IsPage(made[k])
    BY DEF ListInv, PagesMade
  <2>2. made'[k] = IF k = p THEN w ELSE made[k]
    BY <1>1
  <2>3. CASE k = p
    <3>1. IsPage(w) /\ Same(w, made[k])
      BY <2>1, <2>3 DEF IsPage, Record, Same, w
    <3> QED BY <2>2, <2>3, <3>1
  <2>4. CASE k # p
    BY <2>1, <2>2, <2>4 DEF Same
  <2> QED BY <2>3, <2>4
<1>3. PagesMade'
  BY <1>1, <1>2 DEF ListInv, PagesMade, Same
<1>4. pages # NoList => ListOK'
  <2> SUFFICES ASSUME pages # NoList PROVE ListOK'
    OBVIOUS
  <2>1. ListOK
    BY DEF ListInv
  <2>2. \A k \in DOMAIN pages : Same(made'[pages[k]], made[pages[k]])
    BY <1>2, <2>1 DEF ListOK
  <2>3. DOMAIN pages = 1 .. Len(pages) /\ Len(pages) \in Nat
    BY <2>1 DEF ListOK, Sequence
  <2>4. Stacked(Listed)'
    <3> DEFINE f == [k \in DOMAIN pages |-> made'[pages[k]]]
               g == [k \in DOMAIN pages |-> made[pages[k]]]
               n == Len(pages)
    <3>1. n \in Nat /\ DOMAIN f = 1 .. n /\ DOMAIN g = 1 .. n /\ Stacked(g)
          /\ \A k \in 1 .. n : Same(f[k], g[k])
      BY <2>1, <2>2, <2>3 DEF ListOK, Listed
    <3>2. Listed' = f
      BY DEF Listed
    <3> HIDE DEF f, g, n
    <3>3. Stacked(f)
      BY <3>1, StackedSame
    <3> QED BY <3>2, <3>3 DEF Stacked, Under
  <2> QED BY <1>1, <2>1, <2>4 DEF ListOK
<1> QED BY <1>3, <1>4 DEF ListInv, NodesOnce, PagesAreStacked

\* A list begins.
LEMMA KeepsMakePages ==
    ASSUME ListInv, Idle, NEW what \in {"pages", "close"}, MakePages(what),
           UNCHANGED <<made, status>>, returned' \in {returned, NoAnswer}
    PROVE  ListInv'
<1>1. /\ pages' = <<>> /\ walk' = NotStarted /\ call'.what = what /\ call'.i = 0
      /\ call'.doctop = 0
  BY DEF MakePages, NoCall
<1>2. DOMAIN pages' = {} /\ Len(pages') = 0 /\ pages' # NoList /\ Sequence(pages')
  BY <1>1 DEF NoList, Sequence
<1>3. status' = "idle"
  BY DEF Idle, NoCall, ListInv
<1>4. Generator'
  <2>1. Record(NotStarted, {"at", "stack", "visited", "pages", "xref", "ids", "page"})
    BY DEF NotStarted, Record
  <2>2. NotStarted.xref = 1 /\ NotStarted.ids = <<>> /\ NotStarted.page = NoPage
    BY DEF NotStarted
  <2> QED BY <1>1, <1>2, <2>1, <2>2 DEF Generator
<1>5. Counted' /\ ListOK' /\ NodesOnce' /\ PagesMade'
  BY <1>1, <1>2 DEF Counted, ListOK, NodesOnce, Stacked, Listed, ListInv, PagesMade, NotStarted
<1>6. PagesAreStacked'
  BY DEF ListInv, PagesAreStacked, NoAnswer
<1> QED BY <1>1, <1>2, <1>3, <1>4, <1>5, <1>6 DEF ListInv, Making

\* A page yielded is the node's; nothing else of what the invariant is about changes.
LEMMA YieldIs ==
    ASSUME NEW w, Record(w, {"at", "stack", "visited", "pages", "xref", "ids", "page"}),
           NEW id, NEW object, NEW attrs
    PROVE  LET y == Yield(w, id, object, attrs)
           IN  /\ Record(y, {"at", "stack", "visited", "pages", "xref", "ids", "page"})
               /\ y.xref = w.xref /\ y.ids = w.ids /\ y.visited = w.visited
               /\ y.page = w.page \/ y.page.id = id
<1>1. CASE object.bad
  BY <1>1 DEF Yield, Record
<1>2. CASE ~object.bad
  <2> DEFINE page == [id |-> id, attrs |-> attrs]
             y == [w EXCEPT !.page = page, !.pages = TRUE]
  <2>1. page.id = id /\ Yield(w, id, object, attrs) = y
    BY <1>2 DEF Yield
  <2> HIDE DEF page
  <2>2. /\ Record(y, {"at", "stack", "visited", "pages", "xref", "ids", "page"})
        /\ y.xref = w.xref /\ y.ids = w.ids /\ y.visited = w.visited /\ y.page = page
    BY DEF Record
  <2> QED BY <2>1, <2>2
<1> QED BY <1>1, <1>2

\* The generator goes on: a page it yields is a node it had not visited.
LEMMA KeepsGenerate == ASSUME ListInv, Generate PROVE ListInv'
<1>1. Walk /\ UNCHANGED <<pages, made, call, returned, status>>
  BY DEF Generate, drawing, history
<1>2. walk # Off /\ Making
  BY <1>1 DEF Walk, WalkStarts, EnterFails, EnterVisited, EnterNew, NextKid, TreeEnds,
     ScanSection, ScanObject, Entering, Resolved, Off, NotStarted, ListInv
<1>3. Generator /\ ListOK /\ Counted
  BY <1>2 DEF ListInv
<1>4. Generator' /\ NodesOnce'
  <2>1. CASE UNCHANGED <<walk>>
    BY <1>1, <1>3, <2>1 DEF ListInv, Generator, NodesOnce, Making
  <2>2. ASSUME Record(walk', {"at", "stack", "visited", "pages", "xref", "ids", "page"}),
               walk'.xref = walk.xref, walk'.ids = walk.ids, walk'.page = walk.page,
               walk'.visited = walk.visited
        PROVE  Generator' /\ NodesOnce'
    BY <1>1, <1>3, <2>2 DEF ListInv, Generator, NodesOnce, Making
  <2>3. CASE WalkStarts \/ EnterFails \/ EnterVisited \/ NextKid \/ TreeEnds
    <3>1. /\ Record(walk', {"at", "stack", "visited", "pages", "xref", "ids", "page"})
          /\ walk'.xref = walk.xref /\ walk'.ids = walk.ids /\ walk'.page = walk.page
          /\ walk'.visited = walk.visited
      BY <1>3, <2>3 DEF Generator, Record, WalkStarts, EnterFails, EnterVisited, NextKid, TreeEnds
    <3> QED BY <2>2, <3>1
  <2>4. CASE EnterNew
    <3> DEFINE id == node.kid.id
    <3>1. walk.page = NoPage /\ id \notin walk.visited
      BY <2>4 DEF EnterNew, Resolved, Entering, Resumed
    <3>2. /\ Record(walk', {"at", "stack", "visited", "pages", "xref", "ids", "page"})
          /\ walk'.xref = walk.xref /\ walk'.ids = walk.ids
          /\ walk'.visited = walk.visited \cup {id}
          /\ walk'.page # NoPage => walk'.page.id = id
      <4> DEFINE entered == [walk EXCEPT !.visited = @ \cup {id}]
      <4>1. /\ Record(entered, {"at", "stack", "visited", "pages", "xref", "ids", "page"})
            /\ entered.xref = walk.xref /\ entered.ids = walk.ids
            /\ entered.visited = walk.visited \cup {id} /\ entered.page = walk.page
        BY <1>3 DEF Generator, Record
      <4>2. \E stack : \/ walk' = [entered EXCEPT !.stack = stack]
                       \/ \E object, attrs : walk' = Yield([entered EXCEPT !.stack = stack],
                                                         id, object, attrs)
        <5>1. PICK object \in Resolved :
                LET props == Properties(object, node.parent)
                    Stays(kids) == Append(Above, [node EXCEPT !.started = TRUE, !.kids = kids,
                                                              !.props = props])
                IN  \/ walk' = [entered EXCEPT !.stack = Above]
                    \/ walk' = [entered EXCEPT !.stack = Stays(object.kids)]
                    \/ walk' = Yield([entered EXCEPT !.stack = Stays(<<>>)], id, object, props)
          BY <2>4 DEF EnterNew
        <5> HIDE DEF entered, id
        <5> QED BY <5>1
      <4> HIDE DEF entered, id
      <4>3. PICK stack : \/ walk' = [entered EXCEPT !.stack = stack]
                         \/ \E object, attrs : walk' = Yield([entered EXCEPT !.stack = stack],
                                                           id, object, attrs)
        BY <4>2
      <4> DEFINE w == [entered EXCEPT !.stack = stack]
      <4>4. /\ Record(w, {"at", "stack", "visited", "pages", "xref", "ids", "page"})
            /\ w.xref = walk.xref /\ w.ids = walk.ids
            /\ w.visited = walk.visited \cup {id} /\ w.page = walk.page
        BY <4>1 DEF Record
      <4> HIDE DEF w
      <4>5. walk' = w \/ \E object, attrs : walk' = Yield(w, id, object, attrs)
        BY <4>3 DEF w
      <4>6. ASSUME NEW object, NEW attrs, walk' = Yield(w, id, object, attrs)
            PROVE  /\ Record(walk', {"at", "stack", "visited", "pages", "xref", "ids", "page"})
                   /\ walk'.xref = w.xref /\ walk'.ids = w.ids /\ walk'.visited = w.visited
                   /\ walk'.page = w.page \/ walk'.page.id = id
        BY <4>4, <4>6, YieldIs
      <4> QED BY <3>1, <4>4, <4>5, <4>6
    <3> HIDE DEF id
    <3> QED BY <1>1, <1>2, <1>3, <3>1, <3>2 DEF Generator, NodesOnce, Making, ListInv
  <2>5. CASE ScanSection \/ ScanObject
    <3>1. /\ Record(walk', {"at", "stack", "visited", "pages", "xref", "ids", "page"})
          /\ walk'.xref \in Nat \ {0}
          /\ walk'.xref = 1 => /\ walk'.ids = walk.ids /\ walk'.page = walk.page
                               /\ walk'.visited = walk.visited /\ walk.xref = 1
      <4>1. CASE ScanSection
        <5>1. CASE walk.xref > Len(xrefs)
          BY <1>3, <4>1, <5>1 DEF Generator, Record, ScanSection
        <5>2. CASE ~(walk.xref > Len(xrefs))
          <6> DEFINE ids == Objids(Section(xrefs[walk.xref]))
          <6>1. walk' = [walk EXCEPT !.ids = ids, !.xref = @ + 1]
            BY <4>1, <5>2 DEF ScanSection
          <6> HIDE DEF ids
          <6>2. walk'.xref = walk.xref + 1
                /\ Record(walk', {"at", "stack", "visited", "pages", "xref", "ids", "page"})
            BY <1>3, <6>1 DEF Generator, Record
          <6> QED BY <1>3, <6>2 DEF Generator
        <5> QED BY <5>1, <5>2
      <4>2. CASE ScanObject
        <5>1. walk.xref # 1
          BY <1>3, <4>2 DEF Generator, ScanObject
        <5> DEFINE rest == [walk EXCEPT !.ids = Tail(@)]
        <5>2. /\ Record(rest, {"at", "stack", "visited", "pages", "xref", "ids", "page"})
              /\ rest.xref = walk.xref
          BY <1>3 DEF Generator, Record
        <5>3. \/ walk' = [walk EXCEPT !.at = "raised"]
              \/ \E id, object, attrs : walk' = Yield(rest, id, object, attrs)
              \/ walk' = rest
          BY <4>2 DEF ScanObject
        <5> HIDE DEF rest
        <5>4. /\ Record(walk', {"at", "stack", "visited", "pages", "xref", "ids", "page"})
              /\ walk'.xref = walk.xref
          BY <1>3, <5>2, <5>3 DEF Yield, Record, Generator
        <5> QED BY <1>3, <5>1, <5>4 DEF Generator
      <4> QED BY <2>5, <4>1, <4>2
    <3> QED BY <1>1, <1>2, <1>3, <3>1 DEF Generator, NodesOnce, Making, ListInv
  <2> QED BY <1>1, <2>3, <2>4, <2>5 DEF Walk
<1> QED BY <1>1, <1>2, <1>3, <1>4 DEF ListInv, PagesMade, Making, Counted, ListOK, Listed,
           Stacked, PagesAreStacked

\* A sequence with an element more.
LEMMA SequenceAppend ==
    ASSUME NEW s, Sequence(s), NEW e
    PROVE  /\ Sequence(Append(s, e)) /\ Len(Append(s, e)) = Len(s) + 1 /\ Len(s) \in Nat
           /\ DOMAIN s = 1 .. Len(s) /\ DOMAIN Append(s, e) = 1 .. Len(s) + 1
           /\ Append(s, e)[Len(s) + 1] = e
           /\ \A k \in 1 .. Len(s) : Append(s, e)[k] = s[k]
<1> DEFINE S == {s[k] : k \in DOMAIN s} \cup {e}
           t == Append(s, e)
<1>1. s \in Seq(S) /\ e \in S
  BY DEF Sequence
<1>2. Len(s) \in Nat /\ DOMAIN s = 1 .. Len(s)
  BY <1>1
<1> HIDE DEF S
<1>3. t \in Seq(S) /\ Len(t) = Len(s) + 1
  BY <1>1
<1>4. t[Len(s) + 1] = e /\ \A k \in 1 .. Len(s) : t[k] = s[k]
  BY <1>1
<1> HIDE DEF t
<1>5. DOMAIN t = 1 .. Len(s) + 1 /\ Sequence(t)
  BY <1>2, <1>3 DEF Sequence
<1> QED BY <1>2, <1>3, <1>4, <1>5 DEF t

\* The generator once its page is taken.
LEMMA PageTaken ==
    ASSUME Generator, walk' = [walk EXCEPT !.page = NoPage]
    PROVE  /\ Record(walk', {"at", "stack", "visited", "pages", "xref", "ids", "page"})
           /\ walk'.page = NoPage /\ walk'.xref = walk.xref /\ walk'.ids = walk.ids
           /\ walk'.visited = walk.visited
BY DEF Generator, Record

\* A page whose number is not asked for is counted, and nothing else.
LEMMA KeepsSkipPage == ASSUME ListInv, SkipPage PROVE ListInv'
<1>1. /\ walk.page # NoPage /\ walk' = [walk EXCEPT !.page = NoPage]
      /\ call' = [call EXCEPT !.i = @ + 1]
      /\ UNCHANGED <<pages, made, returned, status>>
  BY DEF SkipPage, drawing, history
<1>2. Making
  BY <1>1 DEF ListInv, Off, NotStarted
<1>3. Generator /\ Counted /\ ListOK /\ PagesMade /\ pages # NoList
  BY <1>2 DEF ListInv
<1>4. Generator' /\ NodesOnce'
  BY <1>1, <1>2, <1>3, PageTaken DEF Generator, NodesOnce, Making, ListInv
<1>5. call'.what = call.what /\ call'.i = call.i + 1 /\ call'.doctop = call.doctop
  BY <1>1
<1>6. Counted'
  BY <1>1, <1>3, <1>5 DEF Counted, ListOK, PagesMade, Under
<1> QED BY <1>1, <1>2, <1>3, <1>4, <1>5, <1>6 DEF ListInv, PagesMade, Making, ListOK, Listed,
           Stacked, PagesAreStacked

\* A page is made and listed: it is numbered above the others, and under them.
LEMMA KeepsTakePage == ASSUME ListInv, TakePage PROVE ListInv'
<1> DEFINE q == NewPage(call.i + 1)
           m == Len(made) + 1
           n == Len(pages)
<1>1. /\ walk.page # NoPage /\ walk' = [walk EXCEPT !.page = NoPage]
      /\ call' = [call EXCEPT !.i = @ + 1, !.doctop = @ + Height(walk.page.attrs)]
      /\ made' = Append(made, q) /\ pages' = Append(pages, Len(made'))
      /\ UNCHANGED <<returned, status>>
  BY DEF TakePage, drawing, history
<1>2. Making
  BY <1>1 DEF ListInv, Off, NotStarted
<1>3. Generator /\ Counted /\ ListOK /\ PagesMade /\ pages # NoList
  BY <1>2 DEF ListInv
<1>4. /\ q.page = walk.page /\ q.number = call.i + 1 /\ q.doctop = call.doctop /\ IsPage(q)
  BY DEF NewPage, IsPage, Record
<1> HIDE DEF q
<1>5. /\ Sequence(made') /\ Len(made') = m /\ m \in Nat /\ DOMAIN made = 1 .. Len(made)
      /\ DOMAIN made' = 1 .. m /\ made'[m] = q /\ \A k \in DOMAIN made : made'[k] = made[k]
      /\ \A k \in DOMAIN made : k \in 1 .. m
  <2>1. Sequence(made)
    BY <1>3 DEF PagesMade
  <2>2. made' = Append(made, q)
    BY <1>1
  <2>3. /\ Sequence(Append(made, q)) /\ Len(Append(made, q)) = Len(made) + 1 /\ Len(made) \in Nat
        /\ DOMAIN made = 1 .. Len(made) /\ DOMAIN Append(made, q) = 1 .. Len(made) + 1
        /\ Append(made, q)[Len(made) + 1] = q
        /\ \A k \in 1 .. Len(made) : Append(made, q)[k] = made[k]
    BY <2>1, SequenceAppend
  <2> QED BY <2>2, <2>3
<1>6. /\ Sequence(pages') /\ Len(pages') = n + 1 /\ n \in Nat /\ DOMAIN pages = 1 .. n
      /\ DOMAIN pages' = 1 .. n + 1 /\ pages'[n + 1] = m
      /\ \A k \in 1 .. n : pages'[k] = pages[k]
  <2>1. Sequence(pages) /\ pages' = Append(pages, m)
    BY <1>1, <1>3, <1>5 DEF ListOK
  <2>2. /\ Sequence(Append(pages, m)) /\ Len(Append(pages, m)) = Len(pages) + 1 /\ Len(pages) \in Nat
        /\ DOMAIN pages = 1 .. Len(pages) /\ DOMAIN Append(pages, m) = 1 .. Len(pages) + 1
        /\ Append(pages, m)[Len(pages) + 1] = m
        /\ \A k \in 1 .. Len(pages) : Append(pages, m)[k] = pages[k]
    BY <2>1, SequenceAppend
  <2> QED BY <2>1, <2>2
<1> DEFINE page(k) == made'[pages'[k]]
<1>7. /\ page(n + 1) = q
      /\ \A k \in 1 .. n : page(k) = made[pages[k]] /\ pages[k] \in DOMAIN made
      /\ \A k \in 1 .. n + 1 : pages'[k] \in DOMAIN made'
  <2>1. ASSUME NEW k \in 1 .. n
        PROVE  page(k) = made[pages[k]] /\ pages[k] \in DOMAIN made /\ pages'[k] \in DOMAIN made'
    <3>1. pages[k] \in DOMAIN made
      BY <1>3, <1>6 DEF ListOK
    <3> QED BY <1>5, <1>6, <3>1
  <2>2. page(n + 1) = q /\ m \in DOMAIN made'
    BY <1>5, <1>6
  <2>3. ASSUME NEW k \in 1 .. n + 1 PROVE pages'[k] \in DOMAIN made'
    <3>1. k \in 1 .. n \/ k = n + 1
      BY <1>6
    <3> QED BY <1>6, <2>1, <2>2, <3>1
  <2> QED BY <2>1, <2>2, <2>3
<1>8. call'.what = call.what /\ call'.i = call.i + 1
      /\ call'.doctop = call.doctop + Height(walk.page.attrs) /\ call.i \in Nat
  BY <1>1, <1>3 DEF Counted
<1>9. PagesMade'
  <2>1. ASSUME NEW k \in 1 .. m PROVE IsPage(made'[k]) /\ made'[k].number \in Nat
    <3>1. CASE k = m
      BY <1>4, <1>5, <1>8, <3>1
    <3>2. CASE k # m
      <4>1. k \in DOMAIN made
        BY <1>5, <3>2
      <4> QED BY <1>3, <1>5, <4>1 DEF PagesMade
    <3> QED BY <3>1, <3>2
  <2> QED BY <1>5, <2>1 DEF PagesMade
<1>10. /\ \A k, l \in 1 .. n : k < l => page(k).number < page(l).number
       /\ \A k \in 1 .. n : page(k).doctop = IF k = 1 THEN 0 ELSE Under(page(k - 1))
  <2>1. /\ \A k, l \in 1 .. n : k < l => made[pages[k]].number < made[pages[l]].number
        /\ \A k \in 1 .. n : made[pages[k]].doctop
                               = IF k = 1 THEN 0 ELSE Under(made[pages[k - 1]])
    <3>1. \A k \in 1 .. n : k # 1 => k - 1 \in 1 .. n
      BY <1>6
    <3> QED BY <1>3, <1>6, <3>1 DEF ListOK, Stacked, Listed
  <2>2. \A k \in 1 .. n : k # 1 => k - 1 \in 1 .. n
    BY <1>6
  <2> HIDE DEF page, n
  <2> QED BY <1>7, <2>1, <2>2
<1>11. \A k \in 1 .. n : page(k).number < page(n + 1).number
  <2> SUFFICES ASSUME NEW k \in 1 .. n PROVE page(k).number < q.number
    BY <1>7
  <2>1. made[pages[k]].number <= call.i /\ made[pages[k]].number \in Nat
    BY <1>3, <1>6, <1>7 DEF Counted, PagesMade
  <2>2. page(k).number <= call.i /\ page(k).number \in Nat
    BY <1>7, <2>1
  <2> HIDE DEF page
  <2> QED BY <1>4, <1>8, <2>2
<1>12. page(n + 1).doctop = IF n + 1 = 1 THEN 0 ELSE Under(page(n))
  <2>1. call.doctop = IF n = 0 THEN 0 ELSE Under(made[pages[n]])
    BY <1>3 DEF Counted
  <2>2. n # 0 => n \in 1 .. n
    BY <1>6
  <2> HIDE DEF page, n
  <2> QED BY <1>4, <1>6, <1>7, <2>1, <2>2
<1>13. Stacked(Listed)'
  <2> DEFINE f == [k \in 1 .. n + 1 |-> page(k)]
  <2>1. Listed' = f
    BY <1>6 DEF Listed
  <2>2. \A k \in 1 .. n + 1 : f[k] = page(k) /\ (k # 1 => k - 1 \in 1 .. n + 1 /\ f[k - 1] = page(k - 1))
    BY <1>6
  <2>3. DOMAIN f = 1 .. n + 1
    OBVIOUS
  <2> HIDE DEF f, page
  <2>4. ASSUME NEW k \in 1 .. n + 1, NEW l \in 1 .. n + 1, k < l
        PROVE  f[k].number < f[l].number
    <3>1. k \in 1 .. n /\ (l \in 1 .. n \/ l = n + 1)
      BY <1>6, <2>4
    <3> QED BY <1>10, <1>11, <2>2, <2>4, <3>1
  <2>5. ASSUME NEW k \in 1 .. n + 1
        PROVE  f[k].doctop = IF k = 1 THEN 0 ELSE Under(f[k - 1])
    <3>1. CASE k = n + 1
      <4>1. (n + 1) - 1 = n
        BY <1>6
      <4>2. f[k] = page(n + 1) /\ (k # 1 => f[k - 1] = page(n))
        BY <2>2, <3>1, <4>1
      <4> QED BY <1>12, <3>1, <4>2
    <3>2. CASE k # n + 1
      <4>1. k \in 1 .. n
        BY <1>6, <3>2
      <4> QED BY <1>10, <2>2, <4>1
    <3> QED BY <3>1, <3>2
  <2>6. Stacked(f)
    BY <2>3, <2>4, <2>5 DEF Stacked
  <2> QED BY <2>1, <2>6 DEF Stacked, Under
<1>14. ListOK'
  BY <1>6, <1>7, <1>13 DEF ListOK
<1>15. Counted'
  <2>1. \A k \in 1 .. n + 1 : page(k).number <= call'.i
    <3>1. \A k \in 1 .. n : made[pages[k]].number \in Nat /\ made[pages[k]].number <= call.i
      BY <1>3, <1>6, <1>7 DEF Counted, PagesMade
    <3>2. ASSUME NEW k \in 1 .. n PROVE page(k).number <= call'.i
      <4>1. page(k).number \in Nat /\ page(k).number <= call.i
        BY <1>7, <3>1
      <4> HIDE DEF page
      <4> QED BY <1>8, <4>1
    <3>3. page(n + 1).number <= call'.i
      <4>1. page(n + 1).number = call.i + 1
        BY <1>4, <1>7
      <4> HIDE DEF page
      <4> QED BY <1>8, <4>1
    <3>4. \A k \in 1 .. n + 1 : k \in 1 .. n \/ k = n + 1
      BY <1>6
    <3> HIDE DEF page, n
    <3> QED BY <3>2, <3>3, <3>4
  <2>2. call'.doctop = Under(page(n + 1))
    BY <1>4, <1>7, <1>8 DEF Under
  <2>3. Len(pages') # 0
    BY <1>6
  <2> QED BY <1>6, <1>8, <2>1, <2>2, <2>3 DEF Counted, Under
<1>16. ASSUME walk.xref = 1
       PROVE  /\ \A k \in 1 .. n + 1 : page(k).page.id \in walk.visited
              /\ \A k, l \in 1 .. n + 1 : k # l => page(k).page.id # page(l).page.id
  <2>1. /\ \A k \in 1 .. n : page(k).page.id \in walk.visited
        /\ \A k, l \in 1 .. n : k # l => page(k).page.id # page(l).page.id
        /\ \A k \in 1 .. n : page(k).page.id # walk.page.id
        /\ walk.page.id \in walk.visited
    BY <1>1, <1>2, <1>3, <1>6, <1>7, <1>16 DEF Generator, ListInv, NodesOnce
  <2>2. page(n + 1).page.id = walk.page.id
    BY <1>4, <1>7
  <2>3. \A k \in 1 .. n + 1 : k \in 1 .. n \/ k = n + 1
    BY <1>6
  <2> HIDE DEF page, n
  <2> QED BY <2>1, <2>2, <2>3
<1>17. Generator' /\ NodesOnce'
  <2>1. /\ Record(walk', {"at", "stack", "visited", "pages", "xref", "ids", "page"})
        /\ walk'.page = NoPage /\ walk'.xref = walk.xref /\ walk'.ids = walk.ids
        /\ walk'.visited = walk.visited
    BY <1>1, <1>3, PageTaken
  <2> QED BY <1>3, <1>6, <1>16, <2>1 DEF Generator, NodesOnce
<1>18. pages' # NoList
  <2>1. CASE n = 0
    <3>1. pages'[1] = m /\ m # 0
      BY <1>5, <1>6, <2>1
    <3> QED BY <3>1 DEF NoList
  <2>2. CASE n # 0
    <3>1. Len(pages') # 1
      BY <1>6, <2>2
    <3> QED BY <3>1 DEF NoList
  <2> QED BY <2>1, <2>2
<1> QED BY <1>1, <1>2, <1>8, <1>9, <1>14, <1>15, <1>17, <1>18
        DEF ListInv, Making, PagesAreStacked

\* Every step keeps it: most leave the list and the generator alone.
LEMMA ListStep == ListInv /\ [Next]_vars => ListInv'
<1> SUFFICES ASSUME ListInv, [Next]_vars PROVE ListInv'
  OBVIOUS
<1>1. ASSUME UNCHANGED <<pages, made, call, walk, returned>>,
             status' # "idle" => call.what = "objects"
      PROVE  ListInv'
  BY <1>1 DEF ListInv, PagesMade, Making, Generator, Counted, ListOK, Listed, Stacked,
     NodesOnce, PagesAreStacked
<1>2. CASE Open
  BY <1>1, <1>2 DEF Open, drawing, history, ListInv
<1>3. CASE Draw
  <2>1. status = "running"
    BY <1>3 DEF Draw, Interpret, Push, Unknown, TooFew, NextStream, Nothing, SaveState, RestoreState,
         ConcatMatrix, LineStyle, ColorSpace, Gray, SetColor, PathSegment, PaintPath,
         EndPath, BeginTag, EndTag, BeginText, TextParameter, SetFont, MoveText, ShowText,
         InlineImage, IgnoreXObject, DrawImage, DrawForm, DoRaises, FormEnds, PageEnds,
         XObjects, Called, AtToken, Ended
  <2>2. UNCHANGED <<pages, made, call, walk, returned>>
    BY <1>3 DEF Draw, history
  <2> QED BY <1>1, <2>1, <2>2 DEF ListInv
<1>4. CASE GetObjects \/ Rest
  <2>1. UNCHANGED <<pages, made, call, walk, returned, status>>
    BY <1>4 DEF GetObjects, Rest, vars, drawing, history
  <2> QED BY <1>1, <2>1 DEF ListInv
<1>5. CASE UNCHANGED vars
  BY <1>1, <1>5 DEF vars, drawing, history, ListInv
<1>6. CASE OpenEnds \/ GetPages \/ StartObjects
  <2>1. /\ ~Making /\ ~Making' /\ UNCHANGED <<pages, made, walk>>
        /\ status' # "idle" => call'.what = "objects"
        /\ returned' = returned \/ (pages # NoList /\ returned' = Answer(pages))
    <3>1. CASE OpenEnds
      BY <3>1 DEF OpenEnds, Making, NoCall, drawing, history, ListInv
    <3>2. CASE GetPages
      BY <3>2 DEF GetPages, Calling, Idle, Making, NoCall, drawing, history, ListInv
    <3>3. CASE StartObjects
      BY <3>3 DEF StartObjects, Calling, Idle, Making, NoCall, history
    <3> QED BY <1>6, <3>1, <3>2, <3>3
  <2> QED BY <2>1, KeepsList
<1>7. CASE ObjectsRaise
  <2>1. /\ ~Making /\ ~Making' /\ UNCHANGED <<pages, made, walk, returned>> /\ status' = "idle"
    BY <1>7 DEF ObjectsRaise, NotDrawing, Making, NoCall, ListInv
  <2> QED BY <2>1, KeepsList
<1>8. CASE ObjectsReturn
  <2>1. /\ ~Making /\ ~Making' /\ UNCHANGED <<pages, walk, returned>> /\ status' = "idle"
        /\ made' = [made EXCEPT ![call.page].layout = <<"layout", device.cur.objs>>]
    BY <1>8 DEF ObjectsReturn, NotDrawing, Making, NoCall, ListInv
  <2> QED BY <2>1, KeepsLayouts
<1>9. CASE ClosePage
  <2>1. /\ ~Making /\ ~Making' /\ UNCHANGED <<pages, walk, returned>>
        /\ status' # "idle" => call'.what = "objects"
    BY <1>9 DEF ClosePage, Calling, Idle, Making, NoCall, drawing, history, ListInv
  <2>2. \E p : made' = [made EXCEPT ![p].layout = NoLayout]
    BY <1>9 DEF ClosePage
  <2> QED BY <2>1, <2>2, KeepsLayouts
<1>10. CASE StartPages \/ StartClose
  <2>1. /\ Idle
        /\ MakePages("pages") \/ MakePages("close")
        /\ UNCHANGED <<made, status>> /\ returned' \in {returned, NoAnswer}
    BY <1>10 DEF StartPages, StartClose, Calling, drawing, history
  <2> QED BY <2>1, KeepsMakePages
<1>11. CASE PagesRaise \/ PagesReturn \/ CloseReturns
  <2>1. /\ Making /\ call' = NoCall /\ walk' = Off /\ UNCHANGED <<pages, made, status>>
        /\ returned' = returned \/ returned' = Answer(pages)
    BY <1>11 DEF PagesRaise, PagesReturn, CloseReturns, Making, drawing, history
  <2> QED BY <2>1, KeepsEnded
<1> QED BY <1>2, <1>3, <1>4, <1>5, <1>6, <1>7, <1>8, <1>9, <1>10, <1>11,
           KeepsGenerate, KeepsSkipPage, KeepsTakePage DEF Next

\* PagesAreStacked: the pages that pdf.pages returns are numbered upward, those that were
\* not asked for left out, and the top of each is where the one before it ends (pdf.rs,
\* pages; page.rs, doctop).
THEOREM ExtractionPagesAreStacked == Spec => []PagesAreStacked
<1>1. ListInv => PagesAreStacked
  BY DEF ListInv
<1> QED BY <1>1, ListInit, ListStep, PTL DEF Spec

\* NodesOnce: the generator gives each node of the page tree once, however the nodes
\* refer to each other, so that no two pages of the list under way are the same object,
\* unless they were found in the sections (pdfpage.rs, create_pages).
THEOREM ExtractionNodesOnce == Spec => []NodesOnce
<1>1. ListInv => NodesOnce
  BY DEF ListInv
<1> QED BY <1>1, ListInit, ListStep, PTL DEF Spec

-----------------------------------------------------------------------------
(* The sections are those of the recursion: what a reader at work has to come *)
(* is what the recursion says of its place, by the frames that are left.      *)

\* The order of the natural numbers, as a relation.
Less == {p \in Nat \X Nat : p[1] < p[2]}

\* There is no endless descent among the numbers.
LEMMA LessWellFounded == IsWellFoundedOn(Less, Nat)
BY NatLessThanWellFounded, Zenon DEF OpToRel, Less

\* A set of numbers with a member has a least one.
LEMMA Least ==
    ASSUME NEW S \in SUBSET Nat, S # {}
    PROVE  \E x \in S : \A y \in S : x <= y
<1>1. PICK x \in S : \A y \in S : ~(<<y, x>> \in Less)
  BY LessWellFounded, WFMin
<1>2. ASSUME NEW y \in S PROVE x <= y
  <2>1. x \in Nat /\ y \in Nat /\ <<y, x>> \in Nat \X Nat
    OBVIOUS
  <2>2. ~(y < x)
    BY <1>1, <2>1 DEF Less
  <2> QED BY <2>1, <2>2
<1> QED BY <1>2

-----------------------------------------------------------------------------
(* The chain of sections. *)

IsChain(f, n) ==
    f = [k \in 0 .. n |-> IF k = 0 THEN [pos \in Places |-> ReadNone("raised")]
                          ELSE [pos \in Places |-> ChainOf(pos, f[k - 1])]]

\* Chain has a function to be.
LEMMA ChainExists ==
    ASSUME NEW n \in Nat
    PROVE  \E f : IsChain(f, n)
<1> SUFFICES ASSUME \A f : ~IsChain(f, n) PROVE FALSE
  OBVIOUS
<1> DEFINE L == {k \in Nat : \A f : ~IsChain(f, k)}
<1>1. PICK k \in L : \A m \in L : k <= m
  <2>1. n \in L /\ L \in SUBSET Nat
    OBVIOUS
  <2> HIDE DEF L
  <2> QED BY <2>1, Least
<1>2. k \in Nat /\ \A f : ~IsChain(f, k)
  OBVIOUS
<1>3. k # 0
  <2> DEFINE f == [i \in 0 .. 0 |-> [pos \in Places |-> ReadNone("raised")]]
  <2>1. IsChain(f, 0)
    BY DEF IsChain
  <2> QED BY <1>2, <2>1
<1>4. k - 1 \in Nat /\ k - 1 \notin L
  <2>1. k - 1 \in Nat
    BY <1>2, <1>3
  <2> HIDE DEF L
  <2> QED BY <1>1, <1>2, <2>1
<1>5. PICK f : IsChain(f, k - 1)
  BY <1>4
<1> DEFINE g == [i \in 0 .. k |-> IF i = k THEN [pos \in Places |-> ChainOf(pos, f[k - 1])] ELSE f[i]]
<1>6. ASSUME NEW i \in 0 .. k
      PROVE  g[i] = IF i = 0 THEN [pos \in Places |-> ReadNone("raised")]
                    ELSE [pos \in Places |-> ChainOf(pos, g[i - 1])]
  <2>1. CASE i = k
    <3>1. g[k - 1] = f[k - 1] /\ g[k] = [pos \in Places |-> ChainOf(pos, f[k - 1])]
      BY <1>2, <1>3, <1>4
    <3> HIDE DEF g
    <3> QED BY <1>3, <2>1, <3>1
  <2>2. CASE i # k
    <3>1. i \in 0 .. k - 1 /\ g[i] = f[i]
      BY <1>2, <2>2
    <3>2. i # 0 => i - 1 \in 0 .. k /\ i - 1 # k /\ g[i - 1] = f[i - 1]
      BY <1>2, <2>2
    <3>3. f[i] = IF i = 0 THEN [pos \in Places |-> ReadNone("raised")]
                 ELSE [pos \in Places |-> ChainOf(pos, f[i - 1])]
      BY <1>5, <3>1 DEF IsChain
    <3> HIDE DEF g
    <3> QED BY <3>1, <3>2, <3>3
  <2> QED BY <2>1, <2>2
<1>7. g = [i \in 0 .. k |-> g[i]]
  OBVIOUS
<1> HIDE DEF g
<1>8. IsChain(g, k)
  BY <1>6, <1>7 DEF IsChain
<1> QED BY <1>2, <1>8

\* What Chain says, by the frames left.
LEMMA ChainIs ==
    ASSUME NEW n \in 0 .. MaxDepth
    PROVE  Chain[n] = IF n = 0 THEN [pos \in Places |-> ReadNone("raised")]
                      ELSE [pos \in Places |-> ChainOf(pos, Chain[n - 1])]
<1>1. Chain = CHOOSE f : IsChain(f, MaxDepth)
  BY DEF Chain, IsChain
<1>2. IsChain(Chain, MaxDepth)
  BY <1>1, ChainExists, DocumentsAssumption
<1> QED BY <1>2 DEF IsChain

\* Where sections are, and what reading a chain of them comes to.
Positions == Places \cup {Scanned}
Outcomes == [read : Seq(Positions), outcome : {"ends", "scan", "raised"}]

\* What is read at a place leads to places, and is a section of the file.
LEMMA LedTo ==
    ASSUME NEW pos \in Places, Section(pos).kind \notin {"invalid", "fails"}
    PROVE  /\ Section(pos).xrefstm \in Places /\ Section(pos).prev \in Places
           /\ Section(pos) \in Readable(doc)
<1>1. pos = Scanned \/ pos \in DOMAIN doc.sections
  BY DEF Section
<1>2. Section(pos).xrefstm \in Leads(Section(pos)) /\ Section(pos).prev \in Leads(Section(pos))
  BY DEF Leads
<1>3. Section(pos) \in Readable(doc)
  BY <1>1 DEF Section, Readable, Range
<1>4. Leads(Section(pos)) \subseteq Places
  BY <1>1 DEF Places
<1> QED BY <1>2, <1>3, <1>4

\* Nothing read is an outcome, ...
LEMMA ReadNoneTyped ==
    ASSUME NEW outcome \in {"ends", "scan", "raised"}
    PROVE  ReadNone(outcome) \in Outcomes
BY DEF ReadNone, Outcomes

\* ... and one outcome after another is one.
LEMMA AndThenTyped ==
    ASSUME NEW a \in Outcomes, NEW next, next = None \/ next \in Places,
           NEW below \in [Places -> Outcomes]
    PROVE  AndThen(a, next, below) \in Outcomes
<1>1. CASE a.outcome # "ends" \/ next = None
  BY <1>1 DEF AndThen
<1>2. CASE ~(a.outcome # "ends" \/ next = None)
  <2>1. below[next] \in Outcomes
    BY <1>2
  <2>2. a.read \o below[next].read \in Seq(Positions)
    BY <2>1, ConcatProperties DEF Outcomes
  <2> QED BY <1>2, <2>1, <2>2 DEF AndThen, Outcomes
<1> QED BY <1>1, <1>2

\* The outcome of reading a place and below.
LEMMA ChainOfTyped ==
    ASSUME NEW pos \in Places, NEW below \in [Places -> Outcomes]
    PROVE  ChainOf(pos, below) \in Outcomes
<1> DEFINE s == Section(pos)
           a == [read |-> <<pos>>, outcome |-> "ends"]
<1>1. CASE s.kind \in {"invalid", "fails"}
  BY <1>1, ReadNoneTyped DEF ChainOf
<1>2. CASE s.kind \notin {"invalid", "fails"}
  <2>1. a \in Outcomes
    BY DEF Outcomes, Positions
  <2>2. s.xrefstm \in Places /\ s.prev \in Places
    BY <1>2, LedTo
  <2> HIDE DEF a
  <2>3. AndThen(a, s.xrefstm, below) \in Outcomes
    BY <2>1, <2>2, AndThenTyped
  <2>4. AndThen(AndThen(a, s.xrefstm, below), s.prev, below) \in Outcomes
    BY <2>2, <2>3, AndThenTyped
  <2> QED BY <1>2, <2>4 DEF ChainOf, a
<1> QED BY <1>1, <1>2

\* Chain gives outcomes.
LEMMA ChainTyped ==
    ASSUME NEW n \in 0 .. MaxDepth
    PROVE  Chain[n] \in [Places -> Outcomes]
<1> DEFINE L == {k \in 0 .. MaxDepth : Chain[k] \notin [Places -> Outcomes]}
<1> SUFFICES ASSUME n \in L PROVE FALSE
  OBVIOUS
<1>0. MaxDepth \in Nat
  BY DocumentsAssumption
<1>1. PICK k \in L : \A m \in L : k <= m
  <2>1. L \in SUBSET Nat /\ L # {}
    BY <1>0
  <2> HIDE DEF L
  <2> QED BY <2>1, Least
<1>2. k \in 0 .. MaxDepth /\ Chain[k] \notin [Places -> Outcomes]
  OBVIOUS
<1>3. k # 0
  <2>1. Chain[0] = [pos \in Places |-> ReadNone("raised")]
    <3>1. 0 \in 0 .. MaxDepth
      BY <1>0
    <3> QED BY <3>1, ChainIs
  <2> QED BY <1>2, <2>1, ReadNoneTyped
<1>4. k - 1 \in 0 .. MaxDepth /\ k - 1 \notin L
  <2>1. k - 1 \in 0 .. MaxDepth /\ ~(k <= k - 1)
    BY <1>0, <1>2, <1>3
  <2> HIDE DEF L
  <2> QED BY <1>1, <2>1
<1>5. Chain[k - 1] \in [Places -> Outcomes]
  BY <1>4
<1>6. Chain[k] = [pos \in Places |-> ChainOf(pos, Chain[k - 1])]
  BY <1>2, <1>3, ChainIs
<1> QED BY <1>2, <1>5, <1>6, ChainOfTyped

-----------------------------------------------------------------------------
(* The reads at work. *)

\* The sections read so far, when those that lead on from them are still to come.
Got == [read |-> xrefs, outcome |-> "ends"]
Prefixed(read, more) == [read |-> read \o more.read, outcome |-> more.outcome]

\* What is read first stays first.
LEMMA AndThenPrefixed ==
    ASSUME NEW read \in Seq(Positions), NEW a \in Outcomes,
           NEW next, next = None \/ next \in Places, NEW below \in [Places -> Outcomes]
    PROVE  Prefixed(read, AndThen(a, next, below)) = AndThen(Prefixed(read, a), next, below)
<1>1. CASE a.outcome # "ends" \/ next = None
  BY <1>1 DEF AndThen, Prefixed
<1>2. CASE ~(a.outcome # "ends" \/ next = None)
  <2>1. a.read \in Seq(Positions) /\ below[next].read \in Seq(Positions)
    <3>1. below[next] \in Outcomes
      BY <1>2
    <3> QED BY <3>1 DEF Outcomes
  <2>2. (read \o a.read) \o below[next].read = read \o (a.read \o below[next].read)
    <3>1. \A s, t, u \in Seq(Positions) : (s \o t) \o u = s \o (t \o u)
      BY ConcatAssociative
    <3>2. \A t, u \in Seq(Positions) : (read \o t) \o u = read \o (t \o u)
      BY <3>1
    <3> QED BY <2>1, <3>2
  <2> QED BY <1>2, <2>2 DEF AndThen, Prefixed
<1> QED BY <1>1, <1>2

\* A section that can be read is the first that reading it and below gives.
LEMMA ChainOfPrefixed ==
    ASSUME NEW read \in Seq(Positions), NEW pos \in Places, NEW below \in [Places -> Outcomes],
           Section(pos).kind \notin {"invalid", "fails"}
    PROVE  Prefixed(read, ChainOf(pos, below))
             = AndThen(AndThen([read |-> Append(read, pos), outcome |-> "ends"],
                               Section(pos).xrefstm, below), Section(pos).prev, below)
<1> DEFINE s == Section(pos)
           a == [read |-> <<pos>>, outcome |-> "ends"]
<1>1. a \in Outcomes /\ s.xrefstm \in Places /\ s.prev \in Places
  BY LedTo DEF Outcomes, Positions
<1>2. Prefixed(read, a) = [read |-> Append(read, pos), outcome |-> "ends"]
  <2>1. pos \in Positions
    BY DEF Positions
  <2> QED BY <2>1, AppendIsConcat DEF Prefixed
<1>3. ChainOf(pos, below) = AndThen(AndThen(a, s.xrefstm, below), s.prev, below)
  BY DEF ChainOf
<1> HIDE DEF a
<1>4. AndThen(a, s.xrefstm, below) \in Outcomes
  BY <1>1, AndThenTyped
<1>5. Prefixed(read, ChainOf(pos, below))
        = AndThen(Prefixed(read, AndThen(a, s.xrefstm, below)), s.prev, below)
  BY <1>1, <1>3, <1>4, AndThenPrefixed
<1>6. Prefixed(read, AndThen(a, s.xrefstm, below))
        = AndThen(Prefixed(read, a), s.xrefstm, below)
  BY <1>1, AndThenPrefixed
<1> QED BY <1>2, <1>5, <1>6

\* What reading comes to once a read_xref_from has returned, if before that it comes to
\* `a`: `below` says what the sections it leads to give.
Onward(frame, a, below) ==
    IF frame.next = "section" THEN Prefixed(a.read, ChainOf(frame.pos, below))
    ELSE IF frame.next = "XRefStm"
    THEN AndThen(AndThen(a, Section(frame.pos).xrefstm, below), Section(frame.pos).prev, below)
    ELSE IF frame.next = "Prev" THEN AndThen(a, Section(frame.pos).prev, below)
    ELSE a

\* The reads at work, from the last one down to the first, come to the whole chain.
Foretold(T) ==
    /\ T[Len(opening.stack) + 1] = Got
    /\ \A j \in 1 .. Len(opening.stack) :
        T[j] = Onward(opening.stack[j], T[j + 1], Chain[MaxDepth - j])
    /\ T[1] = WholeChain

Frames == [pos : Places, next : {"section", "XRefStm", "Prev", "return"}]
Reads ==
    /\ opening.stack \in Seq(Frames) /\ Len(opening.stack) <= MaxDepth
    /\ \A j \in 1 .. Len(opening.stack) :
         IF opening.stack[j].next = "section" THEN j = Len(opening.stack)
         ELSE Section(opening.stack[j].pos).kind \notin {"invalid", "fails"}
    /\ \E T : Foretold(T)

\* What is read is the chain so far, and sections of the file.
Sectioned ==
    xrefs \in Seq(Positions) /\ \A k \in DOMAIN xrefs : Section(xrefs[k]) \in Readable(doc)
ChainInv ==
    /\ opening = [at |-> opening.at, stack |-> opening.stack]
    /\ opening.at \in {"find", "chain", "scan", "trailers", "done", "raised"}
    /\ Sectioned
    /\ opening.at = "find" => xrefs = <<>>
    /\ opening.at = "chain" => Reads
    /\ opening.at = "scan" => WholeChain = [read |-> xrefs, outcome |-> "scan"]
    /\ SectionsAreTheChain

\* The document does not change, and neither do its places, nor the chain, ...
LEMMA PlacesSame == ASSUME doc' = doc PROVE Places' = Places
BY DEF Section, Places, Leads
\* ... for it is defined by what the sections lead to, ...
LEMMA ChainItselfSame == ASSUME doc' = doc PROVE Chain' = Chain
<1>1. \A pos, below : ChainOf(pos, below)' = ChainOf(pos, below)
  BY DEF Section, ChainOf, AndThen, ReadNone
<1> QED BY <1>1, PlacesSame DEF Chain

\* ... nor what is said of it.
LEMMA ChainSame ==
    ASSUME doc' = doc
    PROVE  /\ Chain' = Chain /\ WholeChain' = WholeChain /\ Places' = Places
           /\ Positions' = Positions /\ Frames' = Frames
           /\ \A pos : Section(pos)' = Section(pos)
           /\ \A d : Readable(d)' = Readable(d)
           /\ \A frame, a, below : Onward(frame, a, below)' = Onward(frame, a, below)
<1>1. Chain' = Chain
  BY ChainItselfSame
<1>2. Places' = Places
  BY PlacesSame
<1>3. \A pos : Section(pos)' = Section(pos)
  BY DEF Section
<1>4. \A frame, a, below : Onward(frame, a, below)' = Onward(frame, a, below)
  BY DEF Onward, Section, ChainOf, AndThen, ReadNone, Prefixed
<1> QED BY <1>1, <1>2, <1>3, <1>4 DEF WholeChain, ReadNone, Positions, Frames

-----------------------------------------------------------------------------
\* Reading that ends early ends the reads above as well.
LEMMA EndsEarly ==
    ASSUME Reads, NEW T, Foretold(T), NEW i \in 1 .. Len(opening.stack),
           T[i].outcome # "ends"
    PROVE  T[i] = WholeChain
<1> DEFINE n == Len(opening.stack)
           L == {m \in 1 .. i : T[m] # T[i]}
<1> SUFFICES ASSUME T[1] # T[i] PROVE FALSE
  BY DEF Foretold
<1>0. n \in Nat
  BY DEF Reads
<1>1. PICK m \in L : \A l \in {i - k : k \in L} : i - m <= l
  <2> DEFINE S == {i - k : k \in L}
  <2>1. S \in SUBSET Nat /\ S # {}
    <3>1. 1 \in L
      BY <1>0
    <3>2. \A k \in L : i - k \in Nat
      BY <1>0
    <3> HIDE DEF L
    <3> QED BY <3>1, <3>2
  <2> HIDE DEF S
  <2>2. PICK x \in S : \A y \in S : x <= y
    BY <2>1, Least
  <2> USE DEF S
  <2> HIDE DEF L
  <2> QED BY <2>2
<1>2. m \in 1 .. i /\ T[m] # T[i] /\ m # i
  OBVIOUS
<1>3. m + 1 \in 1 .. i /\ m \in 1 .. n /\ m # n
  BY <1>0, <1>2
<1>4. T[m + 1] = T[i]
  <2> SUFFICES ASSUME m + 1 \in L PROVE FALSE
    BY <1>3
  <2>1. i - (m + 1) \in {i - k : k \in L}
    OBVIOUS
  <2>2. i - m <= i - (m + 1)
    BY <1>1, <2>1
  <2> QED BY <1>0, <1>2, <2>2
<1>5. T[m] = Onward(opening.stack[m], T[m + 1], Chain[MaxDepth - m])
      /\ opening.stack[m].next # "section"
  BY <1>3 DEF Foretold, Reads
<1>6. T[m] = T[m + 1]
  BY <1>4, <1>5 DEF Onward, AndThen
<1> QED BY <1>2, <1>4, <1>6

\* The read at work goes on.
LEMMA ReaderGoesOn ==
    ASSUME ChainInv, opening.at = "chain", opening.stack # <<>>, doc' = doc,
           NEW step \in {"XRefStm", "Prev", "return"}, opening' = Goes(step),
           Section(reader.pos).kind \notin {"invalid", "fails"},
           Onward([reader EXCEPT !.next = step], Got', Chain[MaxDepth - Len(opening.stack)])
             = Onward(reader, Got, Chain[MaxDepth - Len(opening.stack)])
    PROVE  /\ opening' = [at |-> "chain", stack |-> opening'.stack]
           /\ Reads'
<1> DEFINE s == opening.stack
           n == Len(s)
           f == [reader EXCEPT !.next = step]
           t == [s EXCEPT ![n] = f]
<1>1. s \in Seq(Frames) /\ n \in Nat \ {0} /\ n <= MaxDepth /\ reader \in Frames
  BY DEF ChainInv, Reads, reader
<1>2. f \in Frames /\ f.pos = reader.pos /\ f.next = step
  BY <1>1 DEF Frames
<1>3. t \in Seq(Frames) /\ Len(t) = n /\ t[n] = f
      /\ \A j \in 1 .. n : j # n => t[j] = s[j]
  <2> HIDE DEF f
  <2> QED BY <1>1, <1>2
<1>4. opening' = [at |-> "chain", stack |-> t]
  BY <1>1 DEF ChainInv, Goes, reader
<1> HIDE DEF f, t
<1>5. PICK T : Foretold(T)
  BY DEF ChainInv, Reads
<1> DEFINE U == [j \in 1 .. n + 1 |-> IF j = n + 1 THEN Got' ELSE T[j]]
<1>6. U[n + 1] = Got' /\ \A j \in 1 .. n : U[j] = T[j]
  BY <1>1
<1>7. ASSUME NEW j \in 1 .. n PROVE U[j] = Onward(t[j], U[j + 1], Chain[MaxDepth - j])
  <2>1. T[j] = Onward(s[j], T[j + 1], Chain[MaxDepth - j]) /\ T[n + 1] = Got
    BY <1>5 DEF Foretold
  <2>2. CASE j = n
    <3> HIDE DEF U
    <3> QED BY <1>3, <1>6, <2>1, <2>2 DEF reader, f
  <2>3. CASE j # n
    <3>1. j + 1 \in 1 .. n
      BY <1>1, <2>3
    <3> HIDE DEF U
    <3> QED BY <1>3, <1>6, <2>1, <2>3, <3>1
  <2> QED BY <2>2, <2>3
<1> HIDE DEF U
<1>8. PICK V : V = U
  OBVIOUS
<1>10. Foretold(V)'
  <2>1. U[1] = WholeChain
    <3>1. 1 \in 1 .. n
      BY <1>1
    <3> QED BY <1>5, <1>6, <3>1 DEF Foretold
  <2>2. opening'.stack = t
    BY <1>4
  <2>3. V[n + 1] = Got' /\ V[1] = WholeChain'
    BY <1>6, <1>8, <2>1, ChainSame
  <2>4. ASSUME NEW j \in 1 .. n
        PROVE  V[j] = Onward(t[j], V[j + 1], Chain[MaxDepth - j])
    BY <1>7, <1>8
  <2>5. ASSUME NEW j \in 1 .. n
        PROVE  (V[j] = Onward(opening.stack[j], V[j + 1], Chain[MaxDepth - j]))'
    BY <2>2, <2>4, ChainSame
  <2> QED BY <1>3, <2>2, <2>3, <2>5 DEF Foretold
<1>9. \A j \in 1 .. n : IF t[j].next = "section" THEN j = n
                        ELSE Section(t[j].pos).kind \notin {"invalid", "fails"}
  BY <1>2, <1>3 DEF ChainInv, Reads
<1> QED BY <1>1, <1>3, <1>4, <1>10, <1>9, ChainSame DEF Reads

\* Nothing is read at first.
LEMMA ChainInit == Init => ChainInv
BY DEF Init, ChainInv, Sectioned, NotOpened, SectionsAreTheChain, Positions

\* What the invariant says of the sections read goes on while they are the same.
LEMMA SameSections ==
    ASSUME ChainInv, doc' = doc, UNCHANGED xrefs
    PROVE  Sectioned'
<1>1. Positions' = Positions
  BY ChainSame
<1>2. \A k \in DOMAIN xrefs : Section(xrefs[k])' = Section(xrefs[k])
  BY DEF Section
<1> QED BY <1>1, <1>2 DEF ChainInv, Sectioned, Readable

\* Reading begins at the last startxref.
LEMMA KeepsFindXRef == ASSUME ChainInv, doc' = doc, FindXRef PROVE ChainInv'
<1>1. opening.at = "find" /\ xrefs = <<>> /\ xrefs' = xrefs
  BY DEF FindXRef, ChainInv
<1>2. CASE doc.startxref = None
  <2>1. opening' = [at |-> "scan", stack |-> opening.stack]
    BY <1>2 DEF FindXRef, ChainInv
  <2>2. WholeChain' = [read |-> xrefs', outcome |-> "scan"]
    BY <1>1, <1>2, ChainSame DEF WholeChain, ReadNone
  <2> QED BY <2>1, <2>2, <1>1, SameSections DEF ChainInv, SectionsAreTheChain
<1>3. CASE doc.startxref # None
  <2> DEFINE pos == doc.startxref
             t == <<From(pos)>>
             T == [j \in 1 .. 2 |-> IF j = 2 THEN Got' ELSE WholeChain]
  <2>1. opening' = [at |-> "chain", stack |-> t]
    BY <1>3 DEF FindXRef
  <2>2. MaxDepth \in Nat \ {0} /\ MaxDepth \in 0 .. MaxDepth /\ MaxDepth - 1 \in 0 .. MaxDepth
    BY DocumentsAssumption
  <2>3. pos \in Places /\ t \in Seq(Frames) /\ Len(t) = 1 /\ t[1] = [pos |-> pos, next |-> "section"]
    BY DEF Places, From, Frames
  <2>4. WholeChain = ChainOf(pos, Chain[MaxDepth - 1])
    <3>1. Chain[MaxDepth] = [p \in Places |-> ChainOf(p, Chain[MaxDepth - 1])]
      BY <2>2, ChainIs
    <3> HIDE DEF pos
    <3> QED BY <1>3, <2>3, <3>1 DEF WholeChain, pos
  <2>5. Onward(t[1], Got', Chain[MaxDepth - 1]) = WholeChain
    <3>1. ChainOf(pos, Chain[MaxDepth - 1]) \in Outcomes
      BY <2>2, <2>3, ChainTyped, ChainOfTyped
    <3>2. \A r \in Outcomes : Prefixed(<<>>, r) = r
      BY ConcatEmptySeq DEF Outcomes, Prefixed
    <3> HIDE DEF t, pos
    <3> QED BY <1>1, <2>3, <2>4, <3>1, <3>2 DEF Onward, Got
  <2> HIDE DEF t, pos
  <2>6. T[2] = Got' /\ T[1] = WholeChain
    OBVIOUS
  <2> HIDE DEF T
  <2>7. PICK V : V = T
    OBVIOUS
  <2>8. Foretold(V)'
    <3>1. V[2] = Got' /\ V[1] = WholeChain' /\ V[1] = Onward(t[1], V[2], Chain[MaxDepth - 1])
      BY <2>5, <2>6, <2>7, ChainSame
    <3>2. (V[1] = Onward(opening.stack[1], V[2], Chain[MaxDepth - 1]))'
      BY <2>1, <3>1, ChainSame
    <3>3. Len(opening'.stack) = 1 /\ \A j \in 1 .. 1 : j = 1
      BY <2>1, <2>3
    <3> QED BY <3>1, <3>2, <3>3 DEF Foretold
  <2>9. Reads'
    <3>1. opening'.stack = t /\ Len(t) = 1 /\ t \in Seq(Frames') /\ 1 <= MaxDepth
          /\ t[1].next = "section" /\ \A j \in 1 .. 1 : j = 1
      BY <2>1, <2>2, <2>3, ChainSame
    <3> QED BY <2>8, <3>1 DEF Reads
  <2> QED BY <1>1, <2>1, <2>9, SameSections DEF ChainInv, SectionsAreTheChain
<1> QED BY <1>2, <1>3

\* What the read at work reads.
LEMMA ReaderIs ==
    ASSUME ChainInv, opening.at = "chain", opening.stack # <<>>
    PROVE  /\ opening.stack \in Seq(Frames) /\ reader \in Frames
           /\ Len(opening.stack) \in 1 .. MaxDepth
           /\ MaxDepth \in Nat
           /\ MaxDepth - Len(opening.stack) \in 0 .. MaxDepth
           /\ Chain[MaxDepth - Len(opening.stack)] \in [Places -> Outcomes]
           /\ reader.next # "section" => Section(reader.pos).kind \notin {"invalid", "fails"}
           /\ Got \in Outcomes
<1>1. Reads /\ MaxDepth \in Nat
  BY DocumentsAssumption DEF ChainInv
<1>2. opening.stack \in Seq(Frames) /\ Len(opening.stack) \in 1 .. MaxDepth /\ reader \in Frames
  BY <1>1 DEF Reads, reader
<1>3. MaxDepth - Len(opening.stack) \in 0 .. MaxDepth
  BY <1>1, <1>2
<1>4. reader.next # "section" => Section(reader.pos).kind \notin {"invalid", "fails"}
  BY <1>1, <1>2 DEF Reads, reader
<1> QED BY <1>1, <1>2, <1>3, <1>4, ChainTyped DEF ChainInv, Sectioned, Got, Outcomes

\* A section that is not valid ends the chain, and so does one that fails.
LEMMA KeepsBadSection ==
    ASSUME ChainInv, doc' = doc, ReadSection, Section(reader.pos).kind \in {"invalid", "fails"}
    PROVE  ChainInv'
<1> DEFINE n == Len(opening.stack)
           outcome == IF Section(reader.pos).kind = "invalid" THEN "scan" ELSE "raised"
<1>1. /\ opening.at = "chain" /\ opening.stack # <<>> /\ reader.next = "section" /\ xrefs' = xrefs
      /\ opening' = [at |-> outcome, stack |-> <<>>]
  BY DEF ReadSection
<1>2. ChainOf(reader.pos, Chain[MaxDepth - n]) = ReadNone(outcome)
  BY DEF ChainOf
<1>3. Onward(reader, Got, Chain[MaxDepth - n]) = [read |-> xrefs, outcome |-> outcome]
  <2>1. xrefs \o <<>> = xrefs
    BY ConcatEmptySeq DEF ChainInv, Sectioned
  <2> QED BY <1>1, <1>2, <2>1 DEF Onward, Prefixed, ReadNone, Got
<1>4. PICK T : Foretold(T)
  BY <1>1 DEF ChainInv, Reads
<1>5. n \in 1 .. n
  BY <1>1, ReaderIs
<1>6. T[n] = [read |-> xrefs, outcome |-> outcome]
  BY <1>3, <1>4, <1>5 DEF Foretold, reader
<1>7. T[n] = WholeChain
  BY <1>1, <1>4, <1>5, <1>6, EndsEarly DEF ChainInv
<1>8. WholeChain' = [read |-> xrefs', outcome |-> outcome]
  BY <1>1, <1>6, <1>7, ChainSame
<1>9. Sectioned'
  BY <1>1, SameSections
<1>10. opening'.at = outcome /\ opening'.stack = <<>>
  BY <1>1
<1>11. (outcome = "scan" => WholeChain'.outcome = "scan") /\ WholeChain'.read = xrefs'
       /\ (outcome = "raised" => WholeChain'.outcome = "raised")
  BY <1>8
<1>12. SectionsAreTheChain'
  BY <1>10, <1>11 DEF SectionsAreTheChain
<1> QED BY <1>1, <1>8, <1>9, <1>10, <1>12 DEF ChainInv

\* A section is read.
LEMMA KeepsReadSection ==
    ASSUME ChainInv, doc' = doc, ReadSection, Section(reader.pos).kind \notin {"invalid", "fails"}
    PROVE  ChainInv'
<1> DEFINE n == Len(opening.stack)
           below == Chain[MaxDepth - n]
           s == Section(reader.pos)
<1>1. /\ opening.at = "chain" /\ opening.stack # <<>> /\ reader.next = "section"
      /\ xrefs' = Append(xrefs, reader.pos) /\ opening' = Goes("XRefStm")
  BY DEF ReadSection
<1>2. reader \in Frames /\ below \in [Places -> Outcomes] /\ reader.pos \in Places
  BY <1>1, ReaderIs DEF Frames
<1>3. Sectioned'
  <2>1. xrefs \in Seq(Positions) /\ reader.pos \in Positions
    BY <1>2 DEF ChainInv, Sectioned, Positions
  <2>2. s \in Readable(doc)
    BY <1>2, LedTo
  <2>3. \A k \in DOMAIN xrefs' : xrefs'[k] = reader.pos \/ (k \in DOMAIN xrefs /\ xrefs'[k] = xrefs[k])
    BY <1>1, <2>1
  <2>4. \A k \in DOMAIN xrefs' : Section(xrefs'[k]) \in Readable(doc)
    BY <2>2, <2>3 DEF ChainInv, Sectioned
  <2>5. xrefs' \in Seq(Positions)
    BY <1>1, <2>1
  <2>6. (\A k \in DOMAIN xrefs : Section(xrefs[k]) \in Readable(doc))'
    BY <2>4 DEF Section, Readable
  <2> QED BY <2>5, <2>6, ChainSame DEF Sectioned
<1>4. Onward([reader EXCEPT !.next = "XRefStm"], Got', below) = Onward(reader, Got, below)
  <2> DEFINE r == [reader EXCEPT !.next = "XRefStm"]
  <2>1. r.next = "XRefStm" /\ r.pos = reader.pos
    BY <1>2 DEF Frames
  <2>2. Got' = [read |-> Append(xrefs, reader.pos), outcome |-> "ends"]
    BY <1>1 DEF Got
  <2>3. Onward(reader, Got, below) = Prefixed(xrefs, ChainOf(reader.pos, below))
    BY <1>1 DEF Onward, Got
  <2> HIDE DEF r, below
  <2>4. Onward(r, Got', below) = AndThen(AndThen(Got', s.xrefstm, below), s.prev, below)
    BY <2>1 DEF Onward
  <2>5. Prefixed(xrefs, ChainOf(reader.pos, below))
          = AndThen(AndThen([read |-> Append(xrefs, reader.pos), outcome |-> "ends"],
                            s.xrefstm, below), s.prev, below)
    BY <1>2, ChainOfPrefixed DEF ChainInv, Sectioned
  <2> QED BY <2>2, <2>3, <2>4, <2>5 DEF r
<1>5. opening' = [at |-> "chain", stack |-> opening'.stack] /\ Reads'
  BY <1>1, <1>4, ReaderGoesOn
<1> QED BY <1>3, <1>5 DEF ChainInv, SectionsAreTheChain

\* The sections that one leads to are read before it goes on.
LEMMA KeepsFollow ==
    ASSUME ChainInv, doc' = doc, opening.at = "chain", opening.stack # <<>>,
           NEW pos, pos = None \/ pos \in Places, NEW step \in {"Prev", "return"},
           Follow(pos, step), reader.next # "section",
           LET below == Chain[MaxDepth - Len(opening.stack)]
           IN  Onward(reader, Got, below)
                 = Onward([reader EXCEPT !.next = step], AndThen(Got, pos, below), below)
    PROVE  ChainInv'
<1> DEFINE n == Len(opening.stack)
           s == opening.stack
           below == Chain[MaxDepth - n]
           r == [reader EXCEPT !.next = step]
<1>1. /\ s \in Seq(Frames) /\ reader \in Frames /\ n \in 1 .. MaxDepth
      /\ MaxDepth - n \in 0 .. MaxDepth /\ Section(reader.pos).kind \notin {"invalid", "fails"}
      /\ MaxDepth \in Nat /\ below \in [Places -> Outcomes] /\ Got \in Outcomes
  BY ReaderIs
<1>2. xrefs' = xrefs /\ Sectioned' /\ Got' = Got
  BY SameSections DEF Follow, Got
<1>3. CASE pos = None
  <2>1. opening' = Goes(step)
    BY <1>3 DEF Follow
  <2>2. AndThen(Got, pos, below) = Got
    BY <1>3 DEF AndThen
  <2>3. opening' = [at |-> "chain", stack |-> opening'.stack] /\ Reads'
    BY <1>1, <1>2, <2>1, <2>2, ReaderGoesOn
  <2> QED BY <1>2, <2>3 DEF ChainInv, SectionsAreTheChain
<1>4. CASE pos # None /\ n = MaxDepth
  <2>1. opening' = [at |-> "raised", stack |-> <<>>]
    BY <1>4 DEF Follow
  <2>2. below = [p \in Places |-> ReadNone("raised")]
    <3>1. MaxDepth - n = 0 /\ 0 \in 0 .. MaxDepth
      BY <1>1, <1>4
    <3> QED BY <3>1, ChainIs
  <2>3. AndThen(Got, pos, below) = [read |-> xrefs, outcome |-> "raised"]
    <3>1. below[pos] = ReadNone("raised")
      BY <1>4, <2>2
    <3>2. xrefs \o <<>> = xrefs
      BY ConcatEmptySeq DEF ChainInv, Sectioned
    <3> HIDE DEF below
    <3> QED BY <1>4, <3>1, <3>2 DEF AndThen, Got, ReadNone
  <2>4. PICK T : Foretold(T)
    BY DEF ChainInv, Reads
  <2>5. n \in 1 .. n
    BY <1>1
  <2>6. T[n] = [read |-> xrefs, outcome |-> "raised"]
    <3>1. T[n] = Onward(reader, Got, below)
      BY <2>4, <2>5 DEF Foretold, reader
    <3>2. r.next = step /\ r.pos = reader.pos
      BY <1>1 DEF Frames
    <3>3. Onward(reader, Got, below) = Onward(r, AndThen(Got, pos, below), below)
      OBVIOUS
    <3> HIDE DEF r, below
    <3>4. Onward(r, [read |-> xrefs, outcome |-> "raised"], below)
            = [read |-> xrefs, outcome |-> "raised"]
      BY <3>2 DEF Onward, AndThen
    <3> QED BY <2>3, <3>1, <3>3, <3>4
  <2>7. T[n] = WholeChain
    BY <2>4, <2>5, <2>6, EndsEarly DEF ChainInv
  <2>8. WholeChain' = [read |-> xrefs', outcome |-> "raised"]
    BY <1>2, <2>6, <2>7, ChainSame
  <2>9. SectionsAreTheChain'
    BY <2>1, <2>8 DEF SectionsAreTheChain
  <2> QED BY <1>2, <2>1, <2>9 DEF ChainInv
<1>5. CASE pos # None /\ n # MaxDepth
  <2> DEFINE t == [s EXCEPT ![n] = r]
             u == Append(t, From(pos))
  <2>1. pos \in Places
    BY <1>5
  <2>2. r \in Frames /\ r.pos = reader.pos /\ r.next = step
    BY <1>1 DEF Frames
  <2>3. t \in Seq(Frames) /\ Len(t) = n /\ t[n] = r /\ \A j \in 1 .. n : j # n => t[j] = s[j]
    <3> HIDE DEF r
    <3> QED BY <1>1, <2>2
  <2>4. From(pos) \in Frames /\ From(pos) = [pos |-> pos, next |-> "section"]
    BY <2>1 DEF From, Frames
  <2>5. u \in Seq(Frames) /\ Len(u) = n + 1 /\ u[n + 1] = From(pos)
        /\ \A j \in 1 .. n : u[j] = t[j]
    <3> HIDE DEF t
    <3> QED BY <1>1, <2>3, <2>4
  <2>6. opening' = [at |-> "chain", stack |-> u]
    <3>1. Goes(step) = [at |-> "chain", stack |-> t]
      <4>1. opening = [at |-> "chain", stack |-> s]
        BY DEF ChainInv
      <4>2. \A v : [opening EXCEPT !.stack = v] = [at |-> "chain", stack |-> v]
        BY <4>1
      <4> QED BY <4>2 DEF Goes, reader
    <3>2. opening' = [Goes(step) EXCEPT !.stack = Append(@, From(pos))]
      BY <1>5 DEF Follow
    <3> HIDE DEF t
    <3>3. \A g, v : g = [at |-> "chain", stack |-> t]
                   => [g EXCEPT !.stack = v] = [at |-> "chain", stack |-> v]
      OBVIOUS
    <3>4. opening' = [Goes(step) EXCEPT !.stack = Append(t, From(pos))]
      BY <3>1, <3>2
    <3> QED BY <3>1, <3>3, <3>4
  <2> HIDE DEF r, t, u
  <2>7. PICK T : Foretold(T)
    BY DEF ChainInv, Reads
  <2> DEFINE U == [j \in 1 .. n + 2 |-> IF j = n + 2 THEN Got
                                        ELSE IF j = n + 1 THEN AndThen(Got, pos, below) ELSE T[j]]
  <2>8. U[n + 2] = Got /\ U[n + 1] = AndThen(Got, pos, below) /\ \A j \in 1 .. n : U[j] = T[j]
    BY <1>1
  <2> HIDE DEF U
  <2>9. MaxDepth - (n + 1) \in 0 .. MaxDepth /\ MaxDepth - n # 0 /\ (MaxDepth - n) - 1 = MaxDepth - (n + 1)
    BY <1>1, <1>5
  <2>10. U[n + 1] = Onward(From(pos), Got, Chain[MaxDepth - (n + 1)])
    <3>1. below[pos] = ChainOf(pos, Chain[MaxDepth - (n + 1)])
      <4>1. below = [p \in Places |-> ChainOf(p, Chain[(MaxDepth - n) - 1])]
        BY <1>1, <2>9, ChainIs
      <4> HIDE DEF below
      <4> QED BY <2>1, <2>9, <4>1
    <3> HIDE DEF below
    <3>2. AndThen(Got, pos, below) = Prefixed(xrefs, below[pos])
      BY <1>5 DEF AndThen, Got, Prefixed
    <3> QED BY <2>4, <2>8, <3>1, <3>2 DEF Onward, Got
  <2>11. U[n] = Onward(r, U[n + 1], below)
    <3>1. n \in 1 .. n
      BY <1>1
    <3>2. T[n] = Onward(reader, Got, below)
      BY <2>7, <3>1 DEF Foretold, reader
    <3> QED BY <2>8, <3>1, <3>2 DEF r
  <2>12. ASSUME NEW j \in 1 .. n + 1 PROVE U[j] = Onward(u[j], U[j + 1], Chain[MaxDepth - j])
    <3>1. CASE j = n + 1
      <4>1. j + 1 = n + 2
        BY <1>1, <3>1
      <4> QED BY <2>5, <2>8, <2>10, <3>1, <4>1
    <3>2. CASE j = n
      BY <1>1, <2>3, <2>5, <2>11, <3>2
    <3>3. CASE j # n + 1 /\ j # n
      <4>1. j \in 1 .. n /\ j + 1 \in 1 .. n
        BY <1>1, <3>3
      <4>2. T[j] = Onward(s[j], T[j + 1], Chain[MaxDepth - j])
        BY <2>7, <4>1 DEF Foretold
      <4> QED BY <2>3, <2>5, <2>8, <3>3, <4>1, <4>2
    <3> QED BY <3>1, <3>2, <3>3
  <2>13. PICK V : V = U
    OBVIOUS
  <2>14. Foretold(V)'
    <3>1. V[(n + 1) + 1] = Got' /\ V[1] = WholeChain'
      <4>1. 1 \in 1 .. n /\ (n + 1) + 1 = n + 2
        BY <1>1
      <4> QED BY <1>2, <2>7, <2>8, <2>13, <4>1, ChainSame DEF Foretold
    <3>2. ASSUME NEW j \in 1 .. n + 1
          PROVE  (V[j] = Onward(opening.stack[j], V[j + 1], Chain[MaxDepth - j]))'
      <4>1. V[j] = Onward(u[j], V[j + 1], Chain[MaxDepth - j])
        BY <2>12, <2>13
      <4> QED BY <2>6, <4>1, ChainSame
    <3> QED BY <2>5, <2>6, <3>1, <3>2 DEF Foretold
  <2>15. Reads'
    <3>1. ASSUME NEW j \in 1 .. n + 1
          PROVE  IF u[j].next = "section" THEN j = n + 1
                 ELSE Section(u[j].pos).kind \notin {"invalid", "fails"}
      <4>1. CASE j = n + 1
        BY <2>4, <2>5, <4>1
      <4>2. CASE j = n
        BY <1>1, <2>2, <2>3, <2>5, <4>2
      <4>3. CASE j # n + 1 /\ j # n
        <5>1. j \in 1 .. n /\ u[j] = s[j]
          BY <1>1, <2>3, <2>5, <4>3
        <5> QED BY <4>3, <5>1 DEF ChainInv, Reads
      <4> QED BY <4>1, <4>2, <4>3
    <3>2. (\A j \in 1 .. Len(opening.stack) :
              IF opening.stack[j].next = "section" THEN j = Len(opening.stack)
              ELSE Section(opening.stack[j].pos).kind \notin {"invalid", "fails"})'
      BY <2>5, <2>6, <3>1 DEF Section
    <3>3. opening'.stack \in Seq(Frames') /\ Len(opening'.stack) <= MaxDepth
      BY <1>1, <1>5, <2>5, <2>6, ChainSame
    <3> QED BY <2>14, <3>2, <3>3 DEF Reads
  <2> QED BY <1>2, <2>6, <2>15 DEF ChainInv, SectionsAreTheChain
<1> QED BY <1>3, <1>4, <1>5

\* What a section leads to, one after the other.
LEMMA KeepsFollows ==
    ASSUME ChainInv, doc' = doc, FollowXRefStm \/ FollowPrev
    PROVE  ChainInv'
<1> DEFINE n == Len(opening.stack)
           below == Chain[MaxDepth - n]
           s == Section(reader.pos)
<1>1. opening.at = "chain" /\ opening.stack # <<>> /\ reader.next \in {"XRefStm", "Prev"}
  BY DEF FollowXRefStm, FollowPrev
<1>2. reader \in Frames /\ s.kind \notin {"invalid", "fails"}
  BY <1>1, ReaderIs
<1>3. s.xrefstm \in Places /\ s.prev \in Places
  BY <1>2, LedTo DEF Frames
<1>4. \A step : [reader EXCEPT !.next = step].next = step
                /\ [reader EXCEPT !.next = step].pos = reader.pos
  BY <1>2 DEF Frames
<1>5. CASE FollowXRefStm
  <2> DEFINE r == [reader EXCEPT !.next = "Prev"]
  <2>1. r.next = "Prev" /\ r.pos = reader.pos
    BY <1>4
  <2>2. reader.next = "XRefStm" /\ Follow(s.xrefstm, "Prev")
    BY <1>5 DEF FollowXRefStm
  <2> HIDE DEF r, below
  <2>3. Onward(reader, Got, below) = Onward(r, AndThen(Got, s.xrefstm, below), below)
    BY <2>1, <2>2 DEF Onward
  <2> QED BY <1>1, <1>3, <2>2, <2>3, KeepsFollow DEF r, below
<1>6. CASE FollowPrev
  <2> DEFINE r == [reader EXCEPT !.next = "return"]
  <2>1. r.next = "return" /\ r.pos = reader.pos
    BY <1>4
  <2>2. reader.next = "Prev" /\ Follow(s.prev, "return")
    BY <1>6 DEF FollowPrev
  <2> HIDE DEF r, below
  <2>3. Onward(reader, Got, below) = Onward(r, AndThen(Got, s.prev, below), below)
    BY <2>1, <2>2 DEF Onward
  <2> QED BY <1>1, <1>3, <2>2, <2>3, KeepsFollow DEF r, below
<1> QED BY <1>5, <1>6

\* A read returns to the one that led to it.
LEMMA KeepsSectionReturns == ASSUME ChainInv, doc' = doc, SectionReturns PROVE ChainInv'
<1> DEFINE n == Len(opening.stack)
           s == opening.stack
           t == SubSeq(s, 1, n - 1)
<1>1. /\ opening.at = "chain" /\ s # <<>> /\ reader.next = "return" /\ xrefs' = xrefs
      /\ opening' = [at |-> "chain", stack |-> t]
  BY DEF SectionReturns, ChainInv
<1>2. s \in Seq(Frames) /\ n \in 1 .. MaxDepth /\ MaxDepth \in Nat
  BY <1>1, ReaderIs
<1>3. t \in Seq(Frames) /\ Len(t) = n - 1 /\ n - 1 \in Nat /\ \A j \in 1 .. n - 1 : t[j] = s[j]
  BY <1>2
<1> HIDE DEF t
<1>4. PICK T : Foretold(T)
  BY <1>1 DEF ChainInv, Reads
<1>5. T[n] = Got
  <2>1. n \in 1 .. n
    BY <1>2
  <2>2. T[n] = Onward(reader, Got, Chain[MaxDepth - n])
    BY <1>4, <2>1 DEF Foretold, reader
  <2> QED BY <1>1, <2>2 DEF Onward
<1>6. Foretold(T)'
  <2>1. T[(n - 1) + 1] = Got' /\ T[1] = WholeChain'
    BY <1>1, <1>2, <1>4, <1>5, ChainSame DEF Foretold, Got
  <2>2. ASSUME NEW j \in 1 .. n - 1
        PROVE  (T[j] = Onward(opening.stack[j], T[j + 1], Chain[MaxDepth - j]))'
    <3>1. j \in 1 .. n
      BY <1>2
    <3>2. T[j] = Onward(t[j], T[j + 1], Chain[MaxDepth - j])
      BY <1>3, <1>4, <3>1 DEF Foretold
    <3> QED BY <1>1, <3>2, ChainSame
  <2> QED BY <1>1, <1>3, <2>1, <2>2 DEF Foretold
<1>7. Reads'
  <2>1. ASSUME NEW j \in 1 .. n - 1
        PROVE  t[j].next # "section" /\ Section(t[j].pos).kind \notin {"invalid", "fails"}
    <3>1. j \in 1 .. n /\ j # n
      BY <1>2
    <3> QED BY <1>1, <1>3, <3>1 DEF ChainInv, Reads
  <2>2. (\A j \in 1 .. Len(opening.stack) :
            IF opening.stack[j].next = "section" THEN j = Len(opening.stack)
            ELSE Section(opening.stack[j].pos).kind \notin {"invalid", "fails"})'
    BY <1>1, <1>3, <2>1 DEF Section
  <2> QED BY <1>1, <1>2, <1>3, <1>6, <2>2, ChainSame DEF Reads
<1> QED BY <1>1, <1>7, SameSections DEF ChainInv, SectionsAreTheChain

\* The chain is read.
LEMMA KeepsChainEnds == ASSUME ChainInv, doc' = doc, ChainEnds PROVE ChainInv'
<1>1. /\ opening.at = "chain" /\ opening.stack = <<>> /\ xrefs' = xrefs
      /\ opening' = [at |-> "trailers", stack |-> <<>>]
  BY DEF ChainEnds, ChainInv
<1>2. PICK T : Foretold(T)
  BY <1>1 DEF ChainInv, Reads
<1>3. WholeChain = Got
  BY <1>1, <1>2 DEF Foretold
<1>4. WholeChain' = [read |-> xrefs', outcome |-> "ends"]
  BY <1>1, <1>3, ChainSame DEF Got
<1>5. SectionsAreTheChain'
  BY <1>1, <1>4 DEF SectionsAreTheChain
<1> QED BY <1>1, <1>5, SameSections DEF ChainInv

\* What the scan finds comes last.
LEMMA KeepsScan == ASSUME ChainInv, doc \in Documents, doc' = doc, Scan PROVE ChainInv'
<1>1. opening.at = "scan" /\ WholeChain = [read |-> xrefs, outcome |-> "scan"]
      /\ opening = [at |-> opening.at, stack |-> opening.stack]
  BY DEF Scan, ChainInv
<1>2. WholeChain' = WholeChain
  BY ChainSame
<1>3. CASE doc.scan.kind = "fails"
  <2>1. opening' = [at |-> "raised", stack |-> opening.stack] /\ xrefs' = xrefs
    BY <1>1, <1>3 DEF Scan
  <2>2. SectionsAreTheChain'
    BY <1>1, <1>2, <1>3, <2>1 DEF SectionsAreTheChain
  <2> QED BY <2>1, <2>2, SameSections DEF ChainInv
<1>4. CASE doc.scan.kind # "fails"
  <2>1. opening' = [at |-> "trailers", stack |-> opening.stack] /\ xrefs' = Append(xrefs, Scanned)
    BY <1>1, <1>4 DEF Scan
  <2>2. SectionsAreTheChain'
    BY <1>1, <1>2, <1>4, <2>1 DEF SectionsAreTheChain
  <2>3. Sectioned'
    <3>1. xrefs \in Seq(Positions) /\ Scanned \in Positions
      BY DEF ChainInv, Sectioned, Positions
    <3>2. xrefs' \in Seq(Positions)
      BY <2>1, <3>1
    <3>3. \A k \in DOMAIN xrefs' : xrefs'[k] = Scanned \/ (k \in DOMAIN xrefs /\ xrefs'[k] = xrefs[k])
      BY <2>1, <3>1
    <3>4. Section(Scanned) \in Readable(doc)
      BY <1>4, DocumentsAssumption DEF Section, Readable
    <3>5. \A k \in DOMAIN xrefs' : Section(xrefs'[k]) \in Readable(doc)
      BY <3>3, <3>4 DEF ChainInv, Sectioned
    <3>6. (\A k \in DOMAIN xrefs : Section(xrefs[k]) \in Readable(doc))'
      BY <3>5 DEF Section, Readable
    <3> QED BY <3>2, <3>6, ChainSame DEF Sectioned
  <2> QED BY <2>1, <2>2, <2>3 DEF ChainInv
<1> QED BY <1>3, <1>4

\* The catalog is found, or is not.
LEMMA KeepsRoot == ASSUME ChainInv, doc' = doc, FindRoot \/ NoRoot PROVE ChainInv'
<1>1. /\ opening.at = "trailers" /\ xrefs' = xrefs
      /\ \E at \in {"raised", "done"} : opening' = [opening EXCEPT !.at = at]
  BY DEF FindRoot, NoRoot
<1>2. opening'.at \in {"raised", "done"} /\ opening' = [at |-> opening'.at, stack |-> opening'.stack]
  BY <1>1 DEF ChainInv
<1>3. WholeChain' = WholeChain /\ WholeChain.outcome # "raised"
  BY <1>1, ChainSame DEF ChainInv, SectionsAreTheChain
<1>4. SectionsAreTheChain'
  BY <1>1, <1>2, <1>3 DEF ChainInv, SectionsAreTheChain
<1> QED BY <1>2, <1>4, SameSections, <1>1 DEF ChainInv

\* Every step of the opening keeps it, ...
LEMMA KeepsOpenStep == ASSUME ChainInv, doc \in Documents, doc' = doc, OpenStep PROVE ChainInv'
<1>1. CASE ReadSection
  BY <1>1, KeepsBadSection, KeepsReadSection
<1> QED BY <1>1, KeepsFindXRef, KeepsFollows, KeepsSectionReturns, KeepsChainEnds, KeepsScan,
           KeepsRoot DEF OpenStep

\* ... and no other step is about the sections.
LEMMA KeepsOpened == ASSUME ChainInv, UNCHANGED opened PROVE ChainInv'
<1>1. doc' = doc /\ xrefs' = xrefs /\ opening' = opening
  BY DEF opened
<1>2. Sectioned'
  BY <1>1, SameSections
<1>3. (opening.at = "chain" => Reads)'
  <2> SUFFICES ASSUME opening.at = "chain" PROVE Reads'
    BY <1>1
  <2>1. PICK T : Foretold(T)
    BY DEF ChainInv, Reads
  <2>2. Foretold(T)'
    <3>1. \A j : (Onward(opening.stack[j], T[j + 1], Chain[MaxDepth - j]))'
                   = Onward(opening.stack[j], T[j + 1], Chain[MaxDepth - j])
      BY <1>1, ChainSame
    <3> QED BY <1>1, <2>1, <3>1, ChainSame DEF Foretold, Got
  <2> QED BY <1>1, <2>2, ChainSame DEF ChainInv, Reads
<1> QED BY <1>1, <1>2, <1>3, ChainSame DEF ChainInv, SectionsAreTheChain

\* All of a step that is not the opening's leaves what was opened.
LEMMA NotOpening == ASSUME [Next]_vars, ~Open PROVE UNCHANGED opened
BY DEF Next, vars, document, opened, OpenEnds, GetPages, StartPages, Generate, SkipPage, TakePage,
   PagesRaise, PagesReturn, StartClose, CloseReturns, ClosePage, GetObjects, StartObjects, Draw,
   ObjectsReturn, ObjectsRaise, Rest

\* The document is one of those that may be opened, all along.
LEMMA ChainStep == doc \in Documents /\ ChainInv /\ [Next]_vars => (doc \in Documents /\ ChainInv)'
<1> SUFFICES ASSUME doc \in Documents, ChainInv, [Next]_vars PROVE doc' = doc /\ ChainInv'
  OBVIOUS
<1>1. CASE Open
  BY <1>1, KeepsOpenStep DEF Open
<1>2. CASE ~Open
  BY <1>2, NotOpening, KeepsOpened DEF opened
<1> QED BY <1>1, <1>2

\* SectionsAreTheChain: the sections are read in the order of the recursion over what leads
\* to what, each before those it leads to; a section that is not valid ends them all, and
\* what the scan of the file finds comes after those read so far; a chain that is too deep
\* for Python's frames, as one that leads in a circle, ends the opening with an error
\* (pdfdocument/mod.rs, init, read_xref_from).
THEOREM ExtractionSectionsAreTheChain == Spec => []SectionsAreTheChain
<1>1. Init => doc \in Documents /\ ChainInv
  BY ChainInit DEF Init
<1>2. ChainInv => SectionsAreTheChain
  BY DEF ChainInv
<1> QED BY <1>1, <1>2, ChainStep, PTL DEF Spec

-----------------------------------------------------------------------------
(* What is found of an object does not depend on what was read before. *)

\* The least of some numbers.
LEMMA MinIs ==
    ASSUME NEW S \in SUBSET Nat, S # {}
    PROVE  Min(S) \in S /\ \A y \in S : Min(S) <= y
BY Least DEF Min

\* What is found, when it is found, or an error is met first.
LEMMA FirstOr ==
    ASSUME NEW t, NEW u, NEW D \in SUBSET Nat, DOMAIN t = D, DOMAIN u = D,
           \A k \in D : t[k] = u[k] \/ t[k] = Raises
    PROVE  First(t) = First(u) \/ First(t) = Raises
<1> DEFINE T == {k \in D : t[k] # Corrupt}
           U == {k \in D : u[k] # Corrupt}
<1>0. Raises # Corrupt
  BY DEF Raises, Corrupt
<1>1. CASE T = {}
  <2>1. \A k \in D : t[k] = Corrupt /\ t[k] # Raises
    BY <1>0, <1>1
  <2>2. U = {}
    BY <2>1
  <2> QED BY <1>1, <2>2 DEF First
<1>2. CASE T # {}
  <2> DEFINE m == Min(T)
  <2>1. m \in T /\ \A y \in T : m <= y
    <3>1. T \in SUBSET Nat
      OBVIOUS
    <3> HIDE DEF T
    <3> QED BY <1>2, <3>1, MinIs
  <2>2. First(t) = t[m]
    BY <1>2 DEF First
  <2> HIDE DEF m
  <2>3. CASE t[m] = Raises
    BY <2>2, <2>3
  <2>4. CASE t[m] # Raises
    <3>1. u[m] = t[m] /\ m \in U
      BY <2>1, <2>4
    <3>2. \A y \in U : y \in T
      BY <1>0
    <3>3. Min(U) \in U /\ \A y \in U : Min(U) <= y
      <4>1. U \in SUBSET Nat /\ U # {}
        BY <3>1
      <4> HIDE DEF U
      <4> QED BY <4>1, MinIs
    <3>4. m = Min(U)
      <4>1. Min(U) <= m /\ m <= Min(U)
        BY <2>1, <3>1, <3>2, <3>3
      <4>2. m \in Nat /\ Min(U) \in Nat
        BY <2>1, <3>3
      <4> QED BY <4>1, <4>2
    <3>5. First(u) = u[Min(U)]
      BY <3>1 DEF First
    <3> QED BY <2>2, <3>1, <3>4, <3>5
  <2> QED BY <2>3, <2>4
<1> QED BY <1>1, <1>2

\* What is found is nothing, or is found in one of the places.
LEMMA FirstIs ==
    ASSUME NEW t, NEW D \in SUBSET Nat, DOMAIN t = D
    PROVE  First(t) = Missing \/ \E k \in D : First(t) = t[k] /\ t[k] # Corrupt
<1> DEFINE T == {k \in D : t[k] # Corrupt}
<1>1. CASE T = {}
  BY <1>1 DEF First
<1>2. CASE T # {}
  <2>1. Min(T) \in T
    <3>1. T \in SUBSET Nat
      OBVIOUS
    <3> HIDE DEF T
    <3> QED BY <1>2, <3>1, MinIs
  <2>2. First(t) = t[Min(T)]
    BY <1>2 DEF First
  <2> QED BY <2>1, <2>2
<1> QED BY <1>1, <1>2

-----------------------------------------------------------------------------
(* What is kept is what the file has. *)

\* An entry that is not free is one of the file's.
LEMMA EntryIs ==
    ASSUME Sectioned, NEW k \in DOMAIN xrefs, NEW id
    PROVE  /\ Entry(xrefs[k], id) = Free
                \/ (id \in Ids(Section(xrefs[k])) /\ Entry(xrefs[k], id) \in Entries(doc))
           /\ Free.kind = "free"
<1>1. Section(xrefs[k]) \in Readable(doc)
  BY DEF Sectioned
<1> QED BY <1>1 DEF Entry, EntryOf, Entries, Free

\* The sections are numbered.
LEMMA XrefsDomain == ASSUME Sectioned PROVE DOMAIN xrefs \in SUBSET Nat
BY DEF Sectioned

\* A closed file gives what it did, or raises.
LEMMA ParsedShut ==
    ASSUME NEW entry
    PROVE  Parsed(entry, TRUE) = Parsed(entry, FALSE) \/ Parsed(entry, TRUE) = Raises
BY DEF Parsed

\* An object stream is no packed object.
LEMMA StreamStored ==
    ASSUME doc \in Documents, Sectioned, NEW k \in DOMAIN xrefs, NEW id,
           Entry(xrefs[k], id).kind = "packed"
    PROVE  LET stream == Entry(xrefs[k], id).stream IN Stored(stream) = StoredStream(stream)
<1> DEFINE stream == Entry(xrefs[k], id).stream
<1>1. Entry(xrefs[k], id) \in Entries(doc)
  BY EntryIs
<1>2. ASSUME NEW j \in DOMAIN xrefs
      PROVE  StoredIn(Entry(xrefs[j], stream)) = Parsed(Entry(xrefs[j], stream), FALSE)
  <2>1. Section(xrefs[j]) \in Readable(doc)
    BY DEF Sectioned
  <2>2. EntryOf(Section(xrefs[j]), stream).kind # "packed"
    BY <1>1, <2>1, DocumentsAssumption
  <2> QED BY <2>2 DEF StoredIn, Entry
<1> HIDE DEF stream
<1>3. [j \in DOMAIN xrefs |-> StoredIn(Entry(xrefs[j], stream))]
        = [j \in DOMAIN xrefs |-> Parsed(Entry(xrefs[j], stream), FALSE)]
  BY <1>2
<1>4. Stored(stream) = StoredStream(stream)
  BY <1>3 DEF Stored, StoredStream
<1> QED BY <1>4 DEF stream

StoredCached == \A id \in DOMAIN loaded : loaded[id] = Stored(id)

\* Object streams, read before or now.
LEMMA StreamIs ==
    ASSUME doc \in Documents, Sectioned, StoredCached, NEW shut \in BOOLEAN,
           NEW k \in DOMAIN xrefs, NEW id, Entry(xrefs[k], id).kind = "packed"
    PROVE  LET stream == Entry(xrefs[k], id).stream
           IN  \/ StreamOf(stream, shut) = StoredStream(stream)
               \/ shut /\ StreamOf(stream, shut) = Raises
<1> DEFINE stream == Entry(xrefs[k], id).stream
<1>1. Stored(stream) = StoredStream(stream)
  BY StreamStored
<1> HIDE DEF stream
<1>2. CASE stream \in DOMAIN loaded
  BY <1>1, <1>2 DEF StreamOf, StoredCached, stream
<1>3. CASE stream \notin DOMAIN loaded
  <2> DEFINE t == [j \in DOMAIN xrefs |-> Parsed(Entry(xrefs[j], stream), shut)]
             u == [j \in DOMAIN xrefs |-> Parsed(Entry(xrefs[j], stream), FALSE)]
  <2>1. StreamOf(stream, shut) = First(t) /\ StoredStream(stream) = First(u)
    BY <1>3 DEF StreamOf, StoredStream
  <2>2. CASE ~shut
    <3>1. shut = FALSE
      BY <2>2
    <3>2. t = u
      BY <3>1
    <3> QED BY <2>1, <3>2 DEF stream
  <2>3. CASE shut
    <3>1. DOMAIN t = DOMAIN xrefs /\ DOMAIN u = DOMAIN xrefs
          /\ \A j \in DOMAIN xrefs : t[j] = u[j] \/ t[j] = Raises
      BY <2>3, ParsedShut
    <3> HIDE DEF t, u
    <3>2. First(t) = First(u) \/ First(t) = Raises
      BY <3>1, XrefsDomain, FirstOr
    <3> QED BY <2>1, <2>3, <3>2 DEF stream
  <2> QED BY <2>2, <2>3 DEF stream
<1> QED BY <1>2, <1>3 DEF stream

\* An entry gives what the file has, or the closed file raises.
LEMMA TriedIs ==
    ASSUME doc \in Documents, Sectioned, StoredCached, NEW shut \in BOOLEAN,
           NEW k \in DOMAIN xrefs, NEW id
    PROVE  LET entry == Entry(xrefs[k], id)
           IN  Tried(entry, shut) = StoredIn(entry) \/ (shut /\ Tried(entry, shut) = Raises)
<1> DEFINE entry == Entry(xrefs[k], id)
<1>1. CASE entry.kind # "packed"
  <2>1. Parsed(entry, TRUE) = Parsed(entry, FALSE) \/ Parsed(entry, TRUE) = Raises
    BY ParsedShut
  <2> HIDE DEF entry
  <2>2. shut = TRUE \/ shut = FALSE
    OBVIOUS
  <2> QED BY <1>1, <2>1, <2>2 DEF Tried, StoredIn, entry
<1>2. CASE entry.kind = "packed"
  <2> DEFINE stream == entry.stream
  <2>1. StreamOf(stream, shut) = StoredStream(stream) \/ (shut /\ StreamOf(stream, shut) = Raises)
    BY <1>2, StreamIs
  <2>2. /\ Tried(entry, shut) = InStream(StreamOf(stream, shut), entry.index)
        /\ StoredIn(entry) = InStream(StoredStream(stream), entry.index)
    BY <1>2 DEF Tried, StoredIn
  <2>3. \A index : InStream(Raises, index) = Raises
    BY DEF InStream, Raises
  <2> HIDE DEF stream, entry
  <2>4. Tried(entry, shut) = StoredIn(entry) \/ (shut /\ Tried(entry, shut) = Raises)
    BY <2>1, <2>2, <2>3
  <2> QED BY <2>4 DEF entry
<1> QED BY <1>1, <1>2

\* So does getobj.
LEMMA LookupIs ==
    ASSUME doc \in Documents, Sectioned, StoredCached, NEW shut \in BOOLEAN, NEW id
    PROVE  Lookup(id, shut) = Stored(id) \/ (shut /\ Lookup(id, shut) = Raises)
<1>1. CASE id \in DOMAIN loaded
  BY <1>1 DEF Lookup, StoredCached
<1>2. CASE id \notin DOMAIN loaded
  <2> DEFINE t == [k \in DOMAIN xrefs |-> Tried(Entry(xrefs[k], id), shut)]
             u == [k \in DOMAIN xrefs |-> StoredIn(Entry(xrefs[k], id))]
  <2>1. Lookup(id, shut) = First(t) /\ Stored(id) = First(u)
    BY <1>2 DEF Lookup, Tries, Stored
  <2>2. \A k \in DOMAIN xrefs : t[k] = u[k] \/ (shut /\ t[k] = Raises)
    BY TriedIs
  <2>3. DOMAIN t = DOMAIN xrefs /\ DOMAIN u = DOMAIN xrefs
        /\ t = [k \in DOMAIN xrefs |-> t[k]] /\ u = [k \in DOMAIN xrefs |-> u[k]]
    OBVIOUS
  <2> HIDE DEF t, u
  <2>4. CASE ~shut
    BY <2>1, <2>2, <2>3, <2>4
  <2>5. CASE shut
    <3>1. First(t) = First(u) \/ First(t) = Raises
      BY <2>2, <2>3, XrefsDomain, FirstOr
    <3> QED BY <2>1, <2>5, <3>1
  <2> QED BY <2>4, <2>5
<1> QED BY <1>1, <1>2

\* What getobj keeps is what the file has.
LEMMA ReadingKeeps ==
    ASSUME doc \in Documents, Sectioned, StoredCached, closed \in BOOLEAN, NEW ids
    PROVE  \A id \in DOMAIN Reading(ids) : Reading(ids)[id] = Stored(id)
<1> DEFINE new == ids \ DOMAIN loaded
           streams == UNION {StreamsRead(id) : id \in new} \ DOMAIN loaded
           Found(id) == IF id \in new THEN Getobj(id) ELSE StreamOf(id, closed)
           kept == {id \in new \cup streams : Found(id).kind \notin {"missing", "raises"}}
<1>1. Reading(ids) = [id \in DOMAIN loaded \cup kept |->
                        IF id \in DOMAIN loaded THEN loaded[id] ELSE Found(id)]
  BY DEF Reading
<1>2. Raises.kind = "raises"
  BY DEF Raises
<1>3. ASSUME NEW id \in kept PROVE Found(id) = Stored(id)
  <2>1. CASE id \in new
    <3>1. Found(id) = Getobj(id) /\ Getobj(id).kind # "raises"
      BY <2>1
    <3>2. Getobj(id) = Stored(id) \/ Getobj(id) = Raises
      BY LookupIs DEF Getobj
    <3> QED BY <1>2, <3>1, <3>2
  <2>2. CASE id \notin new
    <3>1. /\ id \in UNION {StreamsRead(i) : i \in new}
          /\ Found(id) = StreamOf(id, closed) /\ StreamOf(id, closed).kind # "raises"
      BY <2>2
    <3>2. PICK i \in new : id \in StreamsRead(i)
      BY <3>1
    <3>3. PICK k \in DOMAIN xrefs :
            Entry(xrefs[k], i).kind = "packed" /\ id = Entry(xrefs[k], i).stream
      BY <3>2 DEF StreamsRead
    <3>4. Stored(id) = StoredStream(id)
      BY <3>3, StreamStored
    <3>5. StreamOf(id, closed) = StoredStream(id) \/ StreamOf(id, closed) = Raises
      BY <3>3, StreamIs
    <3> QED BY <1>2, <3>1, <3>4, <3>5
  <2> QED BY <2>1, <2>2
<1>4. \A id \in DOMAIN loaded : loaded[id] = Stored(id)
  BY DEF StoredCached
<1> HIDE DEF Found, kept
<1> QED BY <1>1, <1>3, <1>4

\* The file has what it had.
LEMMA StoredSame ==
    ASSUME doc' = doc, xrefs' = xrefs
    PROVE  \A id : Stored(id)' = Stored(id)
<1>1. \A pos, id : Entry(pos, id)' = Entry(pos, id)
  BY DEF Entry, Section
<1>2. \A id : StoredStream(id)' = StoredStream(id)
  BY <1>1 DEF StoredStream
<1>3. \A entry : StoredIn(entry)' = StoredIn(entry)
  BY <1>2 DEF StoredIn
<1> QED BY <1>1, <1>3 DEF Stored

\* A file is opened before it is used.
OpensFirst ==
    /\ opening.at \notin {"done", "raised"} => call.what = "open" /\ loaded = <<>>
    /\ opening.at # "done" => /\ pages = NoList /\ ~returned.given
                              /\ call.what \in {"none", "open"} /\ status = "idle"

CacheInv == doc \in Documents /\ closed \in BOOLEAN /\ OpensFirst /\ StoredCached

\* Nothing is kept at first.
LEMMA CacheInit == Init => CacheInv
<1>1. DOMAIN <<>> = {}
  OBVIOUS
<1>2. Init => OpensFirst
  BY DEF Init, OpensFirst, NotOpened, NoAnswer, NoCall
<1> QED BY <1>1, <1>2 DEF Init, CacheInv, StoredCached

\* What the operators of a page read.
LEMMA DrawReads == ASSUME Interpret PROVE loaded' = loaded \/ \E ids : loaded' = Reading(ids)
BY DEF Interpret, Push, Unknown, TooFew, NextStream, Nothing, SaveState, RestoreState,
   ConcatMatrix, LineStyle, ColorSpace, Gray, SetColor, PathSegment, PaintPath,
   EndPath, BeginTag, EndTag, BeginText, TextParameter, SetFont, MoveText, ShowText,
   InlineImage, IgnoreXObject, DrawImage, DrawForm, DoRaises, FormEnds, PageEnds

\* The generator reads objects, ...
LEMMA WalkReads == ASSUME Walk PROVE loaded' = loaded \/ \E ids : loaded' = Reading(ids)
BY DEF Walk, WalkStarts, EnterFails, EnterVisited, EnterNew, NextKid, TreeEnds, ScanSection,
   ScanObject

\* ... and so does every step, if at all.
LEMMA StepReads == ASSUME [Next]_vars PROVE loaded' = loaded \/ \E ids : loaded' = Reading(ids)
<1>1. CASE Open
  BY <1>1 DEF Open, OpenStep, FindXRef, ReadSection, FollowXRefStm, FollowPrev, Follow,
     SectionReturns, ChainEnds, Scan, FindRoot, NoRoot
<1>2. CASE Generate
  BY <1>2, WalkReads DEF Generate
<1>3. CASE Draw
  BY <1>3, DrawReads DEF Draw
<1>4. CASE StartObjects
  BY <1>4 DEF StartObjects, BeginPage
<1> QED BY <1>1, <1>2, <1>3, <1>4 DEF Next, vars, document, OpenEnds, GetPages, StartPages, SkipPage,
   TakePage, PagesRaise, PagesReturn, StartClose, CloseReturns, ClosePage, GetObjects,
   ObjectsReturn, ObjectsRaise, Rest

\* The generator is at work while a list is made, the interpreter while a page is drawn.
LEMMA WalkAtWork == ASSUME ListInv, Walk PROVE Making
BY DEF Walk, WalkStarts, EnterFails, EnterVisited, EnterNew, NextKid, TreeEnds,
   ScanSection, ScanObject, Entering, Resolved, Off, NotStarted, ListInv

\* An operator is interpreted only while a page is.
LEMMA DrawAtWork == ASSUME Interpret PROVE status = "running"
BY DEF Interpret, Push, Unknown, TooFew, NextStream, Nothing, SaveState, RestoreState,
   ConcatMatrix, LineStyle, ColorSpace, Gray, SetColor, PathSegment, PaintPath,
   EndPath, BeginTag, EndTag, BeginText, TextParameter, SetFont, MoveText, ShowText,
   InlineImage, IgnoreXObject, DrawImage, DrawForm, DoRaises, FormEnds, PageEnds,
   XObjects, Called, AtToken, Ended

\* Files are opened before they are used, all along.
LEMMA KeepsOpensFirst ==
    ASSUME ListInv, ChainInv, CacheInv, [Next]_vars
    PROVE  OpensFirst'
<1>1. CASE Open
  <2>1. UNCHANGED <<pages, returned, call, status>>
    BY <1>1 DEF Open, drawing, history
  <2>2. opening.at \in {"find", "chain", "scan", "trailers"}
    BY <1>1 DEF Open, OpenStep, FindXRef, ReadSection, FollowXRefStm, FollowPrev,
       SectionReturns, ChainEnds, Scan, FindRoot, NoRoot
  <2>3. CASE FindRoot
    <3>1. \E at \in {"raised", "done"} : opening' = [opening EXCEPT !.at = at]
      BY <2>3 DEF FindRoot
    <3>2. opening'.at \in {"raised", "done"}
      BY <3>1 DEF ChainInv
    <3> QED BY <2>1, <2>2, <3>2 DEF CacheInv, OpensFirst
  <2>4. CASE ~FindRoot
    <3>1. loaded' = loaded
      BY <1>1, <2>4 DEF Open, OpenStep, FindXRef, ReadSection, FollowXRefStm, FollowPrev, Follow,
         SectionReturns, ChainEnds, Scan, NoRoot
    <3> QED BY <2>1, <2>2, <3>1 DEF CacheInv, OpensFirst
  <2> QED BY <2>3, <2>4
<1>2. CASE ~Open /\ opening.at = "done"
  BY <1>2, NotOpening DEF opened, OpensFirst
<1>3. CASE ~Open /\ opening.at # "done"
  <2>1. opening' = opening
    BY <1>3, NotOpening DEF opened
  <2>2. ~Calling /\ ~Making /\ status = "idle" /\ pages = NoList /\ ~returned.given
        /\ call.what \in {"none", "open"}
    BY <1>3 DEF Calling, CacheInv, OpensFirst, Making
  <2>3. ~Generate /\ ~Draw
    BY <2>2, WalkAtWork, DrawAtWork DEF Generate, Draw
  <2>4. walk = Off /\ Off.page = NoPage
    BY <2>2 DEF ListInv, Off, NotStarted
  <2>5. OpenEnds \/ Rest \/ UNCHANGED vars
    BY <1>3, <2>2, <2>3, <2>4 DEF Next, GetPages, StartPages, SkipPage, TakePage,
       PagesRaise, PagesReturn, StartClose, CloseReturns, ClosePage, GetObjects, StartObjects,
       ObjectsReturn, ObjectsRaise, Making
  <2>6. CASE OpenEnds
    <3>1. call' = NoCall /\ UNCHANGED <<pages, returned, status, loaded>>
          /\ opening.at \in {"done", "raised"}
      BY <2>6 DEF OpenEnds, drawing, history, document
    <3> QED BY <2>1, <2>2, <3>1 DEF OpensFirst, NoCall
  <2>7. CASE Rest \/ UNCHANGED vars
    BY <2>1, <2>7 DEF Rest, vars, document, drawing, history, CacheInv, OpensFirst
  <2> QED BY <2>5, <2>6, <2>7
<1> QED BY <1>1, <1>2, <1>3

\* What is kept is what the file has, all along.
LEMMA KeepsStored ==
    ASSUME ListInv, ChainInv, CacheInv, [Next]_vars
    PROVE  StoredCached'
<1>1. CASE opening.at \in {"find", "chain", "scan"}
  <2>1. loaded = <<>> /\ ~Calling /\ ~Generate /\ ~Draw
    <3>1. loaded = <<>> /\ ~Calling /\ ~Making /\ status = "idle"
      BY <1>1 DEF CacheInv, OpensFirst, Calling, Making
    <3> QED BY <3>1, WalkAtWork, DrawAtWork DEF Generate, Draw
  <2>2. loaded' = loaded
    BY <1>1, <2>1 DEF Next, vars, document, OpenEnds, GetPages, StartPages, SkipPage,
       TakePage, PagesRaise, PagesReturn, StartClose, CloseReturns, ClosePage, GetObjects,
       StartObjects, ObjectsReturn, ObjectsRaise, Rest, Open, OpenStep, FindXRef, ReadSection,
       FollowXRefStm, FollowPrev, Follow, SectionReturns, ChainEnds, Scan, FindRoot, NoRoot
  <2> QED BY <2>1, <2>2 DEF StoredCached
<1>2. CASE opening.at \notin {"find", "chain", "scan"}
  <2>1. doc' = doc /\ xrefs' = xrefs
    <3>1. CASE Open
      BY <1>2, <3>1 DEF Open, OpenStep, FindXRef, ReadSection, FollowXRefStm, FollowPrev,
         SectionReturns, ChainEnds, Scan, FindRoot, NoRoot
    <3>2. CASE ~Open
      BY <3>2, NotOpening DEF opened
    <3> QED BY <3>1, <3>2
  <2>2. loaded' = loaded \/ \E ids : loaded' = Reading(ids)
    BY StepReads
  <2>3. \A id \in DOMAIN loaded' : loaded'[id] = Stored(id)
    BY <2>2, ReadingKeeps DEF CacheInv, StoredCached, ChainInv
  <2> QED BY <2>1, <2>3, StoredSame DEF StoredCached
<1> QED BY <1>1, <1>2

\* A step keeps the invariant of the cache.
LEMMA CacheStep ==
    ASSUME ListInv, ChainInv, CacheInv, [Next]_vars
    PROVE  CacheInv'
<1>1. doc' = doc
  <2>1. CASE Open
    BY <2>1 DEF Open
  <2> QED BY <2>1, NotOpening DEF opened
<1>2. closed' \in BOOLEAN
  <2>1. closed' = closed \/ closed' = ~doc.external
    BY DEF Next, vars, OpenEnds, GetPages, StartPages, SkipPage, Generate, Draw, Open,
       TakePage, PagesRaise, PagesReturn, StartClose, CloseReturns, ClosePage, GetObjects,
       StartObjects, ObjectsReturn, ObjectsRaise, Rest
  <2> QED BY <2>1 DEF CacheInv
<1> QED BY <1>1, <1>2, KeepsOpensFirst, KeepsStored DEF CacheInv

\* ObjectsAreTheFiles: whatever was read before, by whichever call and in whichever order,
\* an object is what the sections of the file have; once the file is closed, it is that or
\* an exception, and never another object (pdfdocument/mod.rs, getobj).
ObjectsAreTheFiles ==
    opening.at = "done" =>
        \A id : Getobj(id) = Stored(id) \/ (closed /\ Getobj(id) = Raises)

THEOREM ExtractionObjectsAreTheFiles == Spec => []ObjectsAreTheFiles
<1> DEFINE I == ListInv /\ ChainInv /\ CacheInv
<1>1. Init => I
  BY ListInit, ChainInit, CacheInit
<1>2. I /\ [Next]_vars => I'
  BY ListStep, ChainStep, CacheStep DEF CacheInv
<1>3. I => ObjectsAreTheFiles
  BY LookupIs DEF ObjectsAreTheFiles, CacheInv, ChainInv, Getobj
<1> QED BY <1>1, <1>2, <1>3, PTL DEF Spec

-----------------------------------------------------------------------------
(* Counting up, sequences end to end, and what pages inherit. *)

\* What holds of 0, and of the number after each it holds of, holds up to n.
LEMMA Climb ==
    ASSUME NEW S, NEW n \in Nat, 0 \in S, \A k \in 0 .. n : k # n /\ k \in S => k + 1 \in S
    PROVE  \A k \in 0 .. n : k \in S
<1> DEFINE L == {k \in 0 .. n : k \notin S}
<1> SUFFICES ASSUME L # {} PROVE FALSE
  OBVIOUS
<1>1. PICK k \in L : \A m \in L : k <= m
  <2>1. L \in SUBSET Nat
    OBVIOUS
  <2> HIDE DEF L
  <2> QED BY <2>1, Least
<1>2. k \in 0 .. n /\ k \notin S /\ k # 0
  OBVIOUS
<1>3. k - 1 \in 0 .. n /\ ~(k <= k - 1) /\ k - 1 # n /\ (k - 1) + 1 = k
  BY <1>2
<1>4. k - 1 \notin L
  <2> HIDE DEF L
  <2> QED BY <1>1, <1>3
<1>5. k - 1 \in S
  BY <1>3, <1>4
<1> QED BY <1>2, <1>3, <1>5

-----------------------------------------------------------------------------
(* Lists of pages, and what they inherit. *)

\* Two sequences end to end.
LEMMA SequenceConcat ==
    ASSUME NEW s, Sequence(s), NEW t, Sequence(t)
    PROVE  /\ Sequence(s \o t) /\ Len(s \o t) = Len(s) + Len(t)
           /\ Len(s) \in Nat /\ Len(t) \in Nat /\ Len(s \o t) \in Nat
           /\ DOMAIN s = 1 .. Len(s) /\ DOMAIN t = 1 .. Len(t)
           /\ DOMAIN (s \o t) = 1 .. Len(s) + Len(t)
           /\ \A i \in 1 .. Len(s) + Len(t) :
                (s \o t)[i] = IF i <= Len(s) THEN s[i] ELSE t[i - Len(s)]
<1> DEFINE S == {s[k] : k \in DOMAIN s} \cup {t[k] : k \in DOMAIN t}
           c == s \o t
<1>1. s \in Seq(S) /\ t \in Seq(S)
  BY DEF Sequence
<1> HIDE DEF S
<1>2. c \in Seq(S) /\ Len(c) = Len(s) + Len(t)
      /\ \A i \in 1 .. Len(s) + Len(t) : c[i] = IF i <= Len(s) THEN s[i] ELSE t[i - Len(s)]
  BY <1>1, ConcatProperties
<1>3. DOMAIN s = 1 .. Len(s) /\ DOMAIN t = 1 .. Len(t) /\ Len(s) \in Nat /\ Len(t) \in Nat
  BY <1>1
<1> HIDE DEF c
<1>4. DOMAIN c = 1 .. Len(c) /\ Len(c) \in Nat /\ Sequence(c)
  BY <1>2, <1>3 DEF Sequence
<1> QED BY <1>2, <1>3, <1>4 DEF c

\* Sequences with the same members are the same.
LEMMA SequenceSame ==
    ASSUME NEW s, Sequence(s), NEW t, Sequence(t), Len(s) = Len(t),
           \A i \in 1 .. Len(s) : s[i] = t[i]
    PROVE  s = t
<1>1. s = [i \in 1 .. Len(s) |-> s[i]] /\ t = [i \in 1 .. Len(s) |-> t[i]]
  BY DEF Sequence
<1> QED BY <1>1

\* Three of them.
LEMMA SequenceAssoc ==
    ASSUME NEW s, Sequence(s), NEW t, Sequence(t), NEW u, Sequence(u)
    PROVE  (s \o t) \o u = s \o (t \o u)
<1> DEFINE S == {s[k] : k \in DOMAIN s} \cup {t[k] : k \in DOMAIN t} \cup {u[k] : k \in DOMAIN u}
<1>1. s \in Seq(S) /\ t \in Seq(S) /\ u \in Seq(S)
  BY DEF Sequence
<1> HIDE DEF S
<1> QED BY <1>1, ConcatAssociative

\* With nothing.
LEMMA SequenceNone == ASSUME NEW s, Sequence(s) PROVE s \o <<>> = s /\ <<>> \o s = s /\ Sequence(<<>>)
<1> DEFINE S == {s[k] : k \in DOMAIN s}
<1>1. s \in Seq(S)
  BY DEF Sequence
<1>2. Sequence(<<>>)
  BY DEF Sequence
<1> HIDE DEF S
<1> QED BY <1>1, <1>2, ConcatEmptySeq

\* What has the first, then the second, then the third.
LEMMA MergedAssoc ==
    ASSUME NEW f, NEW g, NEW h
    PROVE  Merged(Merged(f, g), h) = Merged(f, Merged(g, h))
<1> DEFINE a == Merged(f, g)
           b == Merged(g, h)
<1>1. /\ DOMAIN a = DOMAIN f \cup DOMAIN g /\ DOMAIN b = DOMAIN g \cup DOMAIN h
      /\ \A x \in DOMAIN a : a[x] = (IF x \in DOMAIN f THEN f[x] ELSE g[x])
      /\ \A x \in DOMAIN b : b[x] = (IF x \in DOMAIN g THEN g[x] ELSE h[x])
  BY DEF Merged
<1> HIDE DEF a, b
<1>2. DOMAIN a \cup DOMAIN h = DOMAIN f \cup DOMAIN b
  BY <1>1
<1>3. \A x \in DOMAIN a \cup DOMAIN h : (IF x \in DOMAIN a THEN a[x] ELSE h[x])
                                          = IF x \in DOMAIN f THEN f[x] ELSE b[x]
  BY <1>1
<1>4. Merged(a, h) = Merged(f, b)
  BY <1>2, <1>3 DEF Merged
<1> QED BY <1>4 DEF a, b

\* A list of pages of the generator.
IsPages(list) ==
    /\ Sequence(list)
    /\ \A k \in DOMAIN list : list[k] = [id |-> list[k].id, attrs |-> list[k].attrs]

\* Pages that inherit.
LEMMA InheritIs ==
    ASSUME NEW list, IsPages(list), NEW attrs
    PROVE  /\ IsPages(Inherit(list, attrs)) /\ Len(Inherit(list, attrs)) = Len(list)
           /\ Len(list) \in Nat /\ DOMAIN list = 1 .. Len(list)
           /\ \A k \in 1 .. Len(list) :
                Inherit(list, attrs)[k] = [id |-> list[k].id, attrs |-> Merged(list[k].attrs, attrs)]
<1> DEFINE p(k) == [id |-> list[k].id, attrs |-> Merged(list[k].attrs, attrs)]
           i == [k \in 1 .. Len(list) |-> p(k)]
<1>1. Len(list) \in Nat /\ DOMAIN list = 1 .. Len(list)
  BY DEF IsPages, Sequence
<1>2. ASSUME NEW k \in 1 .. Len(list)
      PROVE  [list[k] EXCEPT !.attrs = Merged(@, attrs)] = p(k)
  <2>1. list[k] = [id |-> list[k].id, attrs |-> list[k].attrs]
    BY <1>1 DEF IsPages
  <2> QED BY <2>1
<1>3. Inherit(list, attrs) = i
  BY <1>1, <1>2 DEF Inherit
<1>4. Len(i) = Len(list) /\ DOMAIN i = 1 .. Len(list)
  BY <1>1
<1>5. \A k \in 1 .. Len(list) : i[k] = p(k) /\ p(k) = [id |-> p(k).id, attrs |-> p(k).attrs]
  OBVIOUS
<1>6. Sequence(i)
  BY <1>1, <1>4 DEF Sequence
<1> HIDE DEF i, p
<1>7. IsPages(i)
  BY <1>4, <1>5, <1>6 DEF IsPages
<1> QED BY <1>1, <1>3, <1>4, <1>5, <1>7 DEF p

\* Pages end to end.
LEMMA PagesConcat ==
    ASSUME NEW s, IsPages(s), NEW t, IsPages(t)
    PROVE  IsPages(s \o t)
<1>1. Sequence(s) /\ Sequence(t)
  BY DEF IsPages
<1>2. /\ Sequence(s \o t) /\ Len(s) \in Nat /\ Len(t) \in Nat
      /\ DOMAIN s = 1 .. Len(s) /\ DOMAIN t = 1 .. Len(t) /\ DOMAIN (s \o t) = 1 .. Len(s) + Len(t)
      /\ \A i \in 1 .. Len(s) + Len(t) :
           (s \o t)[i] = IF i <= Len(s) THEN s[i] ELSE t[i - Len(s)]
  BY <1>1, SequenceConcat
<1> DEFINE c == s \o t
<1>3. ASSUME NEW i \in 1 .. Len(s) + Len(t) PROVE c[i] = [id |-> c[i].id, attrs |-> c[i].attrs]
  <2>1. CASE i <= Len(s)
    <3>1. i \in DOMAIN s /\ c[i] = s[i]
      BY <1>2, <2>1
    <3> HIDE DEF c
    <3> QED BY <3>1 DEF IsPages
  <2>2. CASE ~(i <= Len(s))
    <3>1. i - Len(s) \in DOMAIN t /\ c[i] = t[i - Len(s)]
      BY <1>2, <2>2
    <3> HIDE DEF c
    <3> QED BY <3>1 DEF IsPages
  <2> QED BY <2>1, <2>2
<1> QED BY <1>2, <1>3 DEF IsPages

\* They inherit each for itself, ...
LEMMA InheritConcat ==
    ASSUME NEW s, IsPages(s), NEW t, IsPages(t), NEW attrs
    PROVE  Inherit(s \o t, attrs) = Inherit(s, attrs) \o Inherit(t, attrs)
<1> DEFINE c == s \o t
           a == Inherit(s, attrs)
           b == Inherit(t, attrs)
           i == Inherit(c, attrs)
<1>1. IsPages(c)
  BY PagesConcat
<1>2. /\ IsPages(a) /\ Len(a) = Len(s) /\ Len(s) \in Nat
      /\ \A k \in 1 .. Len(s) : a[k] = [id |-> s[k].id, attrs |-> Merged(s[k].attrs, attrs)]
  BY InheritIs
<1>3. /\ IsPages(b) /\ Len(b) = Len(t) /\ Len(t) \in Nat
      /\ \A k \in 1 .. Len(t) : b[k] = [id |-> t[k].id, attrs |-> Merged(t[k].attrs, attrs)]
  BY InheritIs
<1>4. /\ IsPages(i) /\ Len(i) = Len(c)
      /\ \A k \in 1 .. Len(c) : i[k] = [id |-> c[k].id, attrs |-> Merged(c[k].attrs, attrs)]
  BY <1>1, InheritIs
<1>5. /\ Len(c) = Len(s) + Len(t)
      /\ \A k \in 1 .. Len(s) + Len(t) : c[k] = IF k <= Len(s) THEN s[k] ELSE t[k - Len(s)]
  BY SequenceConcat DEF IsPages
<1> HIDE DEF a, b, i, c
<1>9. Sequence(a) /\ Sequence(b) /\ Sequence(i)
  BY <1>2, <1>3, <1>4 DEF IsPages
<1>6. /\ Sequence(a \o b) /\ Len(a \o b) = Len(s) + Len(t)
      /\ \A k \in 1 .. Len(s) + Len(t) :
            (a \o b)[k] = IF k <= Len(s) THEN a[k] ELSE b[k - Len(s)]
  <2>1. /\ Sequence(a \o b) /\ Len(a \o b) = Len(a) + Len(b)
        /\ \A k \in 1 .. Len(a) + Len(b) :
              (a \o b)[k] = IF k <= Len(a) THEN a[k] ELSE b[k - Len(a)]
    BY <1>9, SequenceConcat
  <2> QED BY <2>1, <1>2, <1>3
<1>7. ASSUME NEW k \in 1 .. Len(s) + Len(t) PROVE i[k] = (a \o b)[k]
  <2>1. CASE k <= Len(s)
    <3>1. k \in 1 .. Len(s)
      BY <1>2, <2>1
    <3> QED BY <1>2, <1>4, <1>5, <1>6, <2>1, <3>1
  <2>2. CASE ~(k <= Len(s))
    <3>1. k - Len(s) \in 1 .. Len(t)
      BY <1>2, <1>3, <2>2
    <3> QED BY <1>3, <1>4, <1>5, <1>6, <2>2, <3>1
  <2> QED BY <2>1, <2>2
<1>8. i = a \o b
  <2>1. Len(i) = Len(a \o b) /\ \A k \in 1 .. Len(i) : i[k] = (a \o b)[k]
    BY <1>4, <1>5, <1>6, <1>7
  <2> QED BY <1>6, <1>9, <2>1, SequenceSame
<1> QED BY <1>8 DEF a, b, i, c

\* ... from the nearest first.
LEMMA InheritTwice ==
    ASSUME NEW list, IsPages(list), NEW x, NEW y
    PROVE  Inherit(Inherit(list, x), y) = Inherit(list, Merged(x, y))
<1> DEFINE a == Inherit(list, x)
           b == Inherit(a, y)
           c == Inherit(list, Merged(x, y))
<1>1. /\ IsPages(a) /\ Len(a) = Len(list) /\ Len(list) \in Nat
      /\ \A k \in 1 .. Len(list) : a[k] = [id |-> list[k].id, attrs |-> Merged(list[k].attrs, x)]
  BY InheritIs
<1>2. /\ IsPages(b) /\ Len(b) = Len(a)
      /\ \A k \in 1 .. Len(a) : b[k] = [id |-> a[k].id, attrs |-> Merged(a[k].attrs, y)]
  BY <1>1, InheritIs
<1>3. /\ IsPages(c) /\ Len(c) = Len(list)
      /\ \A k \in 1 .. Len(list) :
           c[k] = [id |-> list[k].id, attrs |-> Merged(list[k].attrs, Merged(x, y))]
  BY InheritIs
<1> HIDE DEF a, b, c
<1>4. ASSUME NEW k \in 1 .. Len(list) PROVE b[k] = c[k]
  <2>1. a[k] = [id |-> list[k].id, attrs |-> Merged(list[k].attrs, x)]
    BY <1>1
  <2>2. Merged(Merged(list[k].attrs, x), y) = Merged(list[k].attrs, Merged(x, y))
    BY MergedAssoc
  <2>3. b[k] = [id |-> a[k].id, attrs |-> Merged(a[k].attrs, y)]
    BY <1>1, <1>2
  <2>4. a[k].id = list[k].id /\ a[k].attrs = Merged(list[k].attrs, x)
    BY <2>1
  <2>5. c[k] = [id |-> list[k].id, attrs |-> Merged(list[k].attrs, Merged(x, y))]
    BY <1>3
  <2> QED BY <2>2, <2>3, <2>4, <2>5
<1>5. b = c
  BY <1>1, <1>2, <1>3, <1>4, SequenceSame DEF IsPages
<1> QED BY <1>5 DEF a, b, c

\* No page inherits nothing.
LEMMA InheritNone == \A attrs : Inherit(<<>>, attrs) = <<>>
<1> SUFFICES ASSUME NEW attrs PROVE Inherit(<<>>, attrs) = <<>>
  OBVIOUS
<1>1. DOMAIN <<>> = {}
  OBVIOUS
<1>2. <<>> = [k \in {} |-> [<<>>[k] EXCEPT !.attrs = Merged(@, attrs)]]
  OBVIOUS
<1> QED BY <1>1, <1>2 DEF Inherit

-----------------------------------------------------------------------------
(* What the kids of a node give. *)

IsResult(r) ==
    /\ r = [pages |-> r.pages, visited |-> r.visited, raised |-> r.raised]
    /\ IsPages(r.pages) /\ r.visited \in SUBSET KidIds /\ r.raised \in BOOLEAN
IsSearch(search) == \A kid \in Kids : \A visited \in SUBSET KidIds : IsResult(search[kid][visited])

\* A result below a node, after the pages of a list.
Lift(list, attrs, r) == [pages |-> list \o Inherit(r.pages, attrs),
                         visited |-> r.visited, raised |-> r.raised]
Prefix(y, w) == Len(y) <= Len(w) /\ \A k \in 1 .. Len(y) : y[k] = w[k]

\* Every list begins with itself, ...
LEMMA PrefixSelf == ASSUME NEW s, IsPages(s) PROVE Prefix(s, s)
BY DEF Prefix, IsPages, Sequence

\* ... and with what the lists it begins with begin with, ...
LEMMA PrefixTrans ==
    ASSUME NEW s, IsPages(s), NEW t, IsPages(t), NEW u, IsPages(u), Prefix(s, t), Prefix(t, u)
    PROVE  Prefix(s, u)
BY DEF Prefix, IsPages, Sequence

\* ... and what comes after it comes after.
LEMMA PrefixConcat ==
    ASSUME NEW s, IsPages(s), NEW t, IsPages(t)
    PROVE  Prefix(s, s \o t) /\ IsPages(s \o t) /\ Len(s \o t) = Len(s) + Len(t)
           /\ Len(s) \in Nat /\ Len(t) \in Nat
<1>1. Sequence(s) /\ Sequence(t)
  BY DEF IsPages
<1>2. Len(s) \in Nat /\ Len(t) \in Nat /\ Len(s \o t) = Len(s) + Len(t)
      /\ \A i \in 1 .. Len(s) + Len(t) :
           (s \o t)[i] = (IF i <= Len(s) THEN s[i] ELSE t[i - Len(s)])
  BY <1>1, SequenceConcat
<1> DEFINE c == s \o t
<1>3. IsPages(c)
  BY PagesConcat
<1> HIDE DEF c
<1>4. Len(s) <= Len(c) /\ \A i \in 1 .. Len(s) : s[i] = c[i]
  <2>1. \A i \in 1 .. Len(s) : i \in 1 .. Len(s) + Len(t) /\ i <= Len(s)
    BY <1>2
  <2> QED BY <1>2, <2>1 DEF c
<1> QED BY <1>2, <1>3, <1>4 DEF Prefix, c

\* A result below a node is one.
LEMMA LiftIs ==
    ASSUME NEW list, IsPages(list), NEW attrs, NEW r, IsResult(r)
    PROVE  IsResult(Lift(list, attrs, r)) /\ Prefix(list, Lift(list, attrs, r).pages)
<1> DEFINE i == Inherit(r.pages, attrs)
           l == Lift(list, attrs, r)
<1>1. IsPages(i)
  BY InheritIs DEF IsResult
<1> HIDE DEF i
<1>2. Prefix(list, list \o i) /\ IsPages(list \o i)
  BY <1>1, PrefixConcat
<1>3. l = [pages |-> list \o i, visited |-> r.visited, raised |-> r.raised]
  BY DEF Lift, i
<1> HIDE DEF l
<1>4. l.pages = list \o i /\ l.visited = r.visited /\ l.raised = r.raised
  BY <1>3
<1>5. IsResult(l)
  BY <1>2, <1>3, <1>4 DEF IsResult
<1> QED BY <1>2, <1>4, <1>5 DEF l

\* With one more kid.
LEMMA AndKidIs ==
    ASSUME NEW found, IsResult(found), NEW search, IsSearch(search), NEW kid \in Kids, NEW attrs
    PROVE  LET more == AndKid(found, kid, attrs, search)
           IN  /\ more = IF found.raised THEN found
                         ELSE Lift(found.pages, attrs, search[kid][found.visited])
               /\ IsResult(more) /\ Prefix(found.pages, more.pages)
<1> DEFINE more == AndKid(found, kid, attrs, search)
           r == search[kid][found.visited]
           list == found.pages \o Inherit(r.pages, attrs)
<1>1. CASE found.raised
  BY <1>1, PrefixSelf DEF AndKid, IsResult
<1>2. CASE ~found.raised
  <2>1. IsResult(r) /\ IsPages(found.pages)
    BY DEF IsResult, IsSearch
  <2>2. more = [r EXCEPT !.pages = found.pages \o Inherit(@, attrs)]
    BY <1>2 DEF AndKid
  <2>3. [r EXCEPT !.pages = found.pages \o Inherit(@, attrs)]
            = [pages |-> list, visited |-> r.visited, raised |-> r.raised]
    <3>1. r = [pages |-> r.pages, visited |-> r.visited, raised |-> r.raised]
      BY <2>1 DEF IsResult
    <3> HIDE DEF r
    <3>2. [r EXCEPT !.pages = found.pages \o Inherit(@, attrs)] = [r EXCEPT !.pages = list]
      OBVIOUS
    <3> HIDE DEF list
    <3> QED BY <3>1, <3>2
  <2>4. more = Lift(found.pages, attrs, r)
    BY <2>2, <2>3 DEF Lift
  <2> HIDE DEF more, r
  <2>5. IsResult(more) /\ Prefix(found.pages, more.pages)
    BY <2>1, <2>4, LiftIs
  <2> QED BY <1>2, <2>4, <2>5 DEF more, r
<1> QED BY <1>1, <1>2 DEF IsResult

\* It makes no difference whether a kid inherits from the nodes above one by one.
LEMMA AndKidLift ==
    ASSUME NEW list, IsPages(list), NEW p, NEW r, IsResult(r), NEW search, IsSearch(search),
           NEW kid \in Kids, NEW attrs
    PROVE  AndKid(Lift(list, p, r), kid, Merged(attrs, p), search)
             = Lift(list, p, AndKid(r, kid, attrs, search))
<1> DEFINE f == Lift(list, p, r)
           m == search[kid][r.visited]
           both == Merged(attrs, p)
<1>1. IsResult(f) /\ f.raised = r.raised /\ f.visited = r.visited
      /\ f.pages = list \o Inherit(r.pages, p)
  BY LiftIs DEF Lift
<1>2. CASE r.raised
  <2>1. AndKid(f, kid, both, search) = f /\ AndKid(r, kid, attrs, search) = r
    BY <1>1, <1>2 DEF AndKid
  <2> QED BY <2>1
<1>3. CASE ~r.raised
  <2>1. IsResult(m) /\ IsPages(r.pages) /\ IsPages(m.pages)
    BY DEF IsResult, IsSearch
  <2>2. AndKid(f, kid, both, search) = Lift(f.pages, both, m)
    BY <1>1, <1>3, AndKidIs
  <2>3. AndKid(r, kid, attrs, search) = Lift(r.pages, attrs, m)
    BY <1>3, AndKidIs
  <2> HIDE DEF f, m, both
  <2>4. f.pages \o Inherit(m.pages, both)
            = list \o Inherit(r.pages \o Inherit(m.pages, attrs), p)
    <3> DEFINE a == Inherit(r.pages, p)
               b == Inherit(m.pages, attrs)
               c == Inherit(b, p)
    <3>1. IsPages(a) /\ IsPages(b)
      BY <2>1, InheritIs
    <3>2. IsPages(c)
      <4> HIDE DEF b
      <4> QED BY <3>1, InheritIs
    <3>3. c = Inherit(m.pages, both)
      BY <2>1, InheritTwice DEF both
    <3>4. Inherit(r.pages \o b, p) = a \o c
      <4> HIDE DEF b
      <4> QED BY <2>1, <3>1, InheritConcat
    <3> HIDE DEF a, b, c
    <3>5. (list \o a) \o c = list \o (a \o c)
      BY <3>1, <3>2, SequenceAssoc DEF IsPages
    <3>6. f.pages = list \o a
      BY <1>1 DEF a
    <3> QED BY <3>3, <3>4, <3>5, <3>6 DEF b
  <2>5. Lift(r.pages, attrs, m).visited = m.visited /\ Lift(r.pages, attrs, m).raised = m.raised
        /\ Lift(r.pages, attrs, m).pages = r.pages \o Inherit(m.pages, attrs)
    BY DEF Lift
  <2>6. Lift(f.pages, both, m) = Lift(list, p, Lift(r.pages, attrs, m))
    <3> DEFINE l == Lift(r.pages, attrs, m)
    <3>1. Lift(list, p, l) = [pages |-> list \o Inherit(l.pages, p), visited |-> l.visited,
                              raised |-> l.raised]
      BY DEF Lift
    <3>2. Lift(f.pages, both, m) = [pages |-> f.pages \o Inherit(m.pages, both),
                                    visited |-> m.visited, raised |-> m.raised]
      BY DEF Lift
    <3> QED BY <2>4, <2>5, <3>1, <3>2
  <2> QED BY <2>2, <2>3, <2>6 DEF f, m, both
<1> QED BY <1>2, <1>3 DEF IsResult

\* f has, by k, what the first k kids give.
IsUpto(f, n, found, kids, attrs, search) ==
    f = [k \in 0 .. n |-> IF k = 0 THEN found ELSE AndKid(f[k - 1], kids[k], attrs, search)]

\* There is one such function.
LEMMA UptoExists ==
    ASSUME NEW found, NEW kids, NEW attrs, NEW search, NEW n \in Nat
    PROVE  \E f : IsUpto(f, n, found, kids, attrs, search)
<1> DEFINE S == {k \in Nat : \E f : IsUpto(f, k, found, kids, attrs, search)}
<1>1. 0 \in S
  <2> DEFINE f == [k \in 0 .. 0 |-> found]
  <2>1. IsUpto(f, 0, found, kids, attrs, search)
    <3>1. f = [k \in 0 .. 0 |-> IF k = 0 THEN found ELSE AndKid(f[k - 1], kids[k], attrs, search)]
      OBVIOUS
    <3> QED BY <3>1 DEF IsUpto
  <2> QED BY <2>1
<1>2. ASSUME NEW k \in 0 .. n, k \in S PROVE k + 1 \in S
  <2>1. PICK f : IsUpto(f, k, found, kids, attrs, search)
    BY <1>2
  <2> DEFINE last == AndKid(f[k], kids[k + 1], attrs, search)
             g == [i \in 0 .. k + 1 |-> IF i = k + 1 THEN last ELSE f[i]]
  <2>2. ASSUME NEW i \in 0 .. k + 1
        PROVE  g[i] = IF i = 0 THEN found ELSE AndKid(g[i - 1], kids[i], attrs, search)
    <3>1. CASE i = k + 1
      <4>1. g[k] = f[k] /\ g[i] = last /\ i - 1 = k /\ i # 0
        BY <3>1
      <4> HIDE DEF g
      <4> QED BY <3>1, <4>1
    <3>2. CASE i # k + 1
      <4>1. i \in 0 .. k /\ g[i] = f[i] /\ (i # 0 => g[i - 1] = f[i - 1])
        BY <3>2
      <4>2. f[i] = IF i = 0 THEN found ELSE AndKid(f[i - 1], kids[i], attrs, search)
        BY <2>1, <4>1 DEF IsUpto
      <4> HIDE DEF g
      <4> QED BY <4>1, <4>2
    <3> QED BY <3>1, <3>2
  <2>3. g = [i \in 0 .. k + 1 |-> g[i]]
    OBVIOUS
  <2> HIDE DEF g
  <2>4. IsUpto(g, k + 1, found, kids, attrs, search)
    BY <2>2, <2>3 DEF IsUpto
  <2> QED BY <2>4
<1> HIDE DEF S
<1>3. n \in S
  BY <1>1, <1>2, Climb
<1> QED BY <1>3 DEF S

\* AndKids gives the last of its values.
LEMMA AndKidsIs ==
    ASSUME NEW found, NEW kids, NEW attrs, NEW search, Len(kids) \in Nat
    PROVE  \E f : /\ IsUpto(f, Len(kids), found, kids, attrs, search)
                  /\ AndKids(found, kids, attrs, search) = f[Len(kids)]
<1> DEFINE Upto[k \in 0 .. Len(kids)] ==
              IF k = 0 THEN found ELSE AndKid(Upto[k - 1], kids[k], attrs, search)
<1>1. AndKids(found, kids, attrs, search) = Upto[Len(kids)]
  BY DEF AndKids
<1>2. Upto = CHOOSE f : IsUpto(f, Len(kids), found, kids, attrs, search)
  BY DEF IsUpto
<1> HIDE DEF Upto
<1>3. IsUpto(Upto, Len(kids), found, kids, attrs, search)
  BY <1>2, UptoExists
<1> QED BY <1>1, <1>3

\* They are results, which begin with what was found before.
LEMMA AndKidsTyped ==
    ASSUME NEW found, IsResult(found), NEW kids \in Seq(Kids), NEW search, IsSearch(search),
           NEW attrs
    PROVE  LET more == AndKids(found, kids, attrs, search)
           IN  IsResult(more) /\ Prefix(found.pages, more.pages)
<1> DEFINE n == Len(kids)
<1>1. PICK f : /\ IsUpto(f, n, found, kids, attrs, search)
               /\ AndKids(found, kids, attrs, search) = f[n]
  BY AndKidsIs
<1> DEFINE S == {k \in 0 .. n : IsResult(f[k]) /\ Prefix(found.pages, f[k].pages)}
<1>2. n \in Nat /\ \A k \in 1 .. n : kids[k] \in Kids
  OBVIOUS
<1> HIDE DEF n
<1>3. f[0] = found /\ \A k \in 1 .. n : f[k] = AndKid(f[k - 1], kids[k], attrs, search)
  BY <1>1, <1>2 DEF IsUpto
<1>4. 0 \in S
  BY <1>2, <1>3, PrefixSelf DEF IsResult
<1>5. ASSUME NEW k \in 0 .. n, k # n, k \in S PROVE k + 1 \in S
  <2>1. k + 1 \in 1 .. n /\ k + 1 \in 0 .. n /\ (k + 1) - 1 = k
    BY <1>2, <1>5
  <2> DEFINE now == f[k]
             next == f[k + 1]
  <2>2. IsResult(now) /\ Prefix(found.pages, now.pages)
    BY <1>5
  <2>3. next = AndKid(now, kids[k + 1], attrs, search)
    BY <1>3, <2>1
  <2>4. kids[k + 1] \in Kids
    BY <1>2, <2>1
  <2> HIDE DEF now, next
  <2>5. IsResult(next) /\ Prefix(now.pages, next.pages)
    BY <2>2, <2>3, <2>4, AndKidIs
  <2>6. Prefix(found.pages, next.pages)
    BY <2>2, <2>5, PrefixTrans DEF IsResult
  <2> QED BY <2>1, <2>5, <2>6 DEF next
<1>6. n \in S
  <2>1. \A k \in 0 .. n : k # n /\ k \in S => k + 1 \in S
    BY <1>5
  <2>2. n \in 0 .. n
    BY <1>2
  <2> HIDE DEF S
  <2> QED BY <1>2, <1>4, <2>1, <2>2, Climb
<1> QED BY <1>1, <1>6

\* Without kids there is nothing more, ...
LEMMA AndKidsNone ==
    ASSUME NEW found, NEW attrs, NEW search
    PROVE  AndKids(found, <<>>, attrs, search) = found
<1>1. PICK f : IsUpto(f, 0, found, <<>>, attrs, search)
               /\ AndKids(found, <<>>, attrs, search) = f[0]
  <2>1. Len(<<>>) = 0
    OBVIOUS
  <2> QED BY <2>1, AndKidsIs
<1>2. f[0] = found
  BY <1>1 DEF IsUpto
<1> QED BY <1>1, <1>2

\* ... and the first kid comes before the others.
LEMMA AndKidsHead ==
    ASSUME NEW found, NEW K, NEW kids \in Seq(K), kids # <<>>, NEW attrs, NEW search
    PROVE  AndKids(found, kids, attrs, search)
             = AndKids(AndKid(found, Head(kids), attrs, search), Tail(kids), attrs, search)
<1> DEFINE n == Len(kids)
           rest == Tail(kids)
           first == AndKid(found, Head(kids), attrs, search)
<1>1. n \in Nat /\ n # 0 /\ Len(rest) = n - 1 /\ Head(kids) = kids[1]
      /\ \A k \in 1 .. n - 1 : rest[k] = kids[k + 1]
  BY HeadTailProperties
<1> HIDE DEF n, rest
<1>2. PICK f : /\ IsUpto(f, n, found, kids, attrs, search)
               /\ AndKids(found, kids, attrs, search) = f[n]
  BY <1>1, AndKidsIs DEF n
<1>3. PICK g : /\ IsUpto(g, n - 1, first, rest, attrs, search)
               /\ AndKids(first, rest, attrs, search) = g[n - 1]
  <2> DEFINE m == n - 1
  <2>1. m \in Nat /\ Len(rest) = m
    BY <1>1
  <2> HIDE DEF m
  <2>2. \E g : /\ IsUpto(g, m, first, rest, attrs, search)
               /\ AndKids(first, rest, attrs, search) = g[m]
    BY <2>1, AndKidsIs
  <2> QED BY <2>2 DEF m
<1> DEFINE S == {k \in 0 .. n - 1 : g[k] = f[k + 1]}
<1>4. f[0] = found /\ \A k \in 1 .. n : f[k] = AndKid(f[k - 1], kids[k], attrs, search)
  BY <1>1, <1>2 DEF IsUpto
<1>5. g[0] = first /\ \A k \in 1 .. n - 1 : g[k] = AndKid(g[k - 1], rest[k], attrs, search)
  BY <1>1, <1>3 DEF IsUpto
<1>6. f[1] = first
  <2>1. 1 \in 1 .. n /\ 1 - 1 = 0
    BY <1>1
  <2> QED BY <1>1, <1>4, <2>1
<1> HIDE DEF first
<1>7. 0 \in S
  <2>1. 0 \in 0 .. n - 1 /\ 0 + 1 = 1
    BY <1>1
  <2> QED BY <1>5, <1>6, <2>1
<1>8. ASSUME NEW k \in 0 .. n - 1, k # n - 1, k \in S PROVE k + 1 \in S
  <2>1. k + 1 \in 1 .. n - 1 /\ k + 1 \in 0 .. n - 1 /\ (k + 1) - 1 = k
        /\ (k + 1) + 1 \in 1 .. n /\ ((k + 1) + 1) - 1 = k + 1
    BY <1>1, <1>8
  <2>2. g[k] = f[k + 1] /\ rest[k + 1] = kids[(k + 1) + 1]
    BY <1>1, <1>8, <2>1
  <2>3. g[k + 1] = AndKid(g[k], rest[k + 1], attrs, search)
    BY <1>5, <2>1
  <2>4. f[(k + 1) + 1] = AndKid(f[k + 1], kids[(k + 1) + 1], attrs, search)
    BY <1>4, <2>1
  <2> QED BY <2>1, <2>2, <2>3, <2>4
<1>9. n - 1 \in Nat
  BY <1>1
<1> DEFINE m == n - 1
<1>10. m \in S
  <2>1. 0 \in S /\ \A k \in 0 .. m : k # m /\ k \in S => k + 1 \in S
    BY <1>7, <1>8
  <2>2. m \in Nat
    BY <1>9
  <2>3. m \in 0 .. m
    BY <2>2
  <2> HIDE DEF S, m
  <2> QED BY <2>1, <2>2, <2>3, Climb
<1>11. g[n - 1] = f[(n - 1) + 1]
  BY <1>10
<1>12. (n - 1) + 1 = n
  BY <1>1
<1> QED BY <1>2, <1>3, <1>11, <1>12 DEF rest, first

\* What the kids give below a node.
LEMMA AndKidsLift ==
    ASSUME NEW list, IsPages(list), NEW p, NEW r, IsResult(r), NEW search, IsSearch(search),
           NEW kids \in Seq(Kids), NEW attrs
    PROVE  AndKids(Lift(list, p, r), kids, Merged(attrs, p), search)
             = Lift(list, p, AndKids(r, kids, attrs, search))
<1> DEFINE n == Len(kids)
           both == Merged(attrs, p)
           first == Lift(list, p, r)
<1>1. n \in Nat /\ \A k \in 1 .. n : kids[k] \in Kids
  OBVIOUS
<1> HIDE DEF n
<1>2. PICK f : /\ IsUpto(f, n, first, kids, both, search)
               /\ AndKids(first, kids, both, search) = f[n]
  BY <1>1, AndKidsIs DEF n
<1>3. PICK g : /\ IsUpto(g, n, r, kids, attrs, search)
               /\ AndKids(r, kids, attrs, search) = g[n]
  BY <1>1, AndKidsIs DEF n
<1>4. f[0] = first /\ \A k \in 1 .. n : f[k] = AndKid(f[k - 1], kids[k], both, search)
  BY <1>1, <1>2 DEF IsUpto
<1>5. g[0] = r /\ \A k \in 1 .. n : g[k] = AndKid(g[k - 1], kids[k], attrs, search)
  BY <1>1, <1>3 DEF IsUpto
<1> DEFINE S == {k \in 0 .. n : IsResult(g[k]) /\ f[k] = Lift(list, p, g[k])}
<1>6. 0 \in S
  BY <1>1, <1>4, <1>5
<1> HIDE DEF first
<1>7. ASSUME NEW k \in 0 .. n, k # n, k \in S PROVE k + 1 \in S
  <2>1. k + 1 \in 1 .. n /\ k + 1 \in 0 .. n /\ (k + 1) - 1 = k
    BY <1>1, <1>7
  <2> DEFINE now == g[k]
             kid == kids[k + 1]
             next == AndKid(now, kid, attrs, search)
  <2>2. IsResult(now) /\ f[k] = Lift(list, p, now) /\ kid \in Kids
    BY <1>1, <1>7, <2>1
  <2>3. g[k + 1] = next
    BY <1>5, <2>1
  <2>4. f[k + 1] = AndKid(Lift(list, p, now), kid, both, search)
    BY <1>4, <2>1, <2>2
  <2> HIDE DEF now, kid
  <2>5. IsResult(next)
    BY <2>2, AndKidIs
  <2>6. f[k + 1] = Lift(list, p, next)
    BY <2>2, <2>4, AndKidLift DEF both
  <2> QED BY <2>1, <2>3, <2>5, <2>6
<1>8. n \in S
  <2>1. \A k \in 0 .. n : k # n /\ k \in S => k + 1 \in S
    BY <1>7
  <2>2. n \in 0 .. n
    BY <1>1
  <2> HIDE DEF S
  <2> QED BY <1>1, <1>6, <2>1, <2>2, Climb
<1> QED BY <1>2, <1>3, <1>8 DEF both, first

-----------------------------------------------------------------------------
(* What the nodes of the tree give. *)

\* An object of the file is one that an entry of its sections gives, ...
LEMMA StoredIs ==
    ASSUME doc \in Documents, Sectioned, NEW id, Stored(id).kind \notin {"missing", "raises"}
    PROVE  id \in StoredIds /\ Stored(id) \in Entries(doc) \cup Packed(doc)
<1> DEFINE s == [k \in DOMAIN xrefs |-> StoredIn(Entry(xrefs[k], id))]
<1>1. DOMAIN s \in SUBSET Nat /\ DOMAIN s = DOMAIN xrefs /\ Stored(id) = First(s)
  BY XrefsDomain DEF Stored
<1>2. PICK k \in DOMAIN xrefs : Stored(id) = s[k] /\ s[k] # Corrupt
  <2>1. Stored(id) # Missing
    BY DEF Missing
  <2> HIDE DEF s
  <2> QED BY <1>1, <2>1, FirstIs
<1> DEFINE e == Entry(xrefs[k], id)
<1>3. Stored(id) = StoredIn(e) /\ StoredIn(e) # Corrupt
  BY <1>2
<1>4. e = Free \/ (id \in Ids(Section(xrefs[k])) /\ e \in Entries(doc))
  BY EntryIs
<1> HIDE DEF s, e
<1>5. Free.kind = "free" /\ Raises.kind = "raises" /\ Corrupt.kind = "corrupt"
  BY DEF Free, Raises, Corrupt
<1>6. CASE e.kind # "packed"
  <2>1. StoredIn(e) = Parsed(e, FALSE)
    BY <1>6 DEF StoredIn
  <2>2. e # Free /\ Stored(id) = e
    BY <1>3, <1>5, <2>1 DEF Parsed
  <2> QED BY <1>4, <2>2 DEF StoredIds
<1>7. CASE e.kind = "packed"
  <2> DEFINE stream == StoredStream(e.stream)
  <2>1. StoredIn(e) = InStream(stream, e.index)
    BY <1>7 DEF StoredIn
  <2>2. stream.kind = "objstm" /\ e.index \in DOMAIN stream.objs
        /\ Stored(id) = stream.objs[e.index]
    <3> HIDE DEF stream
    <3> QED BY <1>3, <1>5, <2>1 DEF InStream
  <2>3. PICK j \in DOMAIN xrefs : stream = Parsed(Entry(xrefs[j], e.stream), FALSE)
    <3> DEFINE t == [j \in DOMAIN xrefs |-> Parsed(Entry(xrefs[j], e.stream), FALSE)]
    <3>1. DOMAIN t \in SUBSET Nat /\ DOMAIN t = DOMAIN xrefs /\ stream = First(t)
      BY XrefsDomain DEF StoredStream
    <3>2. stream # Missing
      BY <2>2 DEF Missing
    <3>3. \E j \in DOMAIN xrefs : stream = t[j]
      <4> HIDE DEF t, stream
      <4> QED BY <3>1, <3>2, FirstIs
    <3> QED BY <3>3
  <2> DEFINE d == Entry(xrefs[j], e.stream)
  <2>4. d = Free \/ d \in Entries(doc)
    BY EntryIs
  <2> HIDE DEF stream, d
  <2>5. stream = d /\ d # Free
    <3>1. stream = Parsed(d, FALSE)
      BY <2>3 DEF d
    <3> QED BY <1>5, <2>2, <3>1 DEF Parsed
  <2>6. Stored(id) \in Packed(doc)
    <3>1. d \in Entries(doc) /\ d.kind = "objstm" /\ Stored(id) \in Range(d.objs)
      BY <2>2, <2>4, <2>5 DEF Range
    <3> QED BY <3>1 DEF Packed
  <2>7. e # Free
    BY <1>5, <1>7
  <2> QED BY <1>4, <2>6, <2>7 DEF StoredIds
<1> QED BY <1>6, <1>7

\* ... and the kids of a node are a list of kids.
LEMMA NodeKids ==
    ASSUME doc \in Documents, Sectioned, NEW id, Stored(id).kind = "pages"
    PROVE  Stored(id).kids \in Seq(Kids)
<1> DEFINE kids == Stored(id).kids
<1>1. id \in StoredIds /\ Stored(id) \in Entries(doc) \cup Packed(doc)
  BY StoredIs
<1>2. IsList(kids)
  BY <1>1, DocumentsAssumption
<1>3. Range(kids) \in SUBSET Kids
  BY <1>1 DEF Kids, Nodes
<1> HIDE DEF kids
<1>4. kids \in Seq(Range(kids))
  BY <1>2 DEF IsList
<1> QED BY <1>3, <1>4 DEF kids

\* A result of its parts.
LEMMA ResultIs ==
    ASSUME NEW p, IsPages(p), NEW v \in SUBSET KidIds, NEW r \in BOOLEAN
    PROVE  IsResult([pages |-> p, visited |-> v, raised |-> r])
BY DEF IsResult

\* Results without pages, and with others.
LEMMA NoPagesIs ==
    ASSUME NEW v
    PROVE  /\ NoPages(v) = [pages |-> <<>>, visited |-> v, raised |-> FALSE]
           /\ Raising(v) = [pages |-> <<>>, visited |-> v, raised |-> TRUE]
           /\ \A list : [NoPages(v) EXCEPT !.pages = list]
                           = [pages |-> list, visited |-> v, raised |-> FALSE]
<1>1. NoPages(v) = [pages |-> <<>>, visited |-> v, raised |-> FALSE]
  BY DEF NoPages
<1>2. NoPages(v).pages = <<>> /\ NoPages(v).visited = v /\ NoPages(v).raised = FALSE
  BY <1>1
<1> DEFINE g == NoPages(v)
<1> HIDE DEF g
<1>3. g = [pages |-> g.pages, visited |-> g.visited, raised |-> g.raised]
  BY <1>1, <1>2 DEF g
<1>4. \A x : [g EXCEPT !.raised = x] = [pages |-> g.pages, visited |-> g.visited, raised |-> x]
  BY <1>3
<1>5. \A list : [g EXCEPT !.pages = list]
                   = [pages |-> list, visited |-> g.visited, raised |-> g.raised]
  BY <1>3
<1> QED BY <1>1, <1>2, <1>4, <1>5 DEF Raising, g

\* No page, and one page.
LEMMA PageLists ==
    /\ IsPages(<<>>)
    /\ \A id, object : IsPages(<<NodeIs(id, object)>>)
<1>1. IsPages(<<>>)
  BY DEF IsPages, Sequence
<1>2. ASSUME NEW id, NEW object PROVE IsPages(<<NodeIs(id, object)>>)
  <2> DEFINE p == NodeIs(id, object)
             s == <<p>>
  <2>1. p = [id |-> p.id, attrs |-> p.attrs]
    BY DEF NodeIs
  <2> HIDE DEF p
  <2>2. Len(s) = 1 /\ DOMAIN s = 1 .. 1 /\ s = [k \in 1 .. 1 |-> s[k]] /\ s[1] = p
    OBVIOUS
  <2> HIDE DEF s
  <2>3. IsPages(s)
    BY <2>1, <2>2 DEF IsPages, Sequence
  <2> QED BY <2>3 DEF s, p
<1> QED BY <1>1, <1>2

\* None is a result, ...
LEMMA NoPagesTyped ==
    ASSUME NEW v \in SUBSET KidIds
    PROVE  IsResult(NoPages(v)) /\ IsResult(Raising(v))
<1>1. FALSE \in BOOLEAN /\ TRUE \in BOOLEAN /\ IsPages(<<>>)
  BY PageLists
<1>2. IsResult([pages |-> <<>>, visited |-> v, raised |-> FALSE])
  BY <1>1, ResultIs
<1>3. IsResult([pages |-> <<>>, visited |-> v, raised |-> TRUE])
  BY <1>1, ResultIs
<1> QED BY <1>2, <1>3, NoPagesIs

\* ... and so is what a node gives.
LEMMA OfNodeTyped ==
    ASSUME doc \in Documents, Sectioned, NEW search, IsSearch(search), NEW kid \in Kids,
           NEW visited \in SUBSET KidIds
    PROVE  IsResult(OfNode(kid, visited, search))
<1> DEFINE object == Stored(kid.id)
           known == visited \cup {kid.id}
           result == OfNode(kid, visited, search)
<1>1. known \in SUBSET KidIds
  BY DEF KidIds
<1> HIDE DEF known
<1>3. \A v \in SUBSET KidIds : IsResult(NoPages(v)) /\ IsResult(Raising(v))
  BY NoPagesTyped
<1>4. CASE \/ kid.by = "neither" \/ object = Raises
           \/ (object = Missing /\ kid.by = "number") \/ kid.id \in visited
  BY <1>3, <1>4 DEF OfNode
<1>5. CASE /\ ~(\/ kid.by = "neither" \/ object = Raises
                \/ (object = Missing /\ kid.by = "number") \/ kid.id \in visited)
           /\ object.kind = "pages"
  <2>1. object.kids \in Seq(Kids)
    BY <1>5, NodeKids
  <2>2. result = AndKids(NoPages(known), object.kids, object.attrs, search)
    BY <1>5 DEF OfNode, known
  <2> HIDE DEF object, result
  <2>3. IsResult(result)
    BY <1>1, <1>3, <2>1, <2>2, AndKidsTyped
  <2> QED BY <2>3 DEF result
<1>6. CASE /\ ~(\/ kid.by = "neither" \/ object = Raises
                \/ (object = Missing /\ kid.by = "number") \/ kid.id \in visited)
           /\ object.kind # "pages"
  <2>1. result \in {NoPages(known), Raising(known),
                    [NoPages(known) EXCEPT !.pages = <<NodeIs(kid.id, object)>>]}
    BY <1>6 DEF OfNode, known
  <2> DEFINE one == <<NodeIs(kid.id, object)>>
  <2>2. IsPages(one)
    BY PageLists
  <2> HIDE DEF one, result
  <2>3. IsResult([pages |-> one, visited |-> known, raised |-> FALSE])
    BY <1>1, <2>2, ResultIs
  <2>4. [NoPages(known) EXCEPT !.pages = one] = [pages |-> one, visited |-> known, raised |-> FALSE]
    BY NoPagesIs
  <2> QED BY <1>1, <1>3, <2>1, <2>3, <2>4 DEF one, result
<1> QED BY <1>4, <1>5, <1>6

\* By the number of frames left.
IsTree(f, n) ==
    f = [k \in 0 .. n |-> [kid \in Kids |-> [visited \in SUBSET KidIds |->
            IF k = 0 THEN Raising(visited) ELSE OfNode(kid, visited, f[k - 1])]]]

\* There is such a function, one number after the other.
LEMMA TreeExists ==
    ASSUME NEW n \in Nat
    PROVE  \E f : IsTree(f, n)
<1> DEFINE S == {k \in Nat : \E f : IsTree(f, k)}
           Level(k, below) == [kid \in Kids |-> [visited \in SUBSET KidIds |->
                IF k = 0 THEN Raising(visited) ELSE OfNode(kid, visited, below)]]
<1>1. 0 \in S
  <2> DEFINE f == [k \in 0 .. 0 |-> Level(0, 0)]
  <2>1. f = [k \in 0 .. 0 |-> Level(k, f[k - 1])]
    OBVIOUS
  <2> HIDE DEF f
  <2>2. IsTree(f, 0)
    BY <2>1 DEF IsTree
  <2> QED BY <2>2
<1>2. ASSUME NEW k \in 0 .. n, k \in S PROVE k + 1 \in S
  <2>1. PICK f : IsTree(f, k)
    BY <1>2
  <2>2. f = [i \in 0 .. k |-> Level(i, f[i - 1])]
    BY <2>1 DEF IsTree
  <2> DEFINE last == Level(k + 1, f[k])
             g == [i \in 0 .. k + 1 |-> IF i = k + 1 THEN last ELSE f[i]]
  <2>3. ASSUME NEW i \in 0 .. k + 1 PROVE g[i] = Level(i, g[i - 1])
    <3>1. CASE i = k + 1
      <4>1. g[k] = f[k] /\ g[i] = last /\ i - 1 = k
        BY <3>1
      <4> HIDE DEF g
      <4> QED BY <3>1, <4>1
    <3>2. CASE i # k + 1
      <4>1. i \in 0 .. k /\ g[i] = f[i] /\ (i # 0 => g[i - 1] = f[i - 1])
        BY <3>2
      <4>2. f[i] = Level(i, f[i - 1])
        <5> HIDE DEF Level
        <5> QED BY <2>2, <4>1
      <4>3. \A b, c : Level(0, b) = Level(0, c)
        OBVIOUS
      <4> HIDE DEF g, Level
      <4> QED BY <4>1, <4>2, <4>3
    <3> QED BY <3>1, <3>2
  <2>4. g = [i \in 0 .. k + 1 |-> g[i]]
    OBVIOUS
  <2> HIDE DEF g
  <2>5. g = [i \in 0 .. k + 1 |-> Level(i, g[i - 1])]
    <3> HIDE DEF Level
    <3> QED BY <2>3, <2>4
  <2>6. IsTree(g, k + 1)
    BY <2>5 DEF IsTree
  <2> QED BY <2>6
<1> HIDE DEF S
<1>3. n \in S
  BY <1>1, <1>2, Climb
<1> QED BY <1>3 DEF S

\* Tree is the one for all the frames.
LEMMA TreeIs ==
    \A n \in 0 .. MaxDepth : \A kid \in Kids : \A visited \in SUBSET KidIds :
        Tree[n][kid][visited] = IF n = 0 THEN Raising(visited)
                                ELSE OfNode(kid, visited, Tree[n - 1])
<1>1. Tree = CHOOSE f : IsTree(f, MaxDepth)
  BY DEF Tree, IsTree
<1>2. IsTree(Tree, MaxDepth)
  BY <1>1, TreeExists, DocumentsAssumption
<1> SUFFICES ASSUME NEW n \in 0 .. MaxDepth, NEW kid \in Kids, NEW visited \in SUBSET KidIds
             PROVE  Tree[n][kid][visited] = IF n = 0 THEN Raising(visited)
                                            ELSE OfNode(kid, visited, Tree[n - 1])
  OBVIOUS
<1> DEFINE T == Tree
<1>3. T = [k \in 0 .. MaxDepth |-> [k2 \in Kids |-> [v \in SUBSET KidIds |->
            IF k = 0 THEN Raising(v) ELSE OfNode(k2, v, T[k - 1])]]]
  BY <1>2 DEF IsTree
<1> HIDE DEF T
<1>4. T[n] = [k2 \in Kids |-> [v \in SUBSET KidIds |->
            IF n = 0 THEN Raising(v) ELSE OfNode(k2, v, T[n - 1])]]
  BY <1>3
<1>5. T[n][kid] = [v \in SUBSET KidIds |->
            IF n = 0 THEN Raising(v) ELSE OfNode(kid, v, T[n - 1])]
  BY <1>4
<1> QED BY <1>5 DEF T

\* What is below any node is a result.
LEMMA TreeTyped ==
    ASSUME doc \in Documents, Sectioned
    PROVE  \A n \in 0 .. MaxDepth : IsSearch(Tree[n])
<1> DEFINE S == {n \in 0 .. MaxDepth : IsSearch(Tree[n])}
<1>1. MaxDepth \in Nat
  BY DocumentsAssumption
<1>2. 0 \in S
  BY <1>1, NoPagesTyped, TreeIs DEF IsSearch
<1>3. ASSUME NEW k \in 0 .. MaxDepth, k # MaxDepth, k \in S PROVE k + 1 \in S
  <2>1. k + 1 \in 0 .. MaxDepth /\ k + 1 # 0 /\ (k + 1) - 1 = k
    BY <1>1, <1>3
  <2>2. IsSearch(Tree[k])
    BY <1>3
  <2>3. ASSUME NEW kid \in Kids, NEW visited \in SUBSET KidIds
        PROVE  IsResult(Tree[k + 1][kid][visited])
    <3>1. Tree[k + 1][kid][visited] = OfNode(kid, visited, Tree[k])
      BY <2>1, TreeIs
    <3>2. IsResult(OfNode(kid, visited, Tree[k]))
      BY <2>2, OfNodeTyped
    <3> QED BY <3>1, <3>2
  <2> QED BY <2>1, <2>3 DEF IsSearch
<1> HIDE DEF S
<1>4. \A k \in 0 .. MaxDepth : k \in S
  BY <1>1, <1>2, <1>3, Climb
<1> QED BY <1>4 DEF S

-----------------------------------------------------------------------------
(* Lists of pages, end to end. *)

\* f has, by n, the first n members of s end to end.
Flattens(s, n, f) == f = [i \in 1 .. n |-> IF i = 1 THEN s[i] ELSE f[i - 1] \o s[i]]
Flat(s, n) == FlattenSeq([i \in 1 .. n |-> s[i]])

\* There is one such function.
LEMMA FlattensExists ==
    ASSUME NEW s, NEW n \in Nat
    PROVE  \E f : Flattens(s, n, f)
<1> DEFINE S == {k \in Nat : \E f : Flattens(s, k, f)}
<1>1. 0 \in S
  <2>1. Flattens(s, 0, [i \in 1 .. 0 |-> 0])
    BY DEF Flattens
  <2> QED BY <2>1
<1>2. ASSUME NEW k \in 0 .. n, k \in S PROVE k + 1 \in S
  <2>1. PICK f : Flattens(s, k, f)
    BY <1>2
  <2> DEFINE g == [i \in 1 .. k + 1 |->
                    IF i = k + 1 THEN IF k = 0 THEN s[1] ELSE f[k] \o s[k + 1] ELSE f[i]]
  <2>2. ASSUME NEW i \in 1 .. k + 1 PROVE g[i] = IF i = 1 THEN s[i] ELSE g[i - 1] \o s[i]
    <3>1. CASE i = k + 1
      <4>1. k # 0 => g[i - 1] = f[k]
        BY <3>1
      <4> QED BY <3>1, <4>1
    <3>2. CASE i # k + 1
      <4>1. i \in 1 .. k /\ g[i] = f[i] /\ (i # 1 => g[i - 1] = f[i - 1])
        BY <3>2
      <4>2. f[i] = IF i = 1 THEN s[i] ELSE f[i - 1] \o s[i]
        BY <2>1, <4>1 DEF Flattens
      <4> HIDE DEF g
      <4> QED BY <4>1, <4>2
    <3> QED BY <3>1, <3>2
  <2>3. g = [i \in 1 .. k + 1 |-> g[i]]
    OBVIOUS
  <2> HIDE DEF g
  <2>4. Flattens(s, k + 1, g)
    BY <2>2, <2>3 DEF Flattens
  <2> QED BY <2>4
<1> HIDE DEF S
<1>3. n \in S
  BY <1>1, <1>2, Climb
<1> QED BY <1>3 DEF S

\* FlattenSeq gives the last of its values.
LEMMA FlatIs ==
    ASSUME NEW s, NEW n \in Nat \ {0}
    PROVE  \E f : Flattens(s, n, f) /\ Flat(s, n) = f[n]
<1> DEFINE t == [i \in 1 .. n |-> s[i]]
           flatten[i \in 1 .. n] == IF i = 1 THEN t[i] ELSE flatten[i - 1] \o t[i]
<1>1. Len(t) = n
  OBVIOUS
<1> HIDE DEF t
<1>2. FlattenSeq(t) = flatten[n]
  BY <1>1 DEF FlattenSeq
<1>3. flatten = CHOOSE f : Flattens(t, n, f)
  BY DEF Flattens
<1> HIDE DEF flatten
<1>4. Flattens(t, n, flatten)
  BY <1>3, FlattensExists
<1>5. \A i \in 1 .. n : t[i] = s[i]
  BY DEF t
<1>6. Flattens(s, n, flatten)
  BY <1>4, <1>5 DEF Flattens
<1> QED BY <1>2, <1>6 DEF Flat, t

\* Nothing end to end is nothing, ...
LEMMA FlatNone == \A s : Flat(s, 0) = <<>>
<1> SUFFICES ASSUME NEW s PROVE Flat(s, 0) = <<>>
  OBVIOUS
<1>1. [i \in 1 .. 0 |-> s[i]] = <<>> /\ Len(<<>>) = 0
  OBVIOUS
<1> QED BY <1>1 DEF Flat, FlattenSeq

\* ... and one list more comes after the others.
LEMMA FlatNext ==
    ASSUME NEW s, NEW n \in Nat, IsPages(s[n + 1])
    PROVE  Flat(s, n + 1) = Flat(s, n) \o s[n + 1]
<1>1. PICK f : Flattens(s, n + 1, f) /\ Flat(s, n + 1) = f[n + 1]
  <2> DEFINE m == n + 1
  <2>1. m \in Nat \ {0}
    OBVIOUS
  <2> HIDE DEF m
  <2>2. \E f : Flattens(s, m, f) /\ Flat(s, m) = f[m]
    BY <2>1, FlatIs
  <2> QED BY <2>2 DEF m
<1>2. CASE n = 0
  <2>1. f[1] = s[1]
    BY <1>1, <1>2 DEF Flattens
  <2>2. n + 1 = 1 /\ IsPages(s[1])
    BY <1>2
  <2>3. <<>> \o s[1] = s[1]
    BY <2>2, SequenceNone DEF IsPages
  <2>4. Flat(s, n) = <<>> /\ Flat(s, n + 1) = s[1]
    BY <1>1, <1>2, <2>1, <2>2, FlatNone
  <2> HIDE <1>2
  <2> QED BY <2>2, <2>3, <2>4
<1>3. CASE n # 0
  <2>1. PICK g : Flattens(s, n, g) /\ Flat(s, n) = g[n]
    BY <1>3, FlatIs
  <2> DEFINE S == {k \in 0 .. n : k # 0 => f[k] = g[k]}
  <2>2. \A i \in 1 .. n + 1 : f[i] = IF i = 1 THEN s[i] ELSE f[i - 1] \o s[i]
    BY <1>1 DEF Flattens
  <2>3. \A i \in 1 .. n : g[i] = IF i = 1 THEN s[i] ELSE g[i - 1] \o s[i]
    BY <2>1 DEF Flattens
  <2>4. ASSUME NEW k \in 0 .. n, k # n, k \in S PROVE k + 1 \in S
    <3>1. k + 1 \in 1 .. n + 1 /\ k + 1 \in 1 .. n /\ (k + 1) - 1 = k /\ k + 1 \in 0 .. n
      BY <2>4
    <3>2. CASE k = 0
      BY <2>2, <2>3, <3>1, <3>2
    <3>3. CASE k # 0
      <4>1. f[k] = g[k] /\ k + 1 # 1
        BY <2>4, <3>3
      <4>2. f[k + 1] = f[k] \o s[k + 1] /\ g[k + 1] = g[k] \o s[k + 1]
        BY <2>2, <2>3, <3>1, <4>1
      <4> QED BY <3>1, <4>1, <4>2
    <3> QED BY <3>2, <3>3
  <2>5. n \in S
    <3>1. 0 \in S /\ (\A k \in 0 .. n : k # n /\ k \in S => k + 1 \in S) /\ n \in 0 .. n
      BY <2>4
    <3> HIDE DEF S
    <3> QED BY <3>1, Climb
  <2>6. f[n] = g[n] /\ f[n + 1] = f[n] \o s[n + 1]
    <3>1. n + 1 \in 1 .. n + 1 /\ n + 1 # 1 /\ (n + 1) - 1 = n
      BY <1>3
    <3>2. f[n + 1] = f[n] \o s[n + 1]
      BY <2>2, <3>1
    <3> QED BY <1>3, <2>5, <3>2
  <2> QED BY <1>1, <2>1, <2>6
<1> QED BY <1>2, <1>3

\* Lists of pages end to end are one, which begins with the first of them.
LEMMA FlatPages ==
    ASSUME NEW s, NEW n \in Nat, \A i \in 1 .. n : IsPages(s[i])
    PROVE  /\ IsPages(Flat(s, n))
           /\ \A k \in 0 .. n : IsPages(Flat(s, k)) /\ Prefix(Flat(s, k), Flat(s, n))
<1> DEFINE S == {m \in 0 .. n : /\ IsPages(Flat(s, m))
                                /\ \A k \in 0 .. m : Prefix(Flat(s, k), Flat(s, m))}
<1>1. 0 \in S
  <2>1. IsPages(Flat(s, 0))
    BY FlatNone, PageLists
  <2>2. Prefix(Flat(s, 0), Flat(s, 0))
    BY <2>1, PrefixSelf
  <2> QED BY <2>1, <2>2
<1>2. ASSUME NEW m \in 0 .. n, \A k \in 0 .. m : k \in S, m # n PROVE m + 1 \in S
  <2> DEFINE a == Flat(s, m)
             b == s[m + 1]
             c == Flat(s, m + 1)
  <2>1. m + 1 \in 1 .. n /\ m + 1 \in 0 .. n /\ m \in Nat /\ m \in 0 .. m
    BY <1>2
  <2>2. IsPages(b) /\ IsPages(a) /\ \A k \in 0 .. m : IsPages(Flat(s, k)) /\ Prefix(Flat(s, k), a)
    BY <1>2, <2>1
  <2>3. c = a \o b
    BY <2>1, <2>2, FlatNext
  <2> HIDE DEF a, b, c
  <2>4. IsPages(c) /\ Prefix(a, c)
    BY <2>2, <2>3, PrefixConcat
  <2>5. ASSUME NEW k \in 0 .. m + 1 PROVE Prefix(Flat(s, k), c)
    <3>1. CASE k = m + 1
      BY <2>4, <3>1, PrefixSelf DEF c
    <3>2. CASE k # m + 1
      <4>1. k \in 0 .. m
        BY <3>2
      <4> QED BY <2>2, <2>4, <4>1, PrefixTrans
    <3> QED BY <3>1, <3>2
  <2> QED BY <2>1, <2>4, <2>5 DEF c
<1> DEFINE D == {m \in 0 .. n : \A k \in 0 .. m : k \in S}
<1>3. 0 \in D
  BY <1>1
<1>4. ASSUME NEW m \in 0 .. n, m # n, m \in D PROVE m + 1 \in D
  <2>1. \A k \in 0 .. m : k \in S
    BY <1>4
  <2>2. m + 1 \in S
    BY <1>2, <1>4, <2>1
  <2> HIDE DEF S
  <2>3. m + 1 \in 0 .. n /\ \A k \in 0 .. m + 1 : k \in S
    BY <1>4, <2>1, <2>2
  <2> QED BY <2>3
<1>5. n \in D
  <2>1. (\A k \in 0 .. n : k # n /\ k \in D => k + 1 \in D) /\ n \in 0 .. n
    BY <1>4
  <2> HIDE DEF D
  <2> QED BY <1>3, <2>1, Climb
<1>6. \A k \in 0 .. n : k \in S
  <2> HIDE DEF S
  <2> QED BY <1>5
<1> QED BY <1>6

-----------------------------------------------------------------------------
(* The pages of the sections. *)

FirstPages(ids, n) == FlattenSeq([m \in 1 .. n |-> PageAt(ids[m], Stored(ids[m]))])
FirstSections(n) == FlattenSeq([k \in 1 .. n |-> PagesOf(Objids(Section(xrefs[k])))])

\* What begins with the same goes on alike.
LEMMA PrefixAfter ==
    ASSUME NEW a, IsPages(a), NEW s, IsPages(s), NEW t, IsPages(t), Prefix(s, t)
    PROVE  Prefix(a \o s, a \o t)
<1> DEFINE b == a \o s
           c == a \o t
<1>1. Sequence(a) /\ Sequence(s) /\ Sequence(t)
  BY DEF IsPages
<1>2. /\ Len(a) \in Nat /\ Len(s) \in Nat /\ Len(t) \in Nat
      /\ Len(b) = Len(a) + Len(s) /\ Len(c) = Len(a) + Len(t)
      /\ \A i \in 1 .. Len(a) + Len(s) : b[i] = (IF i <= Len(a) THEN a[i] ELSE s[i - Len(a)])
      /\ \A i \in 1 .. Len(a) + Len(t) : c[i] = (IF i <= Len(a) THEN a[i] ELSE t[i - Len(a)])
  BY <1>1, SequenceConcat
<1> HIDE DEF b, c
<1>3. ASSUME NEW i \in 1 .. Len(b) PROVE b[i] = c[i]
  <2>1. i \in 1 .. Len(a) + Len(t)
    BY <1>2, <1>3 DEF Prefix
  <2>2. CASE i <= Len(a)
    BY <1>2, <1>3, <2>1, <2>2
  <2>3. CASE ~(i <= Len(a))
    <3>1. i - Len(a) \in 1 .. Len(s)
      BY <1>2, <1>3, <2>3
    <3>2. s[i - Len(a)] = t[i - Len(a)]
      BY <3>1 DEF Prefix
    <3> QED BY <1>2, <1>3, <2>1, <2>3, <3>2
  <2> QED BY <2>2, <2>3
<1> QED BY <1>2, <1>3 DEF Prefix, b, c

\* The page that an object is, if it is one.
LEMMA PageAtTyped == \A id, object : IsPages(PageAt(id, object))
BY PageLists DEF PageAt

\* The pages of some objects are those of the first, and so on.
LEMMA FirstPagesIs ==
    ASSUME NEW ids, Sequence(ids)
    PROVE  /\ PagesOf(ids) = FirstPages(ids, Len(ids)) /\ IsPages(PagesOf(ids))
           /\ FirstPages(ids, 0) = <<>>
           /\ \A n \in 0 .. Len(ids) :
                IsPages(FirstPages(ids, n)) /\ Prefix(FirstPages(ids, n), PagesOf(ids))
           /\ \A n \in 0 .. Len(ids) - 1 :
                FirstPages(ids, n + 1)
                    = FirstPages(ids, n) \o PageAt(ids[n + 1], Stored(ids[n + 1]))
<1> DEFINE s == [m \in DOMAIN ids |-> PageAt(ids[m], Stored(ids[m]))]
<1>1. Len(ids) \in Nat /\ DOMAIN ids = 1 .. Len(ids)
  BY DEF Sequence
<1>2. \A m \in 1 .. Len(ids) : IsPages(s[m]) /\ s[m] = PageAt(ids[m], Stored(ids[m]))
  BY <1>1, PageAtTyped
<1>3. ASSUME NEW n \in 0 .. Len(ids) PROVE FirstPages(ids, n) = Flat(s, n)
  <2>1. \A m \in 1 .. n : m \in 1 .. Len(ids)
    BY <1>1
  <2>2. \A m \in 1 .. n : PageAt(ids[m], Stored(ids[m])) = s[m]
    BY <1>2, <2>1
  <2> HIDE DEF s
  <2>3. [m \in 1 .. n |-> PageAt(ids[m], Stored(ids[m]))] = [m \in 1 .. n |-> s[m]]
    BY <2>2
  <2> QED BY <2>3 DEF FirstPages, Flat
<1>4. PagesOf(ids) = FirstPages(ids, Len(ids))
  BY <1>1 DEF PagesOf, FirstPages
<1> HIDE DEF s
<1>5. \A n \in 0 .. Len(ids) : IsPages(Flat(s, n)) /\ Prefix(Flat(s, n), Flat(s, Len(ids)))
  BY <1>1, <1>2, FlatPages
<1>6. ASSUME NEW n \in 0 .. Len(ids) - 1
      PROVE  FirstPages(ids, n + 1) = FirstPages(ids, n) \o PageAt(ids[n + 1], Stored(ids[n + 1]))
  <2>1. n \in Nat /\ n \in 0 .. Len(ids) /\ n + 1 \in 0 .. Len(ids) /\ n + 1 \in 1 .. Len(ids)
    BY <1>1
  <2>2. Flat(s, n + 1) = Flat(s, n) \o s[n + 1]
    BY <1>2, <2>1, FlatNext
  <2> QED BY <1>2, <1>3, <2>1, <2>2
<1>7. 0 \in 0 .. Len(ids) /\ Len(ids) \in 0 .. Len(ids)
  BY <1>1
<1>8. FirstPages(ids, 0) = <<>>
  BY <1>3, <1>7, FlatNone
<1>9. \A n \in 0 .. Len(ids) : IsPages(FirstPages(ids, n)) /\ Prefix(FirstPages(ids, n), PagesOf(ids))
  BY <1>3, <1>4, <1>5, <1>7
<1>10. IsPages(PagesOf(ids))
  BY <1>4, <1>7, <1>9
<1> QED BY <1>4, <1>6, <1>8, <1>9, <1>10

\* The ids of a section are a list.
LEMMA SectionIds ==
    ASSUME doc \in Documents, Sectioned, NEW k \in DOMAIN xrefs
    PROVE  Sequence(Objids(Section(xrefs[k])))
<1> DEFINE ids == Objids(Section(xrefs[k]))
<1>1. Section(xrefs[k]) \in Readable(doc)
  BY DEF Sectioned
<1>2. IsList(ids)
  BY <1>1, DocumentsAssumption
<1> HIDE DEF ids
<1>3. ids \in Seq(Range(ids))
  BY <1>2 DEF IsList
<1>4. Sequence(ids)
  BY <1>3 DEF Sequence
<1> QED BY <1>4 DEF ids

\* The pages of the sections are those of the first, and so on.
LEMMA FirstSectionsIs ==
    ASSUME doc \in Documents, Sectioned
    PROVE  /\ Len(xrefs) \in Nat /\ DOMAIN xrefs = 1 .. Len(xrefs)
           /\ SectionPages = FirstSections(Len(xrefs)) /\ IsPages(SectionPages)
           /\ FirstSections(0) = <<>>
           /\ \A n \in 0 .. Len(xrefs) :
                IsPages(FirstSections(n)) /\ Prefix(FirstSections(n), SectionPages)
           /\ \A n \in 0 .. Len(xrefs) - 1 :
                FirstSections(n + 1) = FirstSections(n) \o PagesOf(Objids(Section(xrefs[n + 1])))
<1> DEFINE s == [k \in DOMAIN xrefs |-> PagesOf(Objids(Section(xrefs[k])))]
           l == Len(xrefs)
<1>1. l \in Nat /\ DOMAIN xrefs = 1 .. l
  BY DEF Sectioned
<1>2. \A k \in 1 .. l : IsPages(s[k]) /\ s[k] = PagesOf(Objids(Section(xrefs[k])))
  BY <1>1, SectionIds, FirstPagesIs
<1>3. ASSUME NEW n \in 0 .. l PROVE FirstSections(n) = Flat(s, n)
  <2>1. \A k \in 1 .. n : k \in 1 .. l
    BY <1>1
  <2>2. \A k \in 1 .. n : PagesOf(Objids(Section(xrefs[k]))) = s[k]
    BY <1>2, <2>1
  <2> HIDE DEF s
  <2>3. [k \in 1 .. n |-> PagesOf(Objids(Section(xrefs[k])))] = [k \in 1 .. n |-> s[k]]
    BY <2>2
  <2> QED BY <2>3 DEF FirstSections, Flat
<1>4. SectionPages = FirstSections(l)
  BY <1>1 DEF SectionPages, FirstSections
<1> HIDE DEF s, l
<1>5. \A n \in 0 .. l : IsPages(Flat(s, n)) /\ Prefix(Flat(s, n), Flat(s, l))
  BY <1>1, <1>2, FlatPages
<1>6. ASSUME NEW n \in 0 .. l - 1
      PROVE  FirstSections(n + 1) = FirstSections(n) \o PagesOf(Objids(Section(xrefs[n + 1])))
  <2>1. n \in Nat /\ n \in 0 .. l /\ n + 1 \in 0 .. l /\ n + 1 \in 1 .. l
    BY <1>1
  <2>2. Flat(s, n + 1) = Flat(s, n) \o s[n + 1]
    BY <1>2, <2>1, FlatNext
  <2> QED BY <1>2, <1>3, <2>1, <2>2
<1>7. 0 \in 0 .. l /\ l \in 0 .. l
  BY <1>1
<1>8. FirstSections(0) = <<>>
  BY <1>3, <1>7, FlatNone
<1>9. \A n \in 0 .. l : IsPages(FirstSections(n)) /\ Prefix(FirstSections(n), SectionPages)
  BY <1>3, <1>4, <1>5, <1>7
<1>10. IsPages(SectionPages)
  BY <1>4, <1>7, <1>9
<1> QED BY <1>1, <1>4, <1>6, <1>8, <1>9, <1>10 DEF l

\* The pages of a file are a list of pages, whether its tree has them or not.
LEMMA WholeTyped ==
    ASSUME doc \in Documents, Sectioned
    PROVE  IsResult(WholeTree) /\ IsPages(WholeList)
<1>1. IsResult(WholeTree)
  <2>1. CASE catalog.hasPages
    <3>1. catalog.pages \in Kids /\ {} \in SUBSET KidIds /\ MaxDepth \in 0 .. MaxDepth
      BY DocumentsAssumption DEF Kids
    <3>2. IsSearch(Tree[MaxDepth])
      BY <3>1, TreeTyped
    <3>3. IsResult(Tree[MaxDepth][catalog.pages][{}])
      BY <3>1, <3>2 DEF IsSearch
    <3> QED BY <2>1, <3>3 DEF WholeTree
  <2>2. CASE ~catalog.hasPages
    BY <2>2, NoPagesTyped DEF WholeTree
  <2> QED BY <2>1, <2>2
<1>2. IsPages(WholeTree.pages)
  BY <1>1 DEF IsResult
<1> DEFINE list == WholeTree.pages
           whole == Inherit(list, catalog.attrs)
<1>3. IsPages(whole)
  <2> HIDE DEF list
  <2> QED BY <1>2, InheritIs DEF list
<1> QED BY <1>1, <1>3, FirstSectionsIs DEF WholeList

-----------------------------------------------------------------------------
(* The searches at work: what each of them will have given, the innermost     *)
(* last, from what was found so far.                                          *)

Found(list, visited) == [pages |-> list, visited |-> visited, raised |-> FALSE]

\* What a search at work, the j-th, gives after what was found.
Gives(frame, found, j) ==
    IF frame.started THEN AndKids(found, frame.kids, frame.props, Tree[MaxDepth - j])
    ELSE AndKid(found, frame.kid, frame.parent, Tree[MaxDepth - j + 1])

IsFrame(f, j) ==
    /\ Record(f, {"kid", "parent", "kids", "props", "started"})
    /\ f.kid \in Kids /\ f.kids \in Seq(Kids) /\ f.started \in BOOLEAN
    /\ f.started => j <= MaxDepth

\* The pages of the whole tree, as the consumer gets them.
Lifted == Lift(<<>>, catalog.attrs, WholeTree)

\* Each search gives what the one below it gives, and more; only the innermost has
\* not started.
Climbs(stack, T) ==
    /\ Sequence(stack) /\ Len(stack) <= MaxDepth + 1
    /\ T[1] = Lifted
    /\ \A j \in 1 .. Len(stack) + 1 :
        IsResult(T[j]) /\ \A i \in j .. Len(stack) + 1 : Prefix(T[i].pages, T[j].pages)
    /\ \A j \in 1 .. Len(stack) :
        /\ IsFrame(stack[j], j) /\ T[j] = Gives(stack[j], T[j + 1], j)
        /\ j # Len(stack) => stack[j].started

\* A sequence without its last element.
LEMMA SequenceFront ==
    ASSUME NEW s, Sequence(s), s # <<>>, NEW t, t = SubSeq(s, 1, Len(s) - 1)
    PROVE  /\ Len(s) \in Nat \ {0} /\ DOMAIN s = 1 .. Len(s)
           /\ Sequence(t) /\ Len(t) = Len(s) - 1
           /\ \A k \in 1 .. Len(s) - 1 : t[k] = s[k]
<1> DEFINE S == {s[k] : k \in DOMAIN s}
<1>1. s \in Seq(S)
  BY DEF Sequence
<1> HIDE DEF S
<1>2. Len(s) \in Nat \ {0} /\ DOMAIN s = 1 .. Len(s)
  BY <1>1
<1>3. t \in Seq(S) /\ Len(t) = Len(s) - 1 /\ \A k \in 1 .. Len(s) - 1 : t[k] = s[k]
  BY <1>1, <1>2
<1>4. Sequence(t)
  BY <1>3 DEF Sequence
<1> QED BY <1>2, <1>3, <1>4

\* The innermost search ends, ...
LEMMA ClimbsPop ==
    ASSUME NEW stack, NEW T, Climbs(stack, T), stack # <<>>,
           NEW above, above = SubSeq(stack, 1, Len(stack) - 1)
    PROVE  /\ Climbs(above, T) /\ Len(stack) \in Nat \ {0} /\ Len(above) = Len(stack) - 1
           /\ above # <<>> => above[Len(above)].started
<1> DEFINE n == Len(stack)
           m == Len(above)
<1>1. /\ n \in Nat \ {0} /\ m = n - 1 /\ Sequence(above)
      /\ \A k \in 1 .. n - 1 : above[k] = stack[k]
  BY SequenceFront DEF Climbs
<1>2. MaxDepth \in Nat
  BY DocumentsAssumption
<1>3. m <= MaxDepth + 1 /\ \A j \in 1 .. m + 1 : j \in 1 .. n + 1 /\ \A i \in j .. m + 1 : i \in j .. n + 1
  BY <1>1, <1>2 DEF Climbs
<1>4. \A j \in 1 .. m : j \in 1 .. n /\ j # n /\ above[j] = stack[j]
  BY <1>1
<1> HIDE DEF n, m
<1>5. \A j \in 1 .. m + 1 : IsResult(T[j]) /\ \A i \in j .. m + 1 : Prefix(T[i].pages, T[j].pages)
  BY <1>3 DEF Climbs, n
<1>6. \A j \in 1 .. m : IsFrame(above[j], j) /\ T[j] = Gives(above[j], T[j + 1], j) /\ above[j].started
  BY <1>4 DEF Climbs, n
<1>7. T[1] = Lifted
  BY DEF Climbs
<1>8. above # <<>> => m \in 1 .. m
  <2>1. above # <<>> => m # 0
    <3>1. m = 0 => above = <<>>
      BY <1>1 DEF Sequence, m
    <3> QED BY <3>1
  <2> QED BY <1>1, <2>1
<1> QED BY <1>1, <1>3, <1>5, <1>6, <1>7, <1>8 DEF Climbs, n, m

\* ... and another starts.
LEMMA ClimbsPush ==
    ASSUME NEW stack, NEW T, Climbs(stack, T), stack # <<>> => stack[Len(stack)].started,
           Len(stack) <= MaxDepth, NEW f, IsFrame(f, Len(stack) + 1),
           NEW found, IsResult(found), Gives(f, found, Len(stack) + 1) = T[Len(stack) + 1],
           Prefix(found.pages, T[Len(stack) + 1].pages)
    PROVE  /\ Len(Append(stack, f)) = Len(stack) + 1
           /\ \E U : Climbs(Append(stack, f), U) /\ U[Len(stack) + 2] = found
<1> DEFINE n == Len(stack)
           more == Append(stack, f)
           U == [j \in 1 .. n + 2 |-> IF j = n + 2 THEN found ELSE T[j]]
<1>1. /\ n \in Nat /\ Sequence(more) /\ Len(more) = n + 1 /\ more[n + 1] = f
      /\ \A k \in 1 .. n : more[k] = stack[k]
  BY SequenceAppend DEF Climbs
<1>2. MaxDepth \in Nat
  BY DocumentsAssumption
<1>3. Len(more) <= MaxDepth + 1
  BY <1>1, <1>2
<1>4. U[n + 2] = found /\ \A j \in 1 .. n + 1 : U[j] = T[j]
  BY <1>1
<1> HIDE DEF more, U
<1>5. U[1] = Lifted
  <2>1. 1 \in 1 .. n + 1
    BY <1>1
  <2> QED BY <1>4, <2>1 DEF Climbs
<1>6. ASSUME NEW j \in 1 .. n + 2
      PROVE  IsResult(U[j]) /\ \A i \in j .. n + 2 : Prefix(U[i].pages, U[j].pages)
  <2>1. CASE j = n + 2
    <3>1. U[j] = found /\ \A i \in j .. n + 2 : i = j
      BY <1>1, <1>4, <2>1
    <3> QED BY <3>1, PrefixSelf DEF IsResult
  <2>2. CASE j # n + 2
    <3>1. j \in 1 .. n + 1 /\ U[j] = T[j] /\ n + 1 \in j .. n + 1
      BY <1>1, <1>4, <2>2
    <3>2. IsResult(T[j]) /\ \A i \in j .. n + 1 : Prefix(T[i].pages, T[j].pages)
      BY <3>1 DEF Climbs
    <3>3. IsResult(T[n + 1])
      <4>1. n + 1 \in 1 .. n + 1
        BY <1>1
      <4> QED BY <4>1 DEF Climbs
    <3>4. ASSUME NEW i \in j .. n + 2 PROVE Prefix(U[i].pages, T[j].pages)
      <4>1. CASE i = n + 2
        <5>1. Prefix(found.pages, T[n + 1].pages) /\ Prefix(T[n + 1].pages, T[j].pages)
          BY <3>1, <3>2
        <5>2. Prefix(found.pages, T[j].pages)
          BY <3>2, <3>3, <5>1, PrefixTrans DEF IsResult
        <5> QED BY <1>4, <4>1, <5>2
      <4>2. CASE i # n + 2
        <5>1. i \in j .. n + 1 /\ i \in 1 .. n + 1
          BY <1>1, <3>1, <4>2
        <5> QED BY <1>4, <3>2, <5>1
      <4> QED BY <4>1, <4>2
    <3> QED BY <3>1, <3>2, <3>4
  <2> QED BY <2>1, <2>2
<1>7. ASSUME NEW j \in 1 .. n + 1
      PROVE  /\ IsFrame(more[j], j) /\ U[j] = Gives(more[j], U[j + 1], j)
             /\ j # n + 1 => more[j].started
  <2>1. CASE j = n + 1
    <3>1. more[j] = f /\ U[j] = T[n + 1] /\ j + 1 = n + 2 /\ U[j + 1] = found
      BY <1>1, <1>4, <2>1
    <3> QED BY <2>1, <3>1
  <2>2. CASE j # n + 1
    <3>1. j \in 1 .. n /\ j + 1 \in 1 .. n + 1
      BY <1>1, <2>2
    <3>2. more[j] = stack[j] /\ U[j] = T[j] /\ U[j + 1] = T[j + 1]
      BY <1>1, <1>4, <3>1
    <3>3. IsFrame(stack[j], j) /\ T[j] = Gives(stack[j], T[j + 1], j) /\ (j # n => stack[j].started)
      BY <3>1 DEF Climbs
    <3>4. stack # <<>>
      <4>1. stack = <<>> => n = 0
        OBVIOUS
      <4> QED BY <3>1, <4>1
    <3>5. stack[n].started
      BY <3>4
    <3> QED BY <3>2, <3>3, <3>5
  <2> QED BY <2>1, <2>2
<1>8. Len(more) + 1 = n + 2
  BY <1>1
<1>9. Climbs(more, U)
  BY <1>1, <1>3, <1>5, <1>6, <1>7, <1>8 DEF Climbs
<1> QED BY <1>1, <1>4, <1>9 DEF more

-----------------------------------------------------------------------------
(* Where the generator is, by the pages it has given. *)

\* Where the generator is, when it has given the pages of a list: it has not started,
\* it walks the tree, it goes through the sections, ...
PhaseStart(w, list) == /\ w.at = "start" /\ list = <<>> /\ w.visited = {} /\ w.pages = FALSE
                       /\ w.page = NoPage
                       /\ w.xref = 1 /\ w.ids = <<>>
PhaseTree(w, list) ==
    /\ w.at = "tree" /\ w.xref = 1 /\ w.ids = <<>>
    /\ w.pages = (list # <<>>)
    /\ \E T : Climbs(w.stack, T) /\ T[Len(w.stack) + 1] = Found(list, w.visited)

\* ... of which it has read those before one, and of that one the first few ids, ...
PhaseSection(w, list) ==
    \/ w.xref = 1 /\ w.ids = <<>> /\ list = <<>>
    \/ /\ w.xref \in 2 .. Len(xrefs) + 1
       /\ LET ids == Objids(Section(xrefs[w.xref - 1]))
          IN  \E n \in 0 .. Len(ids) :
                /\ w.ids = SubSeq(ids, n + 1, Len(ids))
                /\ list = FirstSections(w.xref - 2) \o FirstPages(ids, n)
PhaseXrefs(w, list) == /\ w.at = "xrefs" /\ ~WholeTree.raised /\ WholeTree.pages = <<>>
                       /\ PhaseSection(w, list)

\* ... or it has ended, with all the pages or an exception.
PhaseDone(w, list) == w.at = "done" /\ list = WholeList /\ ~WholeTree.raised
PhaseRaised(w, list) == w.at = "raised" /\ Prefix(list, WholeList)

Phase(w, list) ==
    /\ IsPages(list)
    /\ \/ PhaseStart(w, list) \/ PhaseTree(w, list) \/ PhaseXrefs(w, list)
       \/ PhaseDone(w, list) \/ PhaseRaised(w, list)

\* The pages given so far are the first of the file, in the tree ...
LEMMA TreePrefix ==
    ASSUME doc \in Documents, Sectioned, NEW stack, NEW T, Climbs(stack, T),
           NEW list, IsPages(list), NEW v, T[Len(stack) + 1] = Found(list, v)
    PROVE  Prefix(list, WholeList)
<1> DEFINE tree == WholeTree.pages
           whole == Inherit(tree, catalog.attrs)
           n == Len(stack)
<1>1. IsPages(tree) /\ IsPages(WholeList)
  BY WholeTyped DEF IsResult
<1>2. IsPages(whole) /\ Len(whole) = Len(tree)
  <2> HIDE DEF tree
  <2> QED BY <1>1, InheritIs
<1>3. Lifted.pages = <<>> \o whole
  BY DEF Lifted, Lift
<1> HIDE DEF whole
<1>4. Lifted.pages = whole
  BY <1>2, <1>3, SequenceNone DEF IsPages
<1>5. n \in Nat
  BY DEF Climbs, Sequence
<1>6. Prefix(list, whole)
  <2>1. 1 \in 1 .. n + 1 /\ n + 1 \in 1 .. n + 1
    BY <1>5
  <2>2. Prefix(T[n + 1].pages, T[1].pages) /\ T[1] = Lifted
    BY <2>1 DEF Climbs
  <2>3. T[n + 1].pages = list
    BY DEF Found
  <2> QED BY <1>4, <2>2, <2>3
<1>7. CASE Len(list) = 0
  BY <1>1, <1>7 DEF Prefix, IsPages, Sequence
<1>8. CASE Len(list) # 0
  <2>1. Len(tree) # 0
    BY <1>2, <1>6, <1>8 DEF Prefix, IsPages, Sequence
  <2>2. tree # <<>>
    BY <2>1
  <2>3. WholeList = whole
    BY <2>2 DEF WholeList, whole
  <2> QED BY <1>6, <2>3
<1> QED BY <1>7, <1>8

\* ... and in the sections.
LEMMA SectionPrefix ==
    ASSUME doc \in Documents, Sectioned, NEW w, NEW list, IsPages(list), PhaseSection(w, list)
    PROVE  Prefix(list, SectionPages)
<1>1. /\ Len(xrefs) \in Nat /\ DOMAIN xrefs = 1 .. Len(xrefs)
      /\ IsPages(SectionPages)
      /\ \A n \in 0 .. Len(xrefs) :
           IsPages(FirstSections(n)) /\ Prefix(FirstSections(n), SectionPages)
      /\ \A n \in 0 .. Len(xrefs) - 1 :
           FirstSections(n + 1) = FirstSections(n) \o PagesOf(Objids(Section(xrefs[n + 1])))
  BY FirstSectionsIs
<1>2. CASE list = <<>>
  <2>1. Len(list) = 0
    BY <1>2
  <2> QED BY <1>1, <2>1 DEF Prefix, IsPages, Sequence
<1>3. CASE list # <<>>
  <2> DEFINE k == w.xref - 2
             ids == Objids(Section(xrefs[w.xref - 1]))
  <2>1. w.xref \in 2 .. Len(xrefs) + 1
        /\ \E n \in 0 .. Len(ids) : list = FirstSections(k) \o FirstPages(ids, n)
    BY <1>3 DEF PhaseSection
  <2>2. PICK n \in 0 .. Len(ids) : list = FirstSections(k) \o FirstPages(ids, n)
    BY <2>1
  <2>3. k \in 0 .. Len(xrefs) - 1 /\ k \in 0 .. Len(xrefs) /\ k + 1 \in 0 .. Len(xrefs)
        /\ k + 1 = w.xref - 1 /\ w.xref - 1 \in DOMAIN xrefs
    <3> DEFINE x == w.xref
               l == Len(xrefs)
    <3>1. x \in 2 .. l + 1 /\ l \in Nat /\ DOMAIN xrefs = 1 .. l
      BY <1>1, <2>1
    <3> HIDE DEF x, l
    <3>2. x - 2 \in 0 .. l - 1 /\ x - 2 \in 0 .. l /\ (x - 2) + 1 \in 0 .. l
          /\ (x - 2) + 1 = x - 1 /\ x - 1 \in 1 .. l
      BY <3>1
    <3> QED BY <3>1, <3>2 DEF x, l
  <2>4. Sequence(ids)
    BY <2>3, SectionIds
  <2> HIDE DEF ids
  <2>5. IsPages(FirstPages(ids, n)) /\ Prefix(FirstPages(ids, n), PagesOf(ids)) /\ IsPages(PagesOf(ids))
    BY <2>2, <2>4, FirstPagesIs
  <2> DEFINE a == FirstSections(k)
             b == FirstSections(k + 1)
  <2>6. IsPages(a) /\ IsPages(b) /\ Prefix(b, SectionPages)
    BY <1>1, <2>3
  <2>7. b = a \o PagesOf(ids)
    BY <1>1, <2>3 DEF ids
  <2> HIDE DEF a, b
  <2>8. Prefix(list, b)
    BY <2>2, <2>5, <2>6, <2>7, PrefixAfter DEF a
  <2> QED BY <1>1, <2>6, <2>8, PrefixTrans
<1> QED BY <1>2, <1>3

\* So they are wherever the generator is.
LEMMA PhasePrefix ==
    ASSUME doc \in Documents, Sectioned, NEW w, NEW list, Phase(w, list)
    PROVE  Prefix(list, WholeList)
<1>1. IsPages(list) /\ IsPages(WholeList)
  BY WholeTyped DEF Phase
<1>2. CASE PhaseStart(w, list)
  <2>1. Len(list) = 0
    BY <1>2 DEF PhaseStart
  <2> QED BY <1>1, <2>1 DEF Prefix, IsPages, Sequence
<1>3. CASE PhaseTree(w, list)
  BY <1>1, <1>3, TreePrefix DEF PhaseTree
<1>4. CASE PhaseXrefs(w, list)
  <2>1. Prefix(list, SectionPages)
    BY <1>1, <1>4, SectionPrefix DEF PhaseXrefs
  <2>2. WholeList = SectionPages
    BY <1>4 DEF PhaseXrefs, WholeList
  <2> QED BY <2>1, <2>2
<1>5. CASE PhaseDone(w, list)
  BY <1>1, <1>5, PrefixSelf DEF PhaseDone
<1>6. CASE PhaseRaised(w, list)
  BY <1>6 DEF PhaseRaised
<1> QED BY <1>2, <1>3, <1>4, <1>5, <1>6 DEF Phase

-----------------------------------------------------------------------------
(* Each step of the generator, from where it was. *)

\* The generator goes on, with a page more or none.
GoesOn(list) ==
    \E more : /\ Phase(walk', more)
              /\ more = IF walk'.page = NoPage THEN list ELSE Append(list, walk'.page)

\* It raises: what it has given is given.
LEMMA RaisesOn ==
    ASSUME doc \in Documents, Sectioned, Generator, Resumed, NEW list, Phase(walk, list),
           walk' = [walk EXCEPT !.at = "raised"]
    PROVE  GoesOn(list)
<1>1. walk'.at = "raised" /\ walk'.page = NoPage
  BY DEF Generator, Record, Resumed
<1>2. PhaseRaised(walk', list) /\ IsPages(list)
  BY <1>1, PhasePrefix DEF PhaseRaised, Phase
<1> QED BY <1>1, <1>2 DEF GoesOn, Phase

\* It starts, at the root of the tree or with the sections.
LEMMA StartsOn ==
    ASSUME doc \in Documents, Sectioned, Generator, NEW list, Phase(walk, list), WalkStarts
    PROVE  GoesOn(list)
<1>1. walk.at = "start"
  BY DEF WalkStarts
<1>2. PhaseStart(walk, list) /\ list = <<>> /\ IsPages(list)
  BY <1>1 DEF Phase, PhaseStart, PhaseTree, PhaseXrefs, PhaseDone, PhaseRaised
<1>3. MaxDepth \in Nat \ {0}
  BY DocumentsAssumption
<1>4. CASE catalog.hasPages
  <2> DEFINE kid == catalog.pages
             frame == Search(kid, catalog.attrs)
             none == Found(<<>>, {})
             T == [j \in 1 .. 1 |-> Lifted]
  <2>1. /\ walk'.at = "tree" /\ walk'.stack = <<frame>> /\ walk'.page = NoPage
        /\ walk'.visited = {} /\ walk'.pages = FALSE /\ walk'.xref = 1 /\ walk'.ids = <<>>
    BY <1>2, <1>4 DEF WalkStarts, Generator, Record, PhaseStart
  <2>2. IsResult(Lifted)
    BY WholeTyped, LiftIs, PageLists DEF Lifted
  <2>3. Climbs(<<>>, T)
    <3>1. Sequence(<<>>) /\ Len(<<>>) = 0 /\ Len(<<>>) <= MaxDepth + 1
      BY <1>3 DEF Sequence
    <3>2. T[1] = Lifted
      OBVIOUS
    <3> HIDE DEF T
    <3>3. \A j \in 1 .. Len(<<>>) + 1 : j = 1 /\ IsResult(T[j])
            /\ \A i \in j .. Len(<<>>) + 1 : i = j /\ Prefix(T[i].pages, T[j].pages)
      <4>1. Prefix(T[1].pages, T[1].pages)
        BY <2>2, <3>2, PrefixSelf DEF IsResult
      <4> QED BY <2>2, <3>1, <3>2, <4>1
    <3> QED BY <3>1, <3>2, <3>3 DEF Climbs
  <2>4. none = [pages |-> <<>>, visited |-> {}, raised |-> FALSE] /\ none.raised = FALSE
        /\ none.visited = {} /\ none.pages = <<>>
    BY DEF Found
  <2>5. IsResult(none)
    BY <2>4, PageLists DEF IsResult
  <2>6. kid \in Kids /\ IsSearch(Tree[MaxDepth])
    BY <1>3, TreeTyped DEF Kids
  <2>7. AndKid(none, kid, catalog.attrs, Tree[MaxDepth]) = Lifted
    <3> HIDE DEF none, kid
    <3>1. AndKid(none, kid, catalog.attrs, Tree[MaxDepth])
            = Lift(none.pages, catalog.attrs, Tree[MaxDepth][kid][none.visited])
      BY <2>4, <2>5, <2>6, AndKidIs
    <3> QED BY <1>4, <2>4, <3>1 DEF Lifted, WholeTree, kid
  <2>8. /\ frame.kid = kid /\ frame.parent = catalog.attrs /\ frame.started = FALSE
        /\ frame.kids = <<>> /\ frame.props = <<>>
        /\ Record(frame, {"kid", "parent", "kids", "props", "started"})
    BY DEF Search, Record
  <2>9. IsFrame(frame, 1)
    <3> HIDE DEF frame
    <3>1. frame.kids \in Seq(Kids) /\ frame.kid \in Kids
      BY <2>6, <2>8
    <3>2. frame.started \in BOOLEAN /\ ~frame.started
      BY <2>8
    <3> QED BY <2>8, <3>1, <3>2 DEF IsFrame
  <2>10. Gives(frame, none, 1) = Lifted
    <3>1. (MaxDepth - 1) + 1 = MaxDepth
      BY <1>3
    <3> HIDE DEF frame, none
    <3> QED BY <2>7, <2>8, <3>1 DEF Gives
  <2>11. Prefix(none.pages, Lifted.pages)
    <3>1. Len(none.pages) = 0 /\ Len(Lifted.pages) \in Nat
      BY <2>2, <2>4 DEF IsResult, IsPages, Sequence
    <3> QED BY <3>1 DEF Prefix
  <2>12. \E U : Climbs(walk'.stack, U) /\ U[Len(walk'.stack) + 1] = none
    <3>1. Len(<<>>) = 0 /\ Append(<<>>, frame) = walk'.stack /\ T[1] = Lifted
          /\ Len(walk'.stack) + 1 = 2
      BY <2>1
    <3>2. Len(<<>>) <= MaxDepth
      BY <1>3, <3>1
    <3>3. 0 + 1 = 1 /\ 0 + 2 = 2
      OBVIOUS
    <3> DEFINE s == <<>>
    <3> HIDE DEF T, frame, none
    <3>5. /\ Climbs(s, T) /\ Len(s) <= MaxDepth /\ Len(s) + 1 = 1 /\ Len(s) + 2 = 2
          /\ s # <<>> => s[Len(s)].started
      BY <2>3, <3>1, <3>2
    <3>6. Append(s, frame) = walk'.stack
      BY <3>1
    <3> HIDE DEF s
    <3>7. /\ IsFrame(frame, Len(s) + 1) /\ Gives(frame, none, Len(s) + 1) = T[Len(s) + 1]
          /\ Prefix(none.pages, T[Len(s) + 1].pages)
      BY <2>9, <2>10, <2>11, <3>1, <3>5
    <3>4. \E U : Climbs(Append(s, frame), U) /\ U[Len(s) + 2] = none
      BY <2>5, <3>5, <3>7, ClimbsPush
    <3> QED BY <3>1, <3>4, <3>5, <3>6
  <2>13. PhaseTree(walk', list)
    BY <1>2, <2>1, <2>12 DEF PhaseTree
  <2> QED BY <1>2, <2>1, <2>13 DEF GoesOn, Phase
<1>5. CASE ~catalog.hasPages
  <2>1. walk'.at = "xrefs" /\ walk'.page = NoPage /\ walk'.xref = 1 /\ walk'.ids = <<>>
    BY <1>2, <1>5 DEF WalkStarts, Generator, Record, PhaseStart
  <2>2. ~WholeTree.raised /\ WholeTree.pages = <<>>
    BY <1>5, NoPagesIs DEF WholeTree
  <2>3. PhaseXrefs(walk', list)
    BY <1>2, <2>1, <2>2 DEF PhaseXrefs, PhaseSection
  <2> QED BY <1>2, <2>1, <2>3 DEF GoesOn, Phase
<1> QED BY <1>4, <1>5

\* The tree has been walked: its pages are all, or the sections come.
LEMMA TreeEndsOn ==
    ASSUME doc \in Documents, Sectioned, Generator, NEW list, Phase(walk, list), TreeEnds
    PROVE  GoesOn(list)
<1>1. /\ walk.at = "tree" /\ walk.stack = <<>> /\ walk'.page = NoPage
      /\ walk'.xref = walk.xref /\ walk'.ids = walk.ids
      /\ walk'.at = IF walk.pages THEN "done" ELSE "xrefs"
  BY DEF TreeEnds, Generator, Record, Resumed
<1>2. PhaseTree(walk, list) /\ IsPages(list)
  BY <1>1 DEF Phase, PhaseStart, PhaseTree, PhaseXrefs, PhaseDone, PhaseRaised
<1>3. Lifted = Found(list, walk.visited)
  <2>1. PICK T : Climbs(walk.stack, T) /\ T[Len(walk.stack) + 1] = Found(list, walk.visited)
    BY <1>2 DEF PhaseTree
  <2>2. Len(walk.stack) + 1 = 1
    BY <1>1
  <2> QED BY <2>1, <2>2 DEF Climbs
<1> DEFINE tree == WholeTree.pages
           whole == Inherit(tree, catalog.attrs)
<1>4. IsPages(tree) /\ WholeTree.raised \in BOOLEAN
  BY WholeTyped DEF IsResult
<1>5. IsPages(whole) /\ Len(whole) = Len(tree)
  <2> HIDE DEF tree
  <2> QED BY <1>4, InheritIs
<1>6. list = <<>> \o whole /\ WholeTree.raised = FALSE
  <2>1. Lifted.pages = <<>> \o whole /\ Lifted.raised = WholeTree.raised
    BY DEF Lifted, Lift
  <2>2. Lifted.pages = list /\ Lifted.raised = FALSE
    BY <1>3 DEF Found
  <2> QED BY <2>1, <2>2
<1> HIDE DEF whole, tree
<1>7. list = whole
  BY <1>5, <1>6, SequenceNone DEF IsPages
<1>8. CASE walk.pages
  <2>1. list # <<>>
    BY <1>2, <1>8 DEF PhaseTree
  <2>2. Len(list) # 0
    BY <1>2, <2>1 DEF IsPages, Sequence
  <2>3. tree # <<>>
    <3>1. tree = <<>> => Len(tree) = 0
      OBVIOUS
    <3> QED BY <1>5, <1>7, <2>2, <3>1
  <2>4. WholeList = list
    BY <1>7, <2>3 DEF WholeList, whole, tree
  <2>5. PhaseDone(walk', list)
    BY <1>1, <1>6, <1>8, <2>4 DEF PhaseDone
  <2> QED BY <1>1, <1>2, <2>5 DEF GoesOn, Phase
<1>9. CASE ~walk.pages
  <2>1. list = <<>>
    BY <1>2, <1>9 DEF PhaseTree
  <2>2. Len(tree) = 0
    BY <1>5, <1>7, <2>1
  <2>3. tree = <<>>
    BY <1>4, <2>2 DEF IsPages, Sequence, tree
  <2>4. PhaseXrefs(walk', list)
    BY <1>1, <1>2, <1>6, <1>9, <2>1, <2>3 DEF PhaseXrefs, PhaseSection, PhaseTree, tree
  <2> QED BY <1>1, <1>2, <2>4 DEF GoesOn, Phase
<1> QED BY <1>8, <1>9

\* The node that the innermost search starts with: what it will give, below its parent.
LEMMA EntersOn ==
    ASSUME doc \in Documents, Sectioned, StoredCached, closed \in BOOLEAN, Generator,
           NEW list, Phase(walk, list), Entering, ~TooDeep,
           NEW object, object = Getobj(node.kid.id), ~Lost(object)
    PROVE  /\ PhaseTree(walk, list) /\ object = Stored(node.kid.id)
           /\ IsFrame(node, Len(walk.stack)) /\ ~node.started
           /\ Len(walk.stack) \in 1 .. MaxDepth
           /\ IsSearch(Tree[MaxDepth - Len(walk.stack)])
           /\ \E T : /\ Climbs(walk.stack, T)
                     /\ T[Len(walk.stack) + 1] = Found(list, walk.visited)
                     /\ T[Len(walk.stack)]
                          = Lift(list, node.parent,
                                 OfNode(node.kid, walk.visited, Tree[MaxDepth - Len(walk.stack)]))
           /\ IsPages(list) /\ walk.visited \in SUBSET KidIds
<1> DEFINE n == Len(walk.stack)
           now == Found(list, walk.visited)
<1>1. walk.at = "tree" /\ walk.stack # <<>> /\ ~node.started
  BY DEF Entering
<1>2. PhaseTree(walk, list) /\ IsPages(list)
  BY <1>1 DEF Phase, PhaseStart, PhaseTree, PhaseXrefs, PhaseDone, PhaseRaised
<1>3. PICK T : Climbs(walk.stack, T) /\ T[n + 1] = now
  BY <1>2 DEF PhaseTree
<1>4. n \in Nat \ {0} /\ n <= MaxDepth
  <2>1. n \in Nat \ {0}
    BY <1>1, <1>3, ClimbsPop
  <2> QED BY <2>1, DocumentsAssumption DEF TooDeep
<1>5. n \in 1 .. n /\ n \in 1 .. MaxDepth /\ n + 1 \in 1 .. n + 1
      /\ MaxDepth - n \in 0 .. MaxDepth /\ MaxDepth - n + 1 \in 0 .. MaxDepth
      /\ MaxDepth - n + 1 # 0 /\ (MaxDepth - n + 1) - 1 = MaxDepth - n
  BY <1>4, DocumentsAssumption
<1>6. IsFrame(node, n) /\ T[n] = Gives(node, T[n + 1], n) /\ IsResult(T[n + 1])
  BY <1>3, <1>5 DEF Climbs, node
<1>7. now.pages = list /\ now.visited = walk.visited /\ now.raised = FALSE
  BY DEF Found
<1> HIDE DEF n, now
<1>8. IsResult(now) /\ walk.visited \in SUBSET KidIds /\ node.kid \in Kids
  BY <1>3, <1>6, <1>7 DEF IsResult, IsFrame
<1>9. IsSearch(Tree[MaxDepth - n + 1]) /\ IsSearch(Tree[MaxDepth - n])
  BY <1>5, TreeTyped
<1>10. T[n] = AndKid(now, node.kid, node.parent, Tree[MaxDepth - n + 1])
  BY <1>1, <1>3, <1>6 DEF Gives
<1>11. T[n] = Lift(list, node.parent, Tree[MaxDepth - n + 1][node.kid][walk.visited])
  BY <1>7, <1>8, <1>9, <1>10, AndKidIs
<1>12. Tree[MaxDepth - n + 1][node.kid][walk.visited]
         = OfNode(node.kid, walk.visited, Tree[MaxDepth - n])
  BY <1>5, <1>8, TreeIs
<1>13. object = Stored(node.kid.id)
  <2>1. object # Raises
    BY DEF Lost
  <2> QED BY <2>1, LookupIs DEF Getobj
<1> QED BY <1>1, <1>2, <1>3, <1>5, <1>6, <1>8, <1>9, <1>11, <1>12, <1>13 DEF n, now

\* A search for what is not there, or cannot be had, or is too deep.
LEMMA EnterFailsOn ==
    ASSUME doc \in Documents, Sectioned, Generator, NEW list, Phase(walk, list), EnterFails
    PROVE  GoesOn(list)
<1>1. Resumed /\ walk' = [walk EXCEPT !.at = "raised"]
  BY DEF EnterFails, Entering, Resolved
<1> QED BY <1>1, RaisesOn

\* The innermost search gives nothing: the one above goes on.
LEMMA NothingOn ==
    ASSUME NEW list, IsPages(list), NEW T, Climbs(walk.stack, T), walk.stack # <<>>,
           PhaseTree(walk, list), NEW known, T[Len(walk.stack)] = Found(list, known),
           walk'.stack = Above, walk'.visited = known, walk'.at = "tree",
           walk'.pages = walk.pages, walk'.xref = walk.xref, walk'.ids = walk.ids,
           walk'.page = NoPage
    PROVE  GoesOn(list)
<1>1. Climbs(Above, T) /\ Len(walk.stack) \in Nat \ {0} /\ Len(Above) = Len(walk.stack) - 1
  BY ClimbsPop DEF Above
<1>2. Len(Above) + 1 = Len(walk.stack)
  BY <1>1
<1>3. PhaseTree(walk', list)
  BY <1>1, <1>2 DEF PhaseTree
<1> QED BY <1>3 DEF GoesOn, Phase

\* What comes below a parent without pages of its own.
LEMMA LiftNone ==
    ASSUME NEW list, IsPages(list), NEW parent, NEW v
    PROVE  Lift(list, parent, NoPages(v)) = Found(list, v)
<1>1. NoPages(v).pages = <<>> /\ NoPages(v).visited = v /\ NoPages(v).raised = FALSE
  BY NoPagesIs
<1>2. list \o <<>> = list
  BY SequenceNone DEF IsPages
<1> QED BY <1>1, <1>2, InheritNone DEF Lift, Found

\* The node was visited before.
LEMMA EnterVisitedOn ==
    ASSUME doc \in Documents, Sectioned, StoredCached, closed \in BOOLEAN, Generator,
           NEW list, Phase(walk, list), EnterVisited
    PROVE  GoesOn(list)
<1>1. PICK object \in Resolved : ~Lost(object)
  BY DEF EnterVisited
<1>2. Entering /\ ~TooDeep /\ object = Getobj(node.kid.id)
  BY <1>1 DEF Resolved
<1>3. /\ walk.at = "tree" /\ walk.stack # <<>> /\ walk.page = NoPage
      /\ node.kid.id \in walk.visited /\ walk' = [walk EXCEPT !.stack = Above]
  BY <1>2 DEF Entering, Resumed, EnterVisited
<1> DEFINE n == Len(walk.stack)
           result == OfNode(node.kid, walk.visited, Tree[MaxDepth - n])
<1>4. PICK T : /\ Climbs(walk.stack, T) /\ T[n] = Lift(list, node.parent, result)
               /\ PhaseTree(walk, list) /\ IsPages(list) /\ object = Stored(node.kid.id)
  BY <1>1, <1>2, EntersOn
<1>5. result = NoPages(walk.visited)
  BY <1>1, <1>3, <1>4 DEF OfNode, Lost
<1>6. T[n] = Found(list, walk.visited)
  BY <1>4, <1>5, LiftNone
<1>7. /\ walk'.stack = Above /\ walk'.visited = walk.visited /\ walk'.at = "tree"
      /\ walk'.pages = walk.pages /\ walk'.xref = walk.xref /\ walk'.ids = walk.ids
      /\ walk'.page = NoPage
  BY <1>3 DEF Generator, Record
<1> QED BY <1>3, <1>4, <1>6, <1>7, NothingOn

\* A search goes on in place of the innermost, and will give the same.
LEMMA ReplacesOn ==
    ASSUME NEW T, Climbs(walk.stack, T), walk.stack # <<>>,
           NEW f, IsFrame(f, Len(walk.stack)),
           NEW more, IsPages(more), NEW known \in SUBSET KidIds,
           Gives(f, Found(more, known), Len(walk.stack)) = T[Len(walk.stack)],
           Prefix(more, T[Len(walk.stack)].pages),
           walk'.stack = Append(Above, f), walk'.visited = known, walk'.at = "tree",
           walk'.pages = (more # <<>>), walk'.xref = 1, walk'.ids = <<>>
    PROVE  PhaseTree(walk', more)
<1> DEFINE n == Len(walk.stack)
           a == Above
           found == Found(more, known)
<1>1. /\ Climbs(a, T) /\ n \in Nat \ {0} /\ Len(a) = n - 1
      /\ a # <<>> => a[Len(a)].started
  BY ClimbsPop DEF Above
<1>2. n <= MaxDepth + 1 /\ MaxDepth \in Nat
  BY DocumentsAssumption DEF Climbs
<1> HIDE DEF n
<1>3. Len(a) <= MaxDepth /\ Len(a) + 1 = n /\ Len(a) + 2 = n + 1
  BY <1>1, <1>2
<1>4. found.pages = more /\ IsResult(found)
  BY ResultIs DEF Found
<1> HIDE DEF a, found
<1>5. /\ IsFrame(f, Len(a) + 1) /\ Gives(f, found, Len(a) + 1) = T[Len(a) + 1]
      /\ Prefix(found.pages, T[Len(a) + 1].pages)
  BY <1>3, <1>4 DEF n, found
<1>6. /\ Len(Append(a, f)) = Len(a) + 1
      /\ \E U : Climbs(Append(a, f), U) /\ U[Len(a) + 2] = found
  <2>1. a # <<>> => a[Len(a)].started
    BY <1>1
  <2>2. Climbs(a, T) /\ Len(a) <= MaxDepth /\ IsResult(found)
    BY <1>1, <1>3, <1>4
  <2> QED BY <1>5, <2>1, <2>2, ClimbsPush
<1>7. Len(Append(a, f)) + 1 = Len(a) + 2
  BY <1>3, <1>6
<1> QED BY <1>6, <1>7 DEF PhaseTree, a, found

\* The node starts, with its kids or as a page.
LEMMA EnterNewOn ==
    ASSUME doc \in Documents, Sectioned, StoredCached, closed \in BOOLEAN, Generator,
           NEW list, Phase(walk, list), EnterNew
    PROVE  GoesOn(list)
<1> DEFINE n == Len(walk.stack)
           kid == node.kid
           id == kid.id
           parent == node.parent
           known == walk.visited \cup {id}
           S == Tree[MaxDepth - n]
           entered == [walk EXCEPT !.visited = @ \cup {id}]
           Stays(object, kids) == Append(Above, [node EXCEPT !.started = TRUE, !.kids = kids,
                                        !.props = Properties(object, parent)])
<1>1. PICK object \in Resolved :
        /\ ~Lost(object) /\ id \notin walk.visited
        /\ \/ /\ object.kind \notin {"pages", "page"}
              /\ walk' = [entered EXCEPT !.stack = Above]
           \/ /\ object.kind = "pages"
              /\ walk' = [entered EXCEPT !.stack = Stays(object, object.kids)]
           \/ /\ object.kind = "page"
              /\ walk' = Yield([entered EXCEPT !.stack = Stays(object, <<>>)], id, object,
                               Properties(object, parent))
  BY DEF EnterNew
<1>2. Entering /\ ~TooDeep /\ object = Getobj(id)
  BY <1>1 DEF Resolved
<1>3. walk.at = "tree" /\ walk.stack # <<>> /\ walk.page = NoPage
  BY <1>2 DEF Entering, Resumed
<1>4. PICK T : /\ Climbs(walk.stack, T)
               /\ T[n] = Lift(list, parent, OfNode(kid, walk.visited, S))
               /\ PhaseTree(walk, list) /\ IsPages(list) /\ object = Stored(id)
               /\ IsFrame(node, n) /\ n \in 1 .. MaxDepth /\ IsSearch(S)
               /\ walk.visited \in SUBSET KidIds
  BY <1>1, <1>2, EntersOn
<1>5. known \in SUBSET KidIds /\ walk.xref = 1 /\ walk.ids = <<>> /\ walk.pages = (list # <<>>)
  BY <1>4 DEF IsFrame, KidIds, PhaseTree
<1>6. \A stack : LET w == [entered EXCEPT !.stack = stack]
                 IN  /\ Record(w, {"at", "stack", "visited", "pages", "xref", "ids", "page"})
                     /\ w.at = "tree" /\ w.stack = stack /\ w.visited = known
                     /\ w.pages = walk.pages /\ w.xref = 1 /\ w.ids = <<>> /\ w.page = NoPage
  <2>1. /\ Record(entered, {"at", "stack", "visited", "pages", "xref", "ids", "page"})
        /\ entered.at = "tree" /\ entered.visited = known /\ entered.pages = walk.pages
        /\ entered.xref = 1 /\ entered.ids = <<>> /\ entered.page = NoPage
    BY <1>3, <1>5 DEF Generator, Record
  <2> HIDE DEF entered, known
  <2> QED BY <2>1 DEF Record
<1>7. \A kids : LET f == [node EXCEPT !.started = TRUE, !.kids = kids,
                                     !.props = Properties(object, parent)]
                IN  /\ f.started /\ f.kids = kids /\ f.props = Properties(object, parent)
                    /\ kids \in Seq(Kids) => IsFrame(f, n)
  <2> SUFFICES ASSUME NEW kids
               PROVE  LET f == [node EXCEPT !.started = TRUE, !.kids = kids,
                                            !.props = Properties(object, parent)]
                      IN  /\ f.started /\ f.kids = kids /\ f.props = Properties(object, parent)
                          /\ kids \in Seq(Kids) => IsFrame(f, n)
    OBVIOUS
  <2> DEFINE props == Properties(object, parent)
             f == [node EXCEPT !.started = TRUE, !.kids = kids, !.props = props]
  <2> HIDE DEF props
  <2> DEFINE g == node
  <2>1. Record(g, {"kid", "parent", "kids", "props", "started"}) /\ g.kid = kid
    BY <1>4 DEF IsFrame
  <2>4. f = [g EXCEPT !.started = TRUE, !.kids = kids, !.props = props]
    OBVIOUS
  <2> HIDE DEF f, g
  <2>2. /\ Record(f, {"kid", "parent", "kids", "props", "started"})
        /\ f.kid = g.kid /\ f.kids = kids /\ f.props = props /\ f.started = TRUE
    BY <2>1, <2>4 DEF Record
  <2>3. kids \in Seq(Kids) => IsFrame(f, n)
    <3>1. n <= MaxDepth /\ kid \in Kids
      BY <1>4 DEF IsFrame
    <3> QED BY <2>1, <2>2, <3>1 DEF IsFrame
  <2> QED BY <2>2, <2>3 DEF f, props
<1>8. /\ object = Stored(id) /\ kid.by # "neither"
      /\ ~(object = Raises \/ (object = Missing /\ kid.by = "number"))
      /\ id \notin walk.visited
  BY <1>1, <1>4 DEF Lost
<1> DEFINE result == OfNode(kid, walk.visited, S)
<1>9. CASE object.kind \notin {"pages", "page"}
  <2>1. result = NoPages(known)
    BY <1>8, <1>9 DEF OfNode
  <2>2. T[n] = Found(list, known)
    BY <1>4, <2>1, LiftNone
  <2>3. walk' = [entered EXCEPT !.stack = Above]
    BY <1>1, <1>9
  <2>4. /\ walk'.at = "tree" /\ walk'.stack = Above /\ walk'.visited = known
        /\ walk'.pages = walk.pages /\ walk'.xref = 1 /\ walk'.ids = <<>> /\ walk'.page = NoPage
    <3> HIDE DEF entered, known
    <3> QED BY <1>6, <2>3
  <2> QED BY <1>3, <1>4, <1>5, <2>2, <2>4, NothingOn
<1>10. CASE object.kind = "pages"
  <2> DEFINE kids == object.kids
             attrs == object.attrs
             props == Properties(object, parent)
             f == [node EXCEPT !.started = TRUE, !.kids = kids, !.props = props]
             none == NoPages(known)
             now == Found(list, known)
  <2>1. kids \in Seq(Kids)
    BY <1>8, <1>10, NodeKids
  <2>2. result = AndKids(none, kids, attrs, S)
    BY <1>8, <1>10 DEF OfNode
  <2>3. props = Merged(attrs, parent)
    BY <1>10 DEF Properties, Missing
  <2>4. walk' = [entered EXCEPT !.stack = Append(Above, f)]
    BY <1>1, <1>10
  <2>5. IsFrame(f, n) /\ f.started /\ f.kids = kids /\ f.props = props
    <3> HIDE DEF kids
    <3> QED BY <1>7, <2>1
  <2> HIDE DEF f, kids, attrs, props
  <2>6. /\ walk'.at = "tree" /\ walk'.stack = Append(Above, f) /\ walk'.visited = known
        /\ walk'.pages = (list # <<>>) /\ walk'.xref = 1 /\ walk'.ids = <<>> /\ walk'.page = NoPage
    <3> HIDE DEF entered, known
    <3> QED BY <1>5, <1>6, <2>4
  <2>7. IsResult(none) /\ now = Lift(list, parent, none)
    BY <1>4, <1>5, NoPagesTyped, LiftNone
  <2> HIDE DEF none
  <2>8. AndKids(now, kids, props, S) = T[n]
    BY <1>4, <2>1, <2>2, <2>3, <2>7, AndKidsLift
  <2>9. Gives(f, now, n) = T[n]
    BY <2>5, <2>8 DEF Gives
  <2>10. Prefix(list, T[n].pages)
    <3>1. IsResult(result)
      BY <1>4, <2>1, <2>2, <2>7, AndKidsTyped
    <3> HIDE DEF result
    <3> QED BY <1>4, <3>1, LiftIs DEF result
  <2>11. PhaseTree(walk', list)
    <3> HIDE DEF known
    <3> QED BY <1>3, <1>4, <1>5, <2>5, <2>6, <2>9, <2>10, ReplacesOn
  <2> QED BY <1>4, <2>6, <2>11 DEF GoesOn, Phase
<1>11. CASE object.kind = "page"
  <2> DEFINE props == Properties(object, parent)
             f == [node EXCEPT !.started = TRUE, !.kids = <<>>, !.props = props]
             w == [entered EXCEPT !.stack = Append(Above, f)]
             page == [id |-> id, attrs |-> props]
             more == Append(list, page)
             now == Found(more, known)
             one == <<NodeIs(id, object)>>
  <2>1. walk' = Yield(w, id, object, props)
    BY <1>1, <1>11
  <2>2. CASE object.bad
    <3>1. walk' = [w EXCEPT !.at = "raised"]
      BY <2>1, <2>2 DEF Yield
    <3>2. /\ Record(w, {"at", "stack", "visited", "pages", "xref", "ids", "page"})
          /\ w.page = NoPage
      <4> HIDE DEF entered, known, f
      <4> QED BY <1>6
    <3> HIDE DEF w
    <3>3. walk'.at = "raised" /\ walk'.page = NoPage
      BY <3>1, <3>2 DEF Record
    <3>4. PhaseRaised(walk', list)
      BY <3>3, PhasePrefix DEF PhaseRaised
    <3> QED BY <1>4, <3>3, <3>4 DEF GoesOn, Phase
  <2>3. CASE ~object.bad
    <3>1. result = [NoPages(known) EXCEPT !.pages = one]
      BY <1>8, <1>11, <2>3 DEF OfNode
    <3>2. result = [pages |-> one, visited |-> known, raised |-> FALSE]
      BY <3>1, NoPagesIs
    <3>3. result.pages = one /\ result.visited = known /\ result.raised = FALSE
      BY <3>2
    <3>4. Inherit(one, parent) = <<page>>
      <4>1. props = Merged(object.attrs, parent)
        BY <1>11 DEF Properties, Missing
      <4>2. one[1] = [id |-> id, attrs |-> object.attrs] /\ Len(one) = 1
        BY DEF NodeIs
      <4>3. one[1].id = id /\ one[1].attrs = object.attrs
        BY <4>2
      <4>4. IsPages(one)
        BY PageLists
      <4> HIDE DEF one, props
      <4> DEFINE i == Inherit(one, parent)
      <4>5. IsPages(i) /\ Len(i) = 1
            /\ i[1] = [id |-> one[1].id, attrs |-> Merged(one[1].attrs, parent)]
        <5>1. 1 \in 1 .. Len(one)
          BY <4>2
        <5> QED BY <4>2, <4>4, <5>1, InheritIs
      <4> HIDE DEF i
      <4>6. i[1] = page
        BY <4>1, <4>3, <4>5
      <4> HIDE DEF page
      <4>7. Sequence(i) /\ Sequence(<<page>>) /\ Len(<<page>>) = 1 /\ <<page>>[1] = page
        BY <4>5 DEF IsPages, Sequence
      <4>8. \A k \in 1 .. Len(i) : i[k] = <<page>>[k]
        BY <4>5, <4>6, <4>7
      <4>9. i = <<page>>
        BY <4>5, <4>7, <4>8, SequenceSame
      <4> QED BY <4>9 DEF i
    <3>5. IsPages(<<page>>)
      <4>1. page = [id |-> page.id, attrs |-> page.attrs]
        OBVIOUS
      <4> HIDE DEF page
      <4> QED BY <4>1 DEF IsPages, Sequence
    <3> HIDE DEF page
    <3>6. more = list \o <<page>>
      <4>1. \A P : list \in Seq(P) /\ page \in P => Append(list, page) = list \o <<page>>
        OBVIOUS
      <4> DEFINE P == {list[k] : k \in DOMAIN list} \cup {page}
      <4>2. list \in Seq(P) /\ page \in P
        BY <1>4 DEF IsPages, Sequence
      <4> HIDE DEF P
      <4> QED BY <4>1, <4>2
    <3> HIDE DEF more, result
    <3>7. IsPages(more) /\ Len(more) = Len(list) + 1 /\ Len(list) \in Nat
      <4>1. Len(<<page>>) = 1
        OBVIOUS
      <4> QED BY <1>4, <3>5, <3>6, <4>1, PrefixConcat
    <3>8. T[n] = now
      BY <1>4, <3>3, <3>4, <3>6 DEF Lift, Found, result
    <3>9. walk' = [w EXCEPT !.page = page, !.pages = TRUE]
      BY <2>1, <2>3 DEF Yield, page
    <3>10. /\ Record(w, {"at", "stack", "visited", "pages", "xref", "ids", "page"})
           /\ w.at = "tree" /\ w.stack = Append(Above, f) /\ w.visited = known
           /\ w.xref = 1 /\ w.ids = <<>>
      <4> HIDE DEF entered, known, f
      <4> QED BY <1>6
    <3> HIDE DEF w
    <3>11. /\ walk'.at = "tree" /\ walk'.stack = Append(Above, f) /\ walk'.visited = known
           /\ walk'.pages = TRUE /\ walk'.xref = 1 /\ walk'.ids = <<>> /\ walk'.page = page
      <4> HIDE DEF known, f
      <4> QED BY <3>9, <3>10 DEF Record
    <3>12. IsFrame(f, n) /\ f.started /\ f.kids = <<>>
      <4>1. <<>> \in Seq(Kids)
        OBVIOUS
      <4> QED BY <1>7, <4>1
    <3> HIDE DEF f
    <3>13. Gives(f, now, n) = T[n]
      BY <3>8, <3>12, AndKidsNone DEF Gives
    <3>14. Prefix(more, T[n].pages)
      BY <3>7, <3>8, PrefixSelf DEF Found
    <3>15. more # <<>>
      <4>1. Len(more) # Len(<<>>)
        BY <3>7
      <4> QED BY <4>1
    <3>16. PhaseTree(walk', more)
      <4> HIDE DEF known
      <4> QED BY <1>3, <1>4, <1>5, <3>7, <3>11, <3>12, <3>13, <3>14, <3>15, ReplacesOn
    <3>17. page # NoPage
      <4>1. DOMAIN page = {"id", "attrs"} /\ DOMAIN NoPage = {"id"}
        BY DEF page, NoPage
      <4> QED BY <4>1
    <3> QED BY <3>7, <3>11, <3>16, <3>17 DEF GoesOn, Phase, more
  <2> QED BY <2>2, <2>3
<1> QED BY <1>1, <1>9, <1>10, <1>11

\* The next kid of the innermost node is searched, or the search of the node ends.
LEMMA NextKidOn ==
    ASSUME doc \in Documents, Sectioned, Generator, NEW list, Phase(walk, list), NextKid
    PROVE  GoesOn(list)
<1> DEFINE n == Len(walk.stack)
           now == Found(list, walk.visited)
           kids == node.kids
           props == node.props
           S == Tree[MaxDepth - n]
           f == [node EXCEPT !.kids = Tail(@)]
           inner == Search(Head(kids), props)
           a == Above
<1>1. /\ walk.at = "tree" /\ walk.stack # <<>> /\ node.started /\ walk.page = NoPage
      /\ walk' = [walk EXCEPT !.stack = IF kids = <<>> THEN a ELSE Append(Append(a, f), inner)]
  BY DEF NextKid, Resumed
<1>2. /\ walk'.stack = IF kids = <<>> THEN a ELSE Append(Append(a, f), inner)
      /\ walk'.visited = walk.visited /\ walk'.at = "tree" /\ walk'.pages = walk.pages
      /\ walk'.xref = walk.xref /\ walk'.ids = walk.ids /\ walk'.page = NoPage
  <2> HIDE DEF kids, f, inner, a
  <2> QED BY <1>1 DEF Generator, Record
<1>3. PhaseTree(walk, list) /\ IsPages(list)
  BY <1>1 DEF Phase, PhaseStart, PhaseTree, PhaseXrefs, PhaseDone, PhaseRaised
<1>4. PICK T : Climbs(walk.stack, T) /\ T[n + 1] = now
  BY <1>3 DEF PhaseTree
<1>5. /\ Climbs(a, T) /\ n \in Nat \ {0} /\ Len(a) = n - 1
      /\ a # <<>> => a[Len(a)].started
  BY <1>1, <1>4, ClimbsPop DEF Above
<1>6. n \in 1 .. n /\ n + 1 \in 1 .. n + 1
  BY <1>5
<1>7. IsFrame(node, n) /\ T[n] = Gives(node, now, n) /\ IsResult(now)
  BY <1>4, <1>6 DEF Climbs, node
<1>8. n <= MaxDepth /\ MaxDepth \in Nat /\ kids \in Seq(Kids)
  BY <1>1, <1>7, DocumentsAssumption DEF IsFrame
<1>9. MaxDepth - n \in 0 .. MaxDepth /\ MaxDepth - (n + 1) + 1 = MaxDepth - n
  BY <1>5, <1>8
<1>10. IsSearch(S)
  BY <1>9, TreeTyped
<1>11. T[n] = AndKids(now, kids, props, S)
  BY <1>1, <1>7 DEF Gives
<1>12. CASE kids = <<>>
  <2>1. T[n] = now
    BY <1>11, <1>12, AndKidsNone
  <2> QED BY <1>1, <1>2, <1>3, <1>4, <1>12, <2>1, NothingOn
<1>13. CASE kids # <<>>
  <2> DEFINE first == AndKid(now, Head(kids), props, S)
             rest == Tail(kids)
             m == Append(a, f)
  <2>1. Head(kids) \in Kids /\ rest \in Seq(Kids)
    <3> HIDE DEF kids
    <3> QED BY <1>8, <1>13
  <2>2. IsResult(first) /\ Prefix(now.pages, first.pages)
    <3> HIDE DEF now, kids, props, S
    <3> QED BY <1>7, <1>10, <2>1, AndKidIs
  <2>3. T[n] = AndKids(first, rest, props, S)
    BY <1>8, <1>11, <1>13, AndKidsHead
  <2>4. Prefix(first.pages, T[n].pages)
    <3> HIDE DEF first, rest, S, props
    <3> QED BY <1>10, <2>1, <2>2, <2>3, AndKidsTyped
  <2>5. IsFrame(f, n) /\ f.started /\ f.kids = rest /\ f.props = props
    <3> DEFINE g == node
    <3>1. f = [g EXCEPT !.kids = rest] /\ IsFrame(g, n) /\ g.props = props /\ g.started
      BY <1>1, <1>7
    <3> HIDE DEF f, g, rest, props
    <3>2. /\ Record(f, {"kid", "parent", "kids", "props", "started"})
          /\ f.kid = g.kid /\ f.kids = rest /\ f.props = g.props /\ f.started = g.started
      BY <3>1 DEF IsFrame, Record
    <3> QED BY <2>1, <3>1, <3>2 DEF IsFrame
  <2>6. /\ inner.kid = Head(kids) /\ inner.parent = props /\ inner.started = FALSE
        /\ inner.kids = <<>>
        /\ Record(inner, {"kid", "parent", "kids", "props", "started"})
    BY DEF Search, Record
  <2>7. IsFrame(inner, n + 1)
    <3> HIDE DEF inner, kids
    <3>1. inner.kids \in Seq(Kids) /\ inner.kid \in Kids
      BY <2>1, <2>6
    <3>2. inner.started \in BOOLEAN /\ ~inner.started
      BY <2>6
    <3> QED BY <2>6, <3>1, <3>2 DEF IsFrame
  <2>8. Gives(f, first, n) = T[n]
    <3> HIDE DEF f, first, rest, props
    <3> QED BY <2>3, <2>5 DEF Gives
  <2>9. Gives(inner, now, n + 1) = first
    <3> HIDE DEF inner, now, n, kids
    <3>1. Gives(inner, now, n + 1) = AndKid(now, Head(kids), props, Tree[MaxDepth - (n + 1) + 1])
      BY <2>6 DEF Gives
    <3> QED BY <1>9, <3>1
  <2> HIDE DEF f, first, inner, now, n, a
  <2>10. Len(a) <= MaxDepth /\ Len(a) + 1 = n /\ Len(a) + 2 = n + 1
    BY <1>5, <1>8
  <2>11. /\ IsFrame(f, Len(a) + 1) /\ Gives(f, first, Len(a) + 1) = T[Len(a) + 1]
         /\ Prefix(first.pages, T[Len(a) + 1].pages)
    BY <2>4, <2>5, <2>8, <2>10
  <2>12. Len(m) = Len(a) + 1 /\ \E U : Climbs(m, U) /\ U[Len(a) + 2] = first
    <3>1. a # <<>> => a[Len(a)].started
      BY <1>5
    <3>2. Climbs(a, T) /\ Len(a) <= MaxDepth /\ IsResult(first)
      BY <1>5, <2>2, <2>10
    <3> QED BY <2>11, <3>1, <3>2, ClimbsPush
  <2>13. PICK U : Climbs(m, U) /\ U[n + 1] = first
    BY <2>10, <2>12
  <2>14. Len(m) = n /\ m[n] = f
    <3>1. Sequence(a)
      BY <1>5 DEF Climbs
    <3> QED BY <2>10, <2>12, <3>1, SequenceAppend
  <2> HIDE DEF m
  <2>15. /\ Len(m) <= MaxDepth /\ IsFrame(inner, Len(m) + 1)
         /\ Gives(inner, now, Len(m) + 1) = U[Len(m) + 1]
         /\ Prefix(now.pages, U[Len(m) + 1].pages)
    BY <1>8, <2>2, <2>7, <2>9, <2>13, <2>14
  <2>16. m # <<>> => m[Len(m)].started
    BY <2>5, <2>14
  <2>17. Climbs(m, U) /\ IsResult(now)
    BY <1>7, <2>13
  <2>18. Len(Append(m, inner)) = Len(m) + 1
         /\ \E V : Climbs(Append(m, inner), V) /\ V[Len(m) + 2] = now
    BY <2>15, <2>16, <2>17, ClimbsPush
  <2>19. walk'.stack = Append(m, inner)
    BY <1>2, <1>13 DEF m
  <2>20. Len(m) + 2 = Len(walk'.stack) + 1
    BY <1>5, <2>14, <2>18, <2>19
  <2>21. PhaseTree(walk', list)
    BY <1>2, <1>3, <2>18, <2>19, <2>20 DEF PhaseTree, now
  <2> QED BY <1>2, <1>3, <2>21 DEF GoesOn, Phase
<1> QED BY <1>12, <1>13

-----------------------------------------------------------------------------
(* The sections, one after the other. *)

\* Once the ids of a section are done, its pages are given.
LEMMA SectionDone ==
    ASSUME doc \in Documents, Sectioned, NEW w, NEW list, IsPages(list), PhaseSection(w, list),
           w.ids = <<>>
    PROVE  w.xref \in 1 .. Len(xrefs) + 1 /\ Len(xrefs) \in Nat /\ list = FirstSections(w.xref - 1)
<1>1. /\ Len(xrefs) \in Nat /\ DOMAIN xrefs = 1 .. Len(xrefs) /\ FirstSections(0) = <<>>
      /\ \A n \in 0 .. Len(xrefs) - 1 :
           FirstSections(n + 1) = FirstSections(n) \o PagesOf(Objids(Section(xrefs[n + 1])))
  BY FirstSectionsIs
<1>2. CASE w.xref = 1
  <2>1. list = <<>>
    BY <1>2 DEF PhaseSection
  <2> QED BY <1>1, <1>2, <2>1
<1>3. CASE w.xref # 1
  <2> DEFINE x == w.xref
             ids == Objids(Section(xrefs[x - 1]))
             l == Len(xrefs)
  <2>1. x \in 2 .. l + 1 /\ l \in Nat /\ DOMAIN xrefs = 1 .. l
    BY <1>1, <1>3 DEF PhaseSection
  <2>2. PICK n \in 0 .. Len(ids) : /\ <<>> = SubSeq(ids, n + 1, Len(ids))
                                   /\ list = FirstSections(x - 2) \o FirstPages(ids, n)
    BY <1>3 DEF PhaseSection
  <2> HIDE DEF x, l
  <2>3. x - 2 \in 0 .. l - 1 /\ (x - 2) + 1 = x - 1 /\ x - 1 \in 1 .. l /\ x \in 1 .. l + 1
    BY <2>1
  <2>4. Sequence(ids)
    BY <2>1, <2>3, SectionIds
  <2>5. FirstSections(x - 1) = FirstSections(x - 2) \o PagesOf(ids)
    BY <1>1, <2>3 DEF l
  <2> HIDE DEF ids
  <2>6. n = Len(ids)
    <3>1. Len(ids) \in Nat
      BY <2>4 DEF Sequence
    <3>2. Len(SubSeq(ids, n + 1, Len(ids))) = IF n + 1 <= Len(ids) THEN Len(ids) - n ELSE 0
      <4> DEFINE P == {ids[k] : k \in DOMAIN ids}
      <4>1. ids \in Seq(P)
        BY <2>4 DEF Sequence
      <4> HIDE DEF P
      <4> QED BY <3>1, <4>1
    <3>3. Len(<<>>) = 0
      OBVIOUS
    <3>4. Len(SubSeq(ids, n + 1, Len(ids))) = 0
      BY <2>2, <3>3
    <3> DEFINE most == Len(ids)
    <3>5. most \in Nat /\ n \in 0 .. most /\ (IF n + 1 <= most THEN most - n ELSE 0) = 0
      BY <2>2, <3>1, <3>2, <3>4
    <3> HIDE DEF most
    <3>6. n = most
      BY <3>5
    <3> QED BY <3>6 DEF most
  <2>7. FirstPages(ids, n) = PagesOf(ids)
    BY <2>4, <2>6, FirstPagesIs
  <2> QED BY <2>1, <2>2, <2>3, <2>5, <2>7 DEF x, l
<1> QED BY <1>2, <1>3

\* The next section is gone through, or there is none.
LEMMA ScanSectionOn ==
    ASSUME doc \in Documents, Sectioned, Generator, NEW list, Phase(walk, list), ScanSection
    PROVE  GoesOn(list)
<1>1. walk.at = "xrefs" /\ walk.page = NoPage /\ walk.ids = <<>>
  BY DEF ScanSection, Resumed
<1>2. PhaseXrefs(walk, list) /\ IsPages(list)
  BY <1>1 DEF Phase, PhaseStart, PhaseTree, PhaseXrefs, PhaseDone, PhaseRaised
<1> DEFINE x == walk.xref
           l == Len(xrefs)
           ids == Objids(Section(xrefs[x]))
<1>3. x \in 1 .. l + 1 /\ l \in Nat /\ list = FirstSections(x - 1)
  BY <1>1, <1>2, SectionDone DEF PhaseXrefs
<1>4. CASE x > l
  <2>1. walk'.at = "done" /\ walk'.page = NoPage
    BY <1>1, <1>4 DEF ScanSection, Generator, Record
  <2>2. x - 1 = l
    BY <1>3, <1>4
  <2>3. list = SectionPages
    BY <1>3, <2>2, FirstSectionsIs
  <2>4. PhaseDone(walk', list)
    BY <1>2, <2>1, <2>3 DEF PhaseDone, PhaseXrefs, WholeList
  <2> QED BY <1>2, <2>1, <2>4 DEF GoesOn, Phase
<1>5. CASE ~(x > l)
  <2>1. walk' = [walk EXCEPT !.ids = ids, !.xref = @ + 1]
    BY <1>5 DEF ScanSection
  <2> HIDE DEF ids
  <2>2. walk'.at = "xrefs" /\ walk'.page = NoPage /\ walk'.ids = ids /\ walk'.xref = x + 1
    BY <1>1, <2>1 DEF Generator, Record
  <2> HIDE DEF x, l
  <2>3. x \in 1 .. l /\ x + 1 \in 2 .. l + 1 /\ (x + 1) - 1 = x /\ (x + 1) - 2 = x - 1
        /\ x - 1 \in 0 .. l
    BY <1>3, <1>5
  <2>4. Sequence(ids)
    <3>1. x \in DOMAIN xrefs
      BY <2>3, FirstSectionsIs DEF l
    <3> QED BY <3>1, SectionIds DEF ids
  <2>5. ids = SubSeq(ids, 0 + 1, Len(ids)) /\ 0 \in 0 .. Len(ids)
    <3> DEFINE P == {ids[k] : k \in DOMAIN ids}
    <3>1. ids \in Seq(P)
      BY <2>4 DEF Sequence
    <3> HIDE DEF P
    <3> QED BY <3>1
  <2>6. list = FirstSections(x - 1) \o FirstPages(ids, 0)
    <3>1. FirstPages(ids, 0) = <<>>
      BY <2>4, FirstPagesIs
    <3>2. list \o <<>> = list
      BY <1>2, SequenceNone DEF IsPages
    <3> QED BY <1>3, <3>1, <3>2
  <2>7. PhaseSection(walk', list)
    BY <2>2, <2>3, <2>5, <2>6 DEF PhaseSection, ids, l
  <2>8. PhaseXrefs(walk', list)
    BY <1>2, <2>2, <2>7 DEF PhaseXrefs
  <2> QED BY <1>2, <2>2, <2>8 DEF GoesOn, Phase
<1> QED BY <1>4, <1>5

\* A sequence without its first element, as what is left of a longer one.
LEMMA SubSeqTail ==
    ASSUME NEW s, Sequence(s), NEW n \in 0 .. Len(s),
           NEW t, t = SubSeq(s, n + 1, Len(s)), t # <<>>
    PROVE  /\ n + 1 \in 1 .. Len(s) /\ n \in 0 .. Len(s) - 1 /\ n + 1 \in 0 .. Len(s)
           /\ Head(t) = s[n + 1] /\ Tail(t) = SubSeq(s, (n + 1) + 1, Len(s))
<1> DEFINE S == {s[k] : k \in DOMAIN s}
           l == Len(s)
<1>1. s \in Seq(S) /\ l \in Nat
  BY DEF Sequence
<1> HIDE DEF S
<1>2. t \in Seq(S) /\ Len(t) = (IF n + 1 <= l THEN l - n ELSE 0)
      /\ \A k \in 1 .. Len(t) : t[k] = s[n + k]
  BY <1>1
<1>3. Len(t) # 0
  BY <1>2
<1> HIDE DEF l
<1>4. n + 1 <= l /\ Len(t) = l - n /\ n \in 0 .. l
  BY <1>1, <1>2, <1>3 DEF l
<1>5. n + 1 \in 1 .. l /\ n \in 0 .. l - 1 /\ n + 1 \in 0 .. l
  BY <1>1, <1>4
<1>6. Head(t) = s[n + 1]
  <2>1. 1 \in 1 .. Len(t) /\ Head(t) = t[1]
    BY <1>1, <1>2, <1>3, <1>4
  <2> QED BY <1>2, <2>1
<1> DEFINE u == SubSeq(s, (n + 1) + 1, l)
           v == Tail(t)
<1>7. u \in Seq(S) /\ Len(u) = (IF (n + 1) + 1 <= l THEN l - (n + 1) ELSE 0)
      /\ \A k \in 1 .. Len(u) : u[k] = s[(n + 1) + k]
  BY <1>1, <1>5 DEF l
<1>8. v \in Seq(S) /\ Len(v) = Len(t) - 1 /\ \A k \in 1 .. Len(v) : v[k] = t[k + 1]
  BY <1>2, <1>3
<1> HIDE DEF u, v
<1>9. Len(u) = Len(v) /\ Len(v) = l - n - 1
  BY <1>1, <1>4, <1>7, <1>8
<1>10. ASSUME NEW k \in 1 .. Len(v) PROVE v[k] = u[k]
  <2>1. k + 1 \in 1 .. Len(t) /\ n + (k + 1) = (n + 1) + k
    BY <1>1, <1>4, <1>9
  <2>2. v[k] = t[k + 1] /\ t[k + 1] = s[n + (k + 1)] /\ u[k] = s[(n + 1) + k]
    BY <1>2, <1>7, <1>8, <1>9, <2>1
  <2> QED BY <2>1, <2>2
<1>11. Sequence(u) /\ Sequence(v)
  BY <1>7, <1>8 DEF Sequence
<1>12. v = u
  BY <1>9, <1>10, <1>11, SequenceSame
<1> QED BY <1>5, <1>6, <1>12 DEF l, u, v

\* An object of a section is looked at: it is a page, or none, or it raises.
LEMMA ScanObjectOn ==
    ASSUME doc \in Documents, Sectioned, StoredCached, closed \in BOOLEAN, Generator,
           NEW list, Phase(walk, list), ScanObject
    PROVE  GoesOn(list)
<1> DEFINE id == Head(walk.ids)
           object == Getobj(id)
           rest == [walk EXCEPT !.ids = Tail(@)]
           x == walk.xref
           ids == Objids(Section(xrefs[x - 1]))
<1>1. /\ walk.at = "xrefs" /\ walk.page = NoPage /\ walk.ids # <<>>
      /\ walk' = IF object = Raises THEN [walk EXCEPT !.at = "raised"]
                 ELSE IF object.kind = "page" THEN Yield(rest, id, object, object.attrs)
                 ELSE rest
  BY DEF ScanObject, Resumed
<1>2. PhaseXrefs(walk, list) /\ IsPages(list)
  BY <1>1 DEF Phase, PhaseStart, PhaseTree, PhaseXrefs, PhaseDone, PhaseRaised
<1>3. CASE object = Raises
  BY <1>1, <1>3, RaisesOn DEF Resumed
<1>4. CASE object # Raises
  <2>1. object = Stored(id)
    BY <1>4, LookupIs DEF Getobj
  <2>2. x \in 2 .. Len(xrefs) + 1
        /\ \E n \in 0 .. Len(ids) : /\ walk.ids = SubSeq(ids, n + 1, Len(ids))
                                    /\ list = FirstSections(x - 2) \o FirstPages(ids, n)
    BY <1>1, <1>2 DEF PhaseXrefs, PhaseSection
  <2>3. PICK n \in 0 .. Len(ids) : /\ walk.ids = SubSeq(ids, n + 1, Len(ids))
                                   /\ list = FirstSections(x - 2) \o FirstPages(ids, n)
    BY <2>2
  <2>4. /\ Len(xrefs) \in Nat /\ DOMAIN xrefs = 1 .. Len(xrefs)
        /\ \A k \in 0 .. Len(xrefs) : IsPages(FirstSections(k))
    BY FirstSectionsIs
  <2>5. x - 1 \in DOMAIN xrefs /\ x - 2 \in 0 .. Len(xrefs)
    <3> DEFINE l == Len(xrefs)
               y == x
    <3>1. y \in 2 .. l + 1 /\ l \in Nat /\ DOMAIN xrefs = 1 .. l
      BY <2>2, <2>4
    <3> HIDE DEF l, y
    <3>2. y - 1 \in 1 .. l /\ y - 2 \in 0 .. l
      BY <3>1
    <3> QED BY <3>1, <3>2 DEF l, y
  <2>6. Sequence(ids)
    BY <2>5, SectionIds
  <2> HIDE DEF ids
  <2> DEFINE before == FirstSections(x - 2)
             these == FirstPages(ids, n)
             one == PageAt(id, object)
             more == list \o one
  <2>7. /\ n \in 0 .. Len(ids) - 1 /\ n + 1 \in 0 .. Len(ids)
        /\ id = ids[n + 1] /\ Tail(walk.ids) = SubSeq(ids, (n + 1) + 1, Len(ids))
    BY <1>1, <2>3, <2>6, SubSeqTail
  <2>8. /\ IsPages(these) /\ IsPages(before) /\ IsPages(one)
        /\ FirstPages(ids, n + 1) = these \o one
    <3>1. FirstPages(ids, n + 1) = these \o PageAt(ids[n + 1], Stored(ids[n + 1]))
      BY <2>6, <2>7, FirstPagesIs
    <3>2. IsPages(these)
      BY <2>6, FirstPagesIs
    <3> QED BY <2>1, <2>4, <2>5, <2>7, <3>1, <3>2, PageAtTyped
  <2> HIDE DEF one, these, before
  <2>9. more = before \o FirstPages(ids, n + 1) /\ IsPages(more)
    <3>1. more = (before \o these) \o one
      BY <2>3 DEF before, these
    <3>2. Sequence(before) /\ Sequence(these) /\ Sequence(one)
      BY <2>8 DEF IsPages
    <3>3. more = before \o (these \o one)
      BY <3>1, <3>2, SequenceAssoc
    <3> QED BY <1>2, <2>8, <3>3, PagesConcat
  <2>10. Record(rest, {"at", "stack", "visited", "pages", "xref", "ids", "page"})
         /\ rest.at = "xrefs" /\ rest.ids = Tail(walk.ids) /\ rest.xref = x /\ rest.page = NoPage
    BY <1>1 DEF Generator, Record
  <2> HIDE DEF rest, more, object, id
  <2>11. ASSUME NEW w, w.at = "xrefs", w.ids = Tail(walk.ids), w.xref = x
         PROVE  PhaseXrefs(w, more)
    <3>1. PhaseSection(w, more)
      BY <2>2, <2>7, <2>9, <2>11 DEF PhaseSection, ids, before
    <3> QED BY <1>2, <2>11, <3>1 DEF PhaseXrefs
  <2>12. CASE object.kind # "page"
    <3>1. walk' = rest
      BY <1>1, <1>4, <2>12
    <3>2. list \o <<>> = list
      BY <1>2, SequenceNone DEF IsPages
    <3>3. more = list
      BY <2>12, <3>2 DEF more, one, PageAt
    <3>4. PhaseXrefs(walk', list)
      BY <2>10, <2>11, <3>1, <3>3
    <3> QED BY <1>2, <2>10, <3>1, <3>4 DEF GoesOn, Phase
  <2>13. CASE object.kind = "page" /\ object.bad
    <3>1. walk' = [rest EXCEPT !.at = "raised"]
      BY <1>1, <1>4, <2>13 DEF Yield
    <3>2. walk'.at = "raised" /\ walk'.page = NoPage
      BY <2>10, <3>1 DEF Record
    <3>3. PhaseRaised(walk', list)
      BY <3>2, PhasePrefix DEF PhaseRaised
    <3> QED BY <1>2, <3>2, <3>3 DEF GoesOn, Phase
  <2>14. CASE object.kind = "page" /\ ~object.bad
    <3> DEFINE page == NodeIs(id, object)
    <3>1. walk' = [rest EXCEPT !.page = page, !.pages = TRUE]
      BY <1>1, <1>4, <2>14 DEF Yield, NodeIs
    <3>2. page # NoPage
      <4>1. DOMAIN page = {"id", "attrs"} /\ DOMAIN NoPage = {"id"}
        BY DEF NodeIs, NoPage
      <4> QED BY <4>1
    <3> HIDE DEF page
    <3>3. walk'.at = "xrefs" /\ walk'.ids = Tail(walk.ids) /\ walk'.xref = x /\ walk'.page = page
      BY <2>10, <3>1 DEF Record
    <3>4. PhaseXrefs(walk', more)
      BY <2>11, <3>3
    <3>5. more = Append(list, page)
      <4>1. \A P : list \in Seq(P) /\ page \in P => Append(list, page) = list \o <<page>>
        OBVIOUS
      <4> DEFINE P == {list[k] : k \in DOMAIN list} \cup {page}
      <4>2. list \in Seq(P) /\ page \in P
        BY <1>2 DEF IsPages, Sequence
      <4> HIDE DEF P
      <4>3. one = <<page>>
        BY <2>14 DEF one, PageAt, page
      <4> QED BY <4>1, <4>2, <4>3 DEF more
    <3> QED BY <2>9, <3>2, <3>3, <3>4, <3>5 DEF GoesOn, Phase
  <2> QED BY <2>12, <2>13, <2>14
<1> QED BY <1>3, <1>4

\* Whatever the generator does, it has given the first pages of the file, and where it
\* is tells which.
LEMMA WalkOn ==
    ASSUME doc \in Documents, Sectioned, StoredCached, closed \in BOOLEAN, Generator,
           NEW list, Phase(walk, list), Walk
    PROVE  GoesOn(list)
BY StartsOn, EnterFailsOn, EnterVisitedOn, EnterNewOn, NextKidOn, TreeEndsOn, ScanSectionOn,
   ScanObjectOn DEF Walk

-----------------------------------------------------------------------------
(* What is said of a file does not change once it is open. *)

\* What its objects are, and its tree, ...
LEMMA TreeSame ==
    ASSUME UNCHANGED <<doc, xrefs, catalog>>
    PROVE  /\ Tree' = Tree /\ WholeTree' = WholeTree /\ Kids' = Kids /\ KidIds' = KidIds
           /\ \A pos : Section(pos)' = Section(pos)
           /\ \A id : Stored(id)' = Stored(id)
<1>1. \A pos : Section(pos)' = Section(pos)
  BY DEF Section
<1>2. \A id : Stored(id)' = Stored(id)
  BY StoredSame
<1>3. StoredIds' = StoredIds
  BY <1>1 DEF StoredIds
<1>4. Nodes' = Nodes
  BY <1>2, <1>3 DEF Nodes
<1>5. Kids' = Kids
  BY <1>2, <1>4 DEF Kids
<1>6. KidIds' = KidIds
  BY <1>5 DEF KidIds
<1>7. \A kid, visited, search : OfNode(kid, visited, search)' = OfNode(kid, visited, search)
  BY <1>2 DEF OfNode
<1>8. Tree' = Tree
  <2>1. \A f, n : IsTree(f, n)' = IsTree(f, n)
    BY <1>5, <1>6, <1>7 DEF IsTree
  <2>2. Tree = CHOOSE f : IsTree(f, MaxDepth)
    BY DEF Tree, IsTree
  <2>3. Tree' = CHOOSE f : IsTree(f, MaxDepth)'
    BY DEF Tree, IsTree
  <2> QED BY <2>1, <2>2, <2>3
<1>9. WholeTree' = WholeTree
  BY <1>8 DEF WholeTree
<1> QED BY <1>1, <1>2, <1>5, <1>6, <1>8, <1>9

\* ... the pages of its sections, ...
LEMMA SectionsSame ==
    ASSUME UNCHANGED <<doc, xrefs, catalog>>
    PROVE  /\ SectionPages' = SectionPages /\ WholeList' = WholeList
           /\ \A ids, n : FirstPages(ids, n)' = FirstPages(ids, n)
           /\ \A n : FirstSections(n)' = FirstSections(n)
           /\ \A n : Wanted(n)' = Wanted(n)
<1>1. \A id : Stored(id)' = Stored(id)
  BY TreeSame
<1>2. \A ids : PagesOf(ids)' = PagesOf(ids)
  BY <1>1 DEF PagesOf
<1>3. \A pos : Section(pos)' = Section(pos)
  BY TreeSame
<1>4. SectionPages' = SectionPages /\ \A n : FirstSections(n)' = FirstSections(n)
  BY <1>2, <1>3 DEF SectionPages, FirstSections
<1>5. \A ids, n : FirstPages(ids, n)' = FirstPages(ids, n)
  BY <1>1 DEF FirstPages
<1>6. WholeList' = WholeList
  BY <1>4, TreeSame DEF WholeList
<1>7. \A n : Wanted(n)' = Wanted(n)
  BY DEF Wanted
<1> QED BY <1>4, <1>5, <1>6, <1>7

\* ... and where a generator is that has given some of them.
LEMMA PhaseSame ==
    ASSUME UNCHANGED <<doc, xrefs, catalog>>, NEW w, NEW list, Phase(w, list)
    PROVE  Phase(w, list)'
<1>1. /\ Tree' = Tree /\ WholeTree' = WholeTree /\ Kids' = Kids /\ KidIds' = KidIds
      /\ \A pos : Section(pos)' = Section(pos)
  BY TreeSame
<1>2. /\ WholeList' = WholeList
      /\ \A ids, n : FirstPages(ids, n)' = FirstPages(ids, n)
      /\ \A n : FirstSections(n)' = FirstSections(n)
  BY SectionsSame
<1>3. Lifted' = Lifted
  BY <1>1 DEF Lifted
<1>4. \A f, found, j : Gives(f, found, j)' = Gives(f, found, j)
  BY <1>1 DEF Gives
<1>5. \A f, j : IsFrame(f, j)' = IsFrame(f, j)
  BY <1>1 DEF IsFrame
<1>6. \A r : IsResult(r)' = IsResult(r)
  BY <1>1 DEF IsResult
<1>7. \A stack, T : Climbs(stack, T)' = Climbs(stack, T)
  BY <1>3, <1>4, <1>5, <1>6 DEF Climbs
<1>8. PhaseTree(w, list)' = PhaseTree(w, list)
  BY <1>7 DEF PhaseTree
<1>9. PhaseXrefs(w, list)' = PhaseXrefs(w, list)
  BY <1>1, <1>2 DEF PhaseXrefs, PhaseSection
<1> QED BY <1>1, <1>2, <1>8, <1>9 DEF Phase, PhaseStart, PhaseDone, PhaseRaised

-----------------------------------------------------------------------------
(* The list that is made, and those that have been. *)

\* The list has the pages of the file that were asked for, up to one; unless pdf.pages
\* has raised, that is the last.
Whole(list) ==
    /\ Numbered(list, WholeList)
    /\ \E last \in 0 .. Len(WholeList) :
        /\ NoneMissing(list, last) /\ \A k \in DOMAIN list : list[k].number <= last
        /\ last < Len(WholeList) \/ WholeTree.raised => failed

\* Of the pages given, the list under way has those that were asked for, but for the
\* one just given.
Progress(list) ==
    /\ Len(list) = call.i + (IF Resumed THEN 0 ELSE 1)
    /\ ~Resumed => list[Len(list)] = walk.page
    /\ Numbered(Listed, list) /\ NoneMissing(Listed, call.i)

WholeInv ==
    /\ pages # NoList /\ ~Making => \A list : list = Listed => Whole(list)
    /\ returned.given => \A list : list = returned.list => Whole(list)
    /\ Making => \E w, list : w = walk /\ Phase(w, list) /\ Progress(list)

\* A list stays as whole as it was, whatever becomes of the layouts.
LEMMA WholeSame ==
    ASSUME UNCHANGED <<doc, xrefs, catalog>>, failed' \in {failed, TRUE},
           NEW f, NEW g, Whole(f), DOMAIN g = DOMAIN f,
           \A k \in DOMAIN f : g[k].page = f[k].page /\ g[k].number = f[k].number
    PROVE  Whole(g)'
<1>1. WholeList' = WholeList /\ WholeTree' = WholeTree /\ \A n : Wanted(n)' = Wanted(n)
  BY TreeSame, SectionsSame
<1>2. \A whole : Numbered(f, whole) => Numbered(g, whole)
  BY DEF Numbered
<1>3. \A last : NoneMissing(f, last) => NoneMissing(g, last)'
  BY <1>1 DEF NoneMissing, Lists
<1> QED BY <1>1, <1>2, <1>3 DEF Whole

\* No list is made in a step that only changes layouts.
LEMMA KeepsWhole ==
    ASSUME ListInv, WholeInv, UNCHANGED <<doc, xrefs, catalog>>, ~Making, ~Making',
           pages' = pages, failed' \in {failed, TRUE},
           \A k \in DOMAIN made : Same(made'[k], made[k]),
           returned' \in {returned, NoAnswer} \/ (pages # NoList /\ returned' = Answer(pages))
    PROVE  WholeInv'
<1>1. ASSUME pages # NoList, NEW g, g = Listed' \/ g = Listed PROVE Whole(g)'
  <2>1. PICK f : f = Listed
    OBVIOUS
  <2>2. Whole(f)
    BY <1>1, <2>1 DEF WholeInv
  <2>3. ListOK
    BY <1>1 DEF ListInv
  <2>4. /\ DOMAIN f = DOMAIN pages /\ DOMAIN g = DOMAIN pages
        /\ \A k \in DOMAIN pages : /\ f[k] = made[pages[k]] /\ pages[k] \in DOMAIN made
                                   /\ g[k] = f[k] \/ g[k] = made'[pages[k]]
    BY <1>1, <2>1, <2>3 DEF Listed, ListOK
  <2>5. \A k \in DOMAIN f : g[k].page = f[k].page /\ g[k].number = f[k].number
    BY <2>4 DEF Same
  <2> QED BY <2>2, <2>4, <2>5, WholeSame
<1>2. ASSUME NEW g, returned'.given, g = returned'.list PROVE Whole(g)'
  <2>1. CASE returned' = returned
    <3>1. Whole(g)
      BY <1>2, <2>1 DEF WholeInv
    <3> QED BY <3>1, WholeSame
  <2>2. CASE returned' = NoAnswer
    BY <1>2, <2>2 DEF NoAnswer
  <2>3. CASE pages # NoList /\ returned' = Answer(pages)
    <3>1. g = Listed
      BY <1>2, <2>3 DEF Answer, Listed
    <3> QED BY <1>1, <2>3, <3>1
  <2> QED BY <2>1, <2>2, <2>3
<1> QED BY <1>1, <1>2 DEF WholeInv

-----------------------------------------------------------------------------
(* The list under way, step by step. *)

\* What pdf.pages returned last stays whole.
LEMMA KeepsReturned ==
    ASSUME WholeInv, UNCHANGED <<doc, xrefs, catalog>>, failed' \in {failed, TRUE},
           returned' = returned
    PROVE  (returned.given => \A list : list = returned.list => Whole(list))'
<1> SUFFICES ASSUME returned'.given, NEW g, g = returned'.list PROVE Whole(g)'
  OBVIOUS
<1>1. Whole(g)
  BY DEF WholeInv
<1> QED BY <1>1, WholeSame

\* A list begins, with the generator.
LEMMA StartKeepsWhole ==
    ASSUME WholeInv, UNCHANGED <<doc, xrefs, catalog>>, NEW what \in {"pages", "close"},
           MakePages(what),
           returned' = NoAnswer \/ (returned' = returned /\ failed' = failed)
    PROVE  WholeInv'
<1>1. /\ pages' = <<>> /\ walk' = NotStarted /\ call'.what = what /\ call'.i = 0
  BY DEF MakePages, NoCall
<1>2. Making'
  BY <1>1 DEF Making
<1>3. (returned.given => \A list : list = returned.list => Whole(list))'
  <2>1. CASE returned' = NoAnswer
    <3>1. ~returned'.given
      BY <2>1 DEF NoAnswer
    <3> QED BY <3>1
  <2>2. CASE returned' = returned /\ failed' = failed
    BY <2>2, KeepsReturned
  <2> QED BY <2>1, <2>2
<1>4. Phase(NotStarted, <<>>)
  BY PageLists DEF Phase, PhaseStart, NotStarted
<1> DEFINE none == <<>>
<1>5. PICK w : w = NotStarted
  OBVIOUS
<1>6. Phase(w, none)'
  <2>1. Phase(w, none)
    BY <1>4, <1>5
  <2> HIDE DEF none
  <2> QED BY <2>1, PhaseSame
<1>7. Progress(none)'
  <2>1. DOMAIN Listed' = {} /\ Resumed' /\ Len(none) = 0
    BY <1>1 DEF Listed, Resumed, NotStarted
  <2>2. Numbered(Listed, none)' /\ NoneMissing(Listed, call.i)'
    BY <1>1, <2>1 DEF Numbered, NoneMissing
  <2> QED BY <1>1, <2>1, <2>2 DEF Progress
<1> HIDE DEF none
<1>8. w = walk' /\ Phase(w, none)' /\ Progress(none)'
  BY <1>1, <1>5, <1>6, <1>7
<1> QED BY <1>2, <1>3, <1>8 DEF WholeInv

\* While no page waits to be taken, the generator goes on: the list has one page to
\* come, or none.
LEMMA GenerateKeepsWhole ==
    ASSUME doc \in Documents, Sectioned, ListInv, CacheInv, WholeInv, Generate
    PROVE  WholeInv'
<1>1. /\ Walk /\ UNCHANGED <<doc, xrefs, catalog>>
      /\ UNCHANGED <<pages, made, call, returned, failed>>
  BY DEF Generate, opened, history
<1>2. Making /\ Making'
  BY <1>1, WalkAtWork DEF Making
<1>3. Generator /\ StoredCached /\ closed \in BOOLEAN /\ call.i \in Nat
  BY <1>2 DEF ListInv, CacheInv, Counted
<1>4. PICK w, list : w = walk /\ Phase(w, list) /\ Progress(list)
  BY <1>2 DEF WholeInv
<1>5. Phase(walk, list)
  BY <1>4
<1>6. GoesOn(list)
  BY <1>1, <1>3, <1>5, WalkOn
<1>7. PICK more : /\ Phase(walk', more)
                  /\ more = IF walk'.page = NoPage THEN list ELSE Append(list, walk'.page)
  BY <1>6 DEF GoesOn
<1>8. PICK v : v = walk'
  OBVIOUS
<1>9. Phase(v, more)'
  <2>1. Phase(v, more)
    BY <1>7, <1>8
  <2> QED BY <1>1, <2>1, PhaseSame
<1>10. Resumed
  <2>1. CASE WalkStarts
    BY <1>5, <2>1 DEF WalkStarts, Resumed, Phase, PhaseStart, PhaseTree, PhaseXrefs, PhaseDone,
       PhaseRaised
  <2>2. CASE ~WalkStarts
    BY <1>1, <2>2 DEF Walk, EnterFails, EnterVisited, EnterNew, NextKid, TreeEnds, ScanSection,
       ScanObject, Resolved, Entering
  <2> QED BY <2>1, <2>2
<1>11. /\ Len(list) = call.i /\ Numbered(Listed, list) /\ NoneMissing(Listed, call.i)
       /\ Sequence(list)
  BY <1>3, <1>4, <1>10 DEF Progress, Phase, IsPages
<1>12. Listed' = Listed /\ \A n : Wanted(n)' = Wanted(n)
  BY <1>1, SectionsSame DEF Listed
<1>13. NoneMissing(Listed, call.i)'
  BY <1>1, <1>11, <1>12 DEF NoneMissing
<1>14. Progress(more)'
  <2>1. CASE walk'.page = NoPage
    <3>1. Numbered(Listed, more)'
      BY <1>7, <1>11, <1>12, <2>1
    <3>2. Len(more) = call'.i + 0
      BY <1>1, <1>3, <1>7, <1>11, <2>1
    <3> QED BY <1>13, <2>1, <3>1, <3>2 DEF Progress, Resumed
  <2>2. CASE walk'.page # NoPage
    <3> DEFINE page == walk'.page
    <3>1. more = Append(list, page)
      BY <1>7, <2>2
    <3> HIDE DEF page
    <3>2. /\ Len(more) = Len(list) + 1 /\ DOMAIN list = 1 .. Len(list)
          /\ DOMAIN more = 1 .. Len(list) + 1 /\ more[Len(list) + 1] = page
          /\ \A k \in 1 .. Len(list) : more[k] = list[k]
      BY <1>11, <3>1, SequenceAppend
    <3>3. \A n \in DOMAIN list : n \in DOMAIN more /\ more[n] = list[n]
      BY <1>3, <1>11, <3>2
    <3>4. Numbered(Listed, more)'
      BY <1>11, <1>12, <3>3 DEF Numbered
    <3>5. Len(more) = call'.i + 1 /\ more[Len(more)] = page
      BY <1>1, <1>11, <3>2
    <3> QED BY <1>13, <2>2, <3>4, <3>5 DEF Progress, Resumed, page
  <2> QED BY <2>1, <2>2
<1>15. (returned.given => \A list_1 : list_1 = returned.list => Whole(list_1))'
  BY <1>1, KeepsReturned
<1> QED BY <1>2, <1>8, <1>9, <1>14, <1>15 DEF WholeInv

\* A page is taken from a generator: that is not where it is.
LEMMA TakenPhase ==
    ASSUME NEW w, NEW list, Phase(w, list), NEW v,
           v.at = w.at, v.stack = w.stack, v.visited = w.visited, v.pages = w.pages,
           v.xref = w.xref, v.ids = w.ids, v.page = NoPage
    PROVE  Phase(v, list)
<1>1. PhaseSection(w, list) => PhaseSection(v, list)
  BY DEF PhaseSection
<1> QED BY <1>1 DEF Phase, PhaseStart, PhaseTree, PhaseXrefs, PhaseDone, PhaseRaised

\* With the page, the list under way goes on.
LEMMA TakenOn ==
    ASSUME ListInv, WholeInv, UNCHANGED <<doc, xrefs, catalog>>, walk.page # NoPage,
           walk' = [walk EXCEPT !.page = NoPage]
    PROVE  /\ Making
           /\ \E w, list : /\ w = walk' /\ Phase(w, list)' /\ Len(list) = call.i + 1
                           /\ list[call.i + 1] = walk.page
                           /\ DOMAIN list = 1 .. call.i + 1
                           /\ Numbered(Listed, list) /\ NoneMissing(Listed, call.i)
                           /\ call.i \in Nat
<1>1. Making
  BY DEF ListInv, Off, NotStarted
<1>2. Generator /\ call.i \in Nat
  BY <1>1 DEF ListInv, Counted
<1>3. PICK w, list : w = walk /\ Phase(w, list) /\ Progress(list)
  BY <1>1 DEF WholeInv
<1>4. PICK v : v = walk'
  OBVIOUS
<1>5. /\ v.at = w.at /\ v.stack = w.stack /\ v.visited = w.visited /\ v.pages = w.pages
      /\ v.xref = w.xref /\ v.ids = w.ids /\ v.page = NoPage
  BY <1>2, <1>3, <1>4 DEF Generator, Record
<1>6. Phase(v, list)
  BY <1>3, <1>5, TakenPhase
<1>7. Phase(v, list)'
  BY <1>6, PhaseSame
<1>8. Len(list) = call.i + 1 /\ list[Len(list)] = walk.page
      /\ Numbered(Listed, list) /\ NoneMissing(Listed, call.i)
  BY <1>3 DEF Progress, Resumed
<1>9. DOMAIN list = 1 .. Len(list)
  BY <1>3 DEF Phase, IsPages, Sequence
<1> QED BY <1>1, <1>2, <1>4, <1>7, <1>8, <1>9

\* A page that was not asked for is not missing.
LEMMA SkipKeepsWhole ==
    ASSUME doc \in Documents, Sectioned, ListInv, WholeInv, SkipPage
    PROVE  WholeInv'
<1>1. /\ UNCHANGED <<doc, xrefs, catalog>> /\ walk.page # NoPage /\ ~Wanted(call.i + 1)
      /\ walk' = [walk EXCEPT !.page = NoPage] /\ call' = [call EXCEPT !.i = @ + 1]
      /\ UNCHANGED <<pages, made, returned, failed>>
  BY DEF SkipPage, document, opened, history
<1>2. PICK w, list : /\ w = walk' /\ Phase(w, list)' /\ Len(list) = call.i + 1
                     /\ Numbered(Listed, list) /\ NoneMissing(Listed, call.i)
                     /\ call.i \in Nat
  BY <1>1, TakenOn
<1>3. Generator /\ Making
  BY <1>1, TakenOn DEF ListInv
<1>4. Resumed' /\ call'.i = call.i + 1 /\ Making'
  <2>1. call'.i = call.i + 1 /\ call'.what = call.what
    BY <1>1, <1>3 DEF Making, NoCall
  <2> QED BY <1>1, <1>3, <2>1 DEF Generator, Record, Resumed, Making
<1>5. Listed' = Listed /\ \A n : Wanted(n)' = Wanted(n)
  BY <1>1, SectionsSame DEF Listed
<1>6. NoneMissing(Listed, call.i)'
  <2>1. \A n \in 1 .. call.i + 1 : n \in 1 .. call.i \/ n = call.i + 1
    BY <1>2
  <2> QED BY <1>1, <1>2, <1>4, <1>5, <2>1 DEF NoneMissing
<1>7. Progress(list)'
  <2>1. Len(list) = call'.i + 0
    BY <1>2, <1>4
  <2>2. Numbered(Listed, list)'
    BY <1>2, <1>5
  <2> QED BY <1>4, <1>6, <2>1, <2>2 DEF Progress
<1>8. (returned.given => \A list_1 : list_1 = returned.list => Whole(list_1))'
  BY <1>1, KeepsReturned
<1> QED BY <1>2, <1>4, <1>7, <1>8 DEF WholeInv

\* A step that leaves all of it alone.
LEMMA UnchangedKeepsWhole ==
    ASSUME WholeInv, UNCHANGED <<doc, xrefs, catalog>>,
           UNCHANGED <<pages, made, failed, walk, call, returned>>
    PROVE  WholeInv'
<1>1. /\ \A n : Wanted(n)' = Wanted(n)
      /\ \A g : Whole(g) => Whole(g)'
  BY SectionsSame, WholeSame
<1>2. Listed' = Listed /\ Making' = Making /\ Resumed' = Resumed
  BY DEF Listed, Making, Resumed
<1>3. \A list : Progress(list) => Progress(list)'
  BY <1>1, <1>2 DEF Progress, NoneMissing
<1>4. \A w, list : Phase(w, list) => Phase(w, list)'
  BY PhaseSame
<1> QED BY <1>1, <1>2, <1>3, <1>4 DEF WholeInv

\* A page that was asked for is made, and listed.
LEMMA TakeKeepsWhole ==
    ASSUME doc \in Documents, Sectioned, ListInv, WholeInv, TakePage
    PROVE  WholeInv'
<1> DEFINE q == NewPage(call.i + 1)
           m == Len(made) + 1
           n == Len(pages)
<1>1. /\ UNCHANGED <<doc, xrefs, catalog>> /\ walk.page # NoPage
      /\ walk' = [walk EXCEPT !.page = NoPage]
      /\ call' = [call EXCEPT !.i = @ + 1, !.doctop = @ + Height(walk.page.attrs)]
      /\ made' = Append(made, q) /\ pages' = Append(pages, Len(made'))
      /\ UNCHANGED <<returned, failed>>
  BY DEF TakePage, document, opened, history
<1>2. PICK w, list : /\ w = walk' /\ Phase(w, list)' /\ Len(list) = call.i + 1
                     /\ list[call.i + 1] = walk.page /\ DOMAIN list = 1 .. call.i + 1
                     /\ Numbered(Listed, list) /\ NoneMissing(Listed, call.i)
                     /\ call.i \in Nat
  BY <1>1, TakenOn
<1>3. Generator /\ Making /\ PagesMade /\ ListOK
  BY <1>1, TakenOn DEF ListInv
<1>4. Resumed' /\ call'.i = call.i + 1 /\ Making'
  <2>1. call'.i = call.i + 1 /\ call'.what = call.what
    BY <1>1, <1>3 DEF Making, NoCall
  <2> QED BY <1>1, <1>3, <2>1 DEF Generator, Record, Resumed, Making
<1>5. q.page = walk.page /\ q.number = call.i + 1
  BY DEF NewPage
<1> HIDE DEF q
<1>6. /\ m \in Nat /\ Len(made') = m /\ DOMAIN made = 1 .. Len(made) /\ made'[m] = q
      /\ \A k \in DOMAIN made : made'[k] = made[k]
  <2>1. Sequence(made) /\ made' = Append(made, q)
    BY <1>1, <1>3 DEF PagesMade
  <2> QED BY <2>1, SequenceAppend
<1>7. /\ n \in Nat /\ DOMAIN pages = 1 .. n /\ DOMAIN pages' = 1 .. n + 1 /\ pages'[n + 1] = m
      /\ \A k \in 1 .. n : pages'[k] = pages[k] /\ pages[k] \in DOMAIN made
  <2>1. Sequence(pages) /\ pages' = Append(pages, m)
    BY <1>1, <1>3, <1>6 DEF ListOK
  <2>2. DOMAIN pages = 1 .. n /\ \A k \in 1 .. n : pages[k] \in DOMAIN made
    BY <1>3, <2>1, SequenceAppend DEF ListOK
  <2> HIDE DEF m
  <2> QED BY <2>1, <2>2, SequenceAppend
<1> HIDE DEF m, n
<1>8. PICK f, g : f = Listed /\ g = Listed'
  OBVIOUS
<1>9. /\ DOMAIN f = 1 .. n /\ DOMAIN g = 1 .. n + 1 /\ g[n + 1] = q
      /\ \A k \in 1 .. n : g[k] = f[k] /\ k \in 1 .. n + 1
      /\ \A k \in 1 .. n + 1 : k \in 1 .. n \/ k = n + 1
  <2>1. /\ f = [k \in DOMAIN pages |-> made[pages[k]]]
        /\ g = [k \in DOMAIN pages' |-> made'[pages'[k]]]
    BY <1>8 DEF Listed
  <2>2. n + 1 \in 1 .. n + 1 /\ \A k \in 1 .. n : k \in 1 .. n + 1
    BY <1>7
  <2>3. \A k \in 1 .. n + 1 : k \in 1 .. n \/ k = n + 1
    BY <1>7
  <2> QED BY <1>6, <1>7, <2>1, <2>2, <2>3
<1>10. Numbered(g, list)
  <2>1. \A k \in 1 .. n : f[k].number \in DOMAIN list /\ f[k].page = list[f[k].number]
    BY <1>2, <1>8, <1>9 DEF Numbered
  <2>2. q.number \in DOMAIN list /\ q.page = list[q.number]
    BY <1>2, <1>5
  <2>3. ASSUME NEW k \in 1 .. n + 1
        PROVE  g[k].number \in DOMAIN list /\ g[k].page = list[g[k].number]
    BY <1>9, <2>1, <2>2
  <2> QED BY <1>9, <2>3 DEF Numbered
<1>11. \A j \in 1 .. call.i + 1 : Wanted(j) => Lists(g, j)
  <2> SUFFICES ASSUME NEW j \in 1 .. call.i + 1, Wanted(j) PROVE Lists(g, j)
    OBVIOUS
  <2>1. CASE j = call.i + 1
    <3>1. n + 1 \in 1 .. n + 1
      BY <1>7
    <3> QED BY <1>5, <1>9, <2>1, <3>1 DEF Lists
  <2>2. CASE j # call.i + 1
    <3>1. j \in 1 .. call.i
      BY <1>2, <2>2
    <3>2. Lists(f, j)
      BY <1>2, <1>8, <3>1 DEF NoneMissing
    <3>3. PICK k \in 1 .. n : f[k].number = j
      BY <1>9, <3>2 DEF Lists
    <3> QED BY <1>9, <3>3 DEF Lists
  <2> QED BY <2>1, <2>2
<1>12. NoneMissing(Listed, call.i)'
  <2>1. \A j : Wanted(j)' = Wanted(j)
    BY <1>1, SectionsSame
  <2> QED BY <1>4, <1>8, <1>11, <2>1 DEF NoneMissing
<1>13. Progress(list)'
  <2>1. Len(list) = call'.i + 0
    BY <1>2, <1>4
  <2>2. Numbered(Listed, list)'
    BY <1>8, <1>10
  <2> QED BY <1>4, <1>12, <2>1, <2>2 DEF Progress
<1>14. (returned.given => \A list_1 : list_1 = returned.list => Whole(list_1))'
  BY <1>1, KeepsReturned
<1> QED BY <1>2, <1>4, <1>13, <1>14 DEF WholeInv

\* Whether the generator has ended or pdf.pages raises, the list stays whole ...
LEMMA EndedKeepsWhole ==
    ASSUME ListInv, WholeInv, UNCHANGED <<doc, xrefs, catalog, pages, made>>, ~Making',
           Making, failed' \in {failed, TRUE}, \A g : g = Listed => Whole(g)',
           returned' = returned \/ returned' = Answer(pages)
    PROVE  WholeInv'
<1>1. Listed' = Listed /\ pages # NoList
  BY DEF Listed, ListInv
<1>2. ASSUME NEW g, returned'.given, g = returned'.list PROVE Whole(g)'
  <2>1. CASE returned' = returned
    <3>1. Whole(g)
      BY <1>2, <2>1 DEF WholeInv
    <3> QED BY <3>1, WholeSame
  <2>2. CASE returned' = Answer(pages)
    <3>1. g = Listed
      BY <1>2, <2>2 DEF Answer, Listed
    <3> QED BY <3>1
  <2> QED BY <2>1, <2>2
<1> QED BY <1>1, <1>2 DEF WholeInv

\* ... as it has the pages of the file up to where the generator is.
LEMMA EndsWhole ==
    ASSUME doc \in Documents, Sectioned, ListInv, WholeInv, Making,
           UNCHANGED <<doc, xrefs, catalog>>,
           \/ failed' = TRUE
           \/ failed' = failed /\ walk.at = "done" /\ walk.page = NoPage
    PROVE  \A g : g = Listed => Whole(g)'
<1>1. PICK w, list : w = walk /\ Phase(w, list) /\ Progress(list)
  BY DEF WholeInv
<1>2. Prefix(list, WholeList) /\ IsPages(list) /\ IsPages(WholeList)
  BY <1>1, PhasePrefix, WholeTyped DEF Phase
<1> DEFINE most == Len(WholeList)
<1>0. PICK i : i = call.i
  OBVIOUS
<1>3. /\ i \in Nat /\ Numbered(Listed, list) /\ NoneMissing(Listed, i)
      /\ \A k \in DOMAIN pages : made[pages[k]].number <= i
      /\ Len(list) = i + (IF walk.page = NoPage THEN 0 ELSE 1)
  BY <1>0, <1>1 DEF ListInv, Counted, Progress, Resumed
<1>4. /\ most \in Nat /\ DOMAIN WholeList = 1 .. most /\ Len(list) \in Nat
      /\ DOMAIN list = 1 .. Len(list) /\ Len(list) <= most
      /\ \A k \in 1 .. Len(list) : WholeList[k] = list[k]
  BY <1>2 DEF Prefix, IsPages, Sequence
<1>5. ~(failed' = TRUE) => failed' = failed /\ i = most /\ ~WholeTree.raised
  <2> SUFFICES ASSUME ~(failed' = TRUE) PROVE failed' = failed /\ i = most /\ ~WholeTree.raised
    OBVIOUS
  <2>1. failed' = failed /\ walk.at = "done" /\ walk.page = NoPage
    OBVIOUS
  <2>2. list = WholeList /\ ~WholeTree.raised
    BY <1>1, <2>1 DEF Phase, PhaseStart, PhaseTree, PhaseXrefs, PhaseDone, PhaseRaised
  <2>3. Len(list) = i + 0
    BY <1>3, <2>1
  <2> QED BY <1>3, <2>1, <2>2, <2>3
<1> HIDE DEF most
<1>6. i \in 0 .. most
  BY <1>3, <1>4
<1> SUFFICES ASSUME NEW g, g = Listed PROVE Whole(g)'
  OBVIOUS
<1>7. WholeList' = WholeList /\ WholeTree' = WholeTree /\ \A n : Wanted(n)' = Wanted(n)
  BY TreeSame, SectionsSame
<1>8. Numbered(g, WholeList)
  <2>1. ASSUME NEW k \in DOMAIN g
        PROVE  g[k].number \in DOMAIN WholeList /\ g[k].page = WholeList[g[k].number]
    <3>1. g[k].number \in 1 .. Len(list) /\ g[k].page = list[g[k].number]
      BY <1>3, <1>4 DEF Numbered
    <3>2. g[k].number \in 1 .. most
      BY <1>4, <3>1 DEF most
    <3> QED BY <1>4, <3>1, <3>2
  <2> QED BY <2>1 DEF Numbered
<1>9. NoneMissing(g, i)'
  BY <1>3, <1>7 DEF NoneMissing
<1>10. \A k \in DOMAIN g : g[k].number <= i
  BY <1>3 DEF Listed
<1>11. i < most \/ WholeTree.raised => failed'
  BY <1>3, <1>4, <1>5
<1> QED BY <1>6, <1>7, <1>8, <1>9, <1>10, <1>11 DEF Whole, most

\* What is read of a file has its list, all along.
LEMMA WholeStep ==
    ASSUME doc \in Documents, ListInv, ChainInv, CacheInv, WholeInv, [Next]_vars
    PROVE  WholeInv'
<1>0. Sectioned
  BY DEF ChainInv
<1>1. CASE Open
  <2>1. opening.at # "done" /\ UNCHANGED <<pages, returned, call>>
    BY <1>1 DEF Open, OpenStep, FindXRef, ReadSection, FollowXRefStm, FollowPrev,
       SectionReturns, ChainEnds, Scan, FindRoot, NoRoot, history
  <2>2. pages = NoList /\ ~returned.given /\ ~Making
    BY <2>1 DEF CacheInv, OpensFirst, Making
  <2> QED BY <2>1, <2>2 DEF WholeInv, Making
<1>2. ASSUME ~Open PROVE UNCHANGED <<doc, xrefs, catalog>>
  BY <1>2, NotOpening DEF opened
<1>3. \A k \in DOMAIN made : Same(made[k], made[k])
  BY DEF Same
<1>4. CASE OpenEnds \/ GetPages \/ GetObjects \/ Rest \/ UNCHANGED vars
  <2>1. /\ UNCHANGED <<doc, xrefs, catalog>>
        /\ UNCHANGED <<pages, made, failed>>
        /\ \/ ~Making /\ ~Making'
           \/ UNCHANGED <<walk, call, returned>>
        /\ \/ returned' = returned
           \/ pages # NoList /\ returned' = Answer(pages)
    BY <1>4 DEF OpenEnds, GetPages, GetObjects, Rest, vars, Calling, Idle, Making, NoCall,
       history, document, opened
  <2>2. CASE ~Making /\ ~Making'
    BY <1>3, <2>1, <2>2, KeepsWhole
  <2>3. CASE UNCHANGED <<walk, call, returned>>
    BY <2>1, <2>3, UnchangedKeepsWhole
  <2> QED BY <2>1, <2>2, <2>3
<1>5. CASE StartObjects \/ Draw \/ ObjectsRaise
  <2>1. /\ ~Making /\ ~Making' /\ UNCHANGED <<doc, xrefs, catalog>>
        /\ UNCHANGED <<pages, made, failed, returned>>
    <3>1. CASE StartObjects
      BY <3>1 DEF StartObjects, Calling, Idle, Making, NoCall, history, opened
    <3>2. CASE Draw
      <4>1. status = "running"
        BY <3>2, DrawAtWork DEF Draw
      <4> QED BY <3>2, <4>1 DEF Draw, Making, ListInv, history, opened
    <3>3. CASE ObjectsRaise
      BY <3>3 DEF ObjectsRaise, Making, NoCall, ListInv, document, opened
    <3> QED BY <1>5, <3>1, <3>2, <3>3
  <2> QED BY <1>3, <2>1, KeepsWhole
<1>6. CASE ClosePage \/ ObjectsReturn
  <2>1. /\ ~Making /\ ~Making' /\ UNCHANGED <<doc, xrefs, catalog>>
        /\ UNCHANGED <<pages, failed, returned>>
        /\ \E p, layout : made' = [made EXCEPT ![p].layout = layout]
    BY <1>6 DEF ClosePage, ObjectsReturn, Calling, Idle, Making, NoCall, ListInv, history,
       document, opened
  <2>2. \A k \in DOMAIN made : Same(made'[k], made[k])
    <3>1. PICK p, layout : made' = [made EXCEPT ![p].layout = layout]
      BY <2>1
    <3> DEFINE v == [made[p] EXCEPT !.layout = layout]
    <3>2. made' = [made EXCEPT ![p] = v]
      BY <3>1
    <3>3. p \in DOMAIN made => Same(v, made[p])
      BY DEF ListInv, PagesMade, IsPage, Record, Same
    <3> HIDE DEF v
    <3>4. \A k \in DOMAIN made : made'[k] = IF k = p THEN v ELSE made[k]
      BY <3>2, SequenceExcept DEF ListInv, PagesMade
    <3> QED BY <1>3, <3>3, <3>4
  <2> QED BY <2>1, <2>2, KeepsWhole
<1>7. CASE StartPages \/ StartClose
  <2>1. /\ UNCHANGED <<doc, xrefs, catalog>>
        /\ \E what \in {"pages", "close"} : MakePages(what)
        /\ returned' = NoAnswer \/ (returned' = returned /\ failed' = failed)
    BY <1>7 DEF StartPages, StartClose, history, document, opened
  <2> QED BY <2>1, StartKeepsWhole
<1>8. CASE PagesRaise
  <2>1. /\ Making /\ ~Making' /\ UNCHANGED <<doc, xrefs, catalog, pages, made, returned>>
        /\ failed' = TRUE
    BY <1>8 DEF PagesRaise, Making, NoCall, document, opened
  <2>2. \A g : g = Listed => Whole(g)'
    BY <1>0, <2>1, EndsWhole
  <2> QED BY <2>1, <2>2, EndedKeepsWhole
<1>9. CASE PagesReturn \/ CloseReturns
  <2>1. /\ Making /\ ~Making' /\ UNCHANGED <<doc, xrefs, catalog, pages, made, failed>>
        /\ walk.at = "done" /\ walk.page = NoPage
        /\ returned' = returned \/ returned' = Answer(pages)
    BY <1>9 DEF PagesReturn, CloseReturns, Making, NoCall, document, opened, history
  <2>2. \A g : g = Listed => Whole(g)'
    BY <1>0, <2>1, EndsWhole
  <2> QED BY <2>1, <2>2, EndedKeepsWhole
<1> QED BY <1>0, <1>1, <1>4, <1>5, <1>6, <1>7, <1>8, <1>9, GenerateKeepsWhole, SkipKeepsWhole,
           TakeKeepsWhole DEF Next

\* ListsAreWhole: whatever was read, raised, skipped or closed before, the list that
\* pdf.pages returns has the pages of the page tree in its order, or, when the tree gives
\* none, those of the cross-reference sections, each with its number and with the attributes
\* it inherits, and misses none that was asked for up to the last; only a call that raised
\* leaves the list short of the last page of the file (pdfpage.rs, create_pages; pdf.rs, pages).
THEOREM ExtractionListsAreWhole == Spec => []ListsAreWhole
<1> DEFINE I == ListInv /\ ChainInv /\ CacheInv /\ WholeInv
<1>1. Init => I
  <2>1. Init => WholeInv
    BY DEF Init, WholeInv, Making, NoCall, NoAnswer
  <2> QED BY <2>1, ListInit, ChainInit, CacheInit
<1>2. I /\ [Next]_vars => I'
  BY ListStep, ChainStep, CacheStep, WholeStep DEF CacheInv
<1>3. I => ListsAreWhole
  BY DEF ListInv, PagesAreStacked, WholeInv, Whole, ListsAreWhole
<1> QED BY <1>1, <1>2, <1>3, PTL DEF Spec
================================================================================
