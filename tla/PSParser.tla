-------------------------------- MODULE PSParser -------------------------------
(***************************************************************************)
(* The parser all parsers of pdfminer derive from (psparser.rs,            *)
(* PSBaseParser and PSStackParser), with what PDFContentParser overrides   *)
(* (pdfinterp.rs): it reads several streams one after the other, in blocks,*)
(* and inline images.  With one stream it is the parser of a file.         *)
(*                                                                         *)
(* One action is one turn of a loop: of nexttoken, of nextobject, of       *)
(* get_inline_data, of nextline or of the generator revreadlines.          *)
(*                                                                         *)
(* Left out: RecursionError, a file that the PDF closed, and the values of *)
(* dictionaries that are null.                                             *)
(***************************************************************************)
EXTENDS Lexer

CONSTANTS
    Texts,   \* the sequences of streams read
    BufSizes \* the lengths that BUFSIZ may have

VARIABLES
    streams,  \* ContentStreams.streams
    bufsiz,   \* BUFSIZ
    reading,  \* what the caller reads: tokens, lines, or lines from the end
    file,     \* istream, fp (open, tell), buf, bufpos, charpos
    lexer,
    eof,
    stack,    \* context, curtype, curstack
    given,    \* the objects that nextobject returned, each the numbers of the
              \* tokens it is made of
    taken,    \* tokens that nextobject took (a counter of the model)
    image,    \* the get_inline_data under way
    line,     \* the nextline or revreadlines under way
    read,     \* all tokens, or lines, read so far (a history of the model)
    images,   \* the inline images read (a history of the model)
    guard,    \* ProgressGuard: the furthest position, steps without progress
    status    \* on, end (PSEOF), raised (AssertionError), syntax (PSSyntaxError)

vars == <<streams, bufsiz, reading, file, lexer, eof, stack, given, taken,
          image, line, read, images, guard, status>>
given_ == <<streams, bufsiz, reading>>

ASSUME PSParserAssumption ==
    /\ \A t \in Texts : t \in Seq(Seq(Bytes)) /\ t # <<>>
    /\ BufSizes \subseteq Nat \ {0}

NoImage == [on |-> FALSE, i |-> 0, data |-> <<>>, mark |-> <<>>, from |-> 0]
NewStack == [context |-> <<>>, curtype |-> "none", curstack |-> <<>>]
NewGuard == [high |-> <<0, -1>>, stalls |-> 0]
NewLine == [pos |-> 0, text |-> <<>>, eol |-> FALSE]

\* PSStackParser.__init__: the first stream is open, nothing is read.
Init ==
    /\ streams \in Texts
    /\ bufsiz \in BufSizes
    /\ reading \in IF Len(streams) = 1 THEN {"tokens", "lines", "back"}
                   ELSE {"tokens"}
    /\ file = [istream |-> 1, open |-> TRUE, tell |-> 0, buf |-> <<>>,
               bufpos |-> 0, charpos |-> 0]
    /\ lexer = NewLexer
    /\ eof = FALSE
    /\ stack = NewStack
    /\ given = <<>>
    /\ taken = 0
    /\ image = NoImage
    /\ line = IF reading = "back" THEN [NewLine EXCEPT !.pos = Len(streams[1])]
              ELSE NewLine
    /\ read = <<>>
    /\ images = <<>>
    /\ guard = NewGuard
    /\ status = "on"

-----------------------------------------------------------------------------
(* The blocks. *)

\* The file with the next block of its stream.
WithBlock(f) ==
    LET end == Min({f.tell + bufsiz, Len(streams[f.istream])})
    IN  [f EXCEPT !.buf = SubSeq(streams[f.istream], f.tell + 1, end),
                  !.bufpos = f.tell, !.tell = end, !.charpos = 0]

Unread(f) == f.charpos < Len(f.buf)
Later(f) == {k \in (f.istream + 1) .. Len(streams) : streams[k] # <<>>}

\* fillbuf: the block as it is, the next one of the stream, or the first one of
\* the next stream that has any.
HasMore(f) == Unread(f) \/ f.tell < Len(streams[f.istream]) \/ Later(f) # {}
Changes(f) == ~Unread(f) /\ f.tell >= Len(streams[f.istream])
Filled(f) ==
    IF Unread(f) THEN f
    ELSE IF Changes(f)
    THEN WithBlock([f EXCEPT !.istream = Min(Later(f)), !.tell = 0])
    ELSE WithBlock(f)

\* ... and the file when there is none: the last stream is closed.
Exhausted(f) ==
    [f EXCEPT !.istream = Len(streams), !.open = FALSE, !.buf = <<>>,
              !.bufpos = IF f.istream = Len(streams) THEN f.tell ELSE 0]

Position(f) == <<f.istream, f.bufpos + f.charpos>>
Beyond(p, q) == p[1] > q[1] \/ (p[1] = q[1] /\ p[2] > q[2])

\* ProgressGuard::check
Checked(f) ==
    IF Beyond(Position(f), guard.high)
    THEN [high |-> Position(f), stalls |-> 0]
    ELSE [guard EXCEPT !.stalls = @ + 1]

-----------------------------------------------------------------------------
(* nexttoken *)

Reads(what) == status = "on" /\ reading = what /\ ~image.on
Wants == Reads("tokens") /\ lexer.tokens = <<>> /\ ~eof

\* Mutation of Tacked: the next stream is read on with the token of the last one.
TackedNever(f) == FALSE

\* The stream changed in the middle of a token: white space is tacked on.
Tacked(f) == Changes(f) /\ lexer.curtoken # <<>>

Outcome(result) ==
    /\ lexer' = result.lexer
    /\ read' = read \o result.lexer.tokens

\* A turn of nexttoken's loop (nexttoken_step and the guard).
NextTokenStep ==
    /\ Wants
    /\ HasMore(file)
    /\ LET f == Filled(file)
           result == IF Tacked(file) THEN Parse1(lexer, <<"lf">>, 0, f.bufpos)
                     ELSE Parse1(lexer, f.buf, f.charpos, f.bufpos)
           after == IF Tacked(file) \/ result.raised THEN f
                    ELSE [f EXCEPT !.charpos = result.next]
       IN  /\ Outcome(result)
           /\ file' = after
           /\ status' = IF result.raised THEN "raised" ELSE status
           /\ guard' = IF result.raised THEN guard ELSE Checked(after)
    /\ UNCHANGED <<given_, eof, stack, given, taken, image, line, images>>

\* Its turn at the end: the token under way is ended by white space.
NextTokenAtEnd ==
    /\ Wants
    /\ ~HasMore(file)
    /\ LET f == Exhausted(file)
           result == Parse1(lexer, <<"lf">>, 0, f.bufpos)
       IN  /\ Outcome(result)
           /\ file' = IF result.raised THEN f ELSE [f EXCEPT !.charpos = result.next]
           /\ eof' = ~result.raised
           /\ status' = IF result.raised THEN "raised"
                        ELSE IF result.lexer.tokens = <<>> THEN "end" ELSE status
    /\ UNCHANGED <<given_, stack, given, taken, image, line, images, guard>>

\* Nothing is left after that token.
NextTokenAfterEnd ==
    /\ Reads("tokens")
    /\ eof
    /\ lexer.tokens = <<>>
    /\ status' = "end"
    /\ UNCHANGED <<given_, file, lexer, eof, stack, given, taken, image, line,
                   read, images, guard>>

-----------------------------------------------------------------------------
(* nextobject: the token is taken as soon as there is one. *)

Word(chars) == [k \in DOMAIN chars |-> <<chars[k]>>]
Is(token, chars) == token.kind = "keyword" /\ token.text = Word(chars)

Opening == [a |-> <<"[">>, d |-> <<"<", "<">>, p |-> <<"{">>, inline |-> <<"B", "I">>]
Closing == [a |-> <<"]">>, d |-> <<">", ">">>, p |-> <<"}">>, inline |-> <<"I", "D">>]
Types == DOMAIN Opening

Structural(token) ==
    \E type \in Types : Is(token, Opening[type]) \/ Is(token, Closing[type])

\* start_type
Started(s, type) ==
    [ context |-> Append(s.context, [curtype |-> s.curtype, curstack |-> s.curstack]),
      curtype |-> type, curstack |-> <<>> ]

\* end_type, when the type is the current one.
Ended(s) ==
    LET back == s.context[Len(s.context)]
    IN  [ context |-> Front(s.context), curtype |-> back.curtype,
          curstack |-> back.curstack ]

Pushed(s, object) == [s EXCEPT !.curstack = Append(@, object)]

\* flush, when no array, dictionary, procedure or image is open.
Flushed(s) == IF s.context = <<>> THEN [s EXCEPT !.curstack = <<>>] ELSE s
Results(s) == IF s.context = <<>> THEN s.curstack ELSE <<>>

\* The rest of a turn of nextobject's loop: s is the stack with the token's effect.
Take(s) ==
    /\ Reads("tokens")
    /\ lexer.tokens # <<>>
    /\ lexer' = [lexer EXCEPT !.tokens = Tail(@)]
    /\ taken' = taken + 1
    /\ stack' = Flushed(s)
    /\ given' = given \o Results(s)
    /\ UNCHANGED <<given_, file, eof, image, line, read, images, guard>>

NextToken == Head(lexer.tokens)

TakeValue ==
    /\ lexer.tokens # <<>>
    /\ ~Structural(NextToken)
    /\ Take(Pushed(stack, <<taken + 1>>))
    /\ UNCHANGED status

TakeOpening(type) ==
    /\ lexer.tokens # <<>>
    /\ Is(NextToken, Opening[type])
    /\ Take(Started(stack, type))
    /\ UNCHANGED status

\* Mutation of Mismatched: the objects read so far go before the types are compared.
MismatchedDropped(s) == [s EXCEPT !.curstack = <<>>]

\* A closing keyword of another type is ignored (PSTypeError, not STRICT).
Mismatched(s) == s

TakeClosing(type) ==
    /\ lexer.tokens # <<>>
    /\ type # "inline"
    /\ Is(NextToken, Closing[type])
    /\ IF stack.curtype # type THEN Take(Mismatched(stack)) /\ UNCHANGED status
       ELSE IF type = "d" /\ Len(stack.curstack) % 2 = 1
       THEN /\ lexer' = [lexer EXCEPT !.tokens = Tail(@)]
            /\ Reads("tokens")
            /\ taken' = taken + 1
            /\ stack' = Ended(stack)
            /\ status' = "syntax"
            /\ UNCHANGED <<given_, file, eof, given, image, line, read, images,
                           guard>>
       ELSE /\ Take(Pushed(Ended(stack), FlattenSeq(stack.curstack)))
            /\ UNCHANGED status

-----------------------------------------------------------------------------
(* Inline images: do_keyword of ID, and get_inline_data. *)

\* The mark after the data: what /F says.
Marks(objects) == IF objects = <<>> THEN {<<"E", "I">>}
                  ELSE {<<"E", "I">>, <<"~", ">">>}

\* PDFContentParser.seek: the stream that is open, from pos on, with everything
\* read so far forgotten; PSEOF when no stream is open.
BeginImage(mark) ==
    /\ Reads("tokens")
    /\ lexer.tokens # <<>>
    /\ Is(NextToken, Closing["inline"])
    /\ stack.curtype = "inline"
    /\ Len(stack.curstack) % 2 = 0
    /\ mark \in Marks(stack.curstack)
    /\ taken' = taken + 1
    /\ IF file.open
       THEN LET pos == NextToken.pos + 3
            IN  /\ file' = [file EXCEPT !.tell = pos, !.buf = <<>>, !.bufpos = pos,
                                        !.charpos = 0]
                /\ lexer' = [lexer EXCEPT !.parse1 = "Main", !.curtoken = <<>>,
                                          !.curtokenpos = 0, !.tokens = <<>>]
                /\ eof' = FALSE
                /\ guard' = NewGuard
                /\ stack' = NewStack
                /\ image' = [ on |-> TRUE, i |-> 0, data |-> <<>>, mark |-> mark,
                              from |-> pos ]
                /\ UNCHANGED status
       ELSE /\ lexer' = [lexer EXCEPT !.tokens = Tail(@)]
            /\ stack' = Ended(stack)
            /\ status' = "end"
            /\ UNCHANGED <<file, eof, guard, image>>
    /\ UNCHANGED <<given_, given, line, read, images>>

\* ID without BI, or with half a pair (PSTypeError, ignored): the keyword is gone,
\* and so are the objects since BI.
SkipImage ==
    /\ lexer.tokens # <<>>
    /\ Is(NextToken, Closing["inline"])
    /\ stack.curtype = "inline" => Len(stack.curstack) % 2 = 1
    /\ Take(IF stack.curtype = "inline" THEN Ended(stack) ELSE Mismatched(stack))
    /\ UNCHANGED status

\* strip_trailing_eol: the data is cut where the first match in its last three
\* bytes begins.
Stripped(data) ==
    LET n == Len(data)
        AtDollar(q) == q = n \/ (q + 1 = n /\ At(data, n - 1) = "lf")
        begins(p) == \/ At(data, p) \in Eol /\ AtDollar(p + 1)
                     \/ /\ p + 1 < n
                        /\ At(data, p) = "cr" /\ At(data, p + 1) = "lf"
                        /\ AtDollar(p + 2)
        found == {p \in Max({n - 3, 0}) .. (n - 1) : begins(p)}
    IN  SubSeq(data, 1, IF found = {} THEN n ELSE Min(found))

\* The byte continues the match of the mark and of the white space after it.
Matches(im, c) ==
    \/ im.i >= Len(im.mark) /\ c \in Space
    \/ im.i < Len(im.mark) /\ c = At(im.mark, im.i)

\* A turn of the loop of get_inline_data on the file f: the image, and the file.
Looked(im, f) ==
    IF im.i # 0
    THEN LET c == At(f.buf, f.charpos)
         IN  << [im EXCEPT !.data = Append(@, c),
                           !.i = IF Matches(im, c) THEN @ + 1 ELSE 0],
                [f EXCEPT !.charpos = @ + 1] >>
    ELSE LET j == FirstOf(f.buf, f.charpos, {At(im.mark, 0)})
             end == Min({j + 1, Len(f.buf)})
         IN  << [im EXCEPT !.data = @ \o SubSeq(f.buf, f.charpos + 1, end),
                           !.i = IF j < Len(f.buf) THEN 1 ELSE 0],
                [f EXCEPT !.charpos = end] >>

\* The data without the mark, the white space and a line end; EI is read again as
\* a keyword.
ImageStep ==
    /\ status = "on"
    /\ image.on
    /\ HasMore(file)
    /\ LET looked == Looked(image, Filled(file))
           im == looked[1]
           done == im.i > Len(im.mark)
           data == Stripped(SubSeq(im.data, 1, Len(im.data) - Len(im.mark) - 1))
       IN  /\ file' = looked[2]
           /\ guard' = Checked(looked[2])
           /\ image' = IF done THEN NoImage ELSE im
           /\ images' = IF done THEN Append(images, [from |-> im.from, data |-> data,
                                                     mark |-> im.mark])
                        ELSE images
           /\ given' = IF ~done THEN given
                       ELSE given \o (IF im.mark = <<"E", "I">> THEN << <<>>, <<>> >>
                                      ELSE << <<>> >>)
    /\ UNCHANGED <<given_, lexer, eof, stack, taken, line, read, status>>

\* The data does not end: PSEOF leaves nextobject.
ImageAtEnd ==
    /\ status = "on"
    /\ image.on
    /\ ~HasMore(file)
    /\ file' = Exhausted(file)
    /\ status' = "end"
    /\ UNCHANGED <<given_, lexer, eof, stack, given, taken, image, line, read,
                   images, guard>>

-----------------------------------------------------------------------------
(* Lines. *)

\* A turn of nextline's loop; the line after begins where this one ends.
NextLineStep ==
    /\ Reads("lines")
    /\ HasMore(file)
    /\ LET f == Filled(file)
           lf == At(f.buf, f.charpos) = "lf"
           j == FirstOf(f.buf, f.charpos, Eol)
           end == IF line.eol THEN f.charpos + (IF lf THEN 1 ELSE 0)
                  ELSE Min({j + 1, Len(f.buf)})
           after == [f EXCEPT !.charpos = end]
           text == line.text \o SubSeq(f.buf, f.charpos + 1, end)
           done == line.eol \/ (j < Len(f.buf) /\ At(f.buf, j) = "lf")
       IN  /\ file' = after
           /\ read' = IF done THEN Append(read, [pos |-> line.pos, line |-> text])
                      ELSE read
           /\ line' = IF done THEN [NewLine EXCEPT !.pos = f.bufpos + end]
                      ELSE [line EXCEPT !.text = text, !.eol = j < Len(f.buf)]
           /\ guard' = IF done THEN guard ELSE Checked(after)
    /\ UNCHANGED <<given_, lexer, eof, stack, given, taken, image, images, status>>

NextLineAtEnd ==
    /\ Reads("lines")
    /\ ~HasMore(file)
    /\ file' = Exhausted(file)
    /\ status' = "end"
    /\ UNCHANGED <<given_, lexer, eof, stack, given, taken, image, line, read,
                   images, guard>>

\* A turn of revreadlines: the last line end of the block (eol: a block is being
\* split, in file.buf) gives a line, ...
RevLine ==
    /\ Reads("back")
    /\ line.eol
    /\ LET ends == {i \in 0 .. (Len(file.buf) - 1) : At(file.buf, i) \in Eol}
           n == IF ends = {} THEN 0 ELSE Max(ends)
           text == SubSeq(file.buf, n + 1, Len(file.buf)) \o line.text
       IN  IF ends = {}
           THEN /\ line' = [line EXCEPT !.text = text, !.eol = FALSE]
                /\ UNCHANGED <<read, file>>
           ELSE /\ read' = Append(read, text)
                /\ file' = [file EXCEPT !.buf = SubSeq(@, 1, n)]
                /\ line' = [line EXCEPT !.text = <<>>]
    /\ UNCHANGED <<given_, lexer, eof, stack, given, taken, image, images, guard,
                   status>>

\* ... and a block without any is followed by the block before it.
RevBlock ==
    /\ Reads("back")
    /\ ~line.eol
    /\ line.pos > 0
    /\ LET pos == Max({line.pos - bufsiz, 0})
       IN  /\ file' = [file EXCEPT !.buf = SubSeq(streams[1], pos + 1, line.pos),
                                   !.tell = line.pos]
           /\ line' = [line EXCEPT !.pos = pos, !.eol = TRUE]
    /\ UNCHANGED <<given_, lexer, eof, stack, given, taken, image, read, images,
                   guard, status>>

RevEnd ==
    /\ Reads("back")
    /\ ~line.eol
    /\ line.pos = 0
    /\ status' = "end"
    /\ UNCHANGED <<given_, file, lexer, eof, stack, given, taken, image, line,
                   read, images, guard>>

\* The caller got its exception: anywhere else, a parser that stops is a deadlock.
Stop == status # "on" /\ UNCHANGED vars

Next ==
    \/ NextTokenStep \/ NextTokenAtEnd \/ NextTokenAfterEnd
    \/ TakeValue
    \/ \E type \in Types : TakeOpening(type) \/ TakeClosing(type)
    \/ \E mark \in {<<"E", "I">>, <<"~", ">">>} : BeginImage(mark)
    \/ SkipImage \/ ImageStep \/ ImageAtEnd
    \/ NextLineStep \/ NextLineAtEnd
    \/ RevLine \/ RevBlock \/ RevEnd
    \/ Stop

Spec == Init /\ [][Next]_vars

-----------------------------------------------------------------------------

Over == status # "on"
Text == streams[1]
Alone == Len(streams) = 1
NoInline == \A k \in DOMAIN read :
              ~Is(read[k], Opening["inline"]) /\ ~Is(read[k], Closing["inline"])

AsWritten == INSTANCE Lexemes

\* The tokens of a file are those its text has, wherever its blocks end (but for
\* a CR LF after a backslash: "some results depend on where a block ends").
TokensAsWritten ==
    Over /\ Alone /\ reading = "tokens" /\ NoInline =>
      LET all == AsWritten!Tokens(Text, bufsiz)
      IN  IF status = "syntax" THEN IsPrefix(read, all)
          ELSE read \o (IF status = "raised" THEN <<AsWritten!Error>> ELSE <<>>) = all

\* The lines of a file are those its text has, forwards and backwards.
LinesAsWritten ==
    /\ Over /\ reading = "lines" => read = AsWritten!Lines(Text)
    /\ Over /\ reading = "back" => read = AsWritten!LinesBack(Text)

\* The data of the inline images of a stream ends where its mark does.
ImagesAsWritten ==
    Alone => \A k \in DOMAIN images :
      images[k].data = AsWritten!ImageData(Text, images[k].from, images[k].mark)

\* A number or a keyword under way when its stream ends, ends with it ("Fixes #1157:
\* if the stream is changed in the middle of a token, try to parse it by tacking on
\* whitespace").
Words == Space \cup Digit \cup Letters \cup Signs \cup {"."}
WordsEndWithTheirStream ==
    status = "end" /\ reading = "tokens" /\ NoInline
      /\ (\A k \in DOMAIN streams : ToSet(streams[k]) \subseteq Words) =>
      read = FlattenSeq([k \in DOMAIN streams |-> AsWritten!Tokens(streams[k], bufsiz)])

\* What the parser reads in blocks is what the text says: no token, line or image
\* is cut, joined or lost at the end of a block or of a stream (Lexer::parse1,
\* nextline, revreadlines, get_inline_data).
ReadsWhatIsWritten ==
    /\ TokensAsWritten
    /\ LinesAsWritten
    /\ ImagesAsWritten
    /\ WordsEndWithTheirStream

\* The tokenizer "switches state without consuming a byte ... never more than
\* twice in a row" (ProgressGuard), at the end of a block or of a stream too.
StallsAtMostTwice == guard.stalls <= 2

Open(s) == FlattenSeq([k \in DOMAIN s.context |-> FlattenSeq(s.context[k].curstack)])

\* The tokens in the objects returned and in those under way, in their order.
Keeping(objects, s) == FlattenSeq(objects) \o Open(s) \o FlattenSeq(s.curstack)

\* A sequence has these numbers, upward.
Upward(s, numbers) ==
    /\ ToSet(s) = numbers
    /\ \A i, j \in DOMAIN s : i < j => s[i] < s[j]

\* Every token taken but brackets is in one object, in the order of the text:
\* returned, or in the array or dictionary that is open (start_type, end_type,
\* flush).  A closing bracket of another type loses nothing.
NothingIsLost ==
    status \in {"on", "end"} /\ reading = "tokens" /\ NoInline =>
      Upward(Keeping(given, stack), {k \in 1 .. taken : ~Structural(read[k])})
===============================================================================
