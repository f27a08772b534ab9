-------------------------------- MODULE Lexemes --------------------------------
(***************************************************************************)
(* What a text says, without blocks, states or a read position: its tokens *)
(* by the longest match at each offset, its lines, and the data of an      *)
(* inline image.  The reference for the parser that reads in blocks.       *)
(*                                                                         *)
(* block is the length of the blocks only where a result depends on it: a  *)
(* line end CR LF after a backslash is two when a block ends inside it.    *)
(***************************************************************************)
EXTENDS PSChars

\* The end of the digits of class from i on, two or three of them at most.
Digits(t, i, class, most) == Min({FirstNotOf(t, i, class), i + most, Len(t)})
Cut(t, i, j) == SubSeq(t, i + 1, j)

\* The text of a name from each offset on, and where it ends; whole when it does
\* not reach the end of t inside an escape.
Names(t) ==
    LET name[i \in 0 .. Len(t)] ==
          IF i = Len(t) \/ (At(t, i) \in EndLiteral /\ At(t, i) # "#")
          THEN [text |-> <<>>, next |-> i, whole |-> TRUE]
          ELSE IF At(t, i) # "#"
          THEN [name[i + 1] EXCEPT !.text = <<Between(t, i, i + 1)[1]>> \o @]
          ELSE LET j == Digits(t, i + 1, Hex, 2)
                   code == Cut(t, i + 1, j)
               IN  IF j = Len(t) THEN [text |-> <<>>, next |-> j, whole |-> FALSE]
                   ELSE [name[j] EXCEPT
                           !.text = (IF code = <<>> THEN <<>>
                                     ELSE <<HexName(code)>>) \o @]
    IN  name

\* The text of a string from each offset on, depth parentheses open; raised when
\* a code is above one byte, not whole when the string does not end.
Strings(t, block) ==
    LET Lost == [text |-> <<>>, next |-> Len(t), whole |-> FALSE, raised |-> FALSE]
        string[i \in 0 .. Len(t), depth \in 0 .. Len(t)] ==
          LET c == At(t, i)
              Then(j, d, text) ==
                IF j >= Len(t) THEN Lost
                ELSE [string[j, d] EXCEPT !.text = text \o @]
              code == Digits(t, i + 1, Oct, 3)
              digits == Cut(t, i + 1, code)
          IN  IF i = Len(t) THEN Lost
              ELSE IF c = "\\" /\ i + 1 < Len(t)
              THEN IF digits # <<>>
                   THEN IF TooLarge(digits) THEN [Lost EXCEPT !.raised = TRUE]
                        ELSE Then(code, depth, <<Escape(digits)>>)
                   ELSE IF At(t, i + 1) \in Escaped
                   THEN Then(i + 2, depth, <<Escape(<<At(t, i + 1)>>)>>)
                   ELSE IF /\ i + 2 < Len(t) /\ At(t, i + 1) = "cr"
                           /\ At(t, i + 2) = "lf" /\ (i + 2) % block # 0
                   THEN Then(i + 3, depth, <<>>)
                   ELSE Then(i + 2, depth, <<>>)
              ELSE IF c = "\\" THEN Lost
              ELSE IF c = ")" /\ depth = 1
              THEN [text |-> <<>>, next |-> i + 1, whole |-> TRUE, raised |-> FALSE]
              ELSE Then(i + 1, depth + (IF c = "(" THEN 1 ELSE IF c = ")" THEN -1 ELSE 0),
                        <<Between(t, i, i + 1)[1]>>)
    IN  [i \in 0 .. Len(t) |-> string[i, 1]]

\* The end of the number that starts at i, and its kind.
NumberEnd(t, i) ==
    LET j == IF At(t, i) = "." THEN i ELSE FirstNotOf(t, i + 1, Digit)
    IN  IF j < Len(t) /\ At(t, j) = "."
        THEN [next |-> FirstNotOf(t, j + 1, Digit), kind |-> "float"]
        ELSE [next |-> j, kind |-> "int"]

Error == Token(0, "AssertionError", <<>>)

\* The tokens of t.
Tokens(t, block) ==
    LET names == Names(t)
        strings == Strings(t, block)
        from[i \in 0 .. Len(t)] ==
          LET c == At(t, i)
              And(kind, text, next) == <<Token(i, kind, text)>> \o from[next]
              number == NumberEnd(t, i)
              string == strings[i + 1]
              hex == FirstNotOf(t, i + 1, Space \cup Hex)
              twice == i + 1 < Len(t) /\ At(t, i + 1) = c
          IN  IF i = Len(t) THEN <<>>
              ELSE IF c \in Space \cup {"nul"} THEN from[i + 1]
              ELSE IF c = "%" THEN from[FirstOf(t, i + 1, Eol)]
              ELSE IF c = "/"
              THEN IF names[i + 1].whole
                   THEN And("literal", names[i + 1].text, names[i + 1].next)
                   ELSE <<>>
              ELSE IF c \in Signs \cup Digit \cup {"."}
              THEN IF IsNumber(Between(t, i, number.next))
                   THEN And(number.kind, Between(t, i, number.next), number.next)
                   ELSE from[number.next]
              ELSE IF c \in Letters
              THEN LET j == FirstOf(t, i + 1, EndLiteral)
                   IN  And("keyword", Between(t, i, j), j)
              ELSE IF c = "("
              THEN IF string.raised THEN <<Error>>
                   ELSE IF string.whole THEN And("string", string.text, string.next)
                   ELSE <<>>
              ELSE IF c \in {"<", ">"} /\ twice
              THEN And("keyword", Between(t, i, i + 2), i + 2)
              ELSE IF c = ">" THEN from[i + 1]
              ELSE IF c = "<"
              THEN IF hex = Len(t) THEN <<>>
                   ELSE And("string", HexDigits(Between(t, i + 1, hex)), hex)
              ELSE And("keyword", Between(t, i, i + 1), i + 1)
    IN  from[0]

\* The lines of t, each with its end: CR, LF or CR LF.  A line without an end is
\* lost, and so is a last line that ends in CR.
Lines(t) ==
    LET from[i \in 0 .. Len(t)] ==
          LET j == FirstOf(t, i, Eol)
              crlf == j + 1 < Len(t) /\ At(t, j) = "cr" /\ At(t, j + 1) = "lf"
              next == IF crlf THEN j + 2 ELSE j + 1
          IN  IF j = Len(t) \/ (At(t, j) = "cr" /\ j + 1 = Len(t)) THEN <<>>
              ELSE <<[pos |-> i, line |-> Cut(t, i, next)]>> \o from[next]
    IN  from[0]

\* The lines from the last one back, each with the line end before it; the first
\* line of the text has none and is not among them.
LinesBack(t) ==
    LET ends == {i \in 0 .. (Len(t) - 1) : At(t, i) \in Eol}
        next(i) == IF \E j \in ends : j > i THEN Min({j \in ends : j > i})
                   ELSE Len(t)
    IN  [k \in 1 .. Cardinality(ends) |->
            LET i == CHOOSE i \in ends : Cardinality({j \in ends : j >= i}) = k
            IN  Cut(t, i, next(i))]

\* The end of the data of an inline image that starts at i: after the first end
\* mark and white space, but that a failed match of the mark has used the bytes it
\* looked at (so the EI of EEI is missed); -1 for none.
ImageEnd(t, mark) ==
    LET from[i \in 0 .. (Len(t) + 3)] ==
          LET j == FirstOf(t, i, {At(mark, 0)})
          IN  IF j + 2 >= Len(t) THEN -1
              ELSE IF At(t, j + 1) # At(mark, 1) THEN from[j + 2]
              ELSE IF At(t, j + 2) \in Space THEN j + 3
              ELSE from[j + 3]
    IN  from

\* data without what (CR LF | CR | LF)$ matches in it: $ is the end, and the place
\* before a last LF.
WithoutLineEnd(data) ==
    LET n == Len(data)
        End(q) == q = n \/ (q = n - 1 /\ At(data, n - 1) = "lf")
        Match(p, q) == /\ End(q)
                       /\ Cut(data, p, q) \in {<<"cr", "lf">>, <<"cr">>, <<"lf">>}
        gone == {k \in 1 .. n : \E p \in 0 .. (n - 1) : \E q \in (p + 1) .. (p + 2) :
                    q <= n /\ Match(p, q) /\ k \in (p + 1) .. q}
        kept == {k \in 1 .. n : k \notin gone}
    IN  Cut(data, 0, Cardinality(kept))

\* The data of the image: without the mark, the white space and a line end.
ImageData(t, i, mark) ==
    WithoutLineEnd(Cut(t, i, ImageEnd(t, mark)[i] - 3))
===============================================================================
