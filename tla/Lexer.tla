--------------------------------- MODULE Lexer ---------------------------------
(***************************************************************************)
(* The tokenizer of PSBaseParser (psparser.rs, struct Lexer): each call of *)
(* parse1 consumes bytes of one block from an offset on, in the state that *)
(* the call before left, and may end a token.                              *)
(*                                                                         *)
(* Left out: the Python frames that each method takes (a RecursionError),  *)
(* and the interning of names.                                             *)
(***************************************************************************)
EXTENDS PSChars

NewLexer == [ parse1 |-> "Main", curtoken |-> <<>>, curtokenpos |-> 0,
              tokens |-> <<>>, paren |-> 0, hex |-> <<>>, oct |-> <<>> ]

\* What a call of parse1 gives: the state, the next offset, an AssertionError.
Result(lexer, next) == [lexer |-> lexer, next |-> next, raised |-> FALSE]
Raised(lexer, next) == [lexer |-> lexer, next |-> next, raised |-> TRUE]

Goto(lexer, state) == [lexer EXCEPT !.parse1 = state]
Push(lexer, text) == [lexer EXCEPT !.curtoken = @ \o text]

\* _add_token, then back to _parse_main.
AddToken(lexer, kind, text) ==
    [lexer EXCEPT !.tokens = Append(@, Token(lexer.curtokenpos, kind, text)),
                  !.parse1 = "Main"]

\* The number is dropped when int() or float() refuses it.
AddNumber(lexer, kind) ==
    IF IsNumber(lexer.curtoken) THEN AddToken(lexer, kind, lexer.curtoken)
    ELSE Goto(lexer, "Main")

\* The state that the first byte of a token selects, and what it keeps of it.
Opens(c) ==
    CASE c = "%" -> "Comment"
      [] c = "/" -> "Literal"
      [] c \in Signs \cup Digit -> "Number"
      [] c = "." -> "Float"
      [] c \in Letters -> "Keyword"
      [] c = "(" -> "String"
      [] c = "<" -> "WOpen"
      [] c = ">" -> "WClose"
      [] OTHER -> "Main"
KeptOf(c) == IF c \in {"/", "(", "<", ">"} THEN <<>> ELSE << <<c>> >>

\* Mutation of SkipNul: the byte is not consumed.
SkipNulNot(lexer, j) == Result(lexer, j)

SkipNul(lexer, j) == Result(lexer, j + 1)

Main(lexer, s, i, bufpos) ==
    LET j == FirstNotOf(s, i, Space)
        c == At(s, j)
        here == [lexer EXCEPT !.curtokenpos = bufpos + j]
    IN  IF j = Len(s) THEN Result(lexer, j)
        ELSE IF Opens(c) # "Main"
        THEN Result([here EXCEPT !.parse1 = Opens(c), !.curtoken = KeptOf(c),
                                 !.paren = IF c = "(" THEN 1 ELSE @], j + 1)
        ELSE IF c = "nul" THEN SkipNul(here, j)
        ELSE Result(AddToken(here, "keyword", << <<c>> >>), j + 1)

Comment(lexer, s, i) ==
    LET j == FirstOf(s, i, Eol)
        more == Push(lexer, Between(s, i, j))
    IN  Result(IF j = Len(s) THEN more ELSE Goto(more, "Main"), j)

Literal(lexer, s, i) ==
    LET j == FirstOf(s, i, EndLiteral)
        more == Push(lexer, Between(s, i, j))
    IN  IF j = Len(s) THEN Result(more, j)
        ELSE IF At(s, j) = "#"
        THEN Result([more EXCEPT !.hex = <<>>, !.parse1 = "LiteralHex"], j + 1)
        ELSE Result(AddToken(more, "literal", more.curtoken), j)

LiteralHex(lexer, s, i) ==
    IF At(s, i) \in Hex /\ Len(lexer.hex) < 2
    THEN Result([lexer EXCEPT !.hex = Append(@, At(s, i))], i + 1)
    ELSE Result(Goto(IF lexer.hex = <<>> THEN lexer
                     ELSE Push(lexer, <<HexName(lexer.hex)>>), "Literal"), i)

Number(lexer, s, i) ==
    LET j == FirstNotOf(s, i, Digit)
        more == Push(lexer, Between(s, i, j))
    IN  IF j = Len(s) THEN Result(more, j)
        ELSE IF At(s, j) = "."
        THEN Result(Goto(Push(more, << <<".">> >>), "Float"), j + 1)
        ELSE Result(AddNumber(more, "int"), j)

Float(lexer, s, i) ==
    LET j == FirstNotOf(s, i, Digit)
        more == Push(lexer, Between(s, i, j))
    IN  Result(IF j = Len(s) THEN more ELSE AddNumber(more, "float"), j)

Keyword(lexer, s, i) ==
    LET j == FirstOf(s, i, EndLiteral)
        more == Push(lexer, Between(s, i, j))
    IN  Result(IF j = Len(s) THEN more
               ELSE AddToken(more, "keyword", more.curtoken), j)

String(lexer, s, i) ==
    LET j == FirstOf(s, i, EndString)
        c == At(s, j)
        more == Push(lexer, Between(s, i, j))
    IN  IF j = Len(s) THEN Result(more, j)
        ELSE IF c = "\\"
        THEN Result([more EXCEPT !.oct = <<>>, !.parse1 = "String1"], j + 1)
        ELSE IF c = "("
        THEN Result(Push([more EXCEPT !.paren = @ + 1], << <<c>> >>), j + 1)
        ELSE IF more.paren > 1
        THEN Result(Push([more EXCEPT !.paren = @ - 1], << <<c>> >>), j + 1)
        ELSE Result(AddToken([more EXCEPT !.paren = 0], "string", more.curtoken),
                    j + 1)

\* After a backslash: up to three octal digits, an escaped character, or
\* nothing; CR LF is one line end, when both are in the block.
String1(lexer, s, i) ==
    LET c == At(s, i)
    IN  IF c \in Oct /\ Len(lexer.oct) < 3
        THEN Result([lexer EXCEPT !.oct = Append(@, c)], i + 1)
        ELSE IF TooLarge(lexer.oct) THEN Raised(lexer, i)
        ELSE IF lexer.oct # <<>>
        THEN Result(Goto(Push(lexer, <<Escape(lexer.oct)>>), "String"), i)
        ELSE IF c \in Escaped
        THEN Result(Goto(Push(lexer, <<Escape(<<c>>)>>), "String"), i + 1)
        ELSE Result(Goto(lexer, "String"),
                    IF c = "cr" /\ i + 1 < Len(s) /\ At(s, i + 1) = "lf"
                    THEN i + 2 ELSE i + 1)

WOpen(lexer, s, i) ==
    IF At(s, i) = "<" THEN Result(AddToken(lexer, "keyword", << <<"<">>, <<"<">> >>), i + 1)
    ELSE Result(Goto(lexer, "HexString"), i)

WClose(lexer, s, i) ==
    IF At(s, i) = ">" THEN Result(AddToken(lexer, "keyword", << <<">">>, <<">">> >>), i + 1)
    ELSE Result(Goto(lexer, "Main"), i)

HexString(lexer, s, i) ==
    LET j == FirstNotOf(s, i, Space \cup Hex)
        more == Push(lexer, Between(s, i, j))
    IN  Result(IF j = Len(s) THEN more
               ELSE AddToken(more, "string", HexDigits(more.curtoken)), j)

Parse1(lexer, s, i, bufpos) ==
    CASE lexer.parse1 = "Main" -> Main(lexer, s, i, bufpos)
      [] lexer.parse1 = "Comment" -> Comment(lexer, s, i)
      [] lexer.parse1 = "Literal" -> Literal(lexer, s, i)
      [] lexer.parse1 = "LiteralHex" -> LiteralHex(lexer, s, i)
      [] lexer.parse1 = "Number" -> Number(lexer, s, i)
      [] lexer.parse1 = "Float" -> Float(lexer, s, i)
      [] lexer.parse1 = "Keyword" -> Keyword(lexer, s, i)
      [] lexer.parse1 = "String" -> String(lexer, s, i)
      [] lexer.parse1 = "String1" -> String1(lexer, s, i)
      [] lexer.parse1 = "WOpen" -> WOpen(lexer, s, i)
      [] lexer.parse1 = "WClose" -> WClose(lexer, s, i)
      [] lexer.parse1 = "HexString" -> HexString(lexer, s, i)
===============================================================================
