---------------------------- MODULE PSParserProofs ----------------------------
(***************************************************************************)
(* That the loops of the parser go forward, for every text, in blocks of   *)
(* any length and over any number of streams: a step that consumes no byte *)
(* leaves the tokenizer in a state of a lower rank, and there are two      *)
(* ranks to go down.  An inline image moves the place of the file, and     *)
(* starts the count again.                                                 *)
(*                                                                         *)
(* And that no token is lost: what the objects returned and those under    *)
(* way keep is the same, end to end, before and after a level begins or    *)
(* ends, and after the objects are given back; a value is put at its end.  *)
(***************************************************************************)
EXTENDS PSParser, SequenceTheorems, WellFoundedInduction, TLAPS

States == {"Main", "Comment", "Literal", "LiteralHex", "Number", "Float",
           "Keyword", "String", "String1", "WOpen", "WClose", "HexString"}

\* How many steps the tokenizer may still take without consuming a byte.
Rank(state) ==
    IF state \in {"Main", "String"} THEN 0
    ELSE IF state \in {"LiteralHex", "String1", "WOpen"} THEN 2 ELSE 1

\* A lexer has at most one token: nexttoken returns it at once.
OneToken(tokens) == tokens = <<>> \/ \E t : t.pos \in Nat /\ tokens = <<t>>
LexerOK(l) ==
    /\ l = [parse1 |-> l.parse1, curtoken |-> l.curtoken, curtokenpos |-> l.curtokenpos,
            tokens |-> l.tokens, paren |-> l.paren, hex |-> l.hex, oct |-> l.oct]
    /\ l.parse1 \in States
    /\ l.curtokenpos \in Nat
    /\ OneToken(l.tokens)

\* The file stands in its block, which ends where the file goes on.
File == [istream : Nat \ {0}, open : BOOLEAN, tell : Nat, buf : Seq(Bytes),
         bufpos : Nat, charpos : Nat]
FileOK(f) ==
    /\ f \in File
    /\ f.istream <= Len(streams)
    /\ f.charpos <= Len(f.buf)
    /\ f.tell = f.bufpos + Len(f.buf)

Given ==
    /\ streams \in Seq(Seq(Bytes))
    /\ bufsiz \in Nat \ {0}
    /\ reading \in {"tokens", "lines", "back"}

\* The parser still reads from its file: no exception, not after its end.
Forward == status = "on" /\ ~eof /\ reading # "back"

Inv ==
    /\ Given
    /\ LexerOK(lexer)
    /\ guard \in [high : Nat \X Int, stalls : 0 .. 2]
    /\ eof => file.open = FALSE
    /\ image.on => reading = "tokens" /\ ~eof
    /\ reading # "tokens" => guard.stalls = 0 /\ ~eof
    /\ Forward => /\ FileOK(file)
                  /\ ~Beyond(guard.high, Position(file))
                  /\ reading = "tokens" => guard.stalls + Rank(lexer.parse1) <= 2

-----------------------------------------------------------------------------
(* Searches. *)

\* The order of the natural numbers, as a relation.
Less == {p \in Nat \X Nat : p[1] < p[2]}

\* There is no endless descent among the numbers.
LEMMA LessWellFounded == IsWellFoundedOn(Less, Nat)
BY NatLessThanWellFounded, Zenon DEF OpToRel, Less

\* A set of numbers with a member has a least one.
LEMMA Least ==
    ASSUME NEW S \in SUBSET Nat, S # {}
    PROVE  \E x \in S : \A y \in S : x <= y
<1>1. PICK x \in S : \A y \in S : ~(<<y, x>> \in Less)
  BY LessWellFounded, WFMin
<1>2. ASSUME NEW y \in S PROVE x <= y
  <2>1. x \in Nat /\ y \in Nat /\ <<y, x>> \in Nat \X Nat
    OBVIOUS
  <2>2. ~(y < x)
    BY <1>1, <2>1 DEF Less
  <2> QED BY <2>1, <2>2
<1> QED BY <1>2

\* ... which is what Min gives.
LEMMA MinOfNats ==
    ASSUME NEW S \in SUBSET Nat, S # {}
    PROVE  Min(S) \in S /\ \A y \in S : Min(S) <= y
BY Least DEF Min

\* A search for a byte of a class ends at the end of the text at the latest.
LEMMA FirstOfInRange ==
    ASSUME NEW s \in Seq(Bytes), NEW i \in 0 .. Len(s), NEW class
    PROVE  FirstOf(s, i, class) \in i .. Len(s)
<1> DEFINE found == {j \in i .. (Len(s) - 1) : At(s, j) \in class}
<1>1. FirstOf(s, i, class) = IF found = {} THEN Len(s) ELSE Min(found)
  BY DEF FirstOf
<1>2. found \in SUBSET Nat /\ \A j \in found : j \in i .. Len(s)
  OBVIOUS
<1> HIDE DEF found
<1>3. CASE found = {}
  BY <1>1, <1>3
<1>4. CASE found # {}
  <2>1. Min(found) \in found
    BY <1>2, <1>4, MinOfNats
  <2> QED BY <1>1, <1>2, <1>4, <2>1
<1> QED BY <1>3, <1>4

\* ... and so does a search for a byte outside of a class.
LEMMA FirstNotOfInRange ==
    ASSUME NEW s \in Seq(Bytes), NEW i \in 0 .. Len(s), NEW class
    PROVE  FirstNotOf(s, i, class) \in i .. Len(s)
<1> DEFINE found == {j \in i .. (Len(s) - 1) : At(s, j) \notin class}
<1>1. FirstNotOf(s, i, class) = IF found = {} THEN Len(s) ELSE Min(found)
  BY DEF FirstNotOf
<1>2. found \in SUBSET Nat /\ \A j \in found : j \in i .. Len(s)
  OBVIOUS
<1> HIDE DEF found
<1>3. CASE found = {}
  BY <1>1, <1>3
<1>4. CASE found # {}
  <2>1. Min(found) \in found
    BY <1>2, <1>4, MinOfNats
  <2> QED BY <1>1, <1>2, <1>4, <2>1
<1> QED BY <1>3, <1>4

\* The smaller of two numbers.
LEMMA MinOfTwo ==
    ASSUME NEW m \in Nat, NEW n \in Nat
    PROVE  Min({m, n}) = IF m <= n THEN m ELSE n
<1>1. Min({m, n}) \in {m, n} /\ \A y \in {m, n} : Min({m, n}) <= y
  BY MinOfNats
<1> QED BY <1>1

-----------------------------------------------------------------------------
(* The tokenizer: one lemma for each kind of state. *)

\* What one call of parse1 does: it consumes a byte, or goes down a rank.
Advances(l, r, i, n) ==
    /\ LexerOK(r.lexer)
    /\ r.next \in i .. n
    /\ r.next = i /\ ~r.raised => Rank(r.lexer.parse1) < Rank(l.parse1)

\* Bytes more for the token under way.
LEMMA PushOK ==
    ASSUME NEW l, LexerOK(l), NEW text
    PROVE  /\ LexerOK(Push(l, text))
           /\ Push(l, text).parse1 = l.parse1
           /\ Push(l, text).tokens = l.tokens
<1> DEFINE longer == l.curtoken \o text
<1>1. Push(l, text) = [l EXCEPT !.curtoken = longer]
  BY Zenon DEF Push
<1> HIDE DEF longer
<1> QED BY <1>1 DEF LexerOK

\* Another state.
LEMMA GotoOK ==
    ASSUME NEW l, LexerOK(l), NEW state \in States
    PROVE  LexerOK(Goto(l, state)) /\ Goto(l, state).parse1 = state
BY DEF LexerOK, Goto

\* A token begins.
LEMMA OpenedOK ==
    ASSUME NEW l, LexerOK(l), NEW state \in States, NEW kept, NEW paren
    PROVE  LexerOK([l EXCEPT !.parse1 = state, !.curtoken = kept, !.paren = paren])
<1> DEFINE a == [l EXCEPT !.parse1 = state]
           b == [a EXCEPT !.curtoken = kept]
           d == [b EXCEPT !.paren = paren]
<1>1. LexerOK(a) /\ a.parse1 = state
  BY DEF LexerOK
<1>2. [l EXCEPT !.parse1 = state, !.curtoken = kept, !.paren = paren] = d
  OBVIOUS
<1> HIDE DEF a
<1>3. LexerOK(b)
  BY <1>1 DEF LexerOK
<1> HIDE DEF b
<1>4. LexerOK(d)
  BY <1>3 DEF LexerOK
<1> QED BY <1>2, <1>4

\* A token ends: it is the only one.
LEMMA AddTokenOK ==
    ASSUME NEW l, LexerOK(l), l.tokens = <<>>, NEW kind, NEW text
    PROVE  LexerOK(AddToken(l, kind, text)) /\ AddToken(l, kind, text).parse1 = "Main"
<1> DEFINE t == Token(l.curtokenpos, kind, text)
<1>1. t.pos \in Nat
  BY DEF Token, LexerOK
<1>2. Append(l.tokens, t) = <<t>>
  OBVIOUS
<1>3. OneToken(Append(l.tokens, t))
  BY <1>1, <1>2 DEF OneToken
<1>4. AddToken(l, kind, text) = [l EXCEPT !.tokens = Append(l.tokens, t), !.parse1 = "Main"]
  BY DEF AddToken
<1> HIDE DEF t
<1> QED BY <1>3, <1>4 DEF LexerOK, States

\* A number ends, or is dropped.
LEMMA AddNumberOK ==
    ASSUME NEW l, LexerOK(l), l.tokens = <<>>, NEW kind
    PROVE  LexerOK(AddNumber(l, kind)) /\ AddNumber(l, kind).parse1 = "Main"
<1>1. "Main" \in States
  BY DEF States
<1> QED BY <1>1, GotoOK, AddTokenOK DEF AddNumber

\* The first byte of a token selects a state there is.
LEMMA OpensAState == ASSUME NEW c PROVE Opens(c) \in States
<1>1. CASE c = "%" BY <1>1 DEF Opens, States
<1>2. CASE c # "%" /\ c = "/" BY <1>2 DEF Opens, States
<1> QED BY <1>1, <1>2 DEF Opens, States

\* Main consumes a byte, or is at the end of the block.
LEMMA MainAdvances ==
    ASSUME NEW l, LexerOK(l), l.tokens = <<>>, l.parse1 = "Main", NEW s \in Seq(Bytes),
           NEW i \in 0 .. Len(s) - 1, NEW bufpos \in Nat
    PROVE  Advances(l, Main(l, s, i, bufpos), i, Len(s))
<1> DEFINE j == FirstNotOf(s, i, Space)
           c == At(s, j)
           here == [l EXCEPT !.curtokenpos = bufpos + j]
<1>1. j \in i .. Len(s)
  BY FirstNotOfInRange
<1> HIDE DEF j
<1>2. LexerOK(here) /\ here.tokens = <<>>
  BY <1>1 DEF LexerOK
<1>3. CASE j = Len(s)
  <2>1. Main(l, s, i, bufpos) = Result(l, j)
    BY <1>3 DEF Main, j
  <2> QED BY <1>1, <1>3, <2>1 DEF Advances, Result
<1>4. CASE j # Len(s) /\ Opens(c) # "Main"
  <2> DEFINE state == Opens(c)
             kept == KeptOf(c)
             paren == IF c = "(" THEN 1 ELSE here.paren
             new == [here EXCEPT !.parse1 = state, !.curtoken = kept, !.paren = paren]
  <2>1. Main(l, s, i, bufpos) = Result(new, j + 1)
    BY <1>4 DEF Main, j
  <2>2. state \in States
    BY OpensAState
  <2> HIDE DEF state, kept, paren, here
  <2>3. LexerOK(new)
    BY <1>2, <2>2, OpenedOK
  <2> HIDE DEF new
  <2> QED BY <1>1, <1>4, <2>1, <2>3 DEF Advances, Result
<1>5. CASE j # Len(s) /\ Opens(c) = "Main" /\ c = "nul"
  <2>1. Main(l, s, i, bufpos) = Result(here, j + 1)
    BY <1>5 DEF Main, SkipNul, j
  <2> QED BY <1>1, <1>2, <1>5, <2>1 DEF Advances, Result
<1>6. CASE j # Len(s) /\ Opens(c) = "Main" /\ c # "nul"
  <2> DEFINE new == AddToken(here, "keyword", << <<c>> >>)
  <2>1. Main(l, s, i, bufpos) = Result(new, j + 1)
    BY <1>6 DEF Main, j
  <2>2. LexerOK(new)
    BY <1>2, AddTokenOK
  <2> HIDE DEF new
  <2> QED BY <1>1, <1>6, <2>1, <2>2 DEF Advances, Result
<1> QED BY <1>3, <1>4, <1>5, <1>6

\* A step goes on if it consumes a byte or leaves a state of a lower rank.
LEMMA ResultAdvances ==
    ASSUME NEW l, NEW new, LexerOK(new), NEW i \in Nat, NEW n \in Nat, NEW next \in i .. n,
           next > i \/ Rank(new.parse1) < Rank(l.parse1)
    PROVE  Advances(l, Result(new, next), i, n)
BY DEF Advances, Result

\* The states named below are states.
LEMMA SimpleStates ==
    ASSUME NEW state \in {"Main", "Comment", "Literal", "LiteralHex", "Number", "Float",
                          "Keyword", "String", "String1", "WOpen", "WClose", "HexString"}
    PROVE  state \in States
BY DEF States

\* Their ranks.
LEMMA Ranks ==
    /\ Rank("Main") = 0 /\ Rank("String") = 0
    /\ Rank("LiteralHex") = 2 /\ Rank("String1") = 2 /\ Rank("WOpen") = 2
    /\ Rank("Comment") = 1 /\ Rank("Literal") = 1 /\ Rank("Number") = 1
    /\ Rank("Float") = 1 /\ Rank("Keyword") = 1 /\ Rank("WClose") = 1
    /\ Rank("HexString") = 1
BY DEF Rank

\* A comment is read on, or ends.
LEMMA CommentAdvances ==
    ASSUME NEW l, LexerOK(l), l.tokens = <<>>, l.parse1 = "Comment", NEW s \in Seq(Bytes),
           NEW i \in 0 .. Len(s) - 1
    PROVE  Advances(l, Comment(l, s, i), i, Len(s))
<1> DEFINE j == FirstOf(s, i, Eol)
           more == Push(l, Between(s, i, j))
           new == Goto(more, "Main")
<1>1. j \in i .. Len(s)
  BY FirstOfInRange
<1>2. LexerOK(more) /\ more.tokens = <<>>
  BY PushOK
<1>3. LexerOK(new) /\ new.parse1 = "Main"
  BY <1>2, GotoOK, SimpleStates
<1>4. Comment(l, s, i) = IF j = Len(s) THEN Result(more, j) ELSE Result(new, j)
  BY DEF Comment
<1> HIDE DEF j, more, new
<1>5. CASE j = Len(s)
  BY <1>1, <1>2, <1>4, <1>5, ResultAdvances
<1>6. CASE j # Len(s)
  BY <1>1, <1>3, <1>4, <1>6, ResultAdvances, Ranks
<1> QED BY <1>5, <1>6

\* So is a number with a point, ...
LEMMA FloatAdvances ==
    ASSUME NEW l, LexerOK(l), l.tokens = <<>>, l.parse1 = "Float", NEW s \in Seq(Bytes),
           NEW i \in 0 .. Len(s) - 1
    PROVE  Advances(l, Float(l, s, i), i, Len(s))
<1> DEFINE j == FirstNotOf(s, i, Digit)
           more == Push(l, Between(s, i, j))
           new == AddNumber(more, "float")
<1>1. j \in i .. Len(s)
  BY FirstNotOfInRange
<1>2. LexerOK(more) /\ more.tokens = <<>>
  BY PushOK
<1>3. LexerOK(new) /\ new.parse1 = "Main"
  BY <1>2, AddNumberOK
<1>4. Float(l, s, i) = IF j = Len(s) THEN Result(more, j) ELSE Result(new, j)
  BY DEF Float
<1> HIDE DEF j, more, new
<1>5. CASE j = Len(s)
  BY <1>1, <1>2, <1>4, <1>5, ResultAdvances
<1>6. CASE j # Len(s)
  BY <1>1, <1>3, <1>4, <1>6, ResultAdvances, Ranks
<1> QED BY <1>5, <1>6

\* ... a keyword, ...
LEMMA KeywordAdvances ==
    ASSUME NEW l, LexerOK(l), l.tokens = <<>>, l.parse1 = "Keyword", NEW s \in Seq(Bytes),
           NEW i \in 0 .. Len(s) - 1
    PROVE  Advances(l, Keyword(l, s, i), i, Len(s))
<1> DEFINE j == FirstOf(s, i, EndLiteral)
           more == Push(l, Between(s, i, j))
           new == AddToken(more, "keyword", more.curtoken)
<1>1. j \in i .. Len(s)
  BY FirstOfInRange
<1>2. LexerOK(more) /\ more.tokens = <<>>
  BY PushOK
<1>3. LexerOK(new) /\ new.parse1 = "Main"
  BY <1>2, AddTokenOK
<1>4. Keyword(l, s, i) = IF j = Len(s) THEN Result(more, j) ELSE Result(new, j)
  BY DEF Keyword
<1> HIDE DEF j, more, new
<1>5. CASE j = Len(s)
  BY <1>1, <1>2, <1>4, <1>5, ResultAdvances
<1>6. CASE j # Len(s)
  BY <1>1, <1>3, <1>4, <1>6, ResultAdvances, Ranks
<1> QED BY <1>5, <1>6

\* ... and a hexadecimal string.
LEMMA HexStringAdvances ==
    ASSUME NEW l, LexerOK(l), l.tokens = <<>>, l.parse1 = "HexString", NEW s \in Seq(Bytes),
           NEW i \in 0 .. Len(s) - 1
    PROVE  Advances(l, HexString(l, s, i), i, Len(s))
<1> DEFINE j == FirstNotOf(s, i, Space \cup Hex)
           more == Push(l, Between(s, i, j))
           new == AddToken(more, "string", HexDigits(more.curtoken))
<1>1. j \in i .. Len(s)
  BY FirstNotOfInRange
<1>2. LexerOK(more) /\ more.tokens = <<>>
  BY PushOK
<1>3. LexerOK(new) /\ new.parse1 = "Main"
  BY <1>2, AddTokenOK
<1>4. HexString(l, s, i) = IF j = Len(s) THEN Result(more, j) ELSE Result(new, j)
  BY DEF HexString
<1> HIDE DEF j, more, new
<1>5. CASE j = Len(s)
  BY <1>1, <1>2, <1>4, <1>5, ResultAdvances
<1>6. CASE j # Len(s)
  BY <1>1, <1>3, <1>4, <1>6, ResultAdvances, Ranks
<1> QED BY <1>5, <1>6

\* The digits kept of a name.
LEMMA KeptHexOK ==
    ASSUME NEW l, LexerOK(l), NEW hex
    PROVE  LexerOK([l EXCEPT !.hex = hex])
BY DEF LexerOK

\* The digits kept of an escape.
LEMMA KeptOctOK ==
    ASSUME NEW l, LexerOK(l), NEW oct
    PROVE  LexerOK([l EXCEPT !.oct = oct])
BY DEF LexerOK

\* A parenthesis opens or closes.
LEMMA NestedOK ==
    ASSUME NEW l, LexerOK(l), NEW paren
    PROVE  /\ LexerOK([l EXCEPT !.paren = paren])
           /\ [l EXCEPT !.paren = paren].tokens = l.tokens
BY DEF LexerOK

\* After <: a dictionary, or a hexadecimal string.
LEMMA WOpenAdvances ==
    ASSUME NEW l, LexerOK(l), l.tokens = <<>>, l.parse1 = "WOpen", NEW s \in Seq(Bytes),
           NEW i \in 0 .. Len(s) - 1
    PROVE  Advances(l, WOpen(l, s, i), i, Len(s))
<1> DEFINE both == AddToken(l, "keyword", << <<"<">>, <<"<">> >>)
           hex == Goto(l, "HexString")
<1>1. LexerOK(both)
  BY AddTokenOK
<1>2. LexerOK(hex) /\ hex.parse1 = "HexString"
  BY GotoOK, SimpleStates
<1>3. WOpen(l, s, i) = IF At(s, i) = "<" THEN Result(both, i + 1) ELSE Result(hex, i)
  BY DEF WOpen
<1> HIDE DEF both, hex
<1>4. CASE At(s, i) = "<"
  BY <1>1, <1>3, <1>4, ResultAdvances
<1>5. CASE At(s, i) # "<"
  BY <1>2, <1>3, <1>5, ResultAdvances, Ranks
<1> QED BY <1>4, <1>5

\* After >: the end of a dictionary, or nothing.
LEMMA WCloseAdvances ==
    ASSUME NEW l, LexerOK(l), l.tokens = <<>>, l.parse1 = "WClose", NEW s \in Seq(Bytes),
           NEW i \in 0 .. Len(s) - 1
    PROVE  Advances(l, WClose(l, s, i), i, Len(s))
<1> DEFINE both == AddToken(l, "keyword", << <<">">>, <<">">> >>)
           main == Goto(l, "Main")
<1>1. LexerOK(both)
  BY AddTokenOK
<1>2. LexerOK(main) /\ main.parse1 = "Main"
  BY GotoOK, SimpleStates
<1>3. WClose(l, s, i) = IF At(s, i) = ">" THEN Result(both, i + 1) ELSE Result(main, i)
  BY DEF WClose
<1> HIDE DEF both, main
<1>4. CASE At(s, i) = ">"
  BY <1>1, <1>3, <1>4, ResultAdvances
<1>5. CASE At(s, i) # ">"
  BY <1>2, <1>3, <1>5, ResultAdvances, Ranks
<1> QED BY <1>4, <1>5

\* A name is read on, has an escape, or ends.
LEMMA LiteralAdvances ==
    ASSUME NEW l, LexerOK(l), l.tokens = <<>>, l.parse1 = "Literal", NEW s \in Seq(Bytes),
           NEW i \in 0 .. Len(s) - 1
    PROVE  Advances(l, Literal(l, s, i), i, Len(s))
<1> DEFINE j == FirstOf(s, i, EndLiteral)
           more == Push(l, Between(s, i, j))
           hex == [more EXCEPT !.hex = <<>>, !.parse1 = "LiteralHex"]
           new == AddToken(more, "literal", more.curtoken)
<1>1. j \in i .. Len(s)
  BY FirstOfInRange
<1>2. LexerOK(more) /\ more.tokens = <<>>
  BY PushOK
<1>3. LexerOK(hex)
  <2> HIDE DEF more
  <2>1. LexerOK([more EXCEPT !.hex = <<>>])
    BY <1>2, KeptHexOK
  <2>2. hex = Goto([more EXCEPT !.hex = <<>>], "LiteralHex")
    BY DEF Goto
  <2> QED BY <2>1, <2>2, GotoOK, SimpleStates
<1>4. LexerOK(new) /\ new.parse1 = "Main"
  BY <1>2, AddTokenOK
<1>5. Literal(l, s, i) = IF j = Len(s) THEN Result(more, j)
                         ELSE IF At(s, j) = "#" THEN Result(hex, j + 1) ELSE Result(new, j)
  BY DEF Literal
<1> HIDE DEF j, more, hex, new
<1>6. CASE j = Len(s)
  BY <1>1, <1>2, <1>5, <1>6, ResultAdvances
<1>7. CASE j # Len(s) /\ At(s, j) = "#"
  BY <1>1, <1>3, <1>5, <1>7, ResultAdvances
<1>8. CASE j # Len(s) /\ At(s, j) # "#"
  BY <1>1, <1>4, <1>5, <1>8, ResultAdvances, Ranks
<1> QED BY <1>6, <1>7, <1>8

\* A digit of the escape is consumed, or the name goes on.
LEMMA LiteralHexAdvances ==
    ASSUME NEW l, LexerOK(l), l.tokens = <<>>, l.parse1 = "LiteralHex", NEW s \in Seq(Bytes),
           NEW i \in 0 .. Len(s) - 1
    PROVE  Advances(l, LiteralHex(l, s, i), i, Len(s))
<1> DEFINE digits == Append(l.hex, At(s, i))
           more == [l EXCEPT !.hex = digits]
           named == IF l.hex = <<>> THEN l ELSE Push(l, <<HexName(l.hex)>>)
           new == Goto(named, "Literal")
           digit == At(s, i) \in Hex /\ Len(l.hex) < 2
<1>1. LexerOK(more)
  BY KeptHexOK
<1>2. LexerOK(named)
  BY PushOK
<1>3. LexerOK(new) /\ new.parse1 = "Literal"
  BY <1>2, GotoOK, SimpleStates
<1>4. LiteralHex(l, s, i) = IF digit THEN Result(more, i + 1) ELSE Result(new, i)
  BY DEF LiteralHex
<1> HIDE DEF digits, more, named, new, digit
<1>5. CASE digit
  <2>1. i + 1 \in i .. Len(s) /\ i + 1 > i /\ i \in Nat /\ Len(s) \in Nat
    OBVIOUS
  <2> QED BY <1>1, <1>4, <1>5, <2>1, ResultAdvances
<1>6. CASE ~digit
  BY <1>3, <1>4, <1>6, ResultAdvances, Ranks
<1> QED BY <1>5, <1>6

\* A number is read on, has a point, or ends.
LEMMA NumberAdvances ==
    ASSUME NEW l, LexerOK(l), l.tokens = <<>>, l.parse1 = "Number", NEW s \in Seq(Bytes),
           NEW i \in 0 .. Len(s) - 1
    PROVE  Advances(l, Number(l, s, i), i, Len(s))
<1> DEFINE j == FirstNotOf(s, i, Digit)
<1>1. j \in i .. Len(s)
  BY FirstNotOfInRange
<1> DEFINE more == Push(l, Between(s, i, j))
           float == Goto(Push(more, << <<".">> >>), "Float")
           new == AddNumber(more, "int")
<1>2. LexerOK(more) /\ more.tokens = <<>>
  BY PushOK
<1>3. LexerOK(float)
  BY <1>2, PushOK, GotoOK, SimpleStates
<1>4. LexerOK(new) /\ new.parse1 = "Main"
  BY <1>2, AddNumberOK
<1>5. Number(l, s, i) = IF j = Len(s) THEN Result(more, j)
                        ELSE IF At(s, j) = "." THEN Result(float, j + 1) ELSE Result(new, j)
  BY DEF Number
<1> HIDE DEF j, more, float, new
<1>6. CASE j = Len(s)
  BY <1>1, <1>2, <1>5, <1>6, ResultAdvances
<1>7. CASE j # Len(s) /\ At(s, j) = "."
  BY <1>1, <1>3, <1>5, <1>7, ResultAdvances
<1>8. CASE j # Len(s) /\ At(s, j) # "."
  BY <1>1, <1>4, <1>5, <1>8, ResultAdvances, Ranks
<1> QED BY <1>6, <1>7, <1>8

\* A string is read on, has an escape or a parenthesis, or ends.
LEMMA StringAdvances ==
    ASSUME NEW l, LexerOK(l), l.tokens = <<>>, l.parse1 = "String", NEW s \in Seq(Bytes),
           NEW i \in 0 .. Len(s) - 1
    PROVE  Advances(l, String(l, s, i), i, Len(s))
<1> DEFINE j == FirstOf(s, i, EndString)
           c == At(s, j)
           more == Push(l, Between(s, i, j))
           escape == Goto([more EXCEPT !.oct = <<>>], "String1")
           up == more.paren + 1
           down == more.paren - 1
           deeper == Push([more EXCEPT !.paren = up], << <<c>> >>)
           outer == Push([more EXCEPT !.paren = down], << <<c>> >>)
           new == AddToken([more EXCEPT !.paren = 0], "string", more.curtoken)
<1>1. j \in i .. Len(s)
  BY FirstOfInRange
<1>2. LexerOK(more) /\ more.tokens = <<>>
  BY PushOK
<1>3. String(l, s, i) = IF j = Len(s) THEN Result(more, j)
                        ELSE IF c = "\\" THEN Result(escape, j + 1)
                        ELSE IF c = "(" THEN Result(deeper, j + 1)
                        ELSE IF more.paren > 1 THEN Result(outer, j + 1)
                        ELSE Result(new, j + 1)
  BY Zenon DEF String, Goto
<1> HIDE DEF j, c, more, up, down
<1>4. LexerOK(escape)
  BY <1>2, KeptOctOK, GotoOK, SimpleStates
<1>5. LexerOK(deeper) /\ LexerOK(outer)
  BY <1>2, NestedOK, PushOK
<1>6. LexerOK(new)
  BY <1>2, NestedOK, AddTokenOK
<1> HIDE DEF escape, deeper, outer, new
<1>7. CASE j = Len(s)
  BY <1>1, <1>2, <1>3, <1>7, ResultAdvances
<1>8. CASE j # Len(s)
  <2>1. j + 1 \in i .. Len(s) /\ j + 1 > i /\ i \in Nat /\ Len(s) \in Nat
    BY <1>1, <1>8
  <2> QED BY <1>3, <1>4, <1>5, <1>6, <1>8, <2>1, ResultAdvances
<1> QED BY <1>7, <1>8

\* An escape has one digit more, or ends, or raises.
LEMMA String1Advances ==
    ASSUME NEW l, LexerOK(l), l.tokens = <<>>, l.parse1 = "String1", NEW s \in Seq(Bytes),
           NEW i \in 0 .. Len(s) - 1
    PROVE  Advances(l, String1(l, s, i), i, Len(s))
<1> DEFINE c == At(s, i)
           octal == c \in Oct /\ Len(l.oct) < 3
           digits == Append(l.oct, c)
           more == [l EXCEPT !.oct = digits]
           code == Goto(Push(l, <<Escape(l.oct)>>), "String")
           char == Goto(Push(l, <<Escape(<<c>>)>>), "String")
           none == Goto(l, "String")
           crlf == c = "cr" /\ i + 1 < Len(s) /\ At(s, i + 1) = "lf"
           next == IF crlf THEN i + 2 ELSE i + 1
<1>1. String1(l, s, i) = IF octal THEN Result(more, i + 1)
                         ELSE IF TooLarge(l.oct) THEN Raised(l, i)
                         ELSE IF l.oct # <<>> THEN Result(code, i)
                         ELSE IF c \in Escaped THEN Result(char, i + 1)
                         ELSE Result(none, next)
  BY DEF String1
<1>2. next \in i .. Len(s) /\ next > i /\ i \in i .. Len(s)
  OBVIOUS
<1>3. i + 1 \in i .. Len(s) /\ i + 1 > i /\ i \in Nat /\ Len(s) \in Nat
  OBVIOUS
<1> HIDE DEF c, octal, digits, crlf
<1>4. LexerOK(more)
  BY KeptOctOK
<1>5. LexerOK(code) /\ code.parse1 = "String"
  BY PushOK, GotoOK, SimpleStates
<1>6. LexerOK(char) /\ LexerOK(none)
  BY PushOK, GotoOK, SimpleStates
<1> HIDE DEF more, code, char, none, next
<1>7. CASE octal
  BY <1>1, <1>3, <1>4, <1>7, ResultAdvances
<1>8. CASE ~octal /\ TooLarge(l.oct)
  BY <1>1, <1>2, <1>8 DEF Advances, Raised
<1>9. CASE ~octal /\ ~TooLarge(l.oct) /\ l.oct # <<>>
  BY <1>1, <1>2, <1>3, <1>5, <1>9, ResultAdvances, Ranks
<1>10. CASE ~octal /\ ~TooLarge(l.oct) /\ l.oct = <<>>
  BY <1>1, <1>2, <1>3, <1>6, <1>10, ResultAdvances
<1> QED BY <1>7, <1>8, <1>9, <1>10

\* Every call of parse1 goes forward.
LEMMA Parse1Advances ==
    ASSUME NEW l, LexerOK(l), l.tokens = <<>>, NEW s \in Seq(Bytes),
           NEW i \in 0 .. Len(s) - 1, NEW bufpos \in Nat
    PROVE  Advances(l, Parse1(l, s, i, bufpos), i, Len(s))
<1>1. CASE l.parse1 = "Main"
  <2>1. Parse1(l, s, i, bufpos) = Main(l, s, i, bufpos)
    BY <1>1 DEF Parse1
  <2> QED BY <1>1, <2>1, MainAdvances
<1>2. CASE l.parse1 = "Comment"
  <2>1. Parse1(l, s, i, bufpos) = Comment(l, s, i)
    BY <1>2 DEF Parse1
  <2> QED BY <1>2, <2>1, CommentAdvances
<1>3. CASE l.parse1 = "Literal"
  <2>1. Parse1(l, s, i, bufpos) = Literal(l, s, i)
    BY <1>3 DEF Parse1
  <2> QED BY <1>3, <2>1, LiteralAdvances
<1>4. CASE l.parse1 = "LiteralHex"
  <2>1. Parse1(l, s, i, bufpos) = LiteralHex(l, s, i)
    BY <1>4 DEF Parse1
  <2> QED BY <1>4, <2>1, LiteralHexAdvances
<1>5. CASE l.parse1 = "Number"
  <2>1. Parse1(l, s, i, bufpos) = Number(l, s, i)
    BY <1>5 DEF Parse1
  <2> QED BY <1>5, <2>1, NumberAdvances
<1>6. CASE l.parse1 = "Float"
  <2>1. Parse1(l, s, i, bufpos) = Float(l, s, i)
    BY <1>6 DEF Parse1
  <2> QED BY <1>6, <2>1, FloatAdvances
<1>7. CASE l.parse1 = "Keyword"
  <2>1. Parse1(l, s, i, bufpos) = Keyword(l, s, i)
    BY <1>7 DEF Parse1
  <2> QED BY <1>7, <2>1, KeywordAdvances
<1>8. CASE l.parse1 = "String"
  <2>1. Parse1(l, s, i, bufpos) = String(l, s, i)
    BY <1>8 DEF Parse1
  <2> QED BY <1>8, <2>1, StringAdvances
<1>9. CASE l.parse1 = "String1"
  <2>1. Parse1(l, s, i, bufpos) = String1(l, s, i)
    BY <1>9 DEF Parse1
  <2> QED BY <1>9, <2>1, String1Advances
<1>10. CASE l.parse1 = "WOpen"
  <2>1. Parse1(l, s, i, bufpos) = WOpen(l, s, i)
    BY <1>10 DEF Parse1
  <2> QED BY <1>10, <2>1, WOpenAdvances
<1>11. CASE l.parse1 = "WClose"
  <2>1. Parse1(l, s, i, bufpos) = WClose(l, s, i)
    BY <1>11 DEF Parse1
  <2> QED BY <1>11, <2>1, WCloseAdvances
<1>12. CASE l.parse1 = "HexString"
  <2>1. Parse1(l, s, i, bufpos) = HexString(l, s, i)
    BY <1>12 DEF Parse1
  <2> QED BY <1>12, <2>1, HexStringAdvances
<1> QED BY <1>1, <1>2, <1>3, <1>4, <1>5, <1>6, <1>7, <1>8, <1>9, <1>10, <1>11, <1>12 DEF LexerOK, States

-----------------------------------------------------------------------------
(* The blocks: the next one begins where the file stands, or in a later stream. *)

\* The file with another block.
Moved(f, buf, bufpos, tell, charpos) ==
    [f EXCEPT !.buf = buf, !.bufpos = bufpos, !.tell = tell, !.charpos = charpos]

\* It is what its parts are.
LEMMA MovedOK ==
    ASSUME NEW f, NEW buf, NEW bufpos, NEW tell, NEW charpos,
           f \in File, buf \in Seq(Bytes), bufpos \in Nat, tell \in Nat, charpos \in Nat
    PROVE  /\ Moved(f, buf, bufpos, tell, charpos) \in File
           /\ Moved(f, buf, bufpos, tell, charpos).istream = f.istream
           /\ Moved(f, buf, bufpos, tell, charpos).open = f.open
           /\ Moved(f, buf, bufpos, tell, charpos).buf = buf
           /\ Moved(f, buf, bufpos, tell, charpos).bufpos = bufpos
           /\ Moved(f, buf, bufpos, tell, charpos).tell = tell
           /\ Moved(f, buf, bufpos, tell, charpos).charpos = charpos
<1> DEFINE a == [f EXCEPT !.buf = buf]
           b == [a EXCEPT !.bufpos = bufpos]
           c == [b EXCEPT !.tell = tell]
           d == [c EXCEPT !.charpos = charpos]
<1>1. Moved(f, buf, bufpos, tell, charpos) = d
  BY DEF Moved
<1>2. a \in File /\ a.istream = f.istream /\ a.open = f.open /\ a.buf = buf
  BY DEF File
<1> HIDE DEF a
<1>3. b \in File /\ b.istream = f.istream /\ b.open = f.open /\ b.buf = buf
      /\ b.bufpos = bufpos
  BY <1>2 DEF File
<1> HIDE DEF b
<1>4. c \in File /\ c.istream = f.istream /\ c.open = f.open /\ c.buf = buf
      /\ c.bufpos = bufpos /\ c.tell = tell
  BY <1>3 DEF File
<1> HIDE DEF c
<1>5. d \in File /\ d.istream = f.istream /\ d.open = f.open /\ d.buf = buf
      /\ d.bufpos = bufpos /\ d.tell = tell /\ d.charpos = charpos
  BY <1>4 DEF File
<1> HIDE DEF d
<1> QED BY <1>1, <1>5

\* The next block of a stream begins where the file stands.
LEMMA WithBlockOK ==
    ASSUME Given, NEW f \in File, f.istream <= Len(streams),
           f.tell < Len(streams[f.istream])
    PROVE  /\ FileOK(WithBlock(f))
           /\ WithBlock(f).istream = f.istream
           /\ WithBlock(f).bufpos = f.tell
           /\ WithBlock(f).charpos = 0
           /\ Len(WithBlock(f).buf) > 0
<1> DEFINE stream == streams[f.istream]
           end == Min({f.tell + bufsiz, Len(stream)})
           block == SubSeq(stream, f.tell + 1, end)
<1>1. stream \in Seq(Bytes) /\ Len(stream) \in Nat
  BY DEF Given, File
<1>2. f.tell \in Nat /\ f.tell < Len(stream) /\ bufsiz \in Nat /\ bufsiz > 0
  BY DEF File, Given
<1> HIDE DEF stream
<1>3. end \in Nat /\ f.tell < end /\ end <= Len(stream)
  <2>1. end = IF f.tell + bufsiz <= Len(stream) THEN f.tell + bufsiz ELSE Len(stream)
    BY <1>1, <1>2, MinOfTwo
  <2> QED BY <1>1, <1>2, <2>1
<1>4. WithBlock(f) = Moved(f, block, f.tell, end, 0)
  BY Zenon DEF WithBlock, Moved, stream
<1> HIDE DEF end
<1>5. block \in Seq(Bytes) /\ Len(block) = end - f.tell
  BY <1>1, <1>2, <1>3
<1> HIDE DEF block
<1> DEFINE g == WithBlock(f)
<1>6. g \in File /\ g.istream = f.istream /\ g.bufpos = f.tell /\ g.tell = end
      /\ g.charpos = 0 /\ g.buf = block
  <2> DEFINE tell == f.tell
             zero == 0
             m == Moved(f, block, tell, end, zero)
  <2>1. f \in File /\ block \in Seq(Bytes) /\ tell \in Nat /\ end \in Nat /\ zero \in Nat
    BY <1>2, <1>3, <1>5
  <2>2. g = m
    BY <1>4
  <2> HIDE DEF tell, zero, g
  <2>3. m \in File /\ m.istream = f.istream /\ m.buf = block
        /\ m.bufpos = tell /\ m.tell = end /\ m.charpos = zero
    BY <2>1, MovedOK
  <2> QED BY <2>2, <2>3 DEF tell, zero
<1> HIDE DEF g
<1>7. FileOK(g) /\ Len(g.buf) > 0
  BY <1>2, <1>3, <1>5, <1>6 DEF FileOK
<1> QED BY <1>6, <1>7 DEF g

\* The next block, of this stream or of a later one.
LEMMA FilledOK ==
    ASSUME Given, NEW f, FileOK(f), HasMore(f)
    PROVE  /\ FileOK(Filled(f))
           /\ Filled(f).charpos < Len(Filled(f).buf)
           /\ Changes(f) => Filled(f).istream > f.istream
           /\ ~Changes(f) => Position(Filled(f)) = Position(f)
<1> USE DEF Unread, Changes
<1>0. f \in File /\ Len(f.buf) \in Nat /\ f.charpos \in Nat /\ f.istream \in 1 .. Len(streams)
  BY DEF FileOK, File
<1>1. CASE Unread(f)
  <2>1. Filled(f) = f
    BY <1>1 DEF Filled
  <2> QED BY <1>1, <2>1
<1>2. CASE ~Unread(f) /\ f.tell < Len(streams[f.istream])
  <2>1. Filled(f) = WithBlock(f)
    BY <1>0, <1>2 DEF Filled, File, Given
  <2>2. f.charpos = Len(f.buf)
    BY <1>0, <1>2 DEF FileOK
  <2>3. f.tell = f.bufpos + f.charpos
    BY <2>2 DEF FileOK
  <2> QED BY <1>0, <1>2, <2>1, <2>3, WithBlockOK DEF Position, File
<1>3. CASE ~Unread(f) /\ ~(f.tell < Len(streams[f.istream]))
  <2> DEFINE k == Min(Later(f))
             g == [f EXCEPT !.istream = k, !.tell = 0]
  <2>1. Later(f) \in SUBSET Nat /\ Later(f) # {}
    BY <1>0, <1>3 DEF Later, HasMore, Given
  <2>2. k \in Later(f)
    BY <2>1, MinOfNats
  <2>3. k \in f.istream + 1 .. Len(streams) /\ streams[k] # <<>>
    BY <2>2 DEF Later
  <2>4. Changes(f)
    BY <1>0, <1>3 DEF Given, File
  <2>5. Filled(f) = WithBlock(g)
    BY <1>3, <2>4 DEF Filled
  <2> HIDE DEF k
  <2>6. g \in File /\ g.istream = k /\ g.tell = 0
    <3> DEFINE a == [f EXCEPT !.istream = k]
    <3>1. k \in Nat \ {0}
      BY <1>0, <2>3
    <3>2. a \in File /\ a.istream = k
      BY <1>0, <3>1 DEF File
    <3>3. g = [a EXCEPT !.tell = 0]
      OBVIOUS
    <3> HIDE DEF a, g
    <3> QED BY <3>2, <3>3 DEF File
  <2>7. k \in 1 .. Len(streams) /\ streams[k] \in Seq(Bytes) /\ k > f.istream
    BY <1>0, <2>3 DEF Given
  <2>8. Len(streams[k]) > 0
    BY <2>3, <2>7
  <2> HIDE DEF g
  <2>9. FileOK(WithBlock(g)) /\ WithBlock(g).istream = k /\ WithBlock(g).charpos = 0
        /\ Len(WithBlock(g).buf) > 0
    BY <2>6, <2>7, <2>8, WithBlockOK
  <2> QED BY <2>4, <2>5, <2>7, <2>9
<1> QED BY <1>1, <1>2, <1>3

-----------------------------------------------------------------------------
(* The guard. *)

\* The guard sees every step forward, and counts the others.
LEMMA CheckedOK ==
    ASSUME guard \in [high : Nat \X Int, stalls : 0 .. 2], ~Beyond(guard.high, Position(file)),
           FileOK(file), NEW f, FileOK(f),
           Beyond(Position(f), Position(file)) \/ Position(f) = Position(file)
    PROVE  /\ Checked(f) \in [high : Nat \X Int, stalls : 0 .. 3]
           /\ ~Beyond(Checked(f).high, Position(f))
           /\ Beyond(Position(f), Position(file)) => Checked(f).stalls = 0
           /\ Checked(f).stalls <= guard.stalls + 1
<1> DEFINE p == Position(file)
           q == Position(f)
<1>1. p \in Nat \X Nat /\ q \in Nat \X Nat
  BY DEF FileOK, File, Position
<1>2. Checked(f) = IF Beyond(q, guard.high) THEN [high |-> q, stalls |-> 0]
                   ELSE [guard EXCEPT !.stalls = @ + 1]
  BY DEF Checked
<1> HIDE DEF p, q
<1>3. ~Beyond(guard.high, p) /\ (Beyond(q, p) \/ q = p)
  BY DEF p, q
<1>4. ~Beyond(guard.high, q)
  BY <1>1, <1>3 DEF Beyond
<1>5. Beyond(q, p) => Beyond(q, guard.high)
  BY <1>1, <1>3 DEF Beyond
<1>6. ~Beyond(q, q)
  BY <1>1 DEF Beyond
<1>7. CASE Beyond(q, guard.high)
  BY <1>1, <1>2, <1>6, <1>7 DEF q
<1>8. CASE ~Beyond(q, guard.high)
  BY <1>1, <1>2, <1>4, <1>5, <1>8 DEF p, q
<1> QED BY <1>7, <1>8

-----------------------------------------------------------------------------
(* The steps.  One that reads on from the file keeps the invariant if the       *)
(* guard is checked where it goes forward, or stands as it was.                *)

\* The file goes on, or stays.
Onwards(f) == FileOK(f) /\ (Beyond(Position(f), Position(file)) \/ Position(f) = Position(file))

\* A file that goes on is not behind the guard.
LEMMA HighStays ==
    ASSUME guard \in [high : Nat \X Int, stalls : 0 .. 2], ~Beyond(guard.high, Position(file)),
           FileOK(file), NEW f, Onwards(f)
    PROVE  ~Beyond(guard.high, Position(f))
<1> DEFINE p == Position(file)
           q == Position(f)
<1>1. p \in Nat \X Nat /\ q \in Nat \X Nat
  BY DEF FileOK, File, Position, Onwards
<1>2. Beyond(q, p) \/ q = p
  BY DEF Onwards
<1> HIDE DEF p, q
<1>3. ~Beyond(guard.high, p)
  BY DEF p
<1>4. ~Beyond(guard.high, q)
  BY <1>1, <1>2, <1>3 DEF Beyond
<1> QED BY <1>4 DEF q

\* From a block that has bytes, to a place after or at its start.
LEMMA ReadOn ==
    ASSUME Given, FileOK(file), HasMore(file), NEW next \in Nat,
           next >= Filled(file).charpos, next <= Len(Filled(file).buf)
    PROVE  LET f == Filled(file)
               after == [f EXCEPT !.charpos = next]
           IN  /\ Onwards(after)
               /\ next > f.charpos \/ Changes(file) => Beyond(Position(after), Position(file))
<1> DEFINE f == Filled(file)
           after == [f EXCEPT !.charpos = next]
<1>1. /\ FileOK(f)
      /\ Changes(file) => f.istream > file.istream
      /\ ~Changes(file) => Position(f) = Position(file)
  BY FilledOK
<1>2. next >= f.charpos /\ next <= Len(f.buf)
  OBVIOUS
<1> HIDE DEF f
<1>3. f \in File /\ file \in File
  BY <1>1 DEF FileOK
<1>4. /\ after \in File /\ after.istream = f.istream /\ after.buf = f.buf
      /\ after.bufpos = f.bufpos /\ after.tell = f.tell /\ after.charpos = next
  BY <1>3 DEF File
<1> HIDE DEF after
<1>5. FileOK(after)
  BY <1>1, <1>2, <1>4 DEF FileOK
<1>6. CASE Changes(file)
  <2>1. Beyond(Position(after), Position(file))
    BY <1>1, <1>4, <1>6 DEF Beyond, Position
  <2> QED BY <1>5, <2>1 DEF Onwards, f, after
<1>7. CASE ~Changes(file)
  <2>1. f.istream = file.istream /\ f.bufpos + f.charpos = file.bufpos + file.charpos
    BY <1>1, <1>7 DEF Position
  <2>2. /\ f.istream \in Nat /\ f.bufpos \in Nat /\ f.charpos \in Nat
        /\ file.bufpos \in Nat /\ file.charpos \in Nat
    BY <1>3 DEF File
  <2>3. next > f.charpos => Beyond(Position(after), Position(file))
    BY <1>4, <2>1, <2>2 DEF Beyond, Position
  <2>4. next = f.charpos => Position(after) = Position(file)
    BY <1>4, <2>1, <2>2 DEF Position
  <2>5. Onwards(after)
    BY <1>2, <1>5, <2>2, <2>3, <2>4 DEF Onwards
  <2> QED BY <1>7, <2>3, <2>5 DEF f, after
<1> QED BY <1>6, <1>7

\* A parser that was just made.
LEMMA PSParserInit == Init => Inv
<1> SUFFICES ASSUME Init PROVE Inv
  OBVIOUS
<1> USE DEF Init
<1>1. streams \in Seq(Seq(Bytes)) /\ streams # <<>> /\ Len(streams) \in Nat
  BY PSParserAssumption
<1>2. Len(streams) >= 1
  BY <1>1
<1>3. Given
  BY <1>1, PSParserAssumption DEF Given
<1>4. LexerOK(lexer) /\ lexer.parse1 = "Main"
  BY DEF LexerOK, NewLexer, OneToken, States
<1>5. file \in File
  BY DEF File
<1>6. FileOK(file)
  BY <1>2, <1>5 DEF FileOK
<1>7. guard \in [high : Nat \X Int, stalls : 0 .. 2] /\ guard.stalls = 0
  BY DEF NewGuard
<1>8. ~Beyond(guard.high, Position(file))
  BY DEF NewGuard, Beyond, Position
<1>9. image.on = FALSE
  BY DEF NoImage
<1> QED BY <1>3, <1>4, <1>6, <1>7, <1>8, <1>9, Ranks DEF Inv

\* There are three ranks.
LEMMA RankRange == ASSUME NEW state PROVE Rank(state) \in 0 .. 2
BY DEF Rank

\* A line feed is a text of one byte.
LEMMA LineFeed == <<"lf">> \in Seq(Bytes) /\ Len(<<"lf">>) = 1
BY DEF Bytes, Space, Eol

\* A line feed ends the token under way.
LEMMA LineFeedAdvances ==
    ASSUME NEW l, LexerOK(l), l.tokens = <<>>, NEW bufpos \in Nat
    PROVE  Advances(l, Parse1(l, <<"lf">>, 0, bufpos), 0, 1)
<1> DEFINE lf == <<"lf">>
           zero == 0
<1>1. lf \in Seq(Bytes) /\ Len(lf) = 1 /\ zero \in 0 .. Len(lf) - 1
  BY LineFeed
<1> HIDE DEF lf, zero
<1>2. Advances(l, Parse1(l, lf, zero, bufpos), zero, Len(lf))
  BY <1>1, Parse1Advances
<1> QED BY <1>1, <1>2 DEF lf, zero

\* A turn of nexttoken.
LEMMA KeepsNextTokenStep == ASSUME Inv, NextTokenStep PROVE Inv'
<1> DEFINE f == Filled(file)
           result == IF Tacked(file) THEN Parse1(lexer, <<"lf">>, 0, f.bufpos)
                     ELSE Parse1(lexer, f.buf, f.charpos, f.bufpos)
           after == IF Tacked(file) \/ result.raised THEN f
                    ELSE [f EXCEPT !.charpos = result.next]
<1>1. /\ status = "on" /\ reading = "tokens" /\ ~image.on /\ ~eof /\ lexer.tokens = <<>>
      /\ HasMore(file)
  BY DEF NextTokenStep, Wants, Reads
<1>2. /\ Given /\ LexerOK(lexer) /\ guard \in [high : Nat \X Int, stalls : 0 .. 2]
      /\ FileOK(file) /\ ~Beyond(guard.high, Position(file))
      /\ guard.stalls + Rank(lexer.parse1) <= 2
  BY <1>1 DEF Inv, Forward
<1>3. /\ lexer' = result.lexer /\ file' = after
      /\ status' = IF result.raised THEN "raised" ELSE status
      /\ guard' = IF result.raised THEN guard ELSE Checked(after)
      /\ UNCHANGED <<streams, bufsiz, reading, eof, image>>
  BY Zenon DEF NextTokenStep, Outcome, given_
<1>4. /\ FileOK(f) /\ f.charpos < Len(f.buf)
      /\ f.charpos \in Nat /\ f.bufpos \in Nat /\ f.buf \in Seq(Bytes)
  BY <1>1, <1>2, FilledOK DEF FileOK, File
<1> HIDE DEF f
<1>5. /\ LexerOK(result.lexer)
      /\ ~result.raised => /\ Onwards(after)
                           /\ \/ Beyond(Position(after), Position(file))
                              \/ Rank(result.lexer.parse1) < Rank(lexer.parse1)
  <2>1. CASE Tacked(file)
    <3> DEFINE r == Parse1(lexer, <<"lf">>, 0, f.bufpos)
    <3>1. Advances(lexer, r, 0, 1)
      BY <1>1, <1>2, <1>4, LineFeedAdvances
    <3>2. result = r /\ after = f
      BY <2>1
    <3>3. f.istream > file.istream
      BY <1>1, <1>2, <2>1, FilledOK DEF Tacked, f
    <3>4. Beyond(Position(f), Position(file))
      BY <3>3 DEF Beyond, Position
    <3> HIDE DEF r, result, after
    <3> QED BY <1>4, <3>1, <3>2, <3>4 DEF Advances, Onwards
  <2>2. CASE ~Tacked(file)
    <3> DEFINE r == Parse1(lexer, f.buf, f.charpos, f.bufpos)
               moved == [f EXCEPT !.charpos = r.next]
    <3>1. f.charpos \in 0 .. Len(f.buf) - 1
      BY <1>4
    <3>2. Advances(lexer, r, f.charpos, Len(f.buf))
      BY <1>1, <1>2, <1>4, <3>1, Parse1Advances
    <3>3. result = r
      BY <2>2
    <3>4. ~result.raised => after = moved
      BY <2>2
    <3> HIDE DEF r, result, after
    <3>5. LexerOK(r.lexer) /\ r.next \in Nat /\ r.next >= f.charpos /\ r.next <= Len(f.buf)
      BY <1>4, <3>2 DEF Advances
    <3>6. /\ Onwards(moved)
          /\ r.next > f.charpos => Beyond(Position(moved), Position(file))
      BY <1>1, <1>2, <3>5, ReadOn DEF f
    <3>7. ~r.raised => r.next > f.charpos \/ Rank(r.lexer.parse1) < Rank(lexer.parse1)
      BY <1>4, <3>2, <3>5 DEF Advances
    <3> HIDE DEF moved
    <3> QED BY <3>3, <3>4, <3>5, <3>6, <3>7
  <2> QED BY <2>1, <2>2
<1> HIDE DEF result, after
<1>6. CASE result.raised
  BY <1>1, <1>2, <1>3, <1>5, <1>6 DEF Inv, Given, Forward
<1>7. CASE ~result.raised
  <2>1. /\ guard' \in [high : Nat \X Int, stalls : 0 .. 3]
        /\ ~Beyond(guard'.high, Position(file'))
        /\ Beyond(Position(after), Position(file)) => guard'.stalls = 0
        /\ guard'.stalls <= guard.stalls + 1
    BY <1>2, <1>3, <1>5, <1>7, CheckedOK DEF Onwards
  <2>2. guard'.stalls + Rank(lexer'.parse1) <= 2 /\ guard'.stalls \in 0 .. 2
    BY <1>2, <1>3, <1>5, <1>7, <2>1, RankRange
  <2>3. guard' \in [high : Nat \X Int, stalls : 0 .. 2]
    BY <2>1, <2>2
  <2>4. FileOK(file)' /\ LexerOK(lexer)' /\ (~Beyond(guard.high, Position(file)))'
    BY <1>3, <1>5, <1>7, <2>1 DEF Onwards, FileOK, Position
  <2> QED BY <1>1, <1>2, <1>3, <1>7, <2>2, <2>3, <2>4 DEF Inv, Given, Forward
<1> QED BY <1>6, <1>7

\* Without a block, the file is closed.
LEMMA ExhaustedOK ==
    ASSUME NEW f, FileOK(f), Given
    PROVE  /\ Exhausted(f).open = FALSE
           /\ Exhausted(f).bufpos \in Nat
           /\ \A n : [Exhausted(f) EXCEPT !.charpos = n].open = FALSE
<1> DEFINE bufpos == IF f.istream = Len(streams) THEN f.tell ELSE 0
           a == [f EXCEPT !.istream = Len(streams)]
           b == [a EXCEPT !.open = FALSE]
           empty == <<>>
           c == [b EXCEPT !.buf = empty]
           d == [c EXCEPT !.bufpos = bufpos]
<1>1. f \in File /\ bufpos \in Nat /\ Len(streams) \in Nat \ {0}
  BY DEF FileOK, File, Given
<1>2. Exhausted(f) = d
  BY DEF Exhausted
<1> HIDE DEF bufpos
<1>3. a \in File
  BY <1>1 DEF File
<1> HIDE DEF a
<1>4. b \in File /\ b.open = FALSE
  BY <1>3 DEF File
<1> HIDE DEF b
<1>5. c \in File /\ c.open = FALSE
  <2>1. empty \in Seq(Bytes)
    OBVIOUS
  <2> HIDE DEF empty
  <2> QED BY <1>4, <2>1 DEF File
<1> HIDE DEF c
<1>6. d \in File /\ d.open = FALSE /\ d.bufpos = bufpos
  BY <1>1, <1>5 DEF File
<1> HIDE DEF d
<1>7. ASSUME NEW n PROVE [d EXCEPT !.charpos = n].open = FALSE
  BY <1>6 DEF File
<1> QED BY <1>1, <1>2, <1>6, <1>7

\* Its turn at the end.
LEMMA KeepsNextTokenAtEnd == ASSUME Inv, NextTokenAtEnd PROVE Inv'
<1> DEFINE f == Exhausted(file)
           result == Parse1(lexer, <<"lf">>, 0, f.bufpos)
<1>1. /\ status = "on" /\ reading = "tokens" /\ ~image.on /\ ~eof /\ lexer.tokens = <<>>
  BY DEF NextTokenAtEnd, Wants, Reads
<1>2. /\ Given /\ LexerOK(lexer) /\ guard \in [high : Nat \X Int, stalls : 0 .. 2]
      /\ FileOK(file)
  BY <1>1 DEF Inv, Forward
<1>3. /\ lexer' = result.lexer
      /\ file' = IF result.raised THEN f ELSE [f EXCEPT !.charpos = result.next]
      /\ eof' = ~result.raised
      /\ status' = IF result.raised THEN "raised"
                   ELSE IF result.lexer.tokens = <<>> THEN "end" ELSE status
      /\ UNCHANGED <<streams, bufsiz, reading, image, guard>>
  BY Zenon DEF NextTokenAtEnd, Outcome, given_
<1>4. f.open = FALSE /\ f.bufpos \in Nat /\ [f EXCEPT !.charpos = result.next].open = FALSE
  BY <1>2, ExhaustedOK
<1> HIDE DEF f
<1>5. LexerOK(result.lexer)
  BY <1>1, <1>2, <1>4, LineFeedAdvances DEF Advances
<1> HIDE DEF result
<1> QED BY <1>1, <1>2, <1>3, <1>4, <1>5 DEF Inv, Given, Forward

\* Its turn after that.
LEMMA KeepsNextTokenAfterEnd == ASSUME Inv, NextTokenAfterEnd PROVE Inv'
BY DEF NextTokenAfterEnd, Reads, given_, Inv, Given, Forward, Position

\* A token is taken: the file is left alone, and so is the state of the tokenizer.
LEMMA TakenOK ==
    ASSUME Inv, status = "on", reading = "tokens", ~image.on, lexer.tokens # <<>>,
           lexer' = [lexer EXCEPT !.tokens = Tail(@)],
           UNCHANGED <<streams, bufsiz, reading, file, eof, image, guard>>,
           status' \in {"on", "syntax", "end"}
    PROVE  Inv'
<1> DEFINE rest == Tail(lexer.tokens)
<1>1. LexerOK(lexer)
  BY DEF Inv
<1>2. rest = <<>>
  <2>1. PICK t : lexer.tokens = <<t>>
    BY <1>1 DEF LexerOK, OneToken
  <2>2. Tail(<<t>>) = <<>>
    OBVIOUS
  <2> QED BY <2>1, <2>2
<1>3. lexer' = [lexer EXCEPT !.tokens = rest]
  OBVIOUS
<1> HIDE DEF rest
<1>4. LexerOK(lexer') /\ lexer'.parse1 = lexer.parse1
  BY <1>1, <1>2, <1>3 DEF LexerOK, OneToken
<1>5. FileOK(file) => FileOK(file)'
  BY DEF FileOK
<1>6. ~eof => /\ FileOK(file) /\ ~Beyond(guard.high, Position(file))
              /\ guard.stalls + Rank(lexer.parse1) <= 2
  BY DEF Inv, Forward
<1> QED BY <1>1, <1>4, <1>5, <1>6 DEF Inv, Given, Forward, Position

\* A token taken leaves the file alone.
LEMMA KeepsTake ==
    ASSUME Inv, NEW s, Take(s), UNCHANGED status
    PROVE  Inv'
<1>1. /\ status = "on" /\ reading = "tokens" /\ ~image.on /\ lexer.tokens # <<>>
      /\ lexer' = [lexer EXCEPT !.tokens = Tail(@)]
      /\ UNCHANGED <<streams, bufsiz, reading, file, eof, image, guard>>
  BY DEF Take, Reads, given_
<1> QED BY <1>1, TakenOK

\* ... when it is a closing bracket, too.
LEMMA KeepsTakeClosing == ASSUME Inv, NEW type, TakeClosing(type) PROVE Inv'
<1>1. CASE stack.curtype # type
  BY <1>1, KeepsTake DEF TakeClosing
<1>2. CASE ~(stack.curtype # type) /\ type = "d" /\ Len(stack.curstack) % 2 = 1
  <2>1. /\ status = "on" /\ reading = "tokens" /\ ~image.on /\ lexer.tokens # <<>>
        /\ lexer' = [lexer EXCEPT !.tokens = Tail(@)]
        /\ UNCHANGED <<streams, bufsiz, reading, file, eof, image, guard>>
        /\ status' = "syntax"
    BY <1>2 DEF TakeClosing, Reads, given_
  <2> QED BY <2>1, TakenOK
<1>3. CASE ~(stack.curtype # type) /\ ~(type = "d" /\ Len(stack.curstack) % 2 = 1)
  BY <1>3, KeepsTake DEF TakeClosing
<1> QED BY <1>1, <1>2, <1>3

\* An inline image: the tokenizer and the guard begin again where its data does.
LEMMA SeekLexerOK ==
    ASSUME NEW l, LexerOK(l)
    PROVE  LET r == [l EXCEPT !.parse1 = "Main", !.curtoken = <<>>, !.curtokenpos = 0,
                              !.tokens = <<>>]
           IN  LexerOK(r) /\ r.parse1 = "Main"
<1> DEFINE empty == <<>>
           a == Goto(l, "Main")
           b == [a EXCEPT !.curtoken = empty]
           c == [b EXCEPT !.curtokenpos = 0]
           d == [c EXCEPT !.tokens = <<>>]
           r == [l EXCEPT !.parse1 = "Main", !.curtoken = <<>>, !.curtokenpos = 0,
                          !.tokens = <<>>]
<1>1. LexerOK(a) /\ a.parse1 = "Main"
  BY GotoOK, SimpleStates
<1>2. r = d
  BY DEF Goto
<1> HIDE DEF a, empty
<1>3. LexerOK(b) /\ b.parse1 = "Main"
  BY <1>1 DEF LexerOK
<1> HIDE DEF b
<1>4. LexerOK(c) /\ c.parse1 = "Main"
  BY <1>3 DEF LexerOK
<1> HIDE DEF c
<1>5. LexerOK(d) /\ d.parse1 = "Main"
  BY <1>4 DEF LexerOK, OneToken
<1> QED BY <1>2, <1>5

\* The file starts again anywhere.
LEMMA SeekFileOK ==
    ASSUME NEW f, FileOK(f), NEW pos \in Nat
    PROVE  FileOK([f EXCEPT !.tell = pos, !.buf = <<>>, !.bufpos = pos, !.charpos = 0])
<1> DEFINE a == [f EXCEPT !.tell = pos]
           empty == <<>>
           b == [a EXCEPT !.buf = empty]
           c == [b EXCEPT !.bufpos = pos]
           d == [c EXCEPT !.charpos = 0]
<1>1. f \in File
  BY DEF FileOK
<1>2. [f EXCEPT !.tell = pos, !.buf = <<>>, !.bufpos = pos, !.charpos = 0] = d
  OBVIOUS
<1>3. empty \in Seq(Bytes) /\ Len(empty) = 0
  OBVIOUS
<1> HIDE DEF empty
<1>4. a \in File /\ a.istream = f.istream /\ a.tell = pos
  BY <1>1 DEF File
<1> HIDE DEF a
<1>5. b \in File /\ b.istream = f.istream /\ b.tell = pos /\ b.buf = empty
  BY <1>3, <1>4 DEF File
<1> HIDE DEF b
<1>6. c \in File /\ c.istream = f.istream /\ c.tell = pos /\ c.buf = empty /\ c.bufpos = pos
  BY <1>5 DEF File
<1> HIDE DEF c
<1>7. d \in File /\ d.istream = f.istream /\ d.tell = pos /\ d.buf = empty
      /\ d.bufpos = pos /\ d.charpos = 0
  BY <1>6 DEF File
<1> HIDE DEF d
<1> QED BY <1>2, <1>3, <1>7 DEF FileOK

\* ID seeks the data of the image.
LEMMA KeepsBeginImage == ASSUME Inv, NEW mark, BeginImage(mark) PROVE Inv'
<1> DEFINE pos == NextToken.pos + 3
           there == [file EXCEPT !.tell = pos, !.buf = <<>>, !.bufpos = pos, !.charpos = 0]
           new == [lexer EXCEPT !.parse1 = "Main", !.curtoken = <<>>, !.curtokenpos = 0,
                                !.tokens = <<>>]
<1>1. /\ status = "on" /\ reading = "tokens" /\ ~image.on /\ lexer.tokens # <<>>
      /\ UNCHANGED <<streams, bufsiz, reading>>
  BY DEF BeginImage, Reads, given_
<1>2. LexerOK(lexer) /\ Given
  BY DEF Inv
<1>3. CASE file.open
  <2>1. ~eof /\ FileOK(file)
    BY <1>1, <1>3 DEF Inv, Forward
  <2>2. pos \in Nat
    <3>1. PICK t : t.pos \in Nat /\ lexer.tokens = <<t>>
      BY <1>1, <1>2 DEF LexerOK, OneToken
    <3>2. Head(<<t>>) = t
      OBVIOUS
    <3> QED BY <3>1, <3>2 DEF NextToken
  <2>3. /\ file' = there /\ lexer' = new /\ eof' = FALSE /\ guard' = NewGuard
        /\ status' = status
    BY <1>3, Zenon DEF BeginImage
  <2> HIDE DEF pos
  <2>4. FileOK(there)
    BY <2>1, <2>2, SeekFileOK
  <2>5. LexerOK(new) /\ new.parse1 = "Main"
    BY <1>2, SeekLexerOK
  <2> HIDE DEF there, new
  <2>6. guard' \in [high : Nat \X Int, stalls : 0 .. 2] /\ guard'.stalls = 0
    BY <2>3 DEF NewGuard
  <2>7. ~Beyond(NewGuard.high, Position(there))
    BY <2>4 DEF NewGuard, Beyond, Position, FileOK, File
  <2>8. FileOK(file)' /\ LexerOK(lexer)' /\ (~Beyond(guard.high, Position(file)))'
        /\ lexer'.parse1 = "Main"
    BY <1>1, <2>3, <2>4, <2>5, <2>7 DEF FileOK, Position
  <2> QED BY <1>1, <1>2, <2>3, <2>6, <2>8, Ranks DEF Inv, Given, Forward
<1>4. CASE ~file.open
  <2>1. /\ lexer' = [lexer EXCEPT !.tokens = Tail(@)]
        /\ UNCHANGED <<streams, bufsiz, reading, file, eof, image, guard>>
        /\ status' = "end"
    BY <1>1, <1>4 DEF BeginImage
  <2> QED BY <1>1, <2>1, TakenOK
<1> QED BY <1>3, <1>4

\* A step of an image or of a line moves the file: to next, in the block that fillbuf gave.
LEMMA ForwardOK ==
    ASSUME Inv, Forward, HasMore(file), NEW next \in Nat,
           next >= Filled(file).charpos, next <= Len(Filled(file).buf),
           file' = [Filled(file) EXCEPT !.charpos = next], UNCHANGED <<streams, bufsiz>>,
           \/ guard' = Checked(file') /\ next > Filled(file).charpos
           \/ UNCHANGED guard /\ reading = "lines"
    PROVE  /\ FileOK(file)' /\ ~Beyond(guard'.high, Position(file'))
           /\ guard' \in [high : Nat \X Int, stalls : 0 .. 2] /\ guard'.stalls = 0
<1> DEFINE after == [Filled(file) EXCEPT !.charpos = next]
<1>1. /\ Given /\ guard \in [high : Nat \X Int, stalls : 0 .. 2]
      /\ FileOK(file) /\ ~Beyond(guard.high, Position(file))
  BY DEF Inv
<1>2. /\ Onwards(after)
      /\ next > Filled(file).charpos => Beyond(Position(after), Position(file))
  BY <1>1, ReadOn
<1>3. file' = after
  OBVIOUS
<1> HIDE DEF after
<1>4. FileOK(file)'
  BY <1>2, <1>3 DEF Onwards, FileOK
<1>5. CASE guard' = Checked(file') /\ next > Filled(file).charpos
  <2>1. guard' = Checked(after) /\ Beyond(Position(after), Position(file)) /\ FileOK(after)
    BY <1>2, <1>3, <1>5 DEF Onwards
  <2>2. /\ guard' \in [high : Nat \X Int, stalls : 0 .. 3] /\ guard'.stalls = 0
        /\ ~Beyond(guard'.high, Position(after))
    BY <1>1, <2>1, CheckedOK
  <2>3. guard' \in [high : Nat \X Int, stalls : 0 .. 2]
    BY <2>2
  <2> QED BY <1>3, <1>4, <2>2, <2>3
<1>6. CASE UNCHANGED guard /\ reading = "lines"
  <2>1. ~Beyond(guard.high, Position(after))
    BY <1>1, <1>2, HighStays
  <2>2. guard.stalls = 0
    BY <1>6 DEF Inv
  <2> QED BY <1>1, <1>3, <1>4, <1>6, <2>1, <2>2
<1> QED BY <1>5, <1>6

\* The end of what a search found, in a block of which something is unread.
LEMMA PastFound ==
    ASSUME NEW s \in Seq(Bytes), NEW i \in Nat, i < Len(s), NEW class
    PROVE  LET end == Min({FirstOf(s, i, class) + 1, Len(s)})
           IN  end \in Nat /\ end > i /\ end <= Len(s)
<1> DEFINE j == FirstOf(s, i, class)
<1>1. Len(s) \in Nat /\ i \in 0 .. Len(s)
  OBVIOUS
<1>2. j \in i .. Len(s)
  BY <1>1, FirstOfInRange
<1> HIDE DEF j
<1>3. j + 1 \in Nat
  BY <1>1, <1>2
<1>4. Min({j + 1, Len(s)}) = IF j + 1 <= Len(s) THEN j + 1 ELSE Len(s)
  BY <1>1, <1>3, MinOfTwo
<1>5. /\ Min({j + 1, Len(s)}) \in Nat /\ Min({j + 1, Len(s)}) > i
      /\ Min({j + 1, Len(s)}) <= Len(s)
  BY <1>1, <1>2, <1>3, <1>4
<1> QED BY <1>5 DEF j

\* A turn of get_inline_data.
LEMMA KeepsImageStep == ASSUME Inv, ImageStep PROVE Inv'
<1> DEFINE f == Filled(file)
           end == Min({FirstOf(f.buf, f.charpos, {At(image.mark, 0)}) + 1, Len(f.buf)})
           next == IF image.i # 0 THEN f.charpos + 1 ELSE end
<1>1. /\ status = "on" /\ image.on /\ HasMore(file)
      /\ file' = Looked(image, f)[2] /\ guard' = Checked(Looked(image, f)[2])
      /\ UNCHANGED <<streams, bufsiz, reading, lexer, eof, status>>
  BY Zenon DEF ImageStep, given_
<1>2. Forward /\ reading = "tokens" /\ LexerOK(lexer) /\ Given /\ ~eof
  BY <1>1 DEF Inv, Forward
<1>3. FileOK(f) /\ f.charpos < Len(f.buf) /\ f.charpos \in Nat /\ f.buf \in Seq(Bytes)
  <2>1. FileOK(file)
    BY <1>2 DEF Inv
  <2> QED BY <1>1, <1>2, <2>1, FilledOK DEF FileOK, File
<1>4. Looked(image, f)[2] = [f EXCEPT !.charpos = next]
  BY DEF Looked
<1> HIDE DEF f
<1>5. end \in Nat /\ end > f.charpos /\ end <= Len(f.buf)
  BY <1>3, PastFound
<1> HIDE DEF end
<1>6. next \in Nat /\ next > f.charpos /\ next <= Len(f.buf)
  BY <1>3, <1>5
<1> HIDE DEF next
<1>7. file' = [f EXCEPT !.charpos = next] /\ guard' = Checked(file')
  BY <1>1, <1>4
<1>8. /\ FileOK(file)' /\ ~Beyond(guard'.high, Position(file'))
      /\ guard' \in [high : Nat \X Int, stalls : 0 .. 2] /\ guard'.stalls = 0
  BY <1>1, <1>2, <1>3, <1>6, <1>7, ForwardOK DEF f
<1>9. Position(file)' = Position(file')
  BY DEF Position
<1> QED BY <1>1, <1>2, <1>8, <1>9, RankRange DEF Inv, Given, Forward

\* A turn of nextline.
LEMMA KeepsNextLineStep == ASSUME Inv, NextLineStep PROVE Inv'
<1> DEFINE f == Filled(file)
           lf == At(f.buf, f.charpos) = "lf"
           found == Min({FirstOf(f.buf, f.charpos, Eol) + 1, Len(f.buf)})
           next == IF line.eol THEN f.charpos + (IF lf THEN 1 ELSE 0) ELSE found
<1>1. /\ status = "on" /\ reading = "lines" /\ ~image.on /\ HasMore(file)
      /\ file' = [f EXCEPT !.charpos = next]
      /\ line.eol => UNCHANGED guard
      /\ guard' = Checked(file') \/ UNCHANGED guard
      /\ UNCHANGED <<streams, bufsiz, reading, lexer, eof, image, status>>
  BY DEF NextLineStep, Reads, given_
<1>2. Forward /\ LexerOK(lexer) /\ Given /\ ~eof
  BY <1>1 DEF Inv, Forward
<1>3. FileOK(f) /\ f.charpos < Len(f.buf) /\ f.charpos \in Nat /\ f.buf \in Seq(Bytes)
  <2>1. FileOK(file)
    BY <1>2 DEF Inv
  <2> QED BY <1>1, <1>2, <2>1, FilledOK DEF FileOK, File
<1> HIDE DEF f
<1>4. found \in Nat /\ found > f.charpos /\ found <= Len(f.buf)
  BY <1>3, PastFound
<1> HIDE DEF found, lf
<1>5. /\ next \in Nat /\ next >= f.charpos /\ next <= Len(f.buf)
      /\ ~line.eol => next > f.charpos
  BY <1>3, <1>4
<1> HIDE DEF next
<1>6. /\ FileOK(file)' /\ ~Beyond(guard'.high, Position(file'))
      /\ guard' \in [high : Nat \X Int, stalls : 0 .. 2] /\ guard'.stalls = 0
  BY <1>1, <1>2, <1>5, ForwardOK DEF f
<1>7. Position(file)' = Position(file')
  BY DEF Position
<1> QED BY <1>1, <1>2, <1>6, <1>7 DEF Inv, Given, Forward

\* A parser that stops, or reads backwards, leaves the guard as it is.
LEMMA KeepsEnd ==
    ASSUME Inv, ImageAtEnd \/ NextLineAtEnd \/ RevLine \/ RevBlock \/ RevEnd \/ Stop
    PROVE  Inv'
<1>1. CASE ImageAtEnd
  BY <1>1 DEF ImageAtEnd, given_, Inv, Given, Forward
<1>2. CASE NextLineAtEnd
  BY <1>2 DEF NextLineAtEnd, Reads, given_, Inv, Given, Forward
<1>3. CASE RevLine
  BY <1>3 DEF RevLine, Reads, given_, Inv, Given, Forward
<1>4. CASE RevBlock
  BY <1>4 DEF RevBlock, Reads, given_, Inv, Given, Forward
<1>5. CASE RevEnd
  BY <1>5 DEF RevEnd, Reads, given_, Inv, Given, Forward
<1>6. CASE Stop
  BY <1>6 DEF Stop, vars, Inv, Given, Forward, FileOK, Position
<1> QED BY <1>1, <1>2, <1>3, <1>4, <1>5, <1>6

\* Every step.
LEMMA PSParserStep == Inv /\ [Next]_vars => Inv'
<1> SUFFICES ASSUME Inv, [Next]_vars PROVE Inv'
  OBVIOUS
<1>1. CASE NextTokenStep
  BY <1>1, KeepsNextTokenStep
<1>2. CASE NextTokenAtEnd
  BY <1>2, KeepsNextTokenAtEnd
<1>3. CASE NextTokenAfterEnd
  BY <1>3, KeepsNextTokenAfterEnd
<1>4. CASE TakeValue
  BY <1>4, KeepsTake DEF TakeValue
<1>5. ASSUME NEW type \in Types, TakeOpening(type) PROVE Inv'
  BY <1>5, KeepsTake DEF TakeOpening
<1>6. ASSUME NEW type \in Types, TakeClosing(type) PROVE Inv'
  BY <1>6, KeepsTakeClosing
<1>7. ASSUME NEW mark, BeginImage(mark) PROVE Inv'
  BY <1>7, KeepsBeginImage
<1>8. CASE SkipImage
  BY <1>8, KeepsTake DEF SkipImage
<1>9. CASE ImageStep
  BY <1>9, KeepsImageStep
<1>10. CASE NextLineStep
  BY <1>10, KeepsNextLineStep
<1>11. CASE ImageAtEnd \/ NextLineAtEnd \/ RevLine \/ RevBlock \/ RevEnd \/ Stop
  BY <1>11, KeepsEnd
<1>12. CASE UNCHANGED vars
  BY <1>12 DEF vars, Inv, Given, Forward, FileOK, Position
<1> QED BY <1>1, <1>2, <1>3, <1>4, <1>5, <1>6, <1>7, <1>8, <1>9, <1>10, <1>11, <1>12
        DEF Next

\* What the steps of the parser keep: a file that goes on is where its block ends, the
\* guard is not past it, and each step without a byte leaves a state of a lower rank.
THEOREM PSParserInvariant == Spec => []Inv
BY PSParserInit, PSParserStep, PTL DEF Spec

\* The tokenizer never makes three steps in a row without consuming a byte
\* (ProgressGuard), whatever the text, the blocks and the streams.
THEOREM PSParserStallsAtMostTwice == Spec => []StallsAtMostTwice
<1>1. Inv => StallsAtMostTwice
  BY DEF Inv, StallsAtMostTwice
<1> QED BY <1>1, PSParserInvariant, PTL

-----------------------------------------------------------------------------
(* Sequences of sequences, end to end. *)

\* f has, by n, the first n members of s end to end.
Flattens(s, n, f) == f = [i \in 1 .. n |-> IF i = 1 THEN s[i] ELSE f[i - 1] \o s[i]]

\* There is one such function, for any members and any number of them.
LEMMA FlattensExists ==
    ASSUME NEW s, NEW n \in Nat
    PROVE  \E f : Flattens(s, n, f)
<1> SUFFICES ASSUME \A f : ~Flattens(s, n, f) PROVE FALSE
  OBVIOUS
<1> DEFINE L == {k \in Nat : \A f : ~Flattens(s, k, f)}
<1>1. PICK k \in L : \A m \in L : k <= m
  <2>1. n \in L
    OBVIOUS
  <2>2. L \in SUBSET Nat
    OBVIOUS
  <2> HIDE DEF L
  <2> QED BY <2>1, <2>2, Least
<1>2. k \in Nat /\ \A f : ~Flattens(s, k, f)
  OBVIOUS
<1>3. k # 0
  <2>1. Flattens(s, 0, [i \in 1 .. 0 |-> 0])
    BY DEF Flattens
  <2> QED BY <1>2, <2>1
<1>4. k - 1 \in Nat /\ k - 1 \notin L
  BY <1>1, <1>2, <1>3
<1>5. PICK f : Flattens(s, k - 1, f)
  BY <1>4
<1> DEFINE g == [i \in 1 .. k |-> IF i = k THEN IF k = 1 THEN s[k] ELSE f[k - 1] \o s[k]
                                 ELSE f[i]]
<1>6. ASSUME NEW i \in 1 .. k PROVE g[i] = IF i = 1 THEN s[i] ELSE g[i - 1] \o s[i]
  <2>1. CASE i = k
    <3>1. i # 1 => g[i - 1] = f[k - 1]
      BY <1>2, <1>3, <2>1
    <3> QED BY <2>1, <3>1
  <2>2. CASE i # k
    <3>1. i \in 1 .. k - 1 /\ g[i] = f[i]
      BY <1>2, <2>2
    <3>2. i # 1 => g[i - 1] = f[i - 1]
      BY <1>2, <2>2
    <3>3. f[i] = IF i = 1 THEN s[i] ELSE f[i - 1] \o s[i]
      BY <1>5, <3>1 DEF Flattens
    <3> HIDE DEF g
    <3> QED BY <3>1, <3>2, <3>3
  <2> QED BY <2>1, <2>2
<1>7. g = [i \in 1 .. k |-> g[i]]
  OBVIOUS
<1> HIDE DEF g
<1>8. Flattens(s, k, g)
  BY <1>6, <1>7 DEF Flattens
<1> QED BY <1>2, <1>8

\* FlattenSeq gives the last of its values.
LEMMA FlattenedIs ==
    ASSUME NEW s, Len(s) \in Nat \ {0}
    PROVE  \E f : Flattens(s, Len(s), f) /\ FlattenSeq(s) = f[Len(s)]
<1> DEFINE flatten[i \in 1 .. Len(s)] == IF i = 1 THEN s[i] ELSE flatten[i - 1] \o s[i]
<1>1. FlattenSeq(s) = flatten[Len(s)]
  BY DEF FlattenSeq
<1>2. flatten = CHOOSE f : Flattens(s, Len(s), f)
  BY DEF Flattens
<1> HIDE DEF flatten
<1>3. Flattens(s, Len(s), flatten)
  BY <1>2, FlattensExists
<1> QED BY <1>1, <1>3

\* Two of them have the same values as long as their members are the same.
LEMMA FlattensAgree ==
    ASSUME NEW s, NEW t, NEW m \in Nat, NEW n \in Nat, n <= m, n # 0, NEW f, NEW g,
           Flattens(s, n, f), Flattens(t, m, g), \A i \in 1 .. n : s[i] = t[i]
    PROVE  f[n] = g[n]
<1> DEFINE L == {i \in 1 .. n : f[i] # g[i]}
<1> SUFFICES ASSUME n \in L PROVE FALSE
  OBVIOUS
<1>1. PICK i \in L : \A j \in L : i <= j
  <2>1. L \in SUBSET Nat
    OBVIOUS
  <2> HIDE DEF L
  <2> QED BY <2>1, Least
<1>2. i \in 1 .. n /\ i \in 1 .. m /\ f[i] # g[i]
  OBVIOUS
<1>3. i # 1 => f[i - 1] = g[i - 1]
  <2>1. i # 1 => i - 1 \in 1 .. n /\ i - 1 \notin L
    BY <1>1, <1>2
  <2> QED BY <2>1
<1> HIDE DEF L
<1>4. f[i] = IF i = 1 THEN s[i] ELSE f[i - 1] \o s[i]
  BY <1>2 DEF Flattens
<1>5. g[i] = IF i = 1 THEN t[i] ELSE g[i - 1] \o t[i]
  BY <1>2 DEF Flattens
<1> QED BY <1>2, <1>3, <1>4, <1>5

\* Nothing end to end is nothing.
LEMMA FlatEmpty == FlattenSeq(<<>>) = <<>>
<1>1. Len(<<>>) = 0
  OBVIOUS
<1> QED BY <1>1 DEF FlattenSeq

\* One sequence more.
LEMMA FlatStep ==
    ASSUME NEW R, NEW s \in Seq(Seq(R)), NEW e \in Seq(R), FlattenSeq(s) \in Seq(R)
    PROVE  FlattenSeq(Append(s, e)) = FlattenSeq(s) \o e
<1> DEFINE t == Append(s, e)
           n == Len(s)
           m == n + 1
<1>1. /\ n \in Nat /\ m \in Nat /\ Len(t) = m /\ m \in Nat \ {0} /\ n <= m
      /\ t[m] = e /\ \A i \in 1 .. n : s[i] = t[i]
  OBVIOUS
<1> HIDE DEF t
<1>2. PICK g : Flattens(t, m, g) /\ FlattenSeq(t) = g[m]
  BY <1>1, FlattenedIs
<1>3. g[m] = IF m = 1 THEN t[m] ELSE g[m - 1] \o t[m]
  <2>1. m \in 1 .. m
    BY <1>1
  <2> HIDE DEF m
  <2> QED BY <1>2, <2>1 DEF Flattens
<1>4. CASE n = 0
  <2>1. s = <<>> /\ m = 1
    BY <1>4
  <2>2. FlattenSeq(s) \o e = e
    BY <2>1, FlatEmpty
  <2> QED BY <1>1, <1>2, <1>3, <2>1, <2>2 DEF t
<1>5. CASE n # 0
  <2>1. PICK f : Flattens(s, n, f) /\ FlattenSeq(s) = f[n]
    <3>1. n \in Nat \ {0}
      BY <1>1, <1>5
    <3> QED BY <3>1, FlattenedIs
  <2>2. f[n] = g[n]
    <3> HIDE DEF n, m
    <3> QED BY <1>1, <1>2, <1>5, <2>1, FlattensAgree
  <2>3. m # 1 /\ m - 1 = n
    BY <1>1, <1>5
  <2> QED BY <1>1, <1>2, <1>3, <2>1, <2>2, <2>3 DEF t
<1> QED BY <1>4, <1>5

\* The members of the members, and no others.
LEMMA FlatType ==
    ASSUME NEW R, NEW s \in Seq(Seq(R))
    PROVE  FlattenSeq(s) \in Seq(R)
<1> SUFFICES ASSUME FlattenSeq(s) \notin Seq(R) PROVE FALSE
  OBVIOUS
<1> DEFINE L == {n \in Nat : \E t \in Seq(Seq(R)) : Len(t) = n /\ FlattenSeq(t) \notin Seq(R)}
<1>1. PICK n \in L : \A m \in L : n <= m
  <2>1. Len(s) \in L
    OBVIOUS
  <2>2. L \in SUBSET Nat
    OBVIOUS
  <2> HIDE DEF L
  <2> QED BY <2>1, <2>2, Least
<1>2. PICK t \in Seq(Seq(R)) : n \in Nat /\ Len(t) = n /\ FlattenSeq(t) \notin Seq(R)
  OBVIOUS
<1>3. t # <<>>
  BY <1>2, FlatEmpty
<1>4. PICK u \in Seq(Seq(R)), e \in Seq(R) : t = Append(u, e)
  BY <1>3, SequenceEmptyOrAppend
<1>5. Len(u) \in Nat /\ Len(u) < n
  BY <1>2, <1>4
<1>6. Len(u) \notin L
  BY <1>1, <1>2, <1>5
<1>7. FlattenSeq(u) \in Seq(R)
  BY <1>5, <1>6
<1> HIDE DEF L
<1>8. FlattenSeq(t) = FlattenSeq(u) \o e
  BY <1>4, <1>7, FlatStep
<1> QED BY <1>2, <1>7, <1>8

\* One sequence more, whatever they are.
LEMMA FlatAppend ==
    ASSUME NEW R, NEW s \in Seq(Seq(R)), NEW e \in Seq(R)
    PROVE  FlattenSeq(Append(s, e)) = FlattenSeq(s) \o e
BY FlatStep, FlatType

\* A member more at the end of two sequences.
LEMMA ConcatAppend ==
    ASSUME NEW T, NEW s \in Seq(T), NEW u \in Seq(T), NEW e \in T
    PROVE  s \o Append(u, e) = Append(s \o u, e) /\ s \o u \in Seq(T)
OBVIOUS

\* Sequences of sequences one after the other.
LEMMA FlatConcat ==
    ASSUME NEW R, NEW s \in Seq(Seq(R)), NEW t \in Seq(Seq(R))
    PROVE  FlattenSeq(s \o t) = FlattenSeq(s) \o FlattenSeq(t)
<1> SUFFICES ASSUME FlattenSeq(s \o t) # FlattenSeq(s) \o FlattenSeq(t) PROVE FALSE
  OBVIOUS
<1> DEFINE P(q) == FlattenSeq(s \o q) = FlattenSeq(s) \o FlattenSeq(q)
           L == {n \in Nat : \E q \in Seq(Seq(R)) : Len(q) = n /\ ~P(q)}
<1>1. PICK n \in L : \A m \in L : n <= m
  <2>1. Len(t) \in L
    OBVIOUS
  <2>2. L \in SUBSET Nat
    OBVIOUS
  <2> HIDE DEF L
  <2> QED BY <2>1, <2>2, Least
<1>2. PICK q \in Seq(Seq(R)) : n \in Nat /\ Len(q) = n /\ ~P(q)
  OBVIOUS
<1>3. P(<<>>)
  <2>1. s \o <<>> = s
    BY ConcatEmptySeq
  <2>2. FlattenSeq(s) \o <<>> = FlattenSeq(s)
    BY FlatType, ConcatEmptySeq
  <2> QED BY <2>1, <2>2, FlatEmpty
<1>4. PICK u \in Seq(Seq(R)), e \in Seq(R) : q = Append(u, e)
  <2> HIDE DEF P
  <2>1. q # <<>>
    BY <1>2, <1>3
  <2> QED BY <2>1, SequenceEmptyOrAppend
<1>5. Len(u) \in Nat /\ Len(u) < n
  BY <1>2, <1>4
<1>6. Len(u) \notin L
  BY <1>1, <1>2, <1>5
<1>7. P(u)
  BY <1>5, <1>6
<1> HIDE DEF L
<1>8. s \o q = Append(s \o u, e) /\ s \o u \in Seq(Seq(R))
  BY <1>4, ConcatAppend
<1>9. FlattenSeq(s \o q) = FlattenSeq(s \o u) \o e
  BY <1>8, FlatAppend
<1>10. FlattenSeq(q) = FlattenSeq(u) \o e
  BY <1>4, FlatAppend
<1>11. FlattenSeq(s) \in Seq(R) /\ FlattenSeq(u) \in Seq(R)
  BY FlatType
<1>12. (FlattenSeq(s) \o FlattenSeq(u)) \o e = FlattenSeq(s) \o (FlattenSeq(u) \o e)
  <2> DEFINE a == FlattenSeq(s)
             b == FlattenSeq(u)
  <2>1. a \in Seq(R) /\ b \in Seq(R) /\ e \in Seq(R)
    BY <1>11
  <2> HIDE DEF a, b
  <2>2. (a \o b) \o e = a \o (b \o e)
    BY <2>1, SMT
  <2> QED BY <2>2 DEF a, b
<1> QED BY <1>2, <1>7, <1>9, <1>10, <1>12

-----------------------------------------------------------------------------
(* The tokens in the objects returned and under way. *)

\* An object has the numbers of its tokens; objects, and what is open around them.
Objects == Seq(Seq(Nat))
Contexts == Types \cup {"none"}
Level == [curtype : Contexts, curstack : Objects]
StackOK(s) ==
    /\ s \in [context : Seq(Level), curtype : Contexts, curstack : Objects]
    /\ IF s.context = <<>> THEN s.curtype = "none" ELSE s.context[1].curtype = "none"

LevelsOf(context) == [k \in DOMAIN context |-> FlattenSeq(context[k].curstack)]

\* Outside of everything, no type is the current one.
LEMMA NoneIsNoType == "none" \notin Types /\ Types = {"a", "d", "p", "inline"}
BY DEF Types, Opening

\* What the open levels hold is a sequence of objects.
LEMMA LevelsType ==
    ASSUME NEW context \in Seq(Level)
    PROVE  LevelsOf(context) \in Objects
<1>1. ASSUME NEW k \in DOMAIN context PROVE FlattenSeq(context[k].curstack) \in Seq(Nat)
  <2>1. context[k] \in Level
    OBVIOUS
  <2>2. context[k].curstack \in Seq(Seq(Nat))
    BY <2>1 DEF Level, Objects
  <2> QED BY <2>2, FlatType
<1>2. DOMAIN context = 1 .. Len(context) /\ Len(context) \in Nat
  OBVIOUS
<1>3. LevelsOf(context) \in [1 .. Len(context) -> Seq(Nat)]
  BY <1>1, <1>2 DEF LevelsOf
<1> QED BY <1>2, <1>3 DEF Objects

\* A sequence with a member more, place by place.
LEMMA AppendedIs ==
    ASSUME NEW R, NEW s \in Seq(R), NEW e \in R
    PROVE  /\ Append(s, e) = [k \in 1 .. Len(s) + 1 |-> Append(s, e)[k]]
           /\ Append(s, e)[Len(s) + 1] = e
           /\ \A k \in 1 .. Len(s) : Append(s, e)[k] = s[k]
<1> DEFINE a == Append(s, e)
<1>1. /\ a \in Seq(R) /\ Len(a) = Len(s) + 1 /\ a[Len(s) + 1] = e
      /\ \A k \in 1 .. Len(s) : a[k] = s[k]
  BY AppendProperties
<1> HIDE DEF a
<1>2. a = [k \in 1 .. Len(a) |-> a[k]]
  BY <1>1
<1> QED BY <1>1, <1>2 DEF a

\* A sequence is what is before its last member, and that member.
LEMMA FrontIs ==
    ASSUME NEW R, NEW s \in Seq(R), s # <<>>
    PROVE  /\ Front(s) \in Seq(R) /\ s = Append(Front(s), s[Len(s)])
           /\ Front(s) # <<>> => Front(s)[1] = s[1]
           /\ Front(s) = <<>> => Len(s) = 1
<1>1. PICK t \in Seq(R), e \in R : s = Append(t, e)
  BY SequenceEmptyOrAppend
<1>2. Len(s) - 1 = Len(t) /\ s[Len(s)] = e
  BY <1>1
<1>3. SubSeq(s, 1, Len(t)) = t
  BY <1>1
<1>4. Front(s) = t
  BY <1>2, <1>3 DEF Front
<1>5. (t # <<>> => s[1] = t[1]) /\ (t = <<>> => Len(s) = 1)
  BY <1>1
<1> QED BY <1>1, <1>2, <1>4, <1>5

\* A level more.
LEMMA LevelsAppend ==
    ASSUME NEW context \in Seq(Level), NEW level \in Level
    PROVE  LevelsOf(Append(context, level)) =
             Append(LevelsOf(context), FlattenSeq(level.curstack))
<1> DEFINE a == Append(context, level)
           n == Len(context)
           x == FlattenSeq(level.curstack)
           b == Append(LevelsOf(context), x)
<1>1. /\ n \in Nat /\ DOMAIN context = 1 .. n /\ DOMAIN a = 1 .. n + 1
      /\ a[n + 1] = level /\ \A k \in 1 .. n : a[k] = context[k]
  OBVIOUS
<1>2. LevelsOf(context) \in Objects /\ Len(LevelsOf(context)) = n
  <2>1. LevelsOf(context) \in Objects
    BY LevelsType
  <2>2. DOMAIN LevelsOf(context) = 1 .. n
    BY <1>1 DEF LevelsOf
  <2> QED BY <1>1, <2>1, <2>2 DEF Objects
<1>3. x \in Seq(Nat)
  <2>1. level.curstack \in Seq(Seq(Nat))
    BY DEF Level, Objects
  <2> QED BY <2>1, FlatType
<1> HIDE DEF x
<1>4. /\ b = [k \in 1 .. n + 1 |-> b[k]] /\ b[n + 1] = x
      /\ \A k \in 1 .. n : b[k] = LevelsOf(context)[k]
  <2> DEFINE l == LevelsOf(context)
  <2>1. l \in Seq(Seq(Nat)) /\ Len(l) = n
    BY <1>2 DEF Objects
  <2> HIDE DEF l, n
  <2>2. /\ Append(l, x) = [k \in 1 .. Len(l) + 1 |-> Append(l, x)[k]]
        /\ Append(l, x)[Len(l) + 1] = x
        /\ \A k \in 1 .. Len(l) : Append(l, x)[k] = l[k]
    BY <1>3, <2>1, AppendedIs
  <2> QED BY <2>1, <2>2 DEF l
<1>5. \A k \in 1 .. n : LevelsOf(context)[k] = FlattenSeq(a[k].curstack)
  BY <1>1 DEF LevelsOf
<1>6. LevelsOf(a) = [k \in 1 .. n + 1 |-> FlattenSeq(a[k].curstack)]
  BY <1>1 DEF LevelsOf
<1> HIDE DEF a, b, n
<1>7. \A k \in 1 .. n + 1 : b[k] = FlattenSeq(a[k].curstack)
  <2> SUFFICES ASSUME NEW k \in 1 .. n + 1 PROVE b[k] = FlattenSeq(a[k].curstack)
    OBVIOUS
  <2>1. CASE k = n + 1
    BY <1>1, <1>4, <2>1 DEF x
  <2>2. CASE k # n + 1
    <3>1. k \in 1 .. n
      BY <1>1, <2>2
    <3> QED BY <1>4, <1>5, <3>1
  <2> QED BY <2>1, <2>2
<1>8. b = LevelsOf(a)
  BY <1>4, <1>6, <1>7, Zenon
<1> QED BY <1>8 DEF a, b, x

\* What is open, by its levels.
LEMMA OpenIs == ASSUME NEW s PROVE Open(s) = FlattenSeq(LevelsOf(s.context))
BY DEF Open, LevelsOf

\* What is kept are numbers of tokens.
LEMMA KeepingType ==
    ASSUME NEW objects \in Objects, NEW s, StackOK(s)
    PROVE  /\ FlattenSeq(objects) \in Seq(Nat) /\ Open(s) \in Seq(Nat)
           /\ FlattenSeq(s.curstack) \in Seq(Nat) /\ Keeping(objects, s) \in Seq(Nat)
<1>1. s.curstack \in Seq(Seq(Nat)) /\ LevelsOf(s.context) \in Seq(Seq(Nat))
  BY LevelsType DEF StackOK, Objects
<1>2. /\ FlattenSeq(objects) \in Seq(Nat) /\ Open(s) \in Seq(Nat)
      /\ FlattenSeq(s.curstack) \in Seq(Nat)
  BY <1>1, FlatType, OpenIs DEF Objects
<1> DEFINE a == FlattenSeq(objects)
           b == Open(s)
           c == FlattenSeq(s.curstack)
<1>3. a \in Seq(Nat) /\ b \in Seq(Nat) /\ c \in Seq(Nat)
  BY <1>2
<1> HIDE DEF a, b, c
<1>4. a \o b \o c \in Seq(Nat)
  BY <1>3
<1> QED BY <1>2, <1>4 DEF a, b, c, Keeping

\* An object pushed is after all the others.
LEMMA KeepingPushed ==
    ASSUME NEW objects \in Objects, NEW s, StackOK(s), NEW object \in Seq(Nat)
    PROVE  /\ StackOK(Pushed(s, object))
           /\ Keeping(objects, Pushed(s, object)) = Keeping(objects, s) \o object
<1> DEFINE p == Pushed(s, object)
<1>1. /\ p.context = s.context /\ p.curtype = s.curtype
      /\ p.curstack = Append(s.curstack, object)
      /\ p = [context |-> p.context, curtype |-> p.curtype, curstack |-> p.curstack]
      /\ s.curstack \in Seq(Seq(Nat))
  <2> DEFINE objs == Append(s.curstack, object)
  <2>1. s.curstack \in Seq(Seq(Nat))
    BY DEF StackOK, Objects
  <2>2. p = [s EXCEPT !.curstack = objs]
    BY DEF Pushed
  <2> HIDE DEF p, objs
  <2>3. /\ p.context = s.context /\ p.curtype = s.curtype /\ p.curstack = objs
        /\ p = [context |-> p.context, curtype |-> p.curtype, curstack |-> p.curstack]
    BY <2>2 DEF StackOK
  <2> QED BY <2>1, <2>3 DEF objs
<1> HIDE DEF p
<1>2. StackOK(p)
  <2>1. p.curstack \in Objects
    BY <1>1 DEF Objects
  <2> QED BY <1>1, <2>1 DEF StackOK
<1>3. FlattenSeq(p.curstack) = FlattenSeq(s.curstack) \o object
  BY <1>1, FlatAppend
<1>4. Open(p) = Open(s)
  BY <1>1 DEF Open
<1> DEFINE a == FlattenSeq(objects)
           b == Open(s)
           c == FlattenSeq(s.curstack)
<1>5. a \in Seq(Nat) /\ b \in Seq(Nat) /\ c \in Seq(Nat)
  BY KeepingType
<1>6. Keeping(objects, p) = a \o b \o (c \o object) /\ Keeping(objects, s) = a \o b \o c
  BY <1>3, <1>4 DEF Keeping
<1> HIDE DEF a, b, c
<1>7. a \o b \o (c \o object) = (a \o b \o c) \o object
  BY <1>5, SMT
<1> QED BY <1>2, <1>6, <1>7 DEF p

\* Nothing moves when an array, a dictionary, a procedure or an image begins, ...
LEMMA KeepingStarted ==
    ASSUME NEW objects \in Objects, NEW s, StackOK(s), NEW type \in Types
    PROVE  /\ StackOK(Started(s, type))
           /\ Keeping(objects, Started(s, type)) = Keeping(objects, s)
<1> DEFINE p == Started(s, type)
           level == [curtype |-> s.curtype, curstack |-> s.curstack]
<1>1. /\ p.context = Append(s.context, level) /\ p.curtype = type /\ p.curstack = <<>>
      /\ p = [context |-> p.context, curtype |-> p.curtype, curstack |-> p.curstack]
      /\ s.context \in Seq(Level) /\ level \in Level
      /\ level.curstack = s.curstack /\ level.curtype = s.curtype
  BY DEF Started, StackOK, Level
<1> HIDE DEF p, level
<1>2. StackOK(p)
  <2>1. p.context \in Seq(Level) /\ p.context # <<>>
    BY <1>1
  <2>2. p.context[1].curtype = "none"
    <3>1. CASE s.context = <<>>
      <4>1. p.context[1] = level
        BY <1>1, <3>1
      <4> QED BY <1>1, <3>1, <4>1 DEF StackOK
    <3>2. CASE s.context # <<>>
      <4>1. p.context[1] = s.context[1]
        BY <1>1, <3>2
      <4> QED BY <3>2, <4>1 DEF StackOK
    <3> QED BY <3>1, <3>2
  <2>3. p.curstack \in Objects /\ p.curtype \in Contexts
    BY <1>1 DEF Objects, Contexts
  <2> QED BY <1>1, <2>1, <2>2, <2>3 DEF StackOK
<1> DEFINE a == FlattenSeq(objects)
           b == Open(s)
           c == FlattenSeq(s.curstack)
<1>3. Open(p) = b \o c
  <2>1. LevelsOf(p.context) = Append(LevelsOf(s.context), c)
    BY <1>1, LevelsAppend
  <2>2. LevelsOf(s.context) \in Seq(Seq(Nat)) /\ c \in Seq(Nat)
    BY <1>1, LevelsType, KeepingType DEF Objects
  <2> HIDE DEF c
  <2> QED BY <2>1, <2>2, FlatAppend, OpenIs
<1>4. a \in Seq(Nat) /\ b \in Seq(Nat) /\ c \in Seq(Nat)
  BY KeepingType
<1>5. Keeping(objects, p) = a \o (b \o c) \o <<>> /\ Keeping(objects, s) = a \o b \o c
  BY <1>1, <1>3, FlatEmpty DEF Keeping
<1> HIDE DEF a, b, c
<1>6. a \o (b \o c) \in Seq(Nat) /\ a \o (b \o c) = a \o b \o c
  BY <1>4, SMT
<1>7. a \o (b \o c) \o <<>> = a \o (b \o c)
  BY <1>6, ConcatEmptySeq
<1> QED BY <1>2, <1>5, <1>6, <1>7 DEF p

\* ... and when it ends and its objects are one.
LEMMA KeepingEnded ==
    ASSUME NEW objects \in Objects, NEW s, StackOK(s), s.curtype \in Types
    PROVE  LET q == Pushed(Ended(s), FlattenSeq(s.curstack))
           IN  /\ StackOK(q)
               /\ Keeping(objects, q) = Keeping(objects, s)
<1> DEFINE e == Ended(s)
           n == Len(s.context)
           back == s.context[n]
           front == Front(s.context)
           o == FlattenSeq(s.curstack)
<1>1. s.context \in Seq(Level) /\ s.context # <<>> /\ s.context[1].curtype = "none"
  BY NoneIsNoType DEF StackOK
<1>2. n \in Nat /\ n >= 1 /\ back \in Level
  BY <1>1
<1>3. front \in Seq(Level) /\ s.context = Append(front, back)
      /\ (front # <<>> => front[1] = s.context[1])
      /\ (front = <<>> => back = s.context[1])
  BY <1>1, <1>2, FrontIs
<1>4. /\ e.context = front /\ e.curtype = back.curtype /\ e.curstack = back.curstack
      /\ e = [context |-> e.context, curtype |-> e.curtype, curstack |-> e.curstack]
  BY DEF Ended
<1> HIDE DEF e, front, back, n
<1>5. StackOK(e)
  <2>1. e.context \in Seq(Level) /\ e.curtype \in Contexts /\ e.curstack \in Objects
    BY <1>2, <1>3, <1>4 DEF Level
  <2> QED BY <1>1, <1>3, <1>4, <2>1 DEF StackOK
<1>6. o \in Seq(Nat)
  BY KeepingType
<1>7. StackOK(Pushed(e, o)) /\ Keeping(objects, Pushed(e, o)) = Keeping(objects, e) \o o
  BY <1>5, <1>6, KeepingPushed
<1> DEFINE a == FlattenSeq(objects)
           b == Open(e)
           c == FlattenSeq(e.curstack)
<1>8. a \in Seq(Nat) /\ b \in Seq(Nat) /\ c \in Seq(Nat)
  BY <1>5, KeepingType
<1>9. Open(s) = b \o c
  <2>1. LevelsOf(s.context) = Append(LevelsOf(front), c)
    BY <1>2, <1>3, <1>4, LevelsAppend
  <2>2. LevelsOf(front) \in Seq(Seq(Nat))
    BY <1>3, LevelsType DEF Objects
  <2>3. c \in Seq(Nat) /\ b = FlattenSeq(LevelsOf(front))
    BY <1>8, <1>4, OpenIs
  <2> HIDE DEF b, c
  <2> QED BY <2>1, <2>2, <2>3, FlatAppend, OpenIs
<1>10. Keeping(objects, e) = a \o b \o c /\ Keeping(objects, s) = a \o (b \o c) \o o
  BY <1>9 DEF Keeping
<1> HIDE DEF a, b, c, o
<1>11. a \o (b \o c) \o o = (a \o b \o c) \o o
  BY <1>6, <1>8, SMT
<1> QED BY <1>7, <1>10, <1>11 DEF e, o

\* What is given back is no longer on the stack.
LEMMA KeepingFlushed ==
    ASSUME NEW objects \in Objects, NEW s, StackOK(s)
    PROVE  /\ StackOK(Flushed(s)) /\ objects \o Results(s) \in Objects
           /\ Keeping(objects \o Results(s), Flushed(s)) = Keeping(objects, s)
<1> DEFINE p == Flushed(s)
<1>1. s.curstack \in Seq(Seq(Nat)) /\ objects \in Seq(Seq(Nat))
  BY DEF StackOK, Objects
<1>2. CASE s.context # <<>>
  <2>1. p = s /\ Results(s) = <<>>
    BY <1>2 DEF Flushed, Results
  <2>2. objects \o <<>> = objects
    BY <1>1, ConcatEmptySeq
  <2> QED BY <2>1, <2>2
<1>3. CASE s.context = <<>>
  <2>1. /\ p.context = <<>> /\ p.curtype = s.curtype /\ p.curstack = <<>>
        /\ p = [context |-> p.context, curtype |-> p.curtype, curstack |-> p.curstack]
        /\ Results(s) = s.curstack
    BY <1>3 DEF Flushed, Results, StackOK
  <2> HIDE DEF p
  <2>2. StackOK(p)
    <3>1. p.curstack \in Objects /\ p.context \in Seq(Level)
      BY <2>1 DEF Objects
    <3> QED BY <1>3, <2>1, <3>1 DEF StackOK
  <2>3. objects \o s.curstack \in Objects
    BY <1>1 DEF Objects
  <2> DEFINE a == FlattenSeq(objects)
             c == FlattenSeq(s.curstack)
  <2>4. a \in Seq(Nat) /\ c \in Seq(Nat)
    BY KeepingType
  <2>5. FlattenSeq(objects \o s.curstack) = a \o c
    BY <1>1, FlatConcat
  <2>6. Open(p) = <<>> /\ Open(s) = <<>>
    <3>1. LevelsOf(<<>>) = <<>>
      BY DEF LevelsOf
    <3> QED BY <1>3, <2>1, <3>1, OpenIs, FlatEmpty
  <2>7. /\ Keeping(objects \o Results(s), p) = (a \o c) \o <<>> \o <<>>
        /\ Keeping(objects, s) = a \o <<>> \o c
    BY <2>1, <2>5, <2>6, FlatEmpty DEF Keeping
  <2> HIDE DEF a, c
  <2>8. a \o c \in Seq(Nat) /\ a \o <<>> = a
    BY <2>4, ConcatEmptySeq
  <2>9. (a \o c) \o <<>> \o <<>> = a \o c
    BY <2>8, ConcatEmptySeq
  <2> QED BY <2>1, <2>2, <2>3, <2>7, <2>8, <2>9 DEF p
<1> QED BY <1>2, <1>3

-----------------------------------------------------------------------------
(* No token is lost. *)

\* The numbers of the first n tokens that are values.
Values(tokens, n) == {k \in 1 .. n : ~Structural(tokens[k])}

\* All tokens read were taken, or all but the last.
Pending ==
    \/ lexer.tokens = <<>> /\ taken = Len(read)
    \/ lexer.tokens = <<read[taken + 1]>> /\ taken + 1 = Len(read)

\* As long as no inline image begins, what is kept is what was taken.
Whole ==
    reading = "tokens" =>
      /\ \E S : read \in Seq(S)
      /\ image.on => ~NoInline
      /\ NoInline /\ status \in {"on", "end"} =>
           /\ given \in Objects /\ StackOK(stack) /\ taken \in Nat
           /\ status = "on" => Pending
           /\ Upward(Keeping(given, stack), Values(read, taken))

\* A number above all others is put at the end.
LEMMA UpwardAppend ==
    ASSUME NEW s, s \in Seq(Nat), NEW n \in Nat, NEW N, N \subseteq 1 .. n, Upward(s, N)
    PROVE  Upward(s \o <<n + 1>>, N \cup {n + 1})
<1> DEFINE m == n + 1
           t == s \o <<m>>
           l == Len(s)
<1>1. /\ l \in Nat /\ m \in Nat /\ DOMAIN s = 1 .. l /\ DOMAIN t = 1 .. l + 1
      /\ t[l + 1] = m /\ \A k \in 1 .. l : t[k] = s[k]
  OBVIOUS
<1>2. \A k \in 1 .. l : s[k] \in N
  BY <1>1 DEF Upward, ToSet
<1>3. ToSet(s) = N /\ \A i, j \in 1 .. l : i < j => s[i] < s[j]
  BY <1>1 DEF Upward
<1> HIDE DEF t, l
<1>4. ToSet(t) = N \cup {m}
  <2>1. \A x : x \in ToSet(s) <=> \E k \in 1 .. l : x = s[k]
    BY <1>1 DEF ToSet
  <2>2. \A x : x \in ToSet(t) <=> \E k \in 1 .. l + 1 : x = t[k]
    BY <1>1 DEF ToSet
  <2>3. ASSUME NEW x \in ToSet(t) PROVE x \in N \cup {m}
    <3>1. PICK k \in 1 .. l + 1 : x = t[k]
      BY <2>2
    <3>2. CASE k = l + 1
      BY <1>1, <3>1, <3>2
    <3>3. CASE k # l + 1
      <4>1. k \in 1 .. l
        BY <1>1, <3>3
      <4> QED BY <1>1, <1>2, <3>1, <4>1
    <3> QED BY <3>2, <3>3
  <2>4. ASSUME NEW x \in N PROVE x \in ToSet(t)
    <3>1. PICK k \in 1 .. l : x = s[k]
      BY <1>3, <2>1
    <3>2. k \in 1 .. l + 1 /\ t[k] = x
      BY <1>1, <3>1
    <3> QED BY <2>2, <3>2
  <2>5. m \in ToSet(t)
    <3>1. l + 1 \in 1 .. l + 1
      BY <1>1
    <3> QED BY <1>1, <2>2, <3>1
  <2> QED BY <2>3, <2>4, <2>5
<1>5. ASSUME NEW i \in 1 .. l + 1, NEW j \in 1 .. l + 1, i < j PROVE t[i] < t[j]
  <2>1. i \in 1 .. l /\ t[i] = s[i] /\ s[i] \in 1 .. n
    BY <1>1, <1>2, <1>5
  <2>2. CASE j = l + 1
    BY <1>1, <2>1, <2>2
  <2>3. CASE j # l + 1
    <3>1. j \in 1 .. l /\ t[j] = s[j]
      BY <1>1, <2>3
    <3> QED BY <1>3, <1>5, <2>1, <3>1
  <2> QED BY <2>2, <2>3
<1> QED BY <1>1, <1>4, <1>5 DEF Upward, t

\* Nothing is taken, and nothing kept.
LEMMA WholeInit == Init => Whole
<1> SUFFICES ASSUME Init PROVE Whole
  OBVIOUS
<1>1. /\ given = <<>> /\ taken = 0 /\ read = <<>> /\ stack = NewStack
      /\ lexer.tokens = <<>> /\ ~image.on
  BY DEF Init, NewLexer, NoImage
<1>2. given \in Objects /\ read \in Seq({}) /\ Len(read) = 0
  BY <1>1 DEF Objects
<1>3. StackOK(stack) /\ stack.context = <<>> /\ stack.curstack = <<>>
  <2>1. <<>> \in Seq(Level) /\ <<>> \in Objects
    BY DEF Objects
  <2> QED BY <1>1, <2>1 DEF NewStack, StackOK, Contexts
<1>4. Keeping(given, stack) = <<>>
  <2>1. LevelsOf(<<>>) = <<>>
    BY DEF LevelsOf
  <2>2. <<>> \o <<>> \o <<>> = <<>>
    OBVIOUS
  <2> QED BY <1>1, <1>3, <2>1, <2>2, OpenIs, FlatEmpty DEF Keeping
<1>5. Upward(<<>>, Values(read, taken))
  <2>1. Values(read, taken) = {}
    BY <1>1 DEF Values
  <2> QED BY <2>1 DEF Upward, ToSet
<1> QED BY <1>1, <1>2, <1>3, <1>4, <1>5 DEF Whole, Pending

\* A step of the tokenizer reads one token, or none.
LEMMA KeepsTokenized ==
    ASSUME Whole, Inv', reading = "tokens", status = "on", lexer.tokens = <<>>, ~image.on,
           read' = read \o lexer'.tokens,
           UNCHANGED <<reading, stack, given, taken, image>>
    PROVE  Whole'
<1>1. PICK S : read \in Seq(S)
  BY DEF Whole
<1>2. OneToken(lexer'.tokens)
  BY DEF Inv, LexerOK
<1>3. CASE lexer'.tokens = <<>>
  <2>1. read' = read
    BY <1>1, <1>3, ConcatEmptySeq
  <2> QED BY <2>1, <1>3 DEF Whole, Pending, NoInline, Values
<1>4. ASSUME NEW t, lexer'.tokens = <<t>> PROVE Whole'
  <2> DEFINE T == S \cup {t}
             n == Len(read)
  <2>1. read \in Seq(T) /\ t \in T
    BY <1>1
  <2> HIDE DEF T
  <2>2. /\ read' \in Seq(T) /\ Len(read') = n + 1 /\ n \in Nat
        /\ read'[n + 1] = t /\ \A k \in 1 .. n : read'[k] = read[k]
        /\ DOMAIN read = 1 .. n /\ DOMAIN read' = 1 .. n + 1
    BY <1>4, <2>1
  <2>3. NoInline' => NoInline
    BY <2>2 DEF NoInline
  <2>4. ASSUME NoInline' PROVE /\ given \in Objects /\ StackOK(stack) /\ taken = n
                               /\ Upward(Keeping(given, stack), Values(read, taken))
    BY <2>3, <2>4 DEF Whole, Pending
  <2>5. Values(read', n) = Values(read, n)
    BY <2>2 DEF Values
  <2>6. ASSUME NoInline'
        PROVE  /\ (given \in Objects /\ StackOK(stack) /\ taken \in Nat)'
               /\ Pending'
               /\ Upward(Keeping(given, stack), Values(read, taken))'
    <3>1. Pending'
      BY <1>4, <2>2, <2>4, <2>6 DEF Pending
    <3>2. Upward(Keeping(given, stack), Values(read', taken))
      BY <2>4, <2>5, <2>6
    <3> QED BY <2>2, <2>4, <2>6, <3>1, <3>2
  <2> QED BY <2>2, <2>6 DEF Whole
<1> QED BY <1>2, <1>3, <1>4 DEF OneToken

\* A token is taken: a value is pushed; nothing else is.
LEMMA KeepsTaken ==
    ASSUME Whole, NEW s, Take(s), UNCHANGED status,
           NoInline => /\ StackOK(s)
                       /\ Keeping(given, s) =
                            IF Structural(NextToken) THEN Keeping(given, stack)
                            ELSE Keeping(given, stack) \o <<taken + 1>>
    PROVE  Whole'
<1>1. /\ status = "on" /\ reading = "tokens" /\ ~image.on /\ lexer.tokens # <<>>
      /\ lexer'.tokens = Tail(lexer.tokens) /\ taken' = taken + 1
      /\ stack' = Flushed(s) /\ given' = given \o Results(s)
      /\ UNCHANGED <<reading, image, read, status>>
  BY DEF Take, Reads, given_
<1>2. \E S : read \in Seq(S)
  BY <1>1 DEF Whole
<1>3. NoInline' <=> NoInline
  BY <1>1 DEF NoInline
<1>4. ASSUME NoInline
      PROVE  /\ (given \in Objects /\ StackOK(stack) /\ taken \in Nat)'
             /\ Pending'
             /\ Upward(Keeping(given, stack), Values(read, taken))'
  <2>1. /\ given \in Objects /\ StackOK(stack) /\ taken \in Nat
        /\ lexer.tokens = <<read[taken + 1]>> /\ taken + 1 = Len(read)
        /\ Upward(Keeping(given, stack), Values(read, taken))
    BY <1>1, <1>4 DEF Whole, Pending
  <2>2. NextToken = read[taken + 1] /\ lexer'.tokens = <<>>
    BY <1>1, <2>1 DEF NextToken
  <2>3. /\ StackOK(stack') /\ given' \in Objects
        /\ Keeping(given', stack') = Keeping(given, s)
    BY <1>1, <1>4, <2>1, KeepingFlushed
  <2>4. Keeping(given, stack) \in Seq(Nat)
    BY <2>1, KeepingType
  <2>5. Upward(Keeping(given, s), Values(read, taken + 1))
    <3>1. CASE Structural(NextToken)
      <4>1. Values(read, taken + 1) = Values(read, taken)
        BY <2>1, <2>2, <3>1 DEF Values
      <4> QED BY <1>4, <2>1, <3>1, <4>1
    <3>2. CASE ~Structural(NextToken)
      <4>1. Values(read, taken + 1) = Values(read, taken) \cup {taken + 1}
        BY <2>1, <2>2, <3>2 DEF Values
      <4>2. Values(read, taken) \subseteq 1 .. taken
        BY DEF Values
      <4>3. Keeping(given, s) = Keeping(given, stack) \o <<taken + 1>>
        BY <1>4, <3>2
      <4> DEFINE a == Keeping(given, stack)
                 N == Values(read, taken)
      <4> HIDE DEF a, N
      <4>4. Upward(a \o <<taken + 1>>, N \cup {taken + 1})
        BY <2>1, <2>4, <4>2, UpwardAppend DEF a, N
      <4> QED BY <4>1, <4>3, <4>4 DEF a, N
    <3> QED BY <3>1, <3>2
  <2>6. Pending'
    BY <1>1, <2>1, <2>2 DEF Pending
  <2>7. Upward(Keeping(given', stack'), Values(read', taken'))
    BY <1>1, <2>3, <2>5
  <2> QED BY <1>1, <2>1, <2>3, <2>6, <2>7
<1> QED BY <1>1, <1>2, <1>3, <1>4 DEF Whole

\* Nothing of it changes.
\* A step that touches neither tokens nor objects.
LEMMA KeepsUntouched ==
    ASSUME Whole, status = "on", status' \in {"on", "end", "raised"},
           UNCHANGED <<reading, stack, given, taken, read, lexer, image>>
    PROVE  Whole'
BY DEF Whole, Pending, NoInline

\* ID begins or skips an image: the token taken is read, and it is ID.
LEMMA InlineRead ==
    ASSUME Whole, status = "on", reading = "tokens", lexer.tokens # <<>>,
           Is(NextToken, Closing["inline"])
    PROVE  ~NoInline
<1> SUFFICES ASSUME NoInline PROVE FALSE
  OBVIOUS
<1>1. /\ taken \in Nat /\ lexer.tokens = <<read[taken + 1]>> /\ taken + 1 = Len(read)
      /\ \E S : read \in Seq(S)
  BY DEF Whole, Pending
<1>2. NextToken = read[taken + 1] /\ taken + 1 \in DOMAIN read
  BY <1>1 DEF NextToken
<1> QED BY <1>2 DEF NoInline

\* With an inline image among the tokens, nothing is claimed.
LEMMA KeepsInline ==
    ASSUME Whole, status = "on", reading = "tokens", ~NoInline,
           UNCHANGED <<reading, read>>
    PROVE  Whole'
BY DEF Whole, NoInline

\* Brackets, and BI and ID, are no values.
LEMMA OpeningStructural ==
    ASSUME NEW token, NEW type \in Types, Is(token, Opening[type]) \/ Is(token, Closing[type])
    PROVE  Structural(token)
BY DEF Structural

\* A value is an object of its own.
LEMMA WholeTakeValue == ASSUME Whole, TakeValue PROVE Whole'
<1> DEFINE s == Pushed(stack, <<taken + 1>>)
<1>1. /\ ~Structural(NextToken) /\ Take(s) /\ UNCHANGED status
      /\ status = "on" /\ reading = "tokens"
  BY DEF TakeValue, Take, Reads
<1>2. ASSUME NoInline
      PROVE  StackOK(s) /\ Keeping(given, s) = Keeping(given, stack) \o <<taken + 1>>
  <2>1. given \in Objects /\ StackOK(stack) /\ taken \in Nat
    BY <1>1, <1>2 DEF Whole
  <2>2. <<taken + 1>> \in Seq(Nat)
    BY <2>1
  <2> QED BY <2>1, <2>2, KeepingPushed
<1> HIDE DEF s
<1> QED BY <1>1, <1>2, KeepsTaken

\* A level begins.
LEMMA WholeTakeOpening ==
    ASSUME Whole, NEW type \in Types, TakeOpening(type)
    PROVE  Whole'
<1> DEFINE s == Started(stack, type)
<1>1. /\ Structural(NextToken) /\ Take(s) /\ UNCHANGED status
      /\ status = "on" /\ reading = "tokens"
  BY OpeningStructural DEF TakeOpening, Take, Reads
<1>2. ASSUME NoInline
      PROVE  StackOK(s) /\ Keeping(given, s) = Keeping(given, stack)
  <2>1. given \in Objects /\ StackOK(stack)
    BY <1>1, <1>2 DEF Whole
  <2> QED BY <2>1, KeepingStarted
<1> HIDE DEF s
<1> QED BY <1>1, <1>2, KeepsTaken

\* A level ends and is one object; a bracket of another type changes nothing.
LEMMA WholeTakeClosing ==
    ASSUME Whole, NEW type \in Types, TakeClosing(type)
    PROVE  Whole'
<1>1. Structural(NextToken)
  BY OpeningStructural DEF TakeClosing
<1>2. CASE stack.curtype # type
  <2>1. Take(stack) /\ UNCHANGED status /\ status = "on" /\ reading = "tokens"
    BY <1>2 DEF TakeClosing, Mismatched, Take, Reads
  <2>2. NoInline => StackOK(stack)
    BY <2>1 DEF Whole
  <2> QED BY <1>1, <2>1, <2>2, KeepsTaken
<1>3. CASE stack.curtype = type /\ type = "d" /\ Len(stack.curstack) % 2 = 1
  <2>1. /\ status' = "syntax" /\ UNCHANGED <<reading, read, image>>
        /\ reading = "tokens"
    BY <1>3 DEF TakeClosing, Reads, given_
  <2> QED BY <2>1 DEF Whole, NoInline
<1>4. CASE stack.curtype = type /\ ~(type = "d" /\ Len(stack.curstack) % 2 = 1)
  <2> DEFINE s == Pushed(Ended(stack), FlattenSeq(stack.curstack))
  <2>1. Take(s) /\ UNCHANGED status /\ status = "on" /\ reading = "tokens"
    BY <1>4 DEF TakeClosing, Take, Reads
  <2>2. ASSUME NoInline
        PROVE  StackOK(s) /\ Keeping(given, s) = Keeping(given, stack)
    <3>1. given \in Objects /\ StackOK(stack) /\ stack.curtype \in Types
      BY <1>4, <2>1, <2>2 DEF Whole
    <3> QED BY <3>1, KeepingEnded
  <2> HIDE DEF s
  <2> QED BY <1>1, <2>1, <2>2, KeepsTaken
<1> QED BY <1>2, <1>3, <1>4

\* Every step of the parser keeps it.
LEMMA WholeStep == Inv /\ Whole /\ [Next]_vars => Whole'
<1> SUFFICES ASSUME Inv, Whole, [Next]_vars PROVE Whole'
  OBVIOUS
<1>0. Inv'
  BY PSParserStep
<1>1. ASSUME NextTokenStep \/ NextTokenAtEnd PROVE Whole'
  <2>1. /\ reading = "tokens" /\ status = "on" /\ lexer.tokens = <<>> /\ ~image.on
        /\ read' = read \o lexer'.tokens
        /\ UNCHANGED <<reading, stack, given, taken, image>>
    <3>1. CASE NextTokenStep
      BY <3>1, Zenon DEF NextTokenStep, Wants, Reads, Outcome, given_
    <3>2. CASE NextTokenAtEnd
      BY <3>2, Zenon DEF NextTokenAtEnd, Wants, Reads, Outcome, given_
    <3> QED BY <1>1, <3>1, <3>2
  <2> QED BY <1>0, <2>1, KeepsTokenized
<1>2. CASE NextTokenAfterEnd
  <2>1. /\ status = "on" /\ status' = "end"
        /\ UNCHANGED <<reading, stack, given, taken, read, lexer, image>>
    BY <1>2 DEF NextTokenAfterEnd, Reads, given_
  <2> QED BY <2>1, KeepsUntouched
<1>3. CASE TakeValue
  BY <1>3, WholeTakeValue
<1>4. ASSUME NEW type \in Types, TakeOpening(type) \/ TakeClosing(type) PROVE Whole'
  BY <1>4, WholeTakeOpening, WholeTakeClosing
<1>5. ASSUME NEW mark, BeginImage(mark) PROVE Whole'
  <2>1. /\ status = "on" /\ reading = "tokens" /\ lexer.tokens # <<>>
        /\ Is(NextToken, Closing["inline"]) /\ UNCHANGED <<reading, read>>
    BY <1>5 DEF BeginImage, Reads, given_
  <2> QED BY <2>1, InlineRead, KeepsInline
<1>6. CASE SkipImage
  <2>1. /\ status = "on" /\ reading = "tokens" /\ lexer.tokens # <<>>
        /\ Is(NextToken, Closing["inline"]) /\ UNCHANGED <<reading, read>>
    BY <1>6 DEF SkipImage, Take, Reads, given_
  <2> QED BY <2>1, InlineRead, KeepsInline
<1>7. CASE ImageStep \/ ImageAtEnd
  <2>1. status = "on" /\ image.on /\ UNCHANGED <<reading, read>>
    <3>1. CASE ImageStep
      BY <3>1, Zenon DEF ImageStep, given_
    <3>2. CASE ImageAtEnd
      BY <3>2 DEF ImageAtEnd, given_
    <3> QED BY <1>7, <3>1, <3>2
  <2>2. reading = "tokens" => ~NoInline
    BY <2>1 DEF Whole
  <2> QED BY <2>1, <2>2 DEF Whole, NoInline
<1>8. CASE NextLineStep \/ NextLineAtEnd \/ RevLine \/ RevBlock \/ RevEnd
  <2>1. reading # "tokens" /\ UNCHANGED reading
    <3>1. CASE NextLineStep
      BY <3>1, Zenon DEF NextLineStep, Reads, given_
    <3>2. CASE NextLineAtEnd
      BY <3>2 DEF NextLineAtEnd, Reads, given_
    <3>3. CASE RevLine \/ RevBlock \/ RevEnd
      BY <3>3 DEF RevLine, RevBlock, RevEnd, Reads, given_
    <3> QED BY <1>8, <3>1, <3>2, <3>3
  <2> QED BY <2>1 DEF Whole
<1>9. CASE UNCHANGED vars
  BY <1>9 DEF vars, Whole, Pending, NoInline
<1> QED BY <1>1, <1>2, <1>3, <1>4, <1>5, <1>6, <1>7, <1>8, <1>9 DEF Next, Stop

\* Every token that nextobject took, but brackets, is in one object, in the order of the
\* text, however arrays, dictionaries and procedures are nested, closed by another
\* bracket or left open (start_type, end_type, flush).
THEOREM PSParserNothingIsLost == Spec => []NothingIsLost
<1>1. Whole => NothingIsLost
  BY DEF Whole, NothingIsLost, Values
<1>2. Spec => []Whole
  BY PSParserInvariant, WholeInit, WholeStep, PTL DEF Spec
<1> QED BY <1>1, <1>2, PTL
===============================================================================
