-------------------------------- MODULE PSChars --------------------------------
(***************************************************************************)
(* The bytes of a PostScript text as far as the tokenizer of pdfminer      *)
(* tells them apart (psparser.rs, "Byte classes"), and searches in a text. *)
(* A byte is the name of a character; offsets count from 0, as in the code.*)
(***************************************************************************)
EXTENDS SequencesExt

Eol == {"cr", "lf"}
Space == Eol \cup {" "}
Oct == {"0", "7"}
Digit == Oct \cup {"9"}
Hex == Digit \cup {"A"}
Delimiters == {"#", "/", "%", "[", "]", "(", ")", "<", ">", "{", "}"}
EndLiteral == Delimiters \cup Space
EndString == {"(", ")", "\\"}
Letters == {"A", "x", "B", "D", "E", "I"}
Signs == {"+", "-"}
Bytes == Space \cup Hex \cup Delimiters \cup EndString \cup Letters \cup Signs
         \cup {".", "~", "nul"}

\* ESC_STRING, by the characters that the model has.
Escaped == {"(", ")", "\\"}

At(s, i) == s[i + 1]

\* The first offset of s from i on whose byte is in class; Len(s) for none.
FirstOf(s, i, class) ==
    LET found == {j \in i .. (Len(s) - 1) : At(s, j) \in class}
    IN  IF found = {} THEN Len(s) ELSE Min(found)
FirstNotOf(s, i, class) ==
    LET found == {j \in i .. (Len(s) - 1) : At(s, j) \notin class}
    IN  IF found = {} THEN Len(s) ELSE Min(found)

\* The bytes of s from i up to j, each a text of its own: what a token is made
\* of. A byte written by its code is a text of several (Escape, HexName).
Between(s, i, j) == [k \in 1 .. (j - i) |-> <<s[i + k]>>]

Escape(chars) == <<"\\">> \o chars
HexName(digits) == <<"#">> \o digits

\* int() of an octal code above one byte: three digits, the first above 3.
TooLarge(digits) == Len(digits) = 3 /\ digits[1] = "7"

\* What int() and float() accept of the texts that can be read as a number.
IsNumber(text) == \E k \in DOMAIN text : text[k][1] \in Digit

\* A hexadecimal string without its white space.
HexDigits(text) == SelectSeq(text, LAMBDA byte : byte[1] \notin Space)

Token(pos, kind, text) == [pos |-> pos, kind |-> kind, text |-> text]
===============================================================================
