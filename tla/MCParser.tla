------------------------------- MODULE MCParser -------------------------------
(***************************************************************************)
(* The texts that TLC gives PSParser: all texts over some bytes, and texts *)
(* around an inline image.                                                 *)
(***************************************************************************)
EXTENDS PSParser

UpTo(chars, n) == UNION {[1 .. k -> chars] : k \in 1 .. n}

\* Strings and their escapes.
InString == { <<"(">> \o t : t \in UpTo({"(", ")", "\\", "7", "cr", "lf"}, 4) }
\* Names, numbers, keywords, comments, hexadecimal strings.
Short == UpTo({"/", "#", "A", "7", "+", ".", " ", "lf", "<", ">", "%", "(", "nul"}, 3)
         \cup { <<"/", "A">> \o t : t \in UpTo({"#", "A", "7", "x", " "}, 3) }
         \cup { <<"<">> \o t : t \in UpTo({"<", "A", "7", " ", ">"}, 3) }
\* Arrays, dictionaries, procedures.
Nested == UpTo({"[", "]", "{", "}", "7"}, 4)
          \cup { <<"<", "<">> \o t \o <<">", ">">> : t \in UpTo({"[", "]", "/", "}"}, 3) }
\* Lines
InLines == UpTo({"cr", "lf", "x"}, 5)
\* Inline images
Images ==
    { <<"B", "I">> \o d \o <<" ", "I", "D", " ">> \o t \o <<" ", "7">> :
        d \in {<<>>, <<"/", "A">>, <<"/", "A", "/", "x">>},
        t \in UpTo({"E", "I", "lf", "cr", " ", "x"}, 3) \cup
              { t \o <<"E", "I">> : t \in UpTo({"E", "lf", "cr", "~", ">"}, 3) } }

\* Two streams, cut where a token may be under way.
Two == { <<s, t, u>> : s \in UpTo({"7", "x", "."}, 2), t \in UpTo({"7", "x", " "}, 1) \cup {<<>>},
                       u \in UpTo({"7", "x", "."}, 2) }
       \cup { <<s, t>> : s \in UpTo({"/", "#", "7", "(", "\\", "<", "A"}, 2),
                    t \in UpTo({"/", "7", ")", ">", " "}, 2) }
       \cup { <<s, <<>>, t>> : s \in {<<"7">>, <<"(", "x">>, <<>>}, t \in {<<"7">>, <<")">>} }
       \cup { <<<<"B", "I", " ", "I", "D">>, t>> : t \in {<<"E", "I", " ">>, <<"7", " ">>} }

MCTexts == { <<t>> : t \in InString \cup Short \cup Nested \cup InLines \cup Images }
           \cup Two
===============================================================================
