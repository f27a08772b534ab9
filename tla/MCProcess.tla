------------------------------ MODULE MCProcess ------------------------------
(***************************************************************************)
(* An instance of ProcessState for TLC.                                    *)
(***************************************************************************)
EXTENDS ProcessState

CONSTANTS a, b, c, pattern, site, attr, Page, Cropped

\* One symbol of the import; the others are interned by calls.
MCImported == <<a>>

\* The first time of a symbol or a pattern is deeper; that of a call site takes
\* a unit that later ones do not.
MCFirst == [f \in Facts |-> IF f = site THEN 1 ELSE 2]
MCNext == [f \in Facts |-> IF f = site THEN 0 ELSE 1]
MCOnes == [i \in 1 .. MaxBackoff |-> 2 ^ i - 1]
===============================================================================
