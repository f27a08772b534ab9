------------------------------ MODULE MCBoundary ------------------------------
(* The instance of Boundary for TLC: what one call may do. *)
EXTENDS Boundary

CONSTANTS c1, c2

Do1(op) == <<[op |-> op, cmap |-> NoCMap]>>
Text(c) == <<[op |-> "text", cmap |-> c]>>

\* Each operation, alone or in a sequence of two on one document or on two whose
\* last operation makes the first void.
MCScripts ==
    { Do1("pages"), Do1("crop"), Do1("close"),
      Do1("deep") \o Text(c1), Do1("annots") \o Text(c2) }

=============================================================================
