---------------------------------- MODULE XRefs -------------------------------
(***************************************************************************)
(* PDFDocument.__init__ (pdfdocument/mod.rs, init): the cross-reference    *)
(* sections, each leading to others (/XRefStm, then /Prev), the scan of    *)
(* the whole file when one of them is not valid, and the catalog.          *)
(*                                                                         *)
(* Left out: the /Encrypt and /Info of the trailers.                       *)
(***************************************************************************)
EXTENDS Document

VARIABLE opening \* where __init__ is, and the read_xref_from at work

NoCatalog == [kind |-> "catalog", hasPages |-> FALSE, attrs |-> <<>>]
NotOpened == [at |-> "find", stack |-> <<>>]

\* One read_xref_from(pos): the section to read, then what it leads to.
From(pos) == [pos |-> pos, next |-> "section"]
reader == opening.stack[Len(opening.stack)]
Goes(step) == [opening EXCEPT !.stack[Len(opening.stack)].next = step]

\* find_xref: the number before the last startxref.
FindXRef ==
    /\ opening.at = "find"
    /\ opening' = IF doc.startxref = None THEN [opening EXCEPT !.at = "scan"]
                  ELSE [at |-> "chain", stack |-> <<From(doc.startxref)>>]
    /\ UNCHANGED <<xrefs, catalog, loaded>>

\* The section is read; one that is not valid (PDFNoValidXRef) ends every
\* read_xref_from at work, and the sections read remain.
ReadSection ==
    /\ opening.at = "chain" /\ opening.stack # <<>>
    /\ reader.next = "section"
    /\ LET s == Section(reader.pos)
       IN  IF s.kind \in {"invalid", "fails"}
           THEN /\ opening' = [at |-> IF s.kind = "invalid" THEN "scan" ELSE "raised",
                               stack |-> <<>>]
                /\ UNCHANGED xrefs
           ELSE /\ opening' = Goes("XRefStm")
                /\ xrefs' = Append(xrefs, reader.pos)
    /\ UNCHANGED <<catalog, loaded>>

\* trailer.get(key): the sections it leads to are read before this one goes on.
Follow(pos, step) ==
    /\ opening' = IF pos = None THEN Goes(step)
                  ELSE IF Len(opening.stack) = MaxDepth THEN [at |-> "raised", stack |-> <<>>]
                  ELSE [Goes(step) EXCEPT !.stack = Append(@, From(pos))]
    /\ UNCHANGED <<xrefs, catalog, loaded>>

FollowXRefStm ==
    /\ opening.at = "chain" /\ opening.stack # <<>>
    /\ reader.next = "XRefStm"
    /\ Follow(Section(reader.pos).xrefstm, "Prev")

FollowPrev ==
    /\ opening.at = "chain" /\ opening.stack # <<>>
    /\ reader.next = "Prev"
    /\ Follow(Section(reader.pos).prev, "return")

SectionReturns ==
    /\ opening.at = "chain" /\ opening.stack # <<>>
    /\ reader.next = "return"
    /\ opening' = [opening EXCEPT !.stack = SubSeq(@, 1, Len(@) - 1)]
    /\ UNCHANGED <<xrefs, catalog, loaded>>

ChainEnds ==
    /\ opening.at = "chain" /\ opening.stack = <<>>
    /\ opening' = [opening EXCEPT !.at = "trailers"]
    /\ UNCHANGED <<xrefs, catalog, loaded>>

\* Mutation: the sections read before the scan are dropped.
ScanAlone ==
    /\ opening.at = "scan"
    /\ IF doc.scan.kind = "fails"
       THEN opening' = [opening EXCEPT !.at = "raised"] /\ UNCHANGED xrefs
       ELSE opening' = [opening EXCEPT !.at = "trailers"] /\ xrefs' = <<Scanned>>
    /\ UNCHANGED <<catalog, loaded>>

\* PDFXRefFallback.load: the objects that the lines of the file announce, up to
\* its first trailer, come after the sections read so far.
Scan ==
    /\ opening.at = "scan"
    /\ IF doc.scan.kind = "fails"
       THEN opening' = [opening EXCEPT !.at = "raised"] /\ UNCHANGED xrefs
       ELSE opening' = [opening EXCEPT !.at = "trailers"] /\ xrefs' = Append(xrefs, Scanned)
    /\ UNCHANGED <<catalog, loaded>>

\* The first trailer with a /Root; what is no dictionary is an empty catalog.
Roots == {<<k, Section(xrefs[k]).root>> : k \in DOMAIN xrefs}
FirstRoot == {r \in Roots : r[2] # None /\ \A s \in Roots : s[2] # None => r[1] <= s[1]}
FindRoot ==
    /\ opening.at = "trailers"
    /\ \E r \in FirstRoot : \E root \in {Getobj(r[2])} :
        /\ opening' = [opening EXCEPT !.at = IF root.kind = "raises" THEN "raised" ELSE "done"]
        /\ catalog' = IF root.kind = "catalog" THEN root ELSE NoCatalog
        /\ loaded' = Reading({r[2]})
    /\ UNCHANGED xrefs

NoRoot ==
    /\ opening.at = "trailers"
    /\ FirstRoot = {}
    /\ opening' = [opening EXCEPT !.at = "raised"]
    /\ UNCHANGED <<xrefs, catalog, loaded>>

OpenStep == \/ FindXRef \/ ReadSection \/ FollowXRefStm \/ FollowPrev
            \/ SectionReturns \/ ChainEnds \/ Scan \/ FindRoot \/ NoRoot
================================================================================
