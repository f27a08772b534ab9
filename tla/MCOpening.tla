------------------------------ MODULE MCOpening ------------------------------
(* The instances of Opening for TLC: the opens are alike. *)
EXTENDS Opening, TLC

CONSTANTS o1, o2, o3

Symmetry == Permutations(Opens)

=============================================================================
