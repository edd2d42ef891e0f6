--------------------------- MODULE MCSelectServer ---------------------------
(* Instances of SelectServer for TLC.                                      *)
EXTENDS SelectServer, TLC

Symmetry == Permutations(Conns)
=============================================================================
