--------------------------- MODULE MCMultiProcess ---------------------------
(* Instances of MultiProcess for TLC.                                      *)
EXTENDS MultiProcess, TLC

Symmetry == Permutations(Conns)
=============================================================================
