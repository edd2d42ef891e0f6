--------------------------- MODULE MCLocalSocket ---------------------------
(* Instances of LocalSocket for TLC.                                       *)
EXTENDS LocalSocket

CONSTANTS a, b, d, p, q

\* b may be given the number that a has had.
NumbersUsedAgain == [x \in Clients |-> IF x = d THEN q ELSE p]
=============================================================================
