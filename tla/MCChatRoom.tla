----------------------------- MODULE MCChatRoom -----------------------------
(* Instances of ChatRoom for TLC.                                          *)
EXTENDS ChatRoom, TLC

CONSTANTS a, b, c

\* Every client on a port of its own: the connection itself stands for it.
OwnPorts == [x \in Conns |-> x]

\* a and b have the same port (on two hosts), c another one.
SharedPort == [x \in Conns |-> IF x = b THEN a ELSE x]

\* Clients that do nothing another one does not do.
Symmetry == Permutations(Conns \ (Talkers \cup Fragile))
=============================================================================
