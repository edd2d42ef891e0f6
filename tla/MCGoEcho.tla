------------------------------ MODULE MCGoEcho ------------------------------
(* Instances of GoEcho for TLC.                                            *)
EXTENDS GoEcho
=============================================================================
