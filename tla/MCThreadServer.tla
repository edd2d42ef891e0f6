--------------------------- MODULE MCThreadServer ---------------------------
(* Instances of ThreadServer for TLC.                                      *)
EXTENDS ThreadServer
=============================================================================
