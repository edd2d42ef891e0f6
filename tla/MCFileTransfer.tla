--------------------------- MODULE MCFileTransfer ---------------------------
(* Instances of FileTransfer for TLC.                                      *)
EXTENDS FileTransfer

\* A character that lies across two chunks of two bytes, and none that does.
Cut   == {1, 3, 4, 5, 6}
Whole == {1, 2, 4, 5, 6}

\* Every combination of a text and a name in one or two segments.
AllInputs == [charEnds : {Cut, Whole}, nameLen : {1, 2}]
=============================================================================
