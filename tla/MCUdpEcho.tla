------------------------------ MODULE MCUdpEcho ------------------------------
(* Instances of UdpEcho for TLC.                                           *)
EXTENDS UdpEcho
=============================================================================
