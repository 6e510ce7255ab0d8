---------------------------- MODULE MCDistLock ----------------------------
(***************************************************************************)
(* Instances of DistLock for TLC.                                          *)
(***************************************************************************)
EXTENDS DistLock

CONSTANTS c1, c2, c3

ThreeClients == {c1, c2, c3}


============================================================================
