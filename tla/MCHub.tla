------------------------------- MODULE MCHub -------------------------------
(***************************************************************************)
(* An instance of Hub for TLC: two connections, of one user or of two.     *)
(***************************************************************************)
EXTENDS Hub

CONSTANTS c1, c2, u, v

TwoClients == {c1, c2}
TwoIds     == {u, v}

============================================================================
