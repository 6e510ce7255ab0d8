------------------------------ MODULE MCRelay ------------------------------
(***************************************************************************)
(* Instances of Relay for TLC: one pod, and two pods on the same table.    *)
(***************************************************************************)
EXTENDS Relay

CONSTANTS r1, r2

OneRelay  == {r1}
TwoRelays == {r1, r2}

============================================================================
