---------------------------- MODULE MCScheduler ----------------------------
(***************************************************************************)
(* Instances of Scheduler for TLC: two pods for one slot and one of them   *)
(* again for the next.                                                     *)
(***************************************************************************)
EXTENDS Scheduler

CONSTANTS p1, p2, e1, e2, e3

TwoPods    == {p1, p2}
ThreeExecs == {e1, e2, e3}
OnPods     == [e \in ThreeExecs |-> IF e = e2 THEN p2 ELSE p1]

============================================================================
