----------------------------- MODULE MCConsumer -----------------------------
(***************************************************************************)
(* Instances of Consumer for TLC: two pods, two workers with a channel of  *)
(* one message each, three messages of which the first two share a key.    *)
(***************************************************************************)
EXTENDS Consumer

CONSTANTS p1, p2, a, b

TwoPods == {p1, p2}
OnePod  == {p1}
Keys    == <<a, a, b>>
Hash    == [k \in {a, b} |-> IF k = a THEN 0 ELSE 1]

=============================================================================
