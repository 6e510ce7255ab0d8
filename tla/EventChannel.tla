--------------------------- MODULE EventChannel ----------------------------
(***************************************************************************)
(* What the transactional outbox promises to the rest of the system: an    *)
(* event exists from the commit of its transaction on, only such events    *)
(* are ever delivered (any number of times), an event is confirmed only    *)
(* after a delivery, and no event stays open for ever.  An abandoned event *)
(* can be reopened by an operator.                                         *)
(***************************************************************************)
EXTENDS Naturals

CONSTANT Events

VARIABLES state,    \* event -> "absent", "open", "confirmed", "abandoned"
          copies    \* event -> number of copies in the broker's log

cvars == <<state, copies>>

Init ==
    /\ state = [e \in Events |-> "absent"]
    /\ copies = [e \in Events |-> 0]

Commit(e) ==
    /\ state[e] = "absent"
    /\ state' = [state EXCEPT ![e] = "open"]
    /\ UNCHANGED copies

Deliver(e) ==
    /\ state[e] # "absent"
    /\ copies' = [copies EXCEPT ![e] = @ + 1]
    /\ UNCHANGED state

Confirm(e) ==
    /\ state[e] # "absent"
    /\ copies[e] > 0
    /\ state' = [state EXCEPT ![e] = "confirmed"]
    /\ UNCHANGED copies

Abandon(e) ==
    /\ state[e] # "absent"
    /\ state' = [state EXCEPT ![e] = "abandoned"]
    /\ UNCHANGED copies

\* All abandoned events are reopened together.
Reopen ==
    /\ state' = [e \in Events |-> IF state[e] = "abandoned" THEN "open"
                                                            ELSE state[e]]
    /\ UNCHANGED copies

Next ==
    \/ \E e \in Events : Commit(e) \/ Deliver(e) \/ Confirm(e) \/ Abandon(e)
    \/ Reopen

Spec == Init /\ [][Next]_cvars

\* No event stays open for ever.
Settles == \A e \in Events : state[e] = "open" ~> state[e] # "open"

============================================================================
