------------------------- MODULE OrderStateMachine -------------------------
(***************************************************************************)
(* What orders_app/state_machine.py promises about an order: a status      *)
(* moves along the edges of TRANSITIONS and in no other way.  This is the  *)
(* abstract specification; OrderFlow is the detailed one, with the         *)
(* requests and Celery tasks that read an order and later write it.        *)
(***************************************************************************)
CONSTANT Orders

VARIABLE order      \* order[o]: the status column of order o

Statuses == {"pending", "paid", "fulfilled", "delivered",
             "completed", "refunded", "cancelled"}

NoEdges == [event \in {} |-> event]

\* The table of edges: TRANSITIONS[status][event] is the next status.
TRANSITIONS ==
    [pending   |-> [pay |-> "paid", cancel |-> "cancelled",
                    timeout |-> "cancelled"],
     paid      |-> [fulfill |-> "fulfilled", refund |-> "refunded"],
     fulfilled |-> [deliver |-> "delivered", refund |-> "refunded"],
     delivered |-> [complete |-> "completed", refund |-> "refunded"],
     completed |-> NoEdges,
     refunded  |-> NoEdges,
     cancelled |-> NoEdges]

\* transition() raises InvalidTransition unless this holds.
Allowed(status, event) == event \in DOMAIN TRANSITIONS[status]

Init == order = [o \in Orders |-> "pending"]

\* One transition() whose validation and write are a single step.
Transition(o, event) ==
    /\ Allowed(order[o], event)
    /\ order' = [order EXCEPT ![o] = TRANSITIONS[@][event]]

Next == \E o \in Orders :
            \E event \in DOMAIN TRANSITIONS[order[o]] : Transition(o, event)

Spec == Init /\ [][Next]_order
============================================================================
