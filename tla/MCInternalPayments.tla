------------------------- MODULE MCInternalPayments -------------------------
(* A small instance of InternalPayments and Forwarding for TLC. *)
EXTENDS Forwarding, TLC

CONSTANTS i1, t1, w1, new, part, rest, kNew, kPart

\* One intent of 3 cents; a refund of 2 and a refund of what remains, sent
\* under one key.
TheKinds == [r \in Requests |-> IF r = new THEN "create" ELSE "refund"]
TheKeys == (new :> kNew) @@ (part :> kPart) @@ (rest :> kPart)
TheTargets == [r \in Requests |-> i1]
TheAmounts == (new :> 3) @@ (part :> 2) @@ (rest :> 0)
=============================================================================
