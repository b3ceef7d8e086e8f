---------------------------- MODULE RefundLedger ----------------------------
(***************************************************************************)
(* What the internal payment API promises its callers: one Idempotency-Key *)
(* does its work once (core/idempotency.py:6-9), and the refunds of an     *)
(* intent never add up to more than its amount ("refund exceeds remaining  *)
(* refundable amount").  InternalPayments is the detailed specification.   *)
(***************************************************************************)
EXTENDS Naturals

CONSTANTS Intents, Keys,
          MaxAmount   \* the largest value of the cents columns

Amounts == 1..MaxAmount

VARIABLES amount,     \* amount[i]: the intent's amount_cents, 0 while unborn
          paid,       \* the intents Stripe has reported as succeeded
          refunded,   \* refunded[i]: the money moved back
          done        \* the keys whose work is done

vars == <<amount, paid, refunded, done>>

Init ==
    /\ amount = [i \in Intents |-> 0]
    /\ paid = {}
    /\ refunded = [i \in Intents |-> 0]
    /\ done = {}

Create(k, i, a) ==
    /\ k \notin done
    /\ amount[i] = 0
    /\ amount' = [amount EXCEPT ![i] = a]
    /\ done' = done \cup {k}
    /\ UNCHANGED <<paid, refunded>>

Succeed(i) ==
    /\ amount[i] > 0
    /\ paid' = paid \cup {i}
    /\ UNCHANGED <<amount, refunded, done>>

Refund(k, i, a) ==
    /\ k \notin done
    /\ i \in paid
    /\ refunded[i] + a <= amount[i]
    /\ refunded' = [refunded EXCEPT ![i] = @ + a]
    /\ done' = done \cup {k}
    /\ UNCHANGED <<amount, paid>>

Next ==
    \/ \E k \in Keys, i \in Intents, a \in Amounts : Create(k, i, a)
    \/ \E k \in Keys, i \in Intents, a \in Amounts : Refund(k, i, a)
    \/ \E i \in Intents : Succeed(i)

Spec == Init /\ [][Next]_vars
=============================================================================
