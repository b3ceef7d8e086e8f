------------------------------ MODULE Forwarding ------------------------------
(***************************************************************************)
(* The events that tell a product its payment has succeeded, on top of the *)
(* internal payment API: handle_payment_succeeded enqueues                 *)
(* forward_internal_event, a worker loads the intent, posts an envelope    *)
(* with the status it found to the product, and asks for a retry whenever  *)
(* that raises.  The product is not part of the repository: it receives an *)
(* envelope or does not, and its answer may be an error or be lost.        *)
(*                                                                         *)
(* A task is acknowledged when it ends, after its retry has been sent: a   *)
(* worker lost in between leaves two messages.                             *)
(***************************************************************************)
EXTENDS InternalPayments

CONSTANTS Couriers,     \* workers that run forward_internal_event
          MaxRetries,   \* its max_retries
          MaxLosses     \* bound: workers lost in the middle of a task

ASSUME ForwardingAssumption == MaxRetries \in Nat /\ MaxLosses \in Nat

VARIABLES
    remote,     \* intents of products with a URL in INTERNAL_WEBHOOK_TARGETS
    outbox,     \* messages of an intent, by the retries they have behind them
    courier,    \* the message a worker took, and the status it loaded
    told,       \* the status of the last envelope that reached the product
    failed,     \* intents a task of which has used up its retries
    losses      \* for the bound MaxLosses

delivery == <<remote, outbox, courier, told, failed, losses>>
allVars == <<vars, delivery>>

-----------------------------------------------------------------------------
Free == [at |-> "free"]
At(w, stage) == courier[w].at = stage
Go(w, stage) == courier' = [courier EXCEPT ![w].at = stage]
Leave(w) == courier' = [courier EXCEPT ![w] = Free]

Enqueued(i, n) == [outbox EXCEPT ![i][n] = @ + 1]
UnderWay(i) ==
    \/ \E n \in 0 .. MaxRetries : outbox[i][n] > 0
    \/ \E w \in Couriers : ~At(w, "free") /\ courier[w].of = i

(* .delay, the last statement of handle_payment_succeeded.                  *)
Sends(i) ==
    /\ outbox' = Enqueued(i, 0)
    /\ UNCHANGED <<remote, courier, told, failed, losses>>

(* Mutant: the event is enqueued before the intent is saved.                *)
EnqueueForwardEarly(i) ==
    /\ job[i] = "queued" /\ i \notin forwarded
    /\ forwarded' = forwarded \cup {i}
    /\ Sends(i)
    /\ UNCHANGED <<intent, moved, rows, idem, thread, sent, answers, paid, job>>

EnqueueForward(i) == ForwardEvent(i) /\ Sends(i)

(* forward_internal_event: the row is loaded when the task runs, and again  *)
(* by each retry.  A product without a URL consumes its events locally.     *)
TakeForward(w, i, n) ==
    /\ At(w, "free") /\ outbox[i][n] > 0
    /\ outbox' = [outbox EXCEPT ![i][n] = @ - 1]
    /\ IF i \in remote
       THEN courier' = [courier EXCEPT ![w] =
                [at |-> "post", of |-> i, tries |-> n, status |-> intent[i].status]]
       ELSE UNCHANGED courier
    /\ UNCHANGED <<vars, remote, told, failed, losses>>

(* forward_product_event: the POST, and raise_for_status, which raises on   *)
(* every 4xx and 5xx.  A POST that raises may have reached the product.     *)
Receives(w) == told' = [told EXCEPT ![courier[w].of] = courier[w].status]

PostForward(w) ==
    /\ At(w, "post")
    /\ Receives(w)
    /\ Leave(w)
    /\ UNCHANGED <<vars, remote, outbox, failed, losses>>

PostRaises(w) ==
    /\ At(w, "post")
    /\ Receives(w) \/ UNCHANGED told
    /\ courier' = [courier EXCEPT ![w].at = "raised", ![w].status = "none"]
    /\ UNCHANGED <<vars, remote, outbox, failed, losses>>

(* retry(): the next message, then the end of this one.                     *)
RetryForward(w) ==
    /\ At(w, "raised") /\ courier[w].tries < MaxRetries
    /\ outbox' = Enqueued(courier[w].of, courier[w].tries + 1)
    /\ Go(w, "retried")
    /\ UNCHANGED <<vars, remote, told, failed, losses>>

AcknowledgeForward(w) ==
    /\ At(w, "retried")
    /\ Leave(w)
    /\ UNCHANGED <<vars, remote, outbox, told, failed, losses>>

(* The retries are used up: the task fails and is acknowledged.             *)
FailForward(w) ==
    /\ At(w, "raised") /\ courier[w].tries = MaxRetries
    /\ failed' = failed \cup {courier[w].of}
    /\ Leave(w)
    /\ UNCHANGED <<vars, remote, outbox, told, losses>>

(* Mutant: the message was acknowledged when it was taken.                  *)
LoseCourierAckedEarly(w) ==
    /\ ~At(w, "free") /\ losses < MaxLosses
    /\ Leave(w)
    /\ losses' = losses + 1
    /\ UNCHANGED <<vars, remote, outbox, told, failed>>

(* The worker is lost; its message is delivered again.                      *)
LoseCourier(w) ==
    /\ ~At(w, "free") /\ losses < MaxLosses
    /\ outbox' = Enqueued(courier[w].of, courier[w].tries)
    /\ Leave(w)
    /\ losses' = losses + 1
    /\ UNCHANGED <<vars, remote, told, failed>>

-----------------------------------------------------------------------------
ForwardingInit ==
    /\ Init
    /\ remote \in SUBSET Intents
    /\ outbox = [i \in Intents |-> [n \in 0 .. MaxRetries |-> 0]]
    /\ courier = [w \in Couriers |-> Free]
    /\ told = [i \in Intents |-> "none"]
    /\ failed = {}
    /\ losses = 0

(* Bound: a payment is reported again when no event of it is under way.     *)
Report(i) == StripeSucceeds(i) /\ ~UnderWay(i) /\ UNCHANGED delivery

Elsewhere ==
    /\ \/ \E t \in Threads : \/ RequestStep(t) \/ LoseThread(t)
                             \/ \E r \in Requests : Receive(t, r)
       \/ \E i \in Intents : SaveSucceeded(i)
    /\ UNCHANGED delivery

LoseHandler(i) ==
    /\ LoseWorker(i)
    /\ losses < MaxLosses /\ losses' = losses + 1
    /\ UNCHANGED <<remote, outbox, courier, told, failed>>

(* What a worker does by itself.                                            *)
Delivers(w) ==
    \/ \E i \in Intents, n \in 0 .. MaxRetries : TakeForward(w, i, n)
    \/ PostForward(w) \/ PostRaises(w)
    \/ RetryForward(w) \/ AcknowledgeForward(w) \/ FailForward(w)

ForwardingNext ==
    \/ Elsewhere
    \/ \E i \in Intents : Report(i) \/ EnqueueForward(i) \/ LoseHandler(i)
    \/ \E w \in Couriers : Delivers(w) \/ LoseCourier(w)

ForwardingSpec == ForwardingInit /\ [][ForwardingNext]_allVars

(* Threads and workers run.                                                 *)
ForwardingFairSpec ==
    /\ ForwardingSpec
    /\ \A t \in Threads : WF_allVars(RequestStep(t) /\ UNCHANGED delivery)
    /\ \A i \in Intents :
          WF_allVars((SaveSucceeded(i) /\ UNCHANGED delivery) \/ EnqueueForward(i))
    /\ \A w \in Couriers : WF_allVars(Delivers(w))

-----------------------------------------------------------------------------
(* The types of the state.                                                  *)
Envelopes == Statuses \cup {"none"}

ForwardingTypeOK ==
    /\ remote \subseteq Intents
    /\ outbox \in [Intents -> [0 .. MaxRetries -> Nat]]
    /\ courier \in [Couriers ->
           {Free} \cup [at : {"post", "raised", "retried"}, of : Intents,
                        tries : 0 .. MaxRetries, status : Envelopes]]
    /\ told \in [Intents -> Envelopes]
    /\ failed \subseteq Intents
    /\ losses \in 0 .. MaxLosses

(* What a product was told, however late it was told it and whatever        *)
(* refunds, crashes and stale saves came in between, was so: Stripe had     *)
(* reported the payment, and an envelope that says "refunded" is of an      *)
(* intent whose whole amount has been moved back.                           *)
ToldIsTrue ==
    \A i \in Intents : told[i] # "none" =>
        /\ i \in paid
        /\ told[i] \in REFUNDABLE_STATUSES \cup {"refunded"}
        /\ told[i] = "refunded" => moved[i] >= intent[i].amount

(* A message in the queue, or one that a worker has not passed on yet.      *)
InHand(i) ==
    \/ \E n \in 0 .. MaxRetries : outbox[i][n] > 0
    \/ \E w \in Couriers : courier[w].at \in {"post", "raised"} /\ courier[w].of = i

(* An event that was enqueued has reached its product, or will be tried     *)
(* again, or its retries are used up: no lost worker swallows it.           *)
ForwardIsInHand ==
    \A i \in forwarded \cap remote :
        told[i] # "none" \/ i \in failed \/ InHand(i)

(* The product hears of a reported payment, whatever dies between the save  *)
(* and the enqueue, or with the message in hand; or the retries come to an  *)
(* end without.                                                             *)
PaidIsTold ==
    \A i \in Intents :
        i \in paid ~> /\ i \in forwarded
                      /\ i \notin remote \/ told[i] # "none" \/ i \in failed
===============================================================================
