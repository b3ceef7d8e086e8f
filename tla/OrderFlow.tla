----------------------------- MODULE OrderFlow -----------------------------
(***************************************************************************)
(* The life of an order after checkout: Stripe and carrier webhooks served *)
(* by web threads, and the Celery tasks they and beat enqueue, run by      *)
(* workers.  No request or task here opens a transaction: every ORM        *)
(* statement commits on its own, a status is validated on the object the   *)
(* process loaded and written back by a later UPDATE of that one column.   *)
(* A step of this module is therefore one committed statement, and what a  *)
(* process loaded travels in its record as "seen" or "todo".               *)
(*                                                                         *)
(* CELERY_TASK_ACKS_LATE and CELERY_TASK_REJECT_ON_WORKER_LOST are set: a  *)
(* task leaves the broker when its worker finishes it, and the loss of the *)
(* worker puts it back, to run again from its first line.                  *)
(***************************************************************************)
EXTENDS Integers

CONSTANTS Orders,        \* the orders checkout has committed
          Events,        \* Stripe event ids
          EventType,     \* EventType[e]: the type Stripe gave event e
          EventOrder,    \* EventOrder[e]: the order whose PaymentRecord
                         \* carries e's intent, or NoOrder
          NoOrder,       \* the intent of a hub product, or an orphan
          Workers,       \* Celery worker processes of the default queue
          Threads,       \* web threads
          CarrierStatuses, \* the statuses of _STATUS_MAP a carrier reports
          Dispatched,    \* the orders somebody asks fulfill for
          MaxCopies      \* bound: copies of one job waiting in the broker

\* Mutant: the handlers of the two payment events are swapped in the table.
HANDLERSSwapped ==
    [succeeded       |-> "handle_payment_failed",
     payment_failed  |-> "handle_payment_succeeded",
     charge_refunded |-> "handle_charge_refunded",
     account_updated |-> "handle_connect_account_updated",
     unlisted        |-> "no task"]

\* The task HANDLERS[type] names, "no task" for a type it does not list.
HANDLERS ==
    [succeeded       |-> "handle_payment_succeeded",
     payment_failed  |-> "handle_payment_failed",
     charge_refunded |-> "handle_charge_refunded",
     account_updated |-> "handle_connect_account_updated",
     unlisted        |-> "no task"]

EventTypes == {"succeeded", "payment_failed", "charge_refunded",
               "account_updated", "unlisted"}

ASSUME OrderFlowAssumption ==
    /\ NoOrder \notin Orders
    /\ EventType \in [Events -> EventTypes]
    /\ EventOrder \in [Events -> Orders \cup {NoOrder}]
    /\ CarrierStatuses \subseteq {"in_transit", "delivered", "failed"}
    /\ Dispatched \subseteq Orders
    /\ MaxCopies \in Nat \ {0}

VARIABLES
    order,      \* Order.status
    aged,       \* the orders created more than 30 minutes ago
    payment,    \* PaymentRecord.status
    shipment,   \* Shipment.status, "none" before the row exists
    tracking,   \* the orders with a "delivered" row among their TrackingEvents
    event,      \* the StripeWebhookEvent row: none, persisted or processed
    queue,      \* the broker: how many copies of each job are waiting
    worker,     \* what each worker is doing
    thread,     \* what each web thread is doing
    handled,    \* history: the events whose task has run to its end
    raised      \* history: the events with a task that raised

vars == <<order, aged, payment, shipment, tracking, event, queue, worker,
          thread, handled, raised>>

SM == INSTANCE OrderStateMachine

PaymentStatuses == {"requires_payment_method", "succeeded", "failed"}
ShipmentStatuses == {"none", "created", "label_ready", "in_transit",
                     "delivered", "failed"}

EventJob(e) == [task |-> HANDLERS[EventType[e]], arg |-> e]
FulfillJob(o) == [task |-> "fulfill", arg |-> o]
SweepJob == [task |-> "sweep_unpaid_orders", arg |-> NoOrder]

Handled(e) == HANDLERS[EventType[e]] # "no task"

Jobs == {EventJob(e) : e \in {d \in Events : Handled(d)}}
          \cup {FulfillJob(o) : o \in Orders}
          \cup {SweepJob}

IdleWorker == [pc |-> "idle", job |-> SweepJob, seen |-> "pending", todo |-> {}]
IdleThread == [pc |-> "idle", event |-> NoOrder, order |-> NoOrder,
               status |-> "failed"]

Init ==
    /\ order = [o \in Orders |-> "pending"]
    /\ aged = {}
    /\ payment = [o \in Orders |-> "requires_payment_method"]
    /\ shipment = [o \in Orders |-> "none"]
    /\ tracking = {}
    /\ event = [e \in Events |-> "none"]
    /\ queue = [j \in Jobs |-> 0]
    /\ worker = [w \in Workers |-> IdleWorker]
    /\ thread = [t \in Threads |-> IdleThread]
    /\ handled = {}
    /\ raised = {}

-----------------------------------------------------------------------------
(* The broker and its workers *)

Enqueue(j) ==
    /\ queue[j] < MaxCopies
    /\ queue' = [queue EXCEPT ![j] = @ + 1]

Take(w, j) ==
    /\ worker[w].pc = "idle"
    /\ queue[j] > 0
    /\ queue' = [queue EXCEPT ![j] = @ - 1]
    /\ worker' = [worker EXCEPT ![w] = [IdleWorker EXCEPT !.pc = "start",
                                                          !.job = j]]
    /\ UNCHANGED <<order, aged, payment, shipment, tracking, event, thread,
                   handled, raised>>

\* Mutant: acks_early, the lost worker's job is gone with it.
LoseWorkerAckedEarly(w) ==
    /\ worker[w].pc # "idle"
    /\ worker' = [worker EXCEPT ![w] = IdleWorker]
    /\ UNCHANGED <<order, aged, payment, shipment, tracking, event, queue,
                   thread, handled, raised>>

\* The worker is lost; the unacknowledged job goes back to the broker.
LoseWorker(w) ==
    /\ worker[w].pc # "idle"
    /\ queue' = [queue EXCEPT ![worker[w].job] = @ + 1]
    /\ worker' = [worker EXCEPT ![w] = IdleWorker]
    /\ UNCHANGED <<order, aged, payment, shipment, tracking, event, thread,
                   handled, raised>>

\* The worker's task returned or raised: either way it is acknowledged.
Acknowledge(w) == worker' = [worker EXCEPT ![w] = IdleWorker]

\* A statement of the task, or the hand-over to the next one, raises.  No task
\* here calls retry() or lists exceptions to retry on, so the task is over.
TaskRaises(w) ==
    /\ worker[w].pc # "idle"
    /\ Acknowledge(w)
    /\ raised' = raised \cup {e \in Events : worker[w].job = EventJob(e)}
    /\ UNCHANGED <<order, aged, payment, shipment, tracking, event, queue,
                   thread, handled>>

Goto(w, pc) == worker' = [worker EXCEPT ![w].pc = pc]

\* Worker w is about to run a task of this name from its first line.
Starts(w, task) == worker[w].pc = "start" /\ worker[w].job.task = task

\* The UPDATE in transition(): the edge is looked up in the status loaded
\* earlier, the column is overwritten whatever it holds now.
WriteTransition(o, seen, ev) ==
    order' = [order EXCEPT ![o] = SM!TRANSITIONS[seen][ev]]

-----------------------------------------------------------------------------
(* payments_app/tasks.py *)

\* One SELECT joins the payment and its order (select_related).
LoadPayment(w) ==
    LET e == worker[w].job.arg
        o == EventOrder[e]
    IN  /\ Starts(w, "handle_payment_succeeded")
        /\ IF o = NoOrder
             THEN /\ Acknowledge(w)
                  /\ handled' = handled \cup {e}
             ELSE /\ worker' = [worker EXCEPT ![w].pc = "save_payment",
                                              ![w].seen = order[o]]
                  /\ UNCHANGED handled
        /\ UNCHANGED <<order, aged, payment, shipment, tracking, event, queue,
                       thread, raised>>

SavePayment(w) ==
    LET e == worker[w].job.arg
    IN  /\ worker[w].pc = "save_payment"
        /\ payment' = [payment EXCEPT ![EventOrder[e]] = "succeeded"]
        /\ IF worker[w].seen = "pending"
             THEN Goto(w, "pay") /\ UNCHANGED handled
             ELSE Acknowledge(w) /\ handled' = handled \cup {e}
        /\ UNCHANGED <<order, aged, shipment, tracking, event, queue, thread,
                       raised>>

Pay(w) ==
    LET e == worker[w].job.arg
    IN  /\ worker[w].pc = "pay"
        /\ WriteTransition(EventOrder[e], worker[w].seen, "pay")
        /\ Acknowledge(w)
        /\ handled' = handled \cup {e}
        /\ UNCHANGED <<aged, payment, shipment, tracking, event, queue, thread,
                       raised>>

\* One unconditional UPDATE by intent id, which touches no row of NoOrder.
HandlePaymentFailed(w) ==
    LET e == worker[w].job.arg
    IN  /\ Starts(w, "handle_payment_failed")
        /\ payment' = [o \in Orders |-> IF o = EventOrder[e] THEN "failed"
                                                             ELSE payment[o]]
        /\ Acknowledge(w)
        /\ handled' = handled \cup {e}
        /\ UNCHANGED <<order, aged, shipment, tracking, event, queue, thread,
                       raised>>

\* The handlers that load the event row and change nothing.
HandleNothing(w) ==
    /\ worker[w].pc = "start"
    /\ worker[w].job.task \in {"handle_charge_refunded",
                               "handle_connect_account_updated"}
    /\ Acknowledge(w)
    /\ handled' = handled \cup {worker[w].job.arg}
    /\ UNCHANGED <<order, aged, payment, shipment, tracking, event, queue,
                   thread, raised>>

-----------------------------------------------------------------------------
(* orders_app/tasks.py *)

\* The cursor of stale.iterator() is opened once: the rows it will yield, and
\* the status each is loaded with, are those of this moment.
Sweep(w, stale) ==
    /\ Starts(w, "sweep_unpaid_orders")
    /\ IF stale = {}
         THEN Acknowledge(w)
         ELSE worker' = [worker EXCEPT ![w].pc = "sweep", ![w].todo = stale]
    /\ UNCHANGED <<order, aged, payment, shipment, tracking, event, queue,
                   thread, handled, raised>>

\* Mutants: the status filter dropped, the age filter reversed.
OpenSweepAnyStatus(w) == Sweep(w, aged)
OpenSweepYoung(w) == Sweep(w, {o \in Orders \ aged : order[o] = "pending"})

OpenSweep(w) == Sweep(w, {o \in aged : order[o] = "pending"})

CancelStale(w) ==
    /\ worker[w].pc = "sweep"
    /\ \E o \in worker[w].todo :
        /\ WriteTransition(o, "pending", "timeout")
        /\ IF worker[w].todo = {o}
             THEN Acknowledge(w)
             ELSE worker' = [worker EXCEPT ![w].todo = @ \ {o}]
    /\ UNCHANGED <<aged, payment, shipment, tracking, event, queue, thread,
                   handled, raised>>

\* Mutant: the shipment is not created.
LoadOrderNoShipment(w) ==
    /\ Starts(w, "fulfill")
    /\ worker' = [worker EXCEPT ![w].pc = "fulfill",
                                ![w].seen = order[worker[w].job.arg]]
    /\ UNCHANGED <<order, aged, payment, shipment, tracking, event, queue,
                   thread, handled, raised>>

LoadOrder(w) ==
    /\ Starts(w, "fulfill")
    /\ worker' = [worker EXCEPT ![w].pc = "create_shipment",
                                ![w].seen = order[worker[w].job.arg]]
    /\ UNCHANGED <<order, aged, payment, shipment, tracking, event, queue,
                   thread, handled, raised>>

\* Shipment.objects.get_or_create; get_carrier, whose CarrierError no one
\* catches, may then end the task (TaskRaises).
CreateShipment(w) ==
    LET o == worker[w].job.arg
    IN  /\ worker[w].pc = "create_shipment"
        /\ shipment' = [shipment EXCEPT ![o] = IF @ = "none" THEN "created"
                                                             ELSE @]
        /\ Goto(w, "label")
        /\ UNCHANGED <<order, aged, payment, tracking, event, queue, thread,
                       handled, raised>>

\* The carrier's label, or its failure, after which the task goes on.
RequestLabel(w) ==
    LET o == worker[w].job.arg
    IN  /\ worker[w].pc = "label"
        /\ \/ shipment' = [shipment EXCEPT ![o] = "label_ready"]
           \/ UNCHANGED shipment
        /\ Goto(w, "fulfill")
        /\ UNCHANGED <<order, aged, payment, tracking, event, queue, thread,
                       handled, raised>>

\* Mutant: the status is set without transition()'s validation.
FulfillUnvalidated(w) ==
    /\ worker[w].pc = "fulfill"
    /\ WriteTransition(worker[w].job.arg, "paid", "fulfill")
    /\ Acknowledge(w)
    /\ UNCHANGED <<aged, payment, shipment, tracking, event, queue, thread,
                   handled, raised>>

\* transition(order, FULFILL): InvalidTransition fails the task.
Fulfill(w) ==
    /\ worker[w].pc = "fulfill"
    /\ IF SM!Allowed(worker[w].seen, "fulfill")
         THEN WriteTransition(worker[w].job.arg, worker[w].seen, "fulfill")
         ELSE UNCHANGED order
    /\ Acknowledge(w)
    /\ UNCHANGED <<aged, payment, shipment, tracking, event, queue, thread,
                   handled, raised>>

-----------------------------------------------------------------------------
(* payments_app/webhooks.py: stripe_webhook *)

\* get_or_create by event id; a processed event answers duplicate_ignored,
\* which changes nothing.
ReceiveEvent(t, e) ==
    /\ thread[t].pc = "idle"
    /\ event[e] # "processed"
    /\ event' = [event EXCEPT ![e] = "persisted"]
    /\ thread' = [thread EXCEPT ![t].pc = "dispatch", ![t].event = e]
    /\ UNCHANGED <<order, aged, payment, shipment, tracking, queue, worker,
                   handled, raised>>

\* Mutant: the task is not enqueued.
DispatchEventDropped(t) ==
    /\ thread[t].pc = "dispatch"
    /\ thread' = [thread EXCEPT ![t].pc = "mark"]
    /\ UNCHANGED <<order, aged, payment, shipment, tracking, event, queue,
                   worker, handled, raised>>

DispatchEvent(t) ==
    LET e == thread[t].event
    IN  /\ thread[t].pc = "dispatch"
        /\ IF Handled(e) THEN Enqueue(EventJob(e)) ELSE UNCHANGED queue
        /\ thread' = [thread EXCEPT ![t].pc = "mark"]
        /\ UNCHANGED <<order, aged, payment, shipment, tracking, event, worker,
                       handled, raised>>

MarkProcessed(t) ==
    /\ thread[t].pc = "mark"
    /\ event' = [event EXCEPT ![thread[t].event] = "processed"]
    /\ thread' = [thread EXCEPT ![t] = IdleThread]
    /\ UNCHANGED <<order, aged, payment, shipment, tracking, queue, worker,
                   handled, raised>>

-----------------------------------------------------------------------------
(* shipping_app/webhooks.py: tracking_webhook *)

\* The shipment is found by external_id, which the label gave it, or is blank:
\* a callback that names none matches a shipment without a label.
ReceiveTracking(t, o, status) ==
    /\ thread[t].pc = "idle"
    /\ shipment[o] # "none"
    /\ tracking' = IF status = "delivered" THEN tracking \cup {o} ELSE tracking
    /\ thread' = [thread EXCEPT ![t].pc = "save_shipment", ![t].order = o,
                                ![t].status = status]
    /\ UNCHANGED <<order, aged, payment, shipment, event, queue, worker,
                   handled, raised>>

SaveShipment(t) ==
    /\ thread[t].pc = "save_shipment"
    /\ shipment' = [shipment EXCEPT ![thread[t].order] = thread[t].status]
    /\ thread' = IF thread[t].status = "delivered"
                   THEN [thread EXCEPT ![t].pc = "load_order"]
                   ELSE [thread EXCEPT ![t] = IdleThread]
    /\ UNCHANGED <<order, aged, payment, tracking, event, queue, worker,
                   handled, raised>>

\* Mutant: the transition is not validated.
LoadDeliveredUnvalidated(t) ==
    /\ thread[t].pc = "load_order"
    /\ thread' = [thread EXCEPT ![t].pc = "deliver"]
    /\ UNCHANGED <<order, aged, payment, shipment, tracking, event, queue,
                   worker, handled, raised>>

\* shipment.order is loaded here; the handler swallows InvalidTransition.
LoadDelivered(t) ==
    /\ thread[t].pc = "load_order"
    /\ thread' = IF SM!Allowed(order[thread[t].order], "deliver")
                   THEN [thread EXCEPT ![t].pc = "deliver"]
                   ELSE [thread EXCEPT ![t] = IdleThread]
    /\ UNCHANGED <<order, aged, payment, shipment, tracking, event, queue,
                   worker, handled, raised>>

Deliver(t) ==
    /\ thread[t].pc = "deliver"
    /\ WriteTransition(thread[t].order, "fulfilled", "deliver")
    /\ thread' = [thread EXCEPT ![t] = IdleThread]
    /\ UNCHANGED <<aged, payment, shipment, tracking, event, queue, worker,
                   handled, raised>>

\* The request is cut short: its process dies, the broker or the database
\* refuses.  What it committed stays.
LoseThread(t) ==
    /\ thread[t].pc # "idle"
    /\ thread' = [thread EXCEPT ![t] = IdleThread]
    /\ UNCHANGED <<order, aged, payment, shipment, tracking, event, queue,
                   worker, handled, raised>>

-----------------------------------------------------------------------------
(* Time, beat, and the hand-off to fulfilment *)

Age(o) ==
    /\ o \notin aged
    /\ aged' = aged \cup {o}
    /\ UNCHANGED <<order, payment, shipment, tracking, event, queue, worker,
                   thread, handled, raised>>

\* Beat enqueues the sweep every ten minutes, whether or not the last one ran.
Beat ==
    /\ Enqueue(SweepJob)
    /\ UNCHANGED <<order, aged, payment, shipment, tracking, event, worker,
                   thread, handled, raised>>

\* Nothing in the repository enqueues fulfill yet: staff or a later caller may,
\* whatever the order's status.
RequestFulfill(o) ==
    /\ o \in Dispatched
    /\ Enqueue(FulfillJob(o))
    /\ UNCHANGED <<order, aged, payment, shipment, tracking, event, worker,
                   thread, handled, raised>>

-----------------------------------------------------------------------------

TaskRuns(w) ==
    \/ LoadPayment(w) \/ SavePayment(w) \/ Pay(w)
    \/ HandlePaymentFailed(w) \/ HandleNothing(w)
    \/ OpenSweep(w) \/ CancelStale(w)
    \/ LoadOrder(w) \/ CreateShipment(w) \/ RequestLabel(w) \/ Fulfill(w)

TaskStep(w) == TaskRuns(w) \/ TaskRaises(w)

RequestStep(t) ==
    \/ DispatchEvent(t) \/ MarkProcessed(t)
    \/ SaveShipment(t) \/ LoadDelivered(t) \/ Deliver(t)

Next ==
    \/ \E w \in Workers : TaskStep(w) \/ LoseWorker(w) \/ \E j \in Jobs : Take(w, j)
    \/ \E t \in Threads :
        \/ RequestStep(t) \/ LoseThread(t)
        \/ \E e \in Events : ReceiveEvent(t, e)
        \/ \E o \in Orders, s \in CarrierStatuses : ReceiveTracking(t, o, s)
    \/ \E o \in Orders : Age(o) \/ RequestFulfill(o)
    \/ Beat

Spec == Init /\ [][Next]_vars

\* Stripe resends an event until it is answered with 2xx.
Resend(e) == event[e] = "persisted" /\ \E t \in Threads : ReceiveEvent(t, e)

\* Processes run; the broker's list is first in, first out, so no job waits for
\* ever behind others (strong fairness per job); beat ticks; Stripe resends.
Fairness ==
    /\ \A w \in Workers : WF_vars(TaskRuns(w))
    /\ \A t \in Threads : WF_vars(RequestStep(t))
    /\ \A j \in Jobs : SF_vars(\E w \in Workers : Take(w, j))
    /\ \A e \in Events : SF_vars(Resend(e))
    /\ WF_vars(Beat)

\* A lost process, or a task that raises.  A step that the code running on
\* could take too (a sweep that finds nothing, say) loses nothing.
Loss ==
    /\ \/ \E w \in Workers : LoseWorker(w) \/ TaskRaises(w)
       \/ \E t \in Threads : LoseThread(t)
    /\ ~\E w \in Workers : TaskRuns(w)
    /\ ~\E t \in Threads : RequestStep(t)

\* Losses end at some point: acks_late promises nothing about a task that kills
\* its worker every time.
FairSpec == Spec /\ Fairness /\ <>[][~Loss]_vars

-----------------------------------------------------------------------------
(* Safety *)

WorkerStates ==
    [pc: {"idle", "start", "save_payment", "pay", "sweep", "create_shipment",
          "label", "fulfill"},
     job: Jobs, seen: SM!Statuses, todo: SUBSET Orders]

ThreadStates ==
    [pc: {"idle", "dispatch", "mark", "save_shipment", "load_order", "deliver"},
     event: Events \cup {NoOrder}, order: Orders \cup {NoOrder},
     status: {"in_transit", "delivered", "failed"}]

\* The type of every variable.
TypeOK ==
    /\ order \in [Orders -> SM!Statuses]
    /\ aged \subseteq Orders
    /\ payment \in [Orders -> PaymentStatuses]
    /\ shipment \in [Orders -> ShipmentStatuses]
    /\ tracking \subseteq Orders
    /\ event \in [Events -> {"none", "persisted", "processed"}]
    /\ queue \in [Jobs -> Nat]
    /\ worker \in [Workers -> WorkerStates]
    /\ thread \in [Threads -> ThreadStates]
    /\ handled \subseteq Events
    /\ raised \subseteq Events

Running(j) == \E w \in Workers : worker[w].pc # "idle" /\ worker[w].job = j

Outstanding(j) == queue[j] > 0 \/ Running(j)

\* Evidence that Stripe said this of the order's intent.
Evidence(o, type) ==
    \E e \in Events : /\ EventOrder[e] = o
                      /\ EventType[e] = type
                      /\ event[e] # "none"

\* A handler's task never runs, or waits to run, before its event is a row:
\* "every inbound Stripe event is persisted BEFORE processing"
\* (payments_app/models.py:13), so the handlers' "record is None" never bites.
PersistedBeforeProcessing ==
    \A e \in Events : Handled(e) /\ Outstanding(EventJob(e)) => event[e] # "none"

\* processed_at marks the hand-over to Celery.  From then on duplicates are
\* ignored, so the broker or a worker must hold the task until it has run,
\* whatever crashes; only a handler that raised may be missing.
NoLostEvent ==
    \A e \in Events :
        Handled(e) /\ event[e] = "processed"
            => Outstanding(EventJob(e)) \/ e \in handled \cup raised

\* No interleaving lets an order be paid, or go on from paid, unless a
\* payment_intent.succeeded event of that order is on record.
PaidHasEvidence ==
    \A o \in Orders :
        order[o] \in {"paid", "fulfilled", "delivered"}
            => Evidence(o, "succeeded")

\* The payment ledger only ever says what some recorded event said.
PaymentHasEvidence ==
    \A o \in Orders :
        /\ payment[o] = "succeeded" => Evidence(o, "succeeded")
        /\ payment[o] = "failed" => Evidence(o, "payment_failed")

\* A status past paid is backed by logistics: fulfilled by a shipment row, and
\* delivered by the carrier's own "delivered" in the tracking feed.
LogisticsBackStatus ==
    \A o \in Orders :
        /\ order[o] \in {"fulfilled", "delivered"} => shipment[o] # "none"
        /\ order[o] = "delivered" => o \in tracking

\* orders_app/tasks.py:13: the sweep cancels no order in its first 30 minutes,
\* though its cursor may have been opened long before it writes.
NoEarlyCancel == \A o \in Orders : order[o] = "cancelled" => o \in aged

\* However stale the loaded statuses are, an order leaves pending for paid or
\* cancelled and never comes back: fulfilment and delivery cannot skip payment.
PendingLeftOnce ==
    [][\A o \in Orders : order'[o] # order[o] =>
          /\ order'[o] # "pending"
          /\ order[o] = "pending" => order'[o] \in {"paid", "cancelled"}]_order

\* state_machine.py:3-5 and :36: every change of an order's status is an edge
\* of TRANSITIONS.  Holds with one worker, fails with two.
FollowsStateMachine == SM!Spec

\* Once an event is a row its handler runs until it returns or raises, however
\* often the request that stored it, and the worker that ran it, died on the way.
EventHandled ==
    \A e \in Events :
        event[e] # "none" /\ Handled(e) ~> e \in handled \cup raised

\* orders_app/tasks.py:9: no order stays pending for good.
StaleOrderSwept == \A o \in Orders : o \in aged ~> [](order[o] # "pending")
=============================================================================
