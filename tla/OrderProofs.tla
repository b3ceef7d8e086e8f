-------------------------- MODULE OrderProofs --------------------------
(***************************************************************************)
(* Theorems about the checkout page that makes an order, for any countries, *)
(* baskets, VAT ids, orders and acts, and about OrderFlow, which takes it   *)
(* from its payment to its delivery, for every set of orders, events,       *)
(* workers and threads.  The two have no state in common.                   *)
(***************************************************************************)
EXTENDS OrderFlow, CheckoutPage, TLAPS

-----------------------------------------------------------------------------
(* The order flow.                                                           *)

\* The edges the code follows.  Stated once: no other proof opens TRANSITIONS.
LEMMA Edges ==
    /\ SM!TRANSITIONS["pending"]["pay"] = "paid"
    /\ SM!TRANSITIONS["pending"]["timeout"] = "cancelled"
    /\ SM!TRANSITIONS["paid"]["fulfill"] = "fulfilled"
    /\ SM!TRANSITIONS["fulfilled"]["deliver"] = "delivered"
    /\ SM!Allowed("pending", "pay") /\ SM!Allowed("pending", "timeout")
    /\ \A s \in SM!Statuses :
          /\ SM!Allowed(s, "fulfill") => s = "paid"
          /\ SM!Allowed(s, "deliver") => s = "fulfilled"
    /\ SM!Allowed("paid", "fulfill") /\ SM!Allowed("fulfilled", "deliver")
BY DEF SM!TRANSITIONS, SM!Allowed, SM!Statuses, SM!NoEdges

\* No two types share a task, and none is run by a task of orders_app.
LEMMA HandlerTasks ==
    ASSUME NEW t \in EventTypes
    PROVE  /\ HANDLERS[t] \notin {"fulfill", "sweep_unpaid_orders"}
           /\ HANDLERS[t] = "handle_payment_succeeded" => t = "succeeded"
           /\ HANDLERS[t] = "handle_payment_failed" => t = "payment_failed"
<1>1. HANDLERS["succeeded"] = "handle_payment_succeeded"
  BY DEF HANDLERS
<1>2. HANDLERS["payment_failed"] = "handle_payment_failed"
  BY DEF HANDLERS
<1>3. HANDLERS["charge_refunded"] = "handle_charge_refunded"
  BY DEF HANDLERS
<1>4. HANDLERS["account_updated"] = "handle_connect_account_updated"
  BY DEF HANDLERS
<1>5. HANDLERS["unlisted"] = "no task"
  BY DEF HANDLERS
<1>. QED
  BY <1>1, <1>2, <1>3, <1>4, <1>5 DEF EventTypes

\* What a job's task tells of its argument.
LEMMA JobKinds ==
    ASSUME NEW j \in Jobs
    PROVE  /\ j.task \in {"handle_payment_succeeded", "handle_payment_failed",
                          "handle_charge_refunded",
                          "handle_connect_account_updated"}
                => /\ j.arg \in Events
                   /\ Handled(j.arg)
                   /\ j = EventJob(j.arg)
           /\ j.task = "handle_payment_succeeded"
                => EventType[j.arg] = "succeeded"
           /\ j.task = "handle_payment_failed"
                => EventType[j.arg] = "payment_failed"
           /\ j.task = "fulfill" => j.arg \in Orders
           /\ j.task \in {"fulfill", "sweep_unpaid_orders"}
                => \A e \in Events : Handled(e) => j # EventJob(e)
<1> USE OrderFlowAssumption
<1>1. CASE j \in {EventJob(e) : e \in {d \in Events : Handled(d)}}
  <2>1. PICK e \in Events : Handled(e) /\ j = EventJob(e)
    BY <1>1
  <2>2. EventType[e] \in EventTypes /\ j.arg = e /\ j.task = HANDLERS[EventType[e]]
    BY <2>1 DEF EventJob
  <2>3. /\ j.task \notin {"fulfill", "sweep_unpaid_orders"}
        /\ j.task = "handle_payment_succeeded" => EventType[e] = "succeeded"
        /\ j.task = "handle_payment_failed" => EventType[e] = "payment_failed"
    BY <2>2, HandlerTasks
  <2>. QED
    BY <2>1, <2>2, <2>3
<1>2. CASE j \in {FulfillJob(o) : o \in Orders} \cup {SweepJob}
  <2>1. j.task = "fulfill" => j.arg \in Orders
    BY <1>2 DEF FulfillJob, SweepJob
  <2>2. j.task \in {"fulfill", "sweep_unpaid_orders"}
    BY <1>2 DEF FulfillJob, SweepJob
  <2>3. ASSUME NEW e \in Events, Handled(e) PROVE j # EventJob(e)
    <3>1. EventJob(e).task = HANDLERS[EventType[e]] /\ EventType[e] \in EventTypes
      BY DEF EventJob
    <3>2. EventJob(e).task \notin {"fulfill", "sweep_unpaid_orders"}
      BY <3>1, HandlerTasks
    <3>. QED
      BY <2>2, <3>2
  <2>4. j.task \notin {"handle_payment_succeeded", "handle_payment_failed",
                       "handle_charge_refunded",
                       "handle_connect_account_updated"}
    BY <2>2
  <2>. QED
    BY <2>1, <2>3, <2>4
<1>. QED
  BY <1>1, <1>2 DEF Jobs

LEMMA JobsTyped ==
    /\ SweepJob \in Jobs
    /\ \A o \in Orders : FulfillJob(o) \in Jobs /\ FulfillJob(o).arg = o
    /\ \A e \in Events : Handled(e) => EventJob(e) \in Jobs
BY DEF Jobs, FulfillJob

-----------------------------------------------------------------------------
(* Types, and what a process's place in its code says of its record *)

GoodWorker(W) ==
    /\ W.pc \in {"save_payment", "pay"}
         => /\ W.job.task = "handle_payment_succeeded"
            /\ EventOrder[W.job.arg] \in Orders
    /\ W.pc = "pay" => W.seen = "pending"
    /\ W.pc \in {"create_shipment", "label", "fulfill"} => W.job.task = "fulfill"
    /\ W.pc = "sweep" => /\ W.job.task = "sweep_unpaid_orders"
                         /\ W.todo \subseteq aged

GoodThread(T) ==
    /\ T.pc \in {"dispatch", "mark"} => T.event \in Events
    /\ T.pc \in {"save_shipment", "load_order", "deliver"} => T.order \in Orders
    /\ T.pc \in {"load_order", "deliver"} => T.status = "delivered"

WorkerOK(w) == GoodWorker(worker[w])

ThreadOK(t) == GoodThread(thread[t])

TypeInv ==
    /\ TypeOK
    /\ \A w \in Workers : WorkerOK(w)
    /\ \A t \in Threads : ThreadOK(t)

LEMMA IdleTyped ==
    /\ IdleWorker \in WorkerStates /\ GoodWorker(IdleWorker)
    /\ IdleThread \in ThreadStates /\ GoodThread(IdleThread)
BY JobsTyped DEF IdleWorker, IdleThread, WorkerStates, ThreadStates, SM!Statuses,
                 GoodWorker, GoodThread

LEMMA TypeInit == Init => TypeInv
BY IdleTyped, OrderFlowAssumption
   DEF Init, TypeInv, TypeOK, WorkerOK, ThreadOK, PaymentStatuses,
       ShipmentStatuses, SM!Statuses

\* A step of one worker to a good record keeps the types.
LEMMA WorkerMoves ==
    ASSUME TypeInv, NEW w \in Workers, NEW r \in WorkerStates, GoodWorker(r),
           worker' = [worker EXCEPT ![w] = r],
           UNCHANGED <<aged, tracking, event, thread>>,
           order' \in [Orders -> SM!Statuses],
           payment' \in [Orders -> PaymentStatuses],
           shipment' \in [Orders -> ShipmentStatuses],
           queue' \in [Jobs -> Nat],
           handled' \subseteq Events, raised' \subseteq Events
    PROVE  TypeInv'
<1>1. worker \in [Workers -> WorkerStates]
  BY DEF TypeInv, TypeOK
<1>2. ASSUME NEW x \in Workers PROVE WorkerOK(x)'
  <2>1. worker'[x] = r \/ worker'[x] = worker[x]
    BY <1>1
  <2>. QED
    BY <2>1 DEF TypeInv, WorkerOK, GoodWorker
<1>3. ASSUME NEW t \in Threads PROVE ThreadOK(t)'
  BY DEF TypeInv, ThreadOK, GoodThread
<1>4. worker' \in [Workers -> WorkerStates]
  BY <1>1
<1>. QED
  BY <1>2, <1>3, <1>4 DEF TypeInv, TypeOK

\* A step of one web thread to a good record keeps the types.
LEMMA ThreadMoves ==
    ASSUME TypeInv, NEW t \in Threads, NEW r \in ThreadStates, GoodThread(r),
           thread' = [thread EXCEPT ![t] = r],
           UNCHANGED <<aged, payment, worker, handled, raised>>,
           order' \in [Orders -> SM!Statuses],
           shipment' \in [Orders -> ShipmentStatuses],
           tracking' \subseteq Orders,
           event' \in [Events -> {"none", "persisted", "processed"}],
           queue' \in [Jobs -> Nat]
    PROVE  TypeInv'
<1>1. thread \in [Threads -> ThreadStates]
  BY DEF TypeInv, TypeOK
<1>2. ASSUME NEW x \in Threads PROVE ThreadOK(x)'
  <2>1. thread'[x] = r \/ thread'[x] = thread[x]
    BY <1>1
  <2>. QED
    BY <2>1 DEF TypeInv, ThreadOK, GoodThread
<1>3. ASSUME NEW w \in Workers PROVE WorkerOK(w)'
  BY DEF TypeInv, WorkerOK, GoodWorker
<1>4. thread' \in [Threads -> ThreadStates]
  BY <1>1
<1>. QED
  BY <1>2, <1>3, <1>4 DEF TypeInv, TypeOK

LEMMA TaskTypes ==
    ASSUME TypeInv, NEW w \in Workers, TaskStep(w) PROVE TypeInv'
<1> USE OrderFlowAssumption
<1>0. /\ order \in [Orders -> SM!Statuses]
      /\ payment \in [Orders -> PaymentStatuses]
      /\ shipment \in [Orders -> ShipmentStatuses]
      /\ queue \in [Jobs -> Nat]
      /\ handled \subseteq Events /\ raised \subseteq Events
      /\ aged \subseteq Orders
      /\ worker[w] \in WorkerStates
  BY DEF TypeInv, TypeOK
<1>a. /\ worker[w].job \in Jobs
      /\ worker[w].seen \in SM!Statuses
      /\ worker[w].todo \in SUBSET Orders
  BY <1>0 DEF WorkerStates
<1>b. GoodWorker(worker[w])
  BY DEF TypeInv, WorkerOK
<1>1. CASE LoadPayment(w)
  <2> DEFINE e == worker[w].job.arg
  <2>1. e \in Events /\ EventOrder[e] \in Orders \cup {NoOrder}
    BY <1>1, <1>a, JobKinds DEF LoadPayment, Starts
  <2>2. CASE EventOrder[e] = NoOrder
    BY <1>0, <1>1, <2>1, <2>2, IdleTyped, WorkerMoves DEF LoadPayment, Acknowledge
  <2>3. CASE EventOrder[e] # NoOrder
    <3> DEFINE r == [worker[w] EXCEPT !.pc = "save_payment",
                                      !.seen = order[EventOrder[e]]]
    <3>1. r \in WorkerStates
      BY <1>0, <2>1, <2>3 DEF WorkerStates
    <3>2. GoodWorker(r)
      BY <1>0, <1>1, <2>1, <2>3 DEF LoadPayment, Starts, GoodWorker, WorkerStates
    <3>3. worker' = [worker EXCEPT ![w] = r]
      BY <1>1, <2>3 DEF LoadPayment
    <3>4. UNCHANGED <<order, aged, payment, shipment, tracking, event, queue,
                      thread, handled, raised>>
      BY <1>1, <2>3 DEF LoadPayment
    <3> HIDE DEF r
    <3>. QED
      BY <1>0, <3>1, <3>2, <3>3, <3>4, WorkerMoves
  <2>. QED
    BY <2>2, <2>3
<1>2. CASE SavePayment(w)
  <2> DEFINE e == worker[w].job.arg
             r == [worker[w] EXCEPT !.pc = "pay"]
  <2>1. e \in Events
    BY <1>2, <1>a, <1>b, JobKinds DEF SavePayment, GoodWorker
  <2>2. payment' \in [Orders -> PaymentStatuses]
    BY <1>0, <1>2 DEF SavePayment, PaymentStatuses
  <2>3. CASE worker[w].seen = "pending"
    <3>1. r \in WorkerStates /\ GoodWorker(r)
      BY <1>0, <1>2, <1>b, <2>3 DEF SavePayment, GoodWorker, WorkerStates
    <3>2. worker' = [worker EXCEPT ![w] = r]
      BY <1>2, <2>3 DEF SavePayment, Goto
    <3>3. UNCHANGED <<order, aged, shipment, tracking, event, queue, thread,
                      handled, raised>>
      BY <1>2, <2>3 DEF SavePayment
    <3> HIDE DEF r
    <3>. QED
      BY <1>0, <2>2, <3>1, <3>2, <3>3, WorkerMoves
  <2>4. CASE worker[w].seen # "pending"
    <3>1. /\ worker' = [worker EXCEPT ![w] = IdleWorker]
          /\ handled' = handled \cup {e}
          /\ UNCHANGED <<order, aged, shipment, tracking, event, queue, thread,
                         raised>>
      BY <1>2, <2>4 DEF SavePayment, Acknowledge
    <3>. QED
      BY <1>0, <2>1, <2>2, <3>1, IdleTyped, WorkerMoves
  <2>. QED
    BY <2>3, <2>4
<1>3. CASE Pay(w)
  <2>1. worker[w].job.arg \in Events
    BY <1>3, <1>a, <1>b, JobKinds DEF Pay, GoodWorker
  <2>2. order' \in [Orders -> SM!Statuses]
    BY <1>0, <1>3, <1>b, Edges DEF Pay, GoodWorker, WriteTransition, SM!Statuses
  <2>. QED
    BY <1>0, <1>3, <2>1, <2>2, IdleTyped, WorkerMoves DEF Pay, Acknowledge
<1>4. CASE HandlePaymentFailed(w)
  <2>1. worker[w].job.arg \in Events
    BY <1>4, <1>a, JobKinds DEF HandlePaymentFailed, Starts
  <2>2. payment' \in [Orders -> PaymentStatuses]
    BY <1>0, <1>4 DEF HandlePaymentFailed, PaymentStatuses
  <2>. QED
    BY <1>0, <1>4, <2>1, <2>2, IdleTyped, WorkerMoves
       DEF HandlePaymentFailed, Acknowledge
<1>5. CASE HandleNothing(w)
  <2>1. worker[w].job.arg \in Events
    BY <1>5, <1>a, JobKinds DEF HandleNothing
  <2>. QED
    BY <1>0, <1>5, <2>1, IdleTyped, WorkerMoves DEF HandleNothing, Acknowledge
<1>6. CASE OpenSweep(w)
  <2> DEFINE stale == {o \in aged : order[o] = "pending"}
             r == [worker[w] EXCEPT !.pc = "sweep", !.todo = stale]
  <2>1. UNCHANGED <<order, aged, payment, shipment, tracking, event, queue,
                    thread, handled, raised>>
    BY <1>6 DEF OpenSweep, Sweep
  <2>2. CASE stale = {}
    BY <1>0, <1>6, <2>1, <2>2, IdleTyped, WorkerMoves
       DEF OpenSweep, Sweep, Acknowledge
  <2>3. CASE stale # {}
    <3>1. r \in WorkerStates
      BY <1>0 DEF WorkerStates
    <3>2. GoodWorker(r)
      BY <1>0, <1>6 DEF OpenSweep, Sweep, Starts, GoodWorker, WorkerStates
    <3>3. worker' = [worker EXCEPT ![w] = r]
      BY <1>6, <2>3 DEF OpenSweep, Sweep
    <3> HIDE DEF r
    <3>. QED
      BY <1>0, <2>1, <3>1, <3>2, <3>3, WorkerMoves
  <2>. QED
    BY <2>2, <2>3
<1>7. CASE CancelStale(w)
  <2>1. PICK o \in worker[w].todo :
               /\ order' = [order EXCEPT ![o] = "cancelled"]
               /\ IF worker[w].todo = {o}
                    THEN worker' = [worker EXCEPT ![w] = IdleWorker]
                    ELSE worker' = [worker EXCEPT ![w].todo = @ \ {o}]
    BY <1>7, Edges DEF CancelStale, WriteTransition, Acknowledge
  <2> DEFINE r == [worker[w] EXCEPT !.todo = @ \ {o}]
  <2>2. order' \in [Orders -> SM!Statuses]
    BY <1>0, <2>1 DEF SM!Statuses
  <2>3. UNCHANGED <<aged, payment, shipment, tracking, event, queue, thread,
                    handled, raised>>
    BY <1>7 DEF CancelStale
  <2>4. CASE worker[w].todo = {o}
    BY <1>0, <2>1, <2>2, <2>3, <2>4, IdleTyped, WorkerMoves
  <2>5. CASE worker[w].todo # {o}
    <3>1. r \in WorkerStates
      BY <1>0 DEF WorkerStates
    <3>2. GoodWorker(r)
      BY <1>0, <1>7, <1>b DEF CancelStale, GoodWorker, WorkerStates
    <3>3. worker' = [worker EXCEPT ![w] = r]
      BY <2>1, <2>5
    <3> HIDE DEF r
    <3>. QED
      BY <1>0, <2>2, <2>3, <3>1, <3>2, <3>3, WorkerMoves
  <2>. QED
    BY <2>4, <2>5
<1>8. CASE LoadOrder(w)
  <2> DEFINE r == [worker[w] EXCEPT !.pc = "create_shipment",
                                    !.seen = order[worker[w].job.arg]]
  <2>1. worker[w].job.arg \in Orders
    BY <1>8, <1>a, JobKinds DEF LoadOrder, Starts
  <2>2. r \in WorkerStates
    BY <1>0, <2>1 DEF WorkerStates
  <2>3. GoodWorker(r)
    BY <1>0, <1>8 DEF LoadOrder, Starts, GoodWorker, WorkerStates
  <2>4. worker' = [worker EXCEPT ![w] = r]
    BY <1>8 DEF LoadOrder
  <2>5. UNCHANGED <<order, aged, payment, shipment, tracking, event, queue,
                    thread, handled, raised>>
    BY <1>8 DEF LoadOrder
  <2> HIDE DEF r
  <2>. QED
    BY <1>0, <2>2, <2>3, <2>4, <2>5, WorkerMoves
<1>9. CASE CreateShipment(w)
  <2> DEFINE r == [worker[w] EXCEPT !.pc = "label"]
  <2>1. r \in WorkerStates /\ GoodWorker(r)
    BY <1>0, <1>9, <1>b DEF CreateShipment, GoodWorker, WorkerStates
  <2>2. worker' = [worker EXCEPT ![w] = r]
    BY <1>9 DEF CreateShipment, Goto
  <2>3. shipment' \in [Orders -> ShipmentStatuses]
    BY <1>0, <1>9 DEF CreateShipment, ShipmentStatuses
  <2>4. UNCHANGED <<order, aged, payment, tracking, event, queue, thread,
                    handled, raised>>
    BY <1>9 DEF CreateShipment
  <2> HIDE DEF r
  <2>. QED
    BY <1>0, <2>1, <2>2, <2>3, <2>4, WorkerMoves
<1>10. CASE RequestLabel(w)
  <2> DEFINE r == [worker[w] EXCEPT !.pc = "fulfill"]
  <2>1. r \in WorkerStates /\ GoodWorker(r)
    BY <1>0, <1>10, <1>b DEF RequestLabel, GoodWorker, WorkerStates
  <2>2. worker' = [worker EXCEPT ![w] = r]
    BY <1>10 DEF RequestLabel, Goto
  <2>3. shipment' \in [Orders -> ShipmentStatuses]
    BY <1>0, <1>10 DEF RequestLabel, ShipmentStatuses
  <2>4. UNCHANGED <<order, aged, payment, tracking, event, queue, thread,
                    handled, raised>>
    BY <1>10 DEF RequestLabel
  <2> HIDE DEF r
  <2>. QED
    BY <1>0, <2>1, <2>2, <2>3, <2>4, WorkerMoves
<1>11. CASE Fulfill(w)
  <2>1. order' \in [Orders -> SM!Statuses]
    BY <1>0, <1>11, <1>a, Edges DEF Fulfill, WriteTransition, SM!Statuses
  <2>. QED
    BY <1>0, <1>11, <2>1, IdleTyped, WorkerMoves DEF Fulfill, Acknowledge
<1>12. CASE TaskRaises(w)
  BY <1>0, <1>12, IdleTyped, WorkerMoves DEF TaskRaises, Acknowledge
<1>. QED
  BY <1>1, <1>2, <1>3, <1>4, <1>5, <1>6, <1>7, <1>8, <1>9, <1>10, <1>11,
     <1>12 DEF TaskStep, TaskRuns

LEMMA RequestTypes ==
    ASSUME TypeInv, NEW t \in Threads, RequestStep(t) PROVE TypeInv'
<1>0. /\ order \in [Orders -> SM!Statuses]
      /\ shipment \in [Orders -> ShipmentStatuses]
      /\ event \in [Events -> {"none", "persisted", "processed"}]
      /\ tracking \subseteq Orders
      /\ queue \in [Jobs -> Nat]
      /\ thread[t] \in ThreadStates
  BY DEF TypeInv, TypeOK
<1>b. GoodThread(thread[t])
  BY DEF TypeInv, ThreadOK
<1>1. CASE DispatchEvent(t)
  <2> DEFINE r == [thread[t] EXCEPT !.pc = "mark"]
  <2>1. r \in ThreadStates /\ GoodThread(r)
    BY <1>0, <1>1, <1>b DEF DispatchEvent, GoodThread, ThreadStates
  <2>2. thread' = [thread EXCEPT ![t] = r]
    BY <1>1 DEF DispatchEvent
  <2>3. queue' \in [Jobs -> Nat]
    BY <1>0, <1>1, <1>b, JobsTyped DEF DispatchEvent, Enqueue, GoodThread
  <2>4. UNCHANGED <<order, aged, payment, shipment, tracking, event, worker,
                    handled, raised>>
    BY <1>1 DEF DispatchEvent
  <2> HIDE DEF r
  <2>. QED
    BY <1>0, <2>1, <2>2, <2>3, <2>4, ThreadMoves
<1>2. CASE MarkProcessed(t)
  <2>1. event' \in [Events -> {"none", "persisted", "processed"}]
    BY <1>0, <1>2 DEF MarkProcessed
  <2>. QED
    BY <1>0, <1>2, <2>1, IdleTyped, ThreadMoves DEF MarkProcessed
<1>3. CASE SaveShipment(t)
  <2> DEFINE r == [thread[t] EXCEPT !.pc = "load_order"]
  <2>1. shipment' \in [Orders -> ShipmentStatuses]
    BY <1>0, <1>3 DEF SaveShipment, ShipmentStatuses, ThreadStates
  <2>2. UNCHANGED <<order, aged, payment, tracking, event, queue, worker,
                    handled, raised>>
    BY <1>3 DEF SaveShipment
  <2>3. CASE thread[t].status = "delivered"
    <3>1. r \in ThreadStates /\ GoodThread(r)
      BY <1>0, <1>3, <1>b, <2>3 DEF SaveShipment, GoodThread, ThreadStates
    <3>2. thread' = [thread EXCEPT ![t] = r]
      BY <1>3, <2>3 DEF SaveShipment
    <3> HIDE DEF r
    <3>. QED
      BY <1>0, <2>1, <2>2, <3>1, <3>2, ThreadMoves
  <2>4. CASE thread[t].status # "delivered"
    <3>1. thread' = [thread EXCEPT ![t] = IdleThread]
      BY <1>3, <2>4 DEF SaveShipment
    <3>. QED
      BY <1>0, <2>1, <2>2, <3>1, IdleTyped, ThreadMoves
  <2>. QED
    BY <2>3, <2>4
<1>4. CASE LoadDelivered(t)
  <2> DEFINE r == [thread[t] EXCEPT !.pc = "deliver"]
  <2>1. r \in ThreadStates /\ GoodThread(r)
    BY <1>0, <1>4, <1>b DEF LoadDelivered, GoodThread, ThreadStates
  <2>2. \/ thread' = [thread EXCEPT ![t] = r]
        \/ thread' = [thread EXCEPT ![t] = IdleThread]
    BY <1>4 DEF LoadDelivered
  <2>3. UNCHANGED <<order, aged, payment, shipment, tracking, event, queue,
                    worker, handled, raised>>
    BY <1>4 DEF LoadDelivered
  <2> HIDE DEF r
  <2>. QED
    BY <1>0, <2>1, <2>2, <2>3, IdleTyped, ThreadMoves
<1>5. CASE Deliver(t)
  <2>1. order' \in [Orders -> SM!Statuses]
    BY <1>0, <1>5, Edges DEF Deliver, WriteTransition, SM!Statuses
  <2>. QED
    BY <1>0, <1>5, <2>1, IdleTyped, ThreadMoves DEF Deliver
<1>. QED
  BY <1>1, <1>2, <1>3, <1>4, <1>5 DEF RequestStep

LEMMA TypeStep == TypeInv /\ [Next]_vars => TypeInv'
<1> SUFFICES ASSUME TypeInv, [Next]_vars PROVE TypeInv'
  OBVIOUS
<1> USE OrderFlowAssumption
<1>0. /\ order \in [Orders -> SM!Statuses]
      /\ payment \in [Orders -> PaymentStatuses]
      /\ shipment \in [Orders -> ShipmentStatuses]
      /\ event \in [Events -> {"none", "persisted", "processed"}]
      /\ queue \in [Jobs -> Nat]
      /\ worker \in [Workers -> WorkerStates]
      /\ thread \in [Threads -> ThreadStates]
      /\ handled \subseteq Events /\ raised \subseteq Events
      /\ aged \subseteq Orders /\ tracking \subseteq Orders
  BY DEF TypeInv, TypeOK
<1>1. ASSUME NEW w \in Workers, NEW j \in Jobs, Take(w, j) PROVE TypeInv'
  <2> DEFINE r == [IdleWorker EXCEPT !.pc = "start", !.job = j]
  <2>1. r \in WorkerStates /\ GoodWorker(r)
    BY IdleTyped DEF GoodWorker, IdleWorker, WorkerStates
  <2>2. queue' \in [Jobs -> Nat]
    BY <1>0, <1>1 DEF Take
  <2>3. /\ worker' = [worker EXCEPT ![w] = r]
        /\ UNCHANGED <<order, aged, payment, shipment, tracking, event, thread,
                       handled, raised>>
    BY <1>1 DEF Take
  <2> HIDE DEF r
  <2>. QED
    BY <1>0, <2>1, <2>2, <2>3, WorkerMoves
<1>2. ASSUME NEW w \in Workers, LoseWorker(w) PROVE TypeInv'
  <2>1. queue' \in [Jobs -> Nat]
    BY <1>0, <1>2 DEF LoseWorker, WorkerStates
  <2>. QED
    BY <1>0, <1>2, <2>1, IdleTyped, WorkerMoves DEF LoseWorker
<1>3. ASSUME NEW t \in Threads, NEW e \in Events, ReceiveEvent(t, e) PROVE TypeInv'
  <2> DEFINE r == [thread[t] EXCEPT !.pc = "dispatch", !.event = e]
  <2>1. thread[t] \in ThreadStates
    BY <1>0
  <2>2. r \in ThreadStates /\ GoodThread(r)
    BY <2>1 DEF GoodThread, ThreadStates
  <2>3. event' \in [Events -> {"none", "persisted", "processed"}]
    BY <1>0, <1>3 DEF ReceiveEvent
  <2>4. /\ thread' = [thread EXCEPT ![t] = r]
        /\ UNCHANGED <<order, aged, payment, shipment, tracking, queue, worker,
                       handled, raised>>
    BY <1>3 DEF ReceiveEvent
  <2> HIDE DEF r
  <2>. QED
    BY <1>0, <2>2, <2>3, <2>4, ThreadMoves
<1>4. ASSUME NEW t \in Threads, NEW o \in Orders, NEW s \in CarrierStatuses,
             ReceiveTracking(t, o, s)
      PROVE  TypeInv'
  <2> DEFINE r == [thread[t] EXCEPT !.pc = "save_shipment", !.order = o,
                                    !.status = s]
  <2>1. thread[t] \in ThreadStates
    BY <1>0
  <2>2. r \in ThreadStates /\ GoodThread(r)
    BY <2>1 DEF GoodThread, ThreadStates
  <2>3. tracking' \subseteq Orders
    BY <1>0, <1>4 DEF ReceiveTracking
  <2>4. /\ thread' = [thread EXCEPT ![t] = r]
        /\ UNCHANGED <<order, aged, payment, shipment, event, queue, worker,
                       handled, raised>>
    BY <1>4 DEF ReceiveTracking
  <2> HIDE DEF r
  <2>. QED
    BY <1>0, <2>2, <2>3, <2>4, ThreadMoves
<1>5. ASSUME NEW t \in Threads, LoseThread(t) PROVE TypeInv'
  BY <1>0, <1>5, IdleTyped, ThreadMoves DEF LoseThread
<1>6. ASSUME UNCHANGED <<order, payment, shipment, tracking, event, worker,
                         thread, handled, raised>>,
             aged \subseteq aged', aged' \subseteq Orders,
             queue' \in [Jobs -> Nat]
      PROVE  TypeInv'
  <2>1. ASSUME NEW w \in Workers PROVE WorkerOK(w)'
    BY <1>6 DEF TypeInv, WorkerOK, GoodWorker
  <2>2. ASSUME NEW t \in Threads PROVE ThreadOK(t)'
    BY <1>6 DEF TypeInv, ThreadOK, GoodThread
  <2>. QED
    BY <1>0, <1>6, <2>1, <2>2 DEF TypeInv, TypeOK
<1>7. ASSUME NEW o \in Orders, Age(o) PROVE TypeInv'
  BY <1>0, <1>6, <1>7 DEF Age
<1>8. CASE Beat
  BY <1>0, <1>6, <1>8, JobsTyped DEF Beat, Enqueue
<1>9. ASSUME NEW o \in Orders, RequestFulfill(o) PROVE TypeInv'
  BY <1>0, <1>6, <1>9, JobsTyped DEF RequestFulfill, Enqueue
<1>10. CASE UNCHANGED vars
  BY <1>0, <1>6, <1>10 DEF vars
<1>. QED
  BY <1>1, <1>2, <1>3, <1>4, <1>5, <1>7, <1>8, <1>9, <1>10, TaskTypes,
     RequestTypes DEF Next

\* Every reachable state is well typed.
THEOREM TypeCorrect == Spec => []TypeOK
<1>1. TypeInv => TypeOK
  BY DEF TypeInv
<1>. QED
  BY TypeInit, TypeStep, <1>1, PTL DEF Spec

-----------------------------------------------------------------------------
(* Jobs are neither invented nor lost *)

\* A task's step touches no other process, nor what webhooks and time change;
\* its job stays the worker's until the task has run to its end.
LEMMA TaskFrame ==
    ASSUME TypeInv, NEW w \in Workers, TaskStep(w)
    PROVE  /\ UNCHANGED <<aged, tracking, event, queue, thread>>
           /\ worker[w].pc # "idle"
           /\ \A x \in Workers \ {w} : worker'[x] = worker[x]
           /\ worker'[w].pc # "idle" => worker'[w].job = worker[w].job
           /\ handled \subseteq handled'
           /\ raised \subseteq raised'
<1>0. worker \in [Workers -> WorkerStates]
  BY DEF TypeInv, TypeOK
<1> USE <1>0 DEF Goto, Acknowledge, IdleWorker, Starts, WorkerStates
<1>1. CASE LoadPayment(w)
  BY <1>1 DEF LoadPayment
<1>2. CASE SavePayment(w)
  BY <1>2 DEF SavePayment
<1>3. CASE Pay(w)
  BY <1>3 DEF Pay
<1>4. CASE HandlePaymentFailed(w)
  BY <1>4 DEF HandlePaymentFailed
<1>5. CASE HandleNothing(w)
  BY <1>5 DEF HandleNothing
<1>6. CASE OpenSweep(w)
  BY <1>6 DEF OpenSweep, Sweep
<1>7. CASE CancelStale(w)
  BY <1>7 DEF CancelStale
<1>8. CASE LoadOrder(w)
  BY <1>8 DEF LoadOrder
<1>9. CASE CreateShipment(w)
  BY <1>9 DEF CreateShipment
<1>10. CASE RequestLabel(w)
  BY <1>10 DEF RequestLabel
<1>11. CASE Fulfill(w)
  BY <1>11 DEF Fulfill
<1>12. CASE TaskRaises(w)
  BY <1>12 DEF TaskRaises
<1>. QED
  BY <1>1, <1>2, <1>3, <1>4, <1>5, <1>6, <1>7, <1>8, <1>9, <1>10, <1>11,
     <1>12 DEF TaskStep, TaskRuns

\* The events whose task has come to an end, well or badly.
Ended == handled \cup raised

\* A handler's task goes idle only with its event handled, or by raising.
LEMMA TaskHandles ==
    ASSUME TypeInv, NEW w \in Workers, TaskStep(w),
           NEW e \in Events, Handled(e), worker[w].job = EventJob(e),
           worker'[w].pc = "idle"
    PROVE  e \in Ended'
<1>1. worker[w] \in WorkerStates /\ worker[w].job \in Jobs /\ WorkerOK(w)
  BY DEF WorkerStates, TypeInv, TypeOK
<1>2. worker[w].job.arg = e
  BY DEF EventJob
<1>3. worker[w].job.task \notin {"fulfill", "sweep_unpaid_orders"}
  BY <1>1, JobKinds
<1>4. CASE LoadPayment(w)
  BY <1>1, <1>2, <1>4 DEF Ended, LoadPayment, TypeInv, TypeOK, WorkerStates
<1>5. CASE SavePayment(w)
  BY <1>1, <1>2, <1>5 DEF Ended, SavePayment, Goto, TypeInv, TypeOK, WorkerStates
<1>6. CASE Pay(w) \/ HandlePaymentFailed(w) \/ HandleNothing(w)
  BY <1>2, <1>6 DEF Ended, Pay, HandlePaymentFailed, HandleNothing
<1>7. CASE OpenSweep(w) \/ LoadOrder(w)
  BY <1>3, <1>7 DEF OpenSweep, Sweep, LoadOrder, Starts
<1>8. CASE CancelStale(w) \/ CreateShipment(w) \/ RequestLabel(w) \/ Fulfill(w)
  BY <1>1, <1>3, <1>8 DEF WorkerOK, GoodWorker, CancelStale, CreateShipment,
                          RequestLabel, Fulfill
<1>9. CASE TaskRaises(w)
  BY <1>9 DEF TaskRaises, Ended
<1>. QED
  BY <1>4, <1>5, <1>6, <1>7, <1>8, <1>9 DEF TaskStep, TaskRuns, Ended

\* The rest of Next never takes a waiting or running job away, nor adds one
\* except where it says so.
LEMMA OutstandingKept ==
    ASSUME TypeInv, [Next]_vars, NEW j \in Jobs, Outstanding(j)
    PROVE  \/ Outstanding(j)'
           \/ \E e \in Events : j = EventJob(e) /\ Handled(e) /\ e \in Ended'
           \/ \A e \in Events : Handled(e) => j # EventJob(e)
<1> USE DEF TypeInv, TypeOK, Outstanding, Running
<1>1. ASSUME NEW w \in Workers, TaskStep(w), NEW e \in Events, Handled(e),
             j = EventJob(e)
      PROVE  Outstanding(j)' \/ e \in Ended'
  BY <1>1, TaskFrame, TaskHandles
<1>2. ASSUME NEW w \in Workers, NEW k \in Jobs, Take(w, k)
      PROVE  Outstanding(j)'
  <2>1. CASE k = j
    <3>1. worker'[w].pc # "idle" /\ worker'[w].job = j
      BY <1>2, <2>1 DEF Take, IdleWorker
    <3>. QED
      BY <3>1
  <2>2. CASE k # j
    <3>1. queue'[j] = queue[j]
      BY <1>2, <2>2 DEF Take
    <3>2. \A x \in Workers : worker[x].pc # "idle" => worker'[x] = worker[x]
      BY <1>2 DEF Take
    <3>. QED
      BY <3>1, <3>2
  <2>. QED
    BY <2>1, <2>2
<1>3. ASSUME NEW w \in Workers, LoseWorker(w) PROVE Outstanding(j)'
  <2>1. worker[w].job \in Jobs
    BY DEF WorkerStates
  <2>2. CASE worker[w].job = j
    BY <1>3, <2>1, <2>2 DEF LoseWorker
  <2>3. CASE worker[w].job # j
    <3>1. queue'[j] = queue[j]
      BY <1>3, <2>1, <2>3 DEF LoseWorker
    <3>2. \A x \in Workers \ {w} : worker'[x] = worker[x]
      BY <1>3 DEF LoseWorker
    <3>. QED
      BY <2>3, <3>1, <3>2
  <2>. QED
    BY <2>2, <2>3
<1>4. ASSUME NEW k \in Jobs, Enqueue(k), UNCHANGED worker PROVE Outstanding(j)'
  BY <1>4 DEF Enqueue
<1>5. ASSUME UNCHANGED <<queue, worker>> PROVE Outstanding(j)'
  BY <1>5
<1>6. ASSUME NEW t \in Threads, RequestStep(t) PROVE Outstanding(j)'
  BY <1>4, <1>5, <1>6, JobsTyped
     DEF RequestStep, DispatchEvent, MarkProcessed, SaveShipment, LoadDelivered,
         Deliver, ThreadOK, GoodThread
<1>7. ASSUME NEW t \in Threads,
             \/ LoseThread(t)
             \/ \E e \in Events : ReceiveEvent(t, e)
             \/ \E o \in Orders, s \in CarrierStatuses : ReceiveTracking(t, o, s)
      PROVE  Outstanding(j)'
  BY <1>5, <1>7 DEF LoseThread, ReceiveEvent, ReceiveTracking
<1>8. ASSUME NEW o \in Orders, Age(o) \/ RequestFulfill(o) PROVE Outstanding(j)'
  BY <1>4, <1>5, <1>8, JobsTyped DEF Age, RequestFulfill
<1>9. CASE Beat
  BY <1>4, <1>9, JobsTyped DEF Beat
<1>10. CASE UNCHANGED vars
  BY <1>5, <1>10 DEF vars
<1>. QED
  BY <1>1, <1>2, <1>3, <1>6, <1>7, <1>8, <1>9, <1>10 DEF Next

-----------------------------------------------------------------------------
(* Events: persisted first, never lost *)

\* What a request knows of the event it carries.
EventInv ==
    /\ PersistedBeforeProcessing
    /\ NoLostEvent
    /\ \A t \in Threads :
          /\ thread[t].pc \in {"dispatch", "mark"} => event[thread[t].event] # "none"
          /\ thread[t].pc = "mark" /\ Handled(thread[t].event)
               => \/ Outstanding(EventJob(thread[t].event))
                  \/ thread[t].event \in Ended

LEMMA EventInit == Init => EventInv
<1> SUFFICES ASSUME Init PROVE EventInv
  OBVIOUS
<1>1. \A e \in Events : Handled(e) => ~Outstanding(EventJob(e))
  BY JobsTyped DEF Init, Outstanding, Running, IdleWorker
<1>2. \A e \in Events : event[e] = "none"
  BY DEF Init
<1>3. \A t \in Threads : thread[t].pc = "idle"
  BY DEF Init, IdleThread
<1>. QED
  BY <1>1, <1>2, <1>3
     DEF EventInv, PersistedBeforeProcessing, NoLostEvent

\* The event table only fills up: rows are created and marked, never deleted.
LEMMA EventsKept ==
    ASSUME TypeInv, [Next]_vars
    PROVE  /\ \A e \in Events : event[e] # "none" => event'[e] # "none"
           /\ Ended \subseteq Ended'
<1> USE DEF TypeInv, TypeOK
<1>1. ASSUME NEW w \in Workers, TaskStep(w)
      PROVE  event' = event /\ Ended \subseteq Ended'
  BY <1>1, TaskFrame DEF Ended
<1>2. ASSUME NEW t \in Threads, NEW e \in Events, ReceiveEvent(t, e)
      PROVE  /\ \A d \in Events : event[d] # "none" => event'[d] # "none"
             /\ Ended' = Ended
  BY <1>2 DEF ReceiveEvent, Ended
<1>3. ASSUME NEW t \in Threads, RequestStep(t)
      PROVE  /\ \A d \in Events : event[d] # "none" => event'[d] # "none"
             /\ Ended' = Ended
  BY <1>3 DEF RequestStep, DispatchEvent, MarkProcessed, SaveShipment,
              LoadDelivered, Deliver, Ended
<1>. QED
  BY <1>1, <1>2, <1>3
     DEF Ended, Next, Take, LoseWorker, LoseThread, ReceiveTracking, Age, Beat,
         RequestFulfill, vars

\* Only a dispatching request makes a handler's job outstanding.
LEMMA OutstandingFrom ==
    ASSUME TypeInv, [Next]_vars, NEW e \in Events, Handled(e),
           Outstanding(EventJob(e))'
    PROVE  \/ Outstanding(EventJob(e))
           \/ \E t \in Threads : thread[t].pc = "dispatch" /\ thread[t].event = e
<1> DEFINE j == EventJob(e)
<1>0. j \in Jobs
  BY JobsTyped
<1> HIDE DEF j
<1> SUFFICES ASSUME ~Outstanding(j)
             PROVE  \E t \in Threads : thread[t].pc = "dispatch"
                                        /\ thread[t].event = e
  BY DEF j
<1>a. Outstanding(j)'
  BY DEF j
<1>b. queue[j] = 0 /\ \A x \in Workers : worker[x].pc # "idle" => worker[x].job # j
  BY <1>0 DEF Outstanding, Running, TypeInv, TypeOK
<1> USE DEF TypeInv, TypeOK, Outstanding, Running
<1>1. ASSUME NEW w \in Workers, TaskStep(w) PROVE FALSE
  BY <1>1, <1>a, <1>b, TaskFrame
<1>2. ASSUME NEW w \in Workers, NEW k \in Jobs, Take(w, k) PROVE FALSE
  BY <1>0, <1>2, <1>a, <1>b DEF Take, IdleWorker
<1>3. ASSUME NEW w \in Workers, LoseWorker(w) PROVE FALSE
  BY <1>0, <1>3, <1>a, <1>b DEF LoseWorker, IdleWorker, WorkerStates
<1>4. ASSUME NEW k \in Jobs, Enqueue(k), k # j, UNCHANGED worker PROVE FALSE
  BY <1>0, <1>4, <1>a, <1>b DEF Enqueue
<1>5. ASSUME UNCHANGED <<queue, worker>> PROVE FALSE
  BY <1>5, <1>a, <1>b
<1>6. \A o \in Orders : FulfillJob(o) # j /\ SweepJob # j
  BY JobsTyped, JobKinds DEF FulfillJob, SweepJob, j
<1>7. ASSUME NEW t \in Threads, RequestStep(t)
      PROVE  thread[t].pc = "dispatch" /\ thread[t].event = e
  <2>1. CASE DispatchEvent(t)
    <3>1. Handled(thread[t].event) /\ Enqueue(EventJob(thread[t].event))
      BY <1>5, <2>1 DEF DispatchEvent
    <3>2. thread[t].event \in Events /\ EventJob(thread[t].event) \in Jobs
      BY <2>1, <3>1, JobsTyped DEF DispatchEvent, ThreadOK, GoodThread
    <3>3. EventJob(thread[t].event) = j
      BY <1>4, <2>1, <3>1, <3>2 DEF DispatchEvent
    <3>. QED
      BY <2>1, <3>3 DEF DispatchEvent, EventJob, j
  <2>2. CASE ~DispatchEvent(t)
    BY <1>5, <1>7, <2>2 DEF RequestStep, MarkProcessed, SaveShipment,
                            LoadDelivered, Deliver
  <2>. QED
    BY <2>1, <2>2
<1>8. ASSUME NEW t \in Threads,
             \/ LoseThread(t)
             \/ \E d \in Events : ReceiveEvent(t, d)
             \/ \E o \in Orders, s \in CarrierStatuses : ReceiveTracking(t, o, s)
      PROVE  FALSE
  BY <1>5, <1>8 DEF LoseThread, ReceiveEvent, ReceiveTracking
<1>9. ASSUME NEW o \in Orders, Age(o) \/ RequestFulfill(o) PROVE FALSE
  BY <1>4, <1>5, <1>6, <1>9, JobsTyped DEF Age, RequestFulfill
<1>10. CASE Beat
  <2>1. SweepJob # j
    BY JobsTyped, JobKinds DEF SweepJob, j
  <2>. QED
    BY <1>4, <1>10, <2>1, JobsTyped DEF Beat
<1>11. CASE UNCHANGED vars
  BY <1>5, <1>11 DEF vars
<1>. QED
  BY <1>1, <1>2, <1>3, <1>7, <1>8, <1>9, <1>10, <1>11 DEF Next

LEMMA EventStep == TypeInv /\ EventInv /\ [Next]_vars => EventInv'
<1> SUFFICES ASSUME TypeInv, EventInv, [Next]_vars PROVE EventInv'
  OBVIOUS
<1> DEFINE Safe(e) == Outstanding(EventJob(e)) \/ e \in Ended
<1>1. ASSUME NEW e \in Events, Handled(e), Safe(e) PROVE Safe(e)'
  <2>1. CASE e \in Ended
    BY <2>1, EventsKept
  <2>2. CASE Outstanding(EventJob(e))
    <3>1. EventJob(e) \in Jobs
      BY <1>1, JobsTyped
    <3>2. ASSUME NEW d \in Events, EventJob(e) = EventJob(d) PROVE d = e
      BY <3>2 DEF EventJob
    <3>. QED
      BY <1>1, <2>2, <3>1, <3>2, OutstandingKept
  <2>. QED
    BY <1>1, <2>1, <2>2
<1>2. PersistedBeforeProcessing'
  <2> SUFFICES ASSUME NEW e \in Events, Handled(e), Outstanding(EventJob(e))'
               PROVE  event'[e] # "none"
    BY DEF PersistedBeforeProcessing, Handled
  <2>1. event[e] # "none"
    BY OutstandingFrom DEF EventInv, PersistedBeforeProcessing
  <2>. QED
    BY <2>1, EventsKept
<1>3. ASSUME NEW t \in Threads, RequestStep(t) \/ LoseThread(t)
      PROVE  /\ \A x \in Threads \ {t} : thread'[x] = thread[x]
             /\ thread'[t].pc = "mark"
                  => /\ thread[t].pc = "dispatch"
                     /\ thread'[t].event = thread[t].event
                     /\ Handled(thread[t].event)
                          => Outstanding(EventJob(thread[t].event))'
             /\ thread'[t].pc # "dispatch"
  <2>1. CASE DispatchEvent(t)
    <3>1. thread[t].event \in Events
      BY <2>1 DEF DispatchEvent, TypeInv, ThreadOK, GoodThread
    <3>2. ASSUME Handled(thread[t].event)
          PROVE  Outstanding(EventJob(thread[t].event))'
      <4>1. queue'[EventJob(thread[t].event)] > 0
        BY <2>1, <3>1, <3>2, JobsTyped DEF DispatchEvent, Enqueue, TypeInv, TypeOK
      <4>. QED
        BY <2>1, <4>1 DEF Outstanding, EventJob, DispatchEvent
    <3>3. /\ thread[t].pc = "dispatch"
          /\ thread' = [thread EXCEPT ![t].pc = "mark"]
      BY <2>1 DEF DispatchEvent
    <3>. QED
      BY <3>2, <3>3 DEF TypeInv, TypeOK, ThreadStates
  <2>2. CASE ~DispatchEvent(t)
    <3>1. thread \in [Threads -> ThreadStates]
      BY DEF TypeInv, TypeOK
    <3>. QED
      BY <1>3, <2>2, <3>1
         DEF RequestStep, MarkProcessed, SaveShipment, LoadDelivered, Deliver,
             LoseThread, IdleThread, ThreadStates
  <2>. QED
    BY <2>1, <2>2
<1>4. ASSUME NEW t \in Threads, NEW d \in Events, ReceiveEvent(t, d)
      PROVE  /\ \A x \in Threads \ {t} : thread'[x] = thread[x]
             /\ thread'[t].pc = "dispatch" /\ thread'[t].event = d
             /\ event'[d] = "persisted"
             /\ \A e \in Events : e # d => event'[e] = event[e]
  BY <1>4 DEF ReceiveEvent, TypeInv, TypeOK, ThreadStates
<1>5. ASSUME NEW t \in Threads, NEW o \in Orders, NEW s \in CarrierStatuses,
             ReceiveTracking(t, o, s)
      PROVE  /\ \A x \in Threads \ {t} : thread'[x] = thread[x]
             /\ thread'[t].pc = "save_shipment"
  BY <1>5 DEF ReceiveTracking, TypeInv, TypeOK, ThreadStates
<1>6. \/ thread' = thread
      \/ \E t \in Threads :
            \/ RequestStep(t) \/ LoseThread(t)
            \/ \E e \in Events : ReceiveEvent(t, e)
            \/ \E o \in Orders, s \in CarrierStatuses : ReceiveTracking(t, o, s)
  BY TaskFrame DEF Next, Take, LoseWorker, Age, Beat, RequestFulfill, vars
<1>7. ASSUME NEW x \in Threads, thread'[x].pc \in {"dispatch", "mark"}
      PROVE  event'[thread'[x].event] # "none"
  <2>1. CASE thread'[x] = thread[x]
    BY <1>7, <2>1, EventsKept DEF EventInv, TypeInv, ThreadOK, GoodThread
  <2>2. CASE thread'[x] # thread[x]
    BY <1>3, <1>4, <1>5, <1>6, <1>7, <2>2, EventsKept
       DEF EventInv, TypeInv, ThreadOK, GoodThread
  <2>. QED
    BY <2>1, <2>2
<1>8. ASSUME NEW x \in Threads, thread'[x].pc = "mark", Handled(thread'[x].event)
      PROVE  Safe(thread[x].event)'
  <2>1. CASE thread'[x] = thread[x]
    <3>1. thread[x].event \in Events /\ Safe(thread[x].event)
      BY <1>8, <2>1 DEF EventInv, TypeInv, ThreadOK, GoodThread
    <3>2. ASSUME NEW e \in Events, Handled(e), Safe(e), thread[x].event = e
          PROVE  Safe(thread[x].event)'
      BY <1>1, <2>1, <3>2
    <3>. QED
      BY <1>8, <2>1, <3>1, <3>2
  <2>2. CASE thread'[x] # thread[x]
    <3>1. /\ thread'[x].event = thread[x].event
          /\ Outstanding(EventJob(thread[x].event))'
      BY <1>3, <1>4, <1>5, <1>6, <1>8, <2>2
    <3>. QED
      BY <3>1
  <2>. QED
    BY <2>1, <2>2
<1>9. NoLostEvent'
  <2> SUFFICES ASSUME NEW e \in Events, Handled(e), event'[e] = "processed"
               PROVE  Safe(e)'
    BY DEF NoLostEvent, Handled, Ended
  <2>1. CASE event[e] = "processed"
    BY <1>1, <2>1 DEF EventInv, NoLostEvent, Ended
  <2>2. CASE event[e] # "processed"
    <3>1. PICK t \in Threads : MarkProcessed(t)
      BY <1>4, <1>6, <2>2, TaskFrame
         DEF Next, RequestStep, DispatchEvent, SaveShipment, LoadDelivered,
             Deliver, LoseThread, ReceiveTracking, Take, LoseWorker, Age, Beat,
             RequestFulfill, vars
    <3>2. thread[t].event = e /\ thread[t].pc = "mark"
      BY <2>2, <3>1 DEF MarkProcessed, TypeInv, TypeOK, ThreadOK, GoodThread
    <3>. QED
      BY <1>1, <3>2 DEF EventInv
  <2>. QED
    BY <2>1, <2>2
<1>. QED
  BY <1>2, <1>7, <1>8, <1>9 DEF EventInv

\* Every event is stored before it is processed, and none is lost after.
THEOREM EventsSafe == Spec => [](PersistedBeforeProcessing /\ NoLostEvent)
<1>1. EventInv => PersistedBeforeProcessing /\ NoLostEvent
  BY DEF EventInv
<1>. QED
  BY TypeInit, TypeStep, EventInit, EventStep, <1>1, PTL DEF Spec

\* No handler runs, or waits to run, before its event is a row, so none finds
\* "record is None", whatever is lost and resent.
THEOREM EventsPersisted == Spec => []PersistedBeforeProcessing
  BY EventsSafe, PTL

-----------------------------------------------------------------------------
(* What a status proves *)

\* What a process found when it loaded, and may rely on when it writes.
WorkerKnows(w) ==
    LET W == worker[w]
    IN  /\ W.pc \in {"create_shipment", "label", "fulfill"} /\ W.seen = "paid"
             => /\ Evidence(W.job.arg, "succeeded")
                /\ order[W.job.arg] # "pending"
        /\ W.pc \in {"label", "fulfill"} => shipment[W.job.arg] # "none"

ThreadKnows(t) ==
    LET T == thread[t]
    IN  /\ T.pc \in {"save_shipment", "load_order", "deliver"}
             => /\ shipment[T.order] # "none"
                /\ T.status = "delivered" => T.order \in tracking
        /\ T.pc = "deliver" => /\ Evidence(T.order, "succeeded")
                               /\ order[T.order] # "pending"

StatusInv ==
    /\ PaidHasEvidence
    /\ PaymentHasEvidence
    /\ LogisticsBackStatus
    /\ \A w \in Workers : WorkerKnows(w)
    /\ \A t \in Threads : ThreadKnows(t)

LEMMA StatusInit == Init => StatusInv
BY DEF Init, StatusInv, PaidHasEvidence, PaymentHasEvidence,
       LogisticsBackStatus, WorkerKnows, ThreadKnows, IdleWorker, IdleThread

\* A status changes in one of four ways, each with the process that writes it.
PaidBy(w, o) == /\ worker[w].pc = "pay"
                /\ EventOrder[worker[w].job.arg] = o
                /\ order' = [order EXCEPT ![o] = "paid"]
CancelledBy(w, o) == /\ worker[w].pc = "sweep" /\ o \in worker[w].todo
                     /\ order' = [order EXCEPT ![o] = "cancelled"]
FulfilledBy(w, o) == /\ worker[w].pc = "fulfill" /\ worker[w].seen = "paid"
                     /\ worker[w].job.arg = o
                     /\ order' = [order EXCEPT ![o] = "fulfilled"]
DeliveredBy(t, o) == /\ thread[t].pc = "deliver" /\ thread[t].order = o
                     /\ order' = [order EXCEPT ![o] = "delivered"]

LEMMA OrderWrites ==
    ASSUME TypeInv, [Next]_vars
    PROVE  \/ order' = order
           \/ \E w \in Workers, o \in Orders :
                 PaidBy(w, o) \/ CancelledBy(w, o) \/ FulfilledBy(w, o)
           \/ \E t \in Threads, o \in Orders : DeliveredBy(t, o)
<1>1. ASSUME NEW w \in Workers, Pay(w)
      PROVE  \E o \in Orders : PaidBy(w, o)
  BY <1>1, Edges DEF Pay, WriteTransition, PaidBy, TypeInv, WorkerOK, GoodWorker
<1>2. ASSUME NEW w \in Workers, CancelStale(w)
      PROVE  \E o \in Orders : CancelledBy(w, o)
  <2>1. worker[w].todo \subseteq Orders
    BY DEF TypeInv, TypeOK, WorkerStates
  <2>. QED
    BY <1>2, <2>1, Edges DEF CancelStale, WriteTransition, CancelledBy
<1>3. ASSUME NEW w \in Workers, Fulfill(w)
      PROVE  order' = order \/ \E o \in Orders : FulfilledBy(w, o)
  <2>1. worker[w].seen \in SM!Statuses /\ worker[w].job.arg \in Orders
    BY <1>3, JobKinds DEF Fulfill, TypeInv, TypeOK, WorkerOK, GoodWorker, WorkerStates
  <2>. QED
    BY <1>3, <2>1, Edges DEF Fulfill, WriteTransition, FulfilledBy
<1>4. ASSUME NEW t \in Threads, Deliver(t)
      PROVE  \E o \in Orders : DeliveredBy(t, o)
  BY <1>4, Edges DEF Deliver, WriteTransition, DeliveredBy, TypeInv, ThreadOK, GoodThread
<1>5. ASSUME NEW w \in Workers, TaskStep(w), ~Pay(w), ~CancelStale(w), ~Fulfill(w)
      PROVE  order' = order
  BY <1>5 DEF TaskStep, TaskRuns, LoadPayment, SavePayment, HandlePaymentFailed,
              HandleNothing, OpenSweep, Sweep, LoadOrder, CreateShipment, RequestLabel,
              TaskRaises
<1>6. ASSUME NEW t \in Threads, RequestStep(t), ~Deliver(t)
      PROVE  order' = order
  BY <1>6 DEF RequestStep, DispatchEvent, MarkProcessed, SaveShipment,
              LoadDelivered
<1>. QED
  BY <1>1, <1>2, <1>3, <1>4, <1>5, <1>6
     DEF Next, Take, LoseWorker, LoseThread, ReceiveEvent, ReceiveTracking, Age,
         Beat, RequestFulfill, vars

\* Nothing on record is unsaid: evidence, shipment rows and deliveries stay,
\* and no order becomes pending.
LEMMA RecordsKept ==
    ASSUME TypeInv, [Next]_vars, NEW o \in Orders
    PROVE  /\ \A type \in EventTypes : Evidence(o, type) => Evidence(o, type)'
           /\ shipment[o] # "none" => shipment'[o] # "none"
           /\ o \in tracking => o \in tracking'
           /\ order[o] # "pending" => order'[o] # "pending"
<1> USE DEF TypeInv, TypeOK
<1>1. \A type \in EventTypes : Evidence(o, type) => Evidence(o, type)'
  BY EventsKept DEF Evidence
<1>2. ASSUME NEW w \in Workers, TaskStep(w)
      PROVE  shipment[o] # "none" => shipment'[o] # "none"
  BY <1>2 DEF TaskStep, TaskRuns, LoadPayment, SavePayment, Pay, HandlePaymentFailed,
              HandleNothing, OpenSweep, Sweep, CancelStale, LoadOrder,
              CreateShipment, RequestLabel, Fulfill, TaskRaises
<1>3. ASSUME NEW t \in Threads, RequestStep(t)
      PROVE  /\ shipment[o] # "none" => shipment'[o] # "none"
             /\ tracking' = tracking
  <2>1. thread[t].status # "none"
    BY DEF ThreadStates
  <2>. QED
    BY <1>3, <2>1 DEF RequestStep, DispatchEvent, MarkProcessed, SaveShipment,
                      LoadDelivered, Deliver
<1>4. /\ shipment[o] # "none" => shipment'[o] # "none"
      /\ o \in tracking => o \in tracking'
  BY <1>2, <1>3, TaskFrame
     DEF Next, Take, LoseWorker, LoseThread, ReceiveEvent, ReceiveTracking, Age,
         Beat, RequestFulfill, vars
<1>5. order[o] # "pending" => order'[o] # "pending"
  BY OrderWrites DEF PaidBy, CancelledBy, FulfilledBy, DeliveredBy
<1>. QED
  BY <1>1, <1>4, <1>5

\* A worker in the handler of a succeeded payment holds the evidence for it.
LEMMA HandlerHasEvidence ==
    ASSUME TypeInv, EventInv, NEW w \in Workers,
           worker[w].pc # "idle",
           worker[w].job.task \in {"handle_payment_succeeded",
                                   "handle_payment_failed"}
    PROVE  LET e == worker[w].job.arg
           IN  /\ e \in Events
               /\ event[e] # "none"
               /\ worker[w].job.task = "handle_payment_succeeded"
                    => Evidence(EventOrder[e], "succeeded")
               /\ worker[w].job.task = "handle_payment_failed"
                    => Evidence(EventOrder[e], "payment_failed")
<1> DEFINE e == worker[w].job.arg
<1>1. worker[w].job \in Jobs
  BY DEF TypeInv, TypeOK, WorkerStates
<1>2. /\ e \in Events /\ Handled(e) /\ worker[w].job = EventJob(e)
      /\ worker[w].job.task = "handle_payment_succeeded"
           => EventType[e] = "succeeded"
      /\ worker[w].job.task = "handle_payment_failed"
           => EventType[e] = "payment_failed"
  BY <1>1, JobKinds
<1>3. event[e] # "none"
  BY <1>2 DEF EventInv, PersistedBeforeProcessing, Outstanding, Running
<1>. QED
  BY <1>2, <1>3 DEF Evidence

\* What a thread's record may become in one step.
LEMMA ThreadSteps ==
    ASSUME TypeInv, [Next]_vars, NEW t \in Threads
    PROVE  \/ thread'[t] = thread[t]
           \/ \E o \in Orders, s \in CarrierStatuses : ReceiveTracking(t, o, s)
           \/ SaveShipment(t) \/ LoadDelivered(t)
           \/ thread'[t].pc \in {"idle", "dispatch", "mark"}
<1>1. thread \in [Threads -> ThreadStates]
  BY DEF TypeInv, TypeOK
<1>2. ASSUME NEW x \in Threads,
             \/ RequestStep(x) \/ LoseThread(x)
             \/ \E e \in Events : ReceiveEvent(x, e)
             \/ \E o \in Orders, s \in CarrierStatuses : ReceiveTracking(x, o, s),
             x # t
      PROVE  thread'[t] = thread[t]
  BY <1>1, <1>2 DEF RequestStep, DispatchEvent, MarkProcessed, SaveShipment,
                    LoadDelivered, Deliver, LoseThread, ReceiveEvent,
                    ReceiveTracking
<1>3. ASSUME DispatchEvent(t) \/ MarkProcessed(t) \/ Deliver(t) \/ LoseThread(t)
               \/ \E e \in Events : ReceiveEvent(t, e)
      PROVE  thread'[t].pc \in {"idle", "dispatch", "mark"}
  BY <1>1, <1>3 DEF DispatchEvent, MarkProcessed, Deliver, LoseThread,
                    ReceiveEvent, IdleThread, ThreadStates
<1>. QED
  BY <1>2, <1>3, TaskFrame
     DEF Next, RequestStep, Take, LoseWorker, Age, Beat, RequestFulfill, vars

LEMMA StatusStep ==
    TypeInv /\ EventInv /\ StatusInv /\ [Next]_vars => StatusInv'
<1> SUFFICES ASSUME TypeInv, EventInv, StatusInv, [Next]_vars PROVE StatusInv'
  OBVIOUS
<1>a. "succeeded" \in EventTypes /\ "payment_failed" \in EventTypes
  BY DEF EventTypes
<1>1. PaidHasEvidence'
  <2> SUFFICES ASSUME NEW o \in Orders,
                      order'[o] \in {"paid", "fulfilled", "delivered"}
               PROVE  Evidence(o, "succeeded")'
    BY DEF PaidHasEvidence
  <2>1. CASE order'[o] = order[o]
    BY <1>a, <2>1, RecordsKept DEF StatusInv, PaidHasEvidence
  <2>2. ASSUME NEW w \in Workers, PaidBy(w, o) PROVE Evidence(o, "succeeded")
    BY <2>2, HandlerHasEvidence DEF PaidBy, TypeInv, WorkerOK, GoodWorker
  <2>3. ASSUME NEW w \in Workers, FulfilledBy(w, o) PROVE Evidence(o, "succeeded")
    BY <2>3 DEF FulfilledBy, StatusInv, WorkerKnows
  <2>4. ASSUME NEW t \in Threads, DeliveredBy(t, o) PROVE Evidence(o, "succeeded")
    BY <2>4 DEF DeliveredBy, StatusInv, ThreadKnows
  <2>5. CASE order'[o] # order[o]
    <3>1. \/ \E w \in Workers : PaidBy(w, o) \/ FulfilledBy(w, o)
          \/ \E t \in Threads : DeliveredBy(t, o)
      BY <2>5, OrderWrites
         DEF PaidBy, CancelledBy, FulfilledBy, DeliveredBy, TypeInv, TypeOK
    <3>. QED
      BY <1>a, <2>2, <2>3, <2>4, <3>1, RecordsKept
  <2>. QED
    BY <2>1, <2>5
<1>2. PaymentHasEvidence'
  <2>1. ASSUME NEW w \in Workers, SavePayment(w)
        PROVE  \E o \in Orders : /\ payment' = [payment EXCEPT ![o] = "succeeded"]
                                 /\ Evidence(o, "succeeded")
    BY <2>1, HandlerHasEvidence DEF SavePayment, TypeInv, WorkerOK, GoodWorker
  <2>2. ASSUME NEW w \in Workers, HandlePaymentFailed(w), NEW o \in Orders
        PROVE  \/ payment'[o] = payment[o]
               \/ payment'[o] = "failed" /\ Evidence(o, "payment_failed")
    <3>1. Evidence(EventOrder[worker[w].job.arg], "payment_failed")
      BY <2>2, HandlerHasEvidence DEF HandlePaymentFailed, Starts
    <3>2. payment'[o] = IF o = EventOrder[worker[w].job.arg] THEN "failed"
                                                             ELSE payment[o]
      BY <2>2 DEF HandlePaymentFailed
    <3>. QED
      BY <3>1, <3>2
  <2>3. ASSUME NEW w \in Workers, TaskStep(w), ~SavePayment(w),
               ~HandlePaymentFailed(w)
        PROVE  payment' = payment
    BY <2>3 DEF TaskStep, TaskRuns, LoadPayment, Pay, HandleNothing, OpenSweep, Sweep,
                CancelStale, LoadOrder, CreateShipment, RequestLabel, Fulfill,
                TaskRaises
  <2>4. \/ payment' = payment
        \/ \E w \in Workers : SavePayment(w) \/ HandlePaymentFailed(w)
    BY <2>3 DEF Next, RequestStep, DispatchEvent, MarkProcessed, SaveShipment,
                LoadDelivered, Deliver, Take, LoseWorker, LoseThread,
                ReceiveEvent, ReceiveTracking, Age, Beat, RequestFulfill, vars
  <2>5. ASSUME NEW o \in Orders
        PROVE  \/ payment'[o] = payment[o]
               \/ payment'[o] = "succeeded" /\ Evidence(o, "succeeded")
               \/ payment'[o] = "failed" /\ Evidence(o, "payment_failed")
    BY <2>1, <2>2, <2>4 DEF TypeInv, TypeOK
  <2>. QED
    BY <1>a, <2>5, RecordsKept DEF PaymentHasEvidence, StatusInv
<1>3. LogisticsBackStatus'
  <2> SUFFICES ASSUME NEW o \in Orders,
                      order'[o] \in {"fulfilled", "delivered"}
               PROVE  /\ shipment'[o] # "none"
                      /\ order'[o] = "delivered" => o \in tracking'
    BY DEF LogisticsBackStatus
  <2>1. CASE order'[o] = order[o]
    BY <2>1, RecordsKept DEF StatusInv, LogisticsBackStatus
  <2>2. ASSUME NEW w \in Workers, FulfilledBy(w, o)
        PROVE  shipment[o] # "none" /\ order'[o] # "delivered"
    BY <2>2 DEF FulfilledBy, StatusInv, WorkerKnows, TypeInv, TypeOK
  <2>3. ASSUME NEW t \in Threads, DeliveredBy(t, o)
        PROVE  shipment[o] # "none" /\ o \in tracking
    BY <2>3 DEF DeliveredBy, StatusInv, ThreadKnows, TypeInv, ThreadOK, GoodThread
  <2>4. CASE order'[o] # order[o]
    <3>1. \/ \E w \in Workers : FulfilledBy(w, o)
          \/ \E t \in Threads : DeliveredBy(t, o)
      BY <2>4, OrderWrites
         DEF PaidBy, CancelledBy, FulfilledBy, DeliveredBy, TypeInv, TypeOK
    <3>. QED
      BY <2>2, <2>3, <3>1, RecordsKept
  <2>. QED
    BY <2>1, <2>4
<1>4. ASSUME NEW w \in Workers PROVE WorkerKnows(w)'
  <2>1. ASSUME worker'[w] = worker[w] PROVE WorkerKnows(w)'
    <3>1. worker[w].pc \in {"create_shipment", "label", "fulfill"}
            => worker[w].job.arg \in Orders
      BY JobKinds DEF TypeInv, TypeOK, WorkerOK, GoodWorker, WorkerStates
    <3>. QED
      BY <1>a, <2>1, <3>1, RecordsKept DEF StatusInv, WorkerKnows
  <2>2. CASE LoadOrder(w)
    <3>1. worker[w].job.arg \in Orders
      BY <2>2, JobKinds DEF LoadOrder, Starts, TypeInv, TypeOK, WorkerStates
    <3>2. /\ worker'[w].job = worker[w].job
          /\ worker'[w].seen = order[worker[w].job.arg]
          /\ worker'[w].pc = "create_shipment"
          /\ order' = order
      BY <2>2 DEF LoadOrder, TypeInv, TypeOK, WorkerStates
    <3>3. ASSUME NEW o \in Orders, order[o] = "paid"
          PROVE  Evidence(o, "succeeded")'
      BY <1>a, <3>3, RecordsKept DEF StatusInv, PaidHasEvidence
    <3>. QED
      BY <3>1, <3>2, <3>3 DEF WorkerKnows
  <2>3. CASE CreateShipment(w) \/ RequestLabel(w)
    <3>1. worker[w].job.arg \in Orders
      BY <2>3, JobKinds DEF CreateShipment, RequestLabel, TypeInv, TypeOK,
                            WorkerOK, GoodWorker, WorkerStates
    <3>2. /\ worker[w].pc \in {"create_shipment", "label"}
          /\ shipment'[worker[w].job.arg] # "none"
          /\ \/ worker'[w].pc = "idle"
             \/ /\ worker'[w].job = worker[w].job
                /\ worker'[w].seen = worker[w].seen
      BY <2>3, <3>1 DEF CreateShipment, RequestLabel, Goto, Acknowledge,
                        IdleWorker, StatusInv, WorkerKnows, TypeInv, TypeOK,
                        WorkerStates
    <3>. QED
      BY <1>a, <3>1, <3>2, RecordsKept DEF StatusInv, WorkerKnows
  <2>4. ASSUME TaskStep(w), ~LoadOrder(w), ~CreateShipment(w), ~RequestLabel(w)
        PROVE  worker'[w].pc \notin {"create_shipment", "label", "fulfill"}
    <3>1. worker \in [Workers -> WorkerStates]
      BY DEF TypeInv, TypeOK
    <3>. QED
      BY <2>4, <3>1
         DEF TaskStep, TaskRuns, LoadPayment, SavePayment, Pay, HandlePaymentFailed,
             HandleNothing, OpenSweep, Sweep, CancelStale, Fulfill, TaskRaises,
             Goto, Acknowledge, IdleWorker, WorkerStates
  <2>5. \/ worker'[w] = worker[w]
        \/ TaskStep(w)
        \/ worker'[w].pc \in {"idle", "start"}
    <3>1. ASSUME NEW x \in Workers, TaskStep(x), x # w
          PROVE  worker'[w] = worker[w]
      <4>1. \A y \in Workers \ {x} : worker'[y] = worker[y]
        BY <3>1, TaskFrame
      <4>. QED
        BY <3>1, <4>1
    <3>2. ASSUME NEW x \in Workers, LoseWorker(x) \/ \E j \in Jobs : Take(x, j)
          PROVE  worker'[w] = worker[w] \/ worker'[w].pc \in {"idle", "start"}
      <4>1. worker \in [Workers -> WorkerStates]
        BY DEF TypeInv, TypeOK
      <4>2. CASE x = w
        <5>1. ASSUME LoseWorker(w) PROVE worker'[w].pc = "idle"
          BY <4>1, <5>1 DEF LoseWorker, IdleWorker
        <5>2. ASSUME NEW j \in Jobs, Take(w, j) PROVE worker'[w].pc = "start"
          BY <4>1, <5>2 DEF Take, IdleWorker
        <5>. QED
          BY <3>2, <4>2, <5>1, <5>2
      <4>3. CASE x # w
        BY <3>2, <4>1, <4>3 DEF LoseWorker, Take
      <4>. QED
        BY <4>2, <4>3
    <3>. QED
      BY <3>1, <3>2
         DEF Next, RequestStep, DispatchEvent, MarkProcessed, SaveShipment,
             LoadDelivered, Deliver, LoseThread, ReceiveEvent, ReceiveTracking,
             Age, Beat, RequestFulfill, vars
  <2>. QED
    BY <2>1, <2>2, <2>3, <2>4, <2>5 DEF WorkerKnows
<1>5. ASSUME NEW t \in Threads PROVE ThreadKnows(t)'
  <2>1. ASSUME thread'[t] = thread[t] PROVE ThreadKnows(t)'
    BY <1>a, <2>1, RecordsKept DEF StatusInv, ThreadKnows, TypeInv, ThreadOK, GoodThread
  <2>2. ASSUME NEW o \in Orders, NEW s \in CarrierStatuses,
               ReceiveTracking(t, o, s)
        PROVE  ThreadKnows(t)'
    <3>1. /\ thread'[t].pc = "save_shipment" /\ thread'[t].order = o
          /\ thread'[t].status = s
      BY <2>2 DEF ReceiveTracking, TypeInv, TypeOK, ThreadStates
    <3>2. shipment'[o] # "none" /\ (s = "delivered" => o \in tracking')
      BY <2>2 DEF ReceiveTracking
    <3>. QED
      BY <3>1, <3>2 DEF ThreadKnows
  <2>3. CASE SaveShipment(t) \/ LoadDelivered(t)
    <3>1. /\ thread[t].order \in Orders
          /\ shipment[thread[t].order] # "none"
          /\ thread[t].status = "delivered" => thread[t].order \in tracking
      BY <2>3 DEF SaveShipment, LoadDelivered, StatusInv, ThreadKnows, TypeInv,
                  ThreadOK, GoodThread
    <3>2. \/ thread'[t].pc = "idle"
          \/ /\ thread'[t].order = thread[t].order
             /\ thread'[t].status = thread[t].status
             /\ \/ thread'[t].pc = "load_order"
                \/ /\ thread'[t].pc = "deliver"
                   /\ order[thread[t].order] = "fulfilled"
                   /\ order' = order
      <4>1. thread \in [Threads -> ThreadStates] /\ order \in [Orders -> SM!Statuses]
        BY DEF TypeInv, TypeOK
      <4>. QED
        BY <2>3, <3>1, <4>1, Edges DEF SaveShipment, LoadDelivered, IdleThread,
                                       ThreadStates
    <3>3. order[thread[t].order] = "fulfilled" => Evidence(thread[t].order, "succeeded")
      BY <3>1 DEF StatusInv, PaidHasEvidence
    <3>. QED
      BY <1>a, <3>1, <3>2, <3>3, RecordsKept DEF ThreadKnows
  <2>4. \/ thread'[t] = thread[t]
        \/ \E o \in Orders, s \in CarrierStatuses : ReceiveTracking(t, o, s)
        \/ SaveShipment(t) \/ LoadDelivered(t)
        \/ thread'[t].pc \in {"idle", "dispatch", "mark"}
    BY ThreadSteps
  <2>. QED
    BY <2>1, <2>2, <2>3, <2>4 DEF ThreadKnows
<1>. QED
  BY <1>1, <1>2, <1>3, <1>4, <1>5 DEF StatusInv

LEMMA InvariantHolds == Spec => [](TypeInv /\ EventInv /\ StatusInv)
BY TypeInit, TypeStep, EventInit, EventStep, StatusInit, StatusStep, PTL DEF Spec

\* Under every interleaving, crash and redelivery: an order past pending by
\* payment has its evidence on record.
THEOREM PaidIsEvident == Spec => []PaidHasEvidence
<1>1. StatusInv => PaidHasEvidence
  BY DEF StatusInv
<1>. QED
  BY InvariantHolds, <1>1, PTL

\* The payment ledger says nothing that Stripe did not.
THEOREM PaymentIsEvident == Spec => []PaymentHasEvidence
<1>1. StatusInv => PaymentHasEvidence
  BY DEF StatusInv
<1>. QED
  BY InvariantHolds, <1>1, PTL

\* A fulfilled order has a shipment, a delivered one the carrier's word for it.
THEOREM LogisticsIsBacked == Spec => []LogisticsBackStatus
<1>1. StatusInv => LogisticsBackStatus
  BY DEF StatusInv
<1>. QED
  BY InvariantHolds, <1>1, PTL

\* No order is cancelled young, however long the sweep takes.
THEOREM CancelledIsOld == Spec => []NoEarlyCancel
<1>1. Init => NoEarlyCancel
  BY DEF Init, NoEarlyCancel
<1>2. TypeInv /\ NoEarlyCancel /\ [Next]_vars => NoEarlyCancel'
  <2> SUFFICES ASSUME TypeInv, NoEarlyCancel, [Next]_vars,
                      NEW o \in Orders, order'[o] = "cancelled"
               PROVE  o \in aged'
    BY DEF NoEarlyCancel
  <2>1. aged \subseteq aged'
    BY TaskFrame
       DEF Next, RequestStep, DispatchEvent, MarkProcessed, SaveShipment,
           LoadDelivered, Deliver, Take, LoseWorker, LoseThread, ReceiveEvent,
           ReceiveTracking, Age, Beat, RequestFulfill, vars
  <2>2. CASE order'[o] = order[o]
    BY <2>1, <2>2 DEF NoEarlyCancel
  <2>3. CASE order'[o] # order[o]
    <3>1. \E w \in Workers : CancelledBy(w, o)
      BY <2>3, OrderWrites
         DEF PaidBy, CancelledBy, FulfilledBy, DeliveredBy, TypeInv, TypeOK
    <3>. QED
      BY <2>1, <3>1 DEF CancelledBy, TypeInv, WorkerOK, GoodWorker
  <2>. QED
    BY <2>2, <2>3
<1>. QED
  BY TypeInit, TypeStep, <1>1, <1>2, PTL DEF Spec

\* No number of stale processes brings an order back to pending, or past payment
\* without it.
THEOREM PendingIsLeftOnce == Spec => PendingLeftOnce
<1> DEFINE Leaves(o) ==
             order'[o] # order[o] =>
               /\ order'[o] # "pending"
               /\ order[o] = "pending" => order'[o] \in {"paid", "cancelled"}
<1>1. ASSUME TypeInv, StatusInv, [Next]_vars, NEW o \in Orders
      PROVE  Leaves(o)
  <2>1. order \in [Orders -> SM!Statuses]
    BY <1>1 DEF TypeInv, TypeOK
  <2>2. ASSUME NEW w \in Workers, NEW p \in Orders, PaidBy(w, p) \/ CancelledBy(w, p)
        PROVE  Leaves(o)
    BY <2>1, <2>2 DEF PaidBy, CancelledBy
  <2>3. ASSUME NEW w \in Workers, NEW p \in Orders, FulfilledBy(w, p)
        PROVE  Leaves(o)
    <3>1. order[p] # "pending"
      BY <1>1, <2>3 DEF FulfilledBy, StatusInv, WorkerKnows
    <3>. QED
      BY <2>1, <2>3, <3>1 DEF FulfilledBy
  <2>4. ASSUME NEW t \in Threads, NEW p \in Orders, DeliveredBy(t, p)
        PROVE  Leaves(o)
    <3>1. order[p] # "pending"
      BY <1>1, <2>4 DEF DeliveredBy, StatusInv, ThreadKnows
    <3>. QED
      BY <2>1, <2>4, <3>1 DEF DeliveredBy
  <2>. QED
    BY <1>1, <2>2, <2>3, <2>4, OrderWrites
<1>2. TypeInv /\ StatusInv /\ [Next]_vars => [\A o \in Orders : Leaves(o)]_order
  BY <1>1
<1>3. Spec => [][\A o \in Orders : Leaves(o)]_order
  BY InvariantHolds, <1>2, PTL DEF Spec
<1>. QED
  BY <1>3 DEF PendingLeftOnce

-----------------------------------------------------------------------------
(* One worker: the columns are never stale *)

\* With one worker, what it loaded is what the row holds when it writes; a web
\* thread may find its order delivered by another, which changes nothing.
WorkerCurrent(w) ==
    LET W == worker[w]
    IN  /\ W.pc \in {"save_payment", "pay"} /\ W.seen = "pending"
             => order[EventOrder[W.job.arg]] = "pending"
        /\ W.pc = "sweep" => \A o \in W.todo : order[o] = "pending"
        /\ W.pc \in {"create_shipment", "label", "fulfill"} /\ W.seen = "paid"
             => order[W.job.arg] = "paid"

ThreadCurrent(t) ==
    thread[t].pc = "deliver" => order[thread[t].order] \in {"fulfilled", "delivered"}

Current ==
    /\ \A w \in Workers : WorkerCurrent(w)
    /\ \A t \in Threads : ThreadCurrent(t)

OneWorker == \A v, w \in Workers : v = w

LEMMA CurrentInit == Init => Current
BY DEF Init, Current, WorkerCurrent, ThreadCurrent, IdleWorker, IdleThread

\* Every write of a status is an edge of the table, or changes nothing.
LEMMA WritesAreEdges ==
    ASSUME TypeInv, Current, [Next]_vars
    PROVE  [SM!Next]_order
<1>1. order \in [Orders -> SM!Statuses]
  BY DEF TypeInv, TypeOK
<1>2. /\ "pay" \in DOMAIN SM!TRANSITIONS["pending"]
      /\ "timeout" \in DOMAIN SM!TRANSITIONS["pending"]
      /\ "fulfill" \in DOMAIN SM!TRANSITIONS["paid"]
      /\ "deliver" \in DOMAIN SM!TRANSITIONS["fulfilled"]
  BY Edges DEF SM!Allowed
<1>3. ASSUME NEW o \in Orders, NEW s, NEW ev, order[o] = s,
             ev \in DOMAIN SM!TRANSITIONS[s],
             order' = [order EXCEPT ![o] = SM!TRANSITIONS[s][ev]]
      PROVE  SM!Next
  BY <1>3 DEF SM!Next, SM!Transition, SM!Allowed
<1>4. ASSUME NEW w \in Workers, NEW o \in Orders, PaidBy(w, o) PROVE SM!Next
  <2>1. order[o] = "pending"
    BY <1>4 DEF PaidBy, Current, WorkerCurrent, TypeInv, WorkerOK, GoodWorker
  <2>. QED
    BY <1>2, <1>3, <1>4, <2>1, Edges DEF PaidBy
<1>5. ASSUME NEW w \in Workers, NEW o \in Orders, CancelledBy(w, o) PROVE SM!Next
  <2>1. order[o] = "pending"
    BY <1>5 DEF CancelledBy, Current, WorkerCurrent
  <2>. QED
    BY <1>2, <1>3, <1>5, <2>1, Edges DEF CancelledBy
<1>6. ASSUME NEW w \in Workers, NEW o \in Orders, FulfilledBy(w, o) PROVE SM!Next
  <2>1. order[o] = "paid"
    BY <1>6 DEF FulfilledBy, Current, WorkerCurrent
  <2>. QED
    BY <1>2, <1>3, <1>6, <2>1, Edges DEF FulfilledBy
<1>7. ASSUME NEW t \in Threads, NEW o \in Orders, DeliveredBy(t, o)
      PROVE  SM!Next \/ order' = order
  <2>1. order[o] \in {"fulfilled", "delivered"}
    BY <1>7 DEF DeliveredBy, Current, ThreadCurrent
  <2>2. CASE order[o] = "fulfilled"
    BY <1>2, <1>3, <1>7, <2>2, Edges DEF DeliveredBy
  <2>3. CASE order[o] = "delivered"
    BY <1>1, <1>7, <2>3 DEF DeliveredBy
  <2>. QED
    BY <2>1, <2>2, <2>3
<1>. QED
  BY <1>4, <1>5, <1>6, <1>7, OrderWrites

LEMMA CurrentStep ==
    ASSUME TypeInv, Current, [Next]_vars, OneWorker
    PROVE  Current'
<1>1. /\ order \in [Orders -> SM!Statuses]
      /\ worker \in [Workers -> WorkerStates]
      /\ thread \in [Threads -> ThreadStates]
  BY DEF TypeInv, TypeOK
<1>2. ASSUME NEW o \in Orders, order[o] \in {"pending", "paid"},
             ~\E v \in Workers : TaskStep(v)
      PROVE  order'[o] = order[o]
  <2>1. ASSUME NEW t \in Threads, Deliver(t) PROVE order'[o] = order[o]
    <3>1. order[thread[t].order] \in {"fulfilled", "delivered"}
      BY <2>1 DEF Deliver, Current, ThreadCurrent
    <3>. QED
      BY <1>1, <1>2, <2>1, <3>1 DEF Deliver, WriteTransition
  <2>. QED
    BY <1>2, <2>1
       DEF Next, RequestStep, DispatchEvent, MarkProcessed, SaveShipment,
           LoadDelivered, Take, LoseWorker, LoseThread, ReceiveEvent,
           ReceiveTracking, Age, Beat, RequestFulfill, vars
<1>3. ASSUME NEW w \in Workers
      PROVE  /\ worker[w].pc \in {"save_payment", "pay"}
                  => EventOrder[worker[w].job.arg] \in Orders
             /\ worker[w].pc = "sweep" => worker[w].todo \subseteq Orders
             /\ worker[w].pc \in {"create_shipment", "label", "fulfill"}
                  => worker[w].job.arg \in Orders
  BY <1>1, JobKinds DEF TypeInv, WorkerOK, GoodWorker, WorkerStates
<1>4. ASSUME NEW w \in Workers, ~TaskStep(w) PROVE WorkerCurrent(w)'
  <2>1. ~\E v \in Workers : TaskStep(v)
    BY <1>4 DEF OneWorker
  <2>2. ASSUME LoseWorker(w) \/ \E j \in Jobs : Take(w, j)
        PROVE  worker'[w].pc \in {"idle", "start"}
    <3>1. ASSUME LoseWorker(w) PROVE worker'[w].pc = "idle"
      BY <1>1, <3>1 DEF LoseWorker, IdleWorker
    <3>2. ASSUME NEW j \in Jobs, Take(w, j) PROVE worker'[w].pc = "start"
      BY <1>1, <3>2 DEF Take, IdleWorker
    <3>. QED
      BY <2>2, <3>1, <3>2
  <2>3. worker' = worker \/ worker'[w].pc \in {"idle", "start"}
    BY <2>1, <2>2
       DEF Next, OneWorker, RequestStep, DispatchEvent, MarkProcessed,
           SaveShipment, LoadDelivered, Deliver, LoseThread, ReceiveEvent,
           ReceiveTracking, Age, Beat, RequestFulfill, vars
  <2>4. CASE worker' = worker
    BY <1>2, <1>3, <2>1, <2>4 DEF Current, WorkerCurrent
  <2>. QED
    BY <2>3, <2>4 DEF WorkerCurrent
<1>5. ASSUME NEW w \in Workers, TaskStep(w) PROVE WorkerCurrent(w)'
  <2> USE DEF WorkerCurrent
  <2>1. CASE LoadPayment(w)
    BY <1>1, <2>1 DEF LoadPayment, Acknowledge, IdleWorker, WorkerStates
  <2>2. CASE SavePayment(w)
    BY <1>1, <2>2 DEF SavePayment, Goto, Acknowledge, IdleWorker, Current,
                      WorkerStates
  <2>3. CASE OpenSweep(w)
    BY <1>1, <2>3 DEF OpenSweep, Sweep, Acknowledge, IdleWorker, WorkerStates
  <2>4. CASE CancelStale(w)
    <3>1. \/ worker'[w].pc = "idle"
          \/ /\ worker'[w].pc = "sweep"
             /\ \A o \in worker'[w].todo : order'[o] = "pending"
      BY <1>1, <1>3, <2>4 DEF CancelStale, WriteTransition, Acknowledge,
                              IdleWorker, Current, WorkerStates
    <3>. QED
      BY <3>1
  <2>5. CASE LoadOrder(w)
    BY <1>1, <2>5 DEF LoadOrder, WorkerStates
  <2>6. CASE CreateShipment(w) \/ RequestLabel(w)
    BY <1>1, <2>6 DEF CreateShipment, RequestLabel, Goto, Acknowledge,
                      IdleWorker, Current, WorkerStates
  <2>7. \/ Pay(w) \/ HandlePaymentFailed(w) \/ HandleNothing(w)
        \/ Fulfill(w) \/ TaskRaises(w)
        => WorkerCurrent(w)'
    BY <1>1 DEF Pay, HandlePaymentFailed, HandleNothing, Fulfill, TaskRaises,
                Acknowledge, IdleWorker
  <2>. QED
    BY <1>5, <2>1, <2>2, <2>3, <2>4, <2>5, <2>6, <2>7 DEF TaskStep, TaskRuns
<1>6. ASSUME NEW t \in Threads PROVE ThreadCurrent(t)'
  <2>1. ASSUME NEW o \in Orders, order[o] \in {"fulfilled", "delivered"}
        PROVE  order'[o] \in {"fulfilled", "delivered"}
    <3>1. ASSUME NEW w \in Workers, NEW p \in Orders,
                 PaidBy(w, p) \/ CancelledBy(w, p) \/ FulfilledBy(w, p)
          PROVE  order[p] \in {"pending", "paid"} /\ (p # o => order'[o] = order[o])
      BY <1>1, <3>1 DEF PaidBy, CancelledBy, FulfilledBy, Current, WorkerCurrent,
                        TypeInv, WorkerOK, GoodWorker
    <3>2. ASSUME NEW x \in Threads, NEW p \in Orders, DeliveredBy(x, p)
          PROVE  order'[o] \in {order[o], "delivered"}
      BY <1>1, <3>2 DEF DeliveredBy
    <3>. QED
      BY <2>1, <3>1, <3>2, OrderWrites
  <2>2. thread[t].pc = "deliver" => thread[t].order \in Orders
    BY DEF TypeInv, ThreadOK, GoodThread
  <2>3. CASE thread'[t] = thread[t]
    BY <2>1, <2>2, <2>3 DEF Current, ThreadCurrent
  <2>4. CASE LoadDelivered(t)
    <3>1. /\ thread[t].order \in Orders
          /\ \/ thread'[t].pc = "idle"
             \/ /\ order[thread[t].order] = "fulfilled"
                /\ thread'[t].order = thread[t].order
      BY <1>1, <2>4, Edges DEF LoadDelivered, IdleThread, ThreadStates, TypeInv,
                               ThreadOK, GoodThread
    <3>. QED
      BY <2>1, <3>1 DEF ThreadCurrent
  <2>5. CASE thread'[t] # thread[t] /\ ~LoadDelivered(t)
    <3>1. ASSUME NEW o \in Orders, NEW s \in CarrierStatuses,
                 ReceiveTracking(t, o, s)
          PROVE  thread'[t].pc # "deliver"
      BY <1>1, <3>1 DEF ReceiveTracking, ThreadStates
    <3>2. ASSUME SaveShipment(t) PROVE thread'[t].pc # "deliver"
      BY <1>1, <3>2 DEF SaveShipment, IdleThread, ThreadStates
    <3>. QED
      BY <2>5, <3>1, <3>2, ThreadSteps DEF ThreadCurrent
  <2>. QED
    BY <2>3, <2>4, <2>5
<1>. QED
  BY <1>4, <1>5, <1>6 DEF Current

\* With one worker the requests and tasks implement the state machine: every
\* change of a status, stale reads and redeliveries included, is an edge.
THEOREM ImplementsStateMachine ==
    ASSUME OneWorker
    PROVE  Spec => FollowsStateMachine
<1>1. Init => SM!Init
  BY DEF Init, SM!Init
<1>2. TypeInv /\ Current /\ [Next]_vars => [SM!Next]_order
  BY WritesAreEdges
<1>3. TypeInv /\ Current /\ [Next]_vars => Current'
  BY CurrentStep
<1>4. Spec => SM!Spec
  BY InvariantHolds, TypeInit, TypeStep, CurrentInit, <1>1, <1>2, <1>3, PTL
     DEF Spec, SM!Spec
<1>. QED
  BY <1>4 DEF FollowsStateMachine

-----------------------------------------------------------------------------
(* The checkout page.                                                        *)

Form == [country : Countries, filled : BOOLEAN]

UiType ==
    [form : Form, options : {"idle", "loading", "ready", "contract-pending", "error"},
     lockers : Locker \cup {NoLocker},
     lockersState : {"idle", "loading", "ready", "error"},
     prepare : {"idle", "loading", "ready", "contract-pending", "error"},
     started : BOOLEAN, submitting : BOOLEAN, placing : BOOLEAN]

OptionsCalls == [kind : {"options"}, country : Countries, live : BOOLEAN]
LockersCalls == [kind : {"lockers"}, carrier : Lockers, country : Countries]
OrderCalls == [kind : {"order"}, n : 1 .. MaxOrders, live : BOOLEAN,
               answer : {None, "created", "failed"}, payload : Payload]
Calls == OptionsCalls \cup LockersCalls \cup OrderCalls

Check == [phase : {None, "submit", "vat"}, vat : VatIds \cup {NoVat}, live : BOOLEAN]
Recovery == [method : Methods, country : Countries] \cup {NoRecovery}
OrdersOrNone == Payload \cup {NoOrderYet}

PageTypeInv ==
    /\ page \in {"checkout", "success"} /\ basket \in Baskets \cup {Empty}
    /\ flow \in Flow /\ ui \in UiType /\ net \subseteq Calls
    /\ check \in Check /\ confirming \in OrdersOrNone /\ recovery \in Recovery
    /\ placed \in [1 .. MaxOrders -> OrdersOrNone]
    /\ sent \in 0 .. MaxOrders /\ acts \in 0 .. MaxActs

\* One key, one order: the one the page shows, or none.
OrderInv ==
    /\ \A n \in 1 .. MaxOrders : n # 1 => placed[n] = NoOrderYet
    /\ flow.order # NoOrderYet => flow.order = placed[1]
    /\ check # NoCheck \/ confirming # NoOrderYet => flow.order # NoOrderYet

\* What the steps before have left in the context.
FlowKnows(f) ==
    /\ f.locker # NoLocker => f.locker.carrier = f.method
    /\ f.step # "address" /\ f.order = NoOrderYet => f.address.filled
    /\ f.step \in {"payment", "review"} /\ f.order = NoOrderYet => CanContinue(f)
    /\ f.step = "review" => f.order # NoOrderYet

Complete(p) ==
    /\ p.address.filled
    /\ NeedsLocker(p.method) => p.locker.carrier = p.method

CallKnows(r, f) ==
    /\ r.kind = "order" => Complete(r.payload)
    /\ r.kind = "lockers" => /\ f.step = "delivery"
                             /\ r.carrier = f.method /\ r.country = CountryOf(f)

PageInv ==
    /\ FlowKnows(flow)
    /\ \A r \in net : CallKnows(r, flow)
    /\ \A n \in 1 .. MaxOrders : placed[n] # NoOrderYet => Complete(placed[n])
    /\ ui.lockersState = "ready" =>
          /\ flow.step = "delivery"
          /\ ui.lockers = [carrier |-> flow.method, country |-> CountryOf(flow)]
    /\ LoadingIsPending

-----------------------------------------------------------------------------
(* The pieces of a step *)

LEMMA CountryTyped == \A f \in Flow : CountryOf(f) \in Countries
  BY CheckoutPageAssumption DEF Flow, Address, CountryOf

LEMMA FreshTyped ==
    ASSUME NEW f \in Flow, NEW step \in Steps \cup {None}
    PROVE  FreshUi(step, f) \in UiType
<1>1. CountryOf(f) \in Countries /\ f.address.filled \in BOOLEAN
  <2>1. f.address \in Address \cup {NoAddress}
    BY DEF Flow
  <2>2. f.address.filled \in BOOLEAN
    <3>1. CASE f.address \in Address
      BY <3>1 DEF Address
    <3>2. CASE f.address = NoAddress
      BY <3>2 DEF NoAddress
    <3>. QED
      BY <2>1, <3>1, <3>2
  <2>. QED
    BY <2>2, CountryTyped
<1>2. FormOf(f) \in Form /\ NoForm \in Form
  BY <1>1, CheckoutPageAssumption DEF FormOf, NoForm, Form
<1> DEFINE form == IF step = "address" THEN FormOf(f) ELSE NoForm
           options == IF step = "delivery" THEN "loading" ELSE "idle"
           lockers == IF step = "delivery" /\ NeedsLocker(f.method)
                      THEN "loading" ELSE "idle"
           prepare == IF step \notin {"payment", "review"} THEN "idle"
                      ELSE IF f.order # NoOrderYet THEN "ready" ELSE "loading"
<1>3. FreshUi(step, f) =
         [form |-> form, options |-> options, lockers |-> NoLocker,
          lockersState |-> lockers, prepare |-> prepare,
          started |-> FALSE, submitting |-> FALSE, placing |-> FALSE]
  BY DEF FreshUi
<1>4. /\ form \in Form /\ options \in {"idle", "loading"}
      /\ lockers \in {"idle", "loading"} /\ prepare \in {"idle", "ready", "loading"}
  BY <1>2
<1> HIDE DEF form, options, lockers, prepare
<1>. QED
  BY <1>3, <1>4 DEF UiType

LEMMA UnmountedCalls ==
    ASSUME NEW calls, calls \subseteq Calls, NEW q \in Unmount(calls)
    PROVE  /\ q \in Calls /\ q.kind # "lockers"
           /\ \E r \in calls : q.kind = r.kind
                               /\ (r.kind = "order" => q.payload = r.payload)
<1>1. PICK r \in calls : r.kind # "lockers" /\ q = [r EXCEPT !.live = FALSE]
  BY DEF Unmount, Cancelled
<1>2. CASE r \in OptionsCalls
  BY <1>1, <1>2 DEF OptionsCalls, Calls
<1>3. CASE r \in LockersCalls
  BY <1>1, <1>3 DEF LockersCalls
<1>4. CASE r \in OrderCalls
  <2>1. q \in OrderCalls /\ q.kind = r.kind /\ q.payload = r.payload
    BY <1>1, <1>4 DEF OrderCalls
  <2>. QED
    BY <1>1, <2>1 DEF Calls
<1>. QED
  BY <1>1, <1>2, <1>3, <1>4 DEF Calls

\* An order that is asked for is complete.
LEMMA OrderCallTyped ==
    ASSUME NEW f \in Flow, NEW items \in Baskets \cup {Empty}, NEW u,
           FlowKnows(f), Prepares(f, u, items), sent \in 0 .. MaxOrders, sent < MaxOrders
    PROVE  LET r == OrderCall(f, items)
           IN  r \in OrderCalls /\ r.kind = "order" /\ r.live /\ Complete(r.payload)
<1> DEFINE p == [basket |-> items, address |-> f.address, method |-> f.method,
                 locker |-> f.locker, vat |-> f.vat]
<1>1. p \in Payload
  BY DEF Prepares, Flow, Payload
<1>2. Complete(p)
  BY DEF Prepares, FlowKnows, CanContinue, Complete
<1>3. sent + 1 \in 1 .. MaxOrders
  BY CheckoutPageAssumption
<1> HIDE DEF p
<1>4. OrderCall(f, items) = [kind |-> "order", n |-> sent + 1, live |-> TRUE,
                             answer |-> None, payload |-> p]
  BY DEF OrderCall, p
<1>. QED
  BY <1>1, <1>2, <1>3, <1>4 DEF OrderCalls

LEMMA LockersCallTyped ==
    ASSUME NEW f \in Flow, NEW q \in LockersCall(f)
    PROVE  /\ q \in LockersCalls /\ q.kind = "lockers"
           /\ q.carrier = f.method /\ q.country = CountryOf(f)
<1>1. NeedsLocker(f.method) /\ q = [kind |-> "lockers", carrier |-> f.method,
                                    country |-> CountryOf(f)]
  BY DEF LockersCall
<1>. QED
  BY <1>1, CountryTyped DEF NeedsLocker, LockersCalls

\* The step that f shows, mounted anew over calls it may keep.
LEMMA ShowKeeps ==
    ASSUME PageTypeInv, NEW f \in Flow, NEW items \in Baskets \cup {Empty},
           NEW calls, calls \subseteq Calls,
           FlowKnows(f), \A r \in calls : CallKnows(r, f), Show(f, items, calls)
    PROVE  /\ flow' = f /\ ui' \in UiType /\ net' \subseteq Calls
           /\ sent' \in 0 .. MaxOrders
           /\ \A r \in net' : CallKnows(r, f)
           /\ ui'.lockersState # "ready"
           /\ LoadingIsPending'
<1> DEFINE u == FreshUi(f.step, f)
<1>0. /\ flow' = f /\ f.step \in Steps /\ u \in UiType /\ FreshUi(None, f) \in UiType
      /\ sent \in 0 .. MaxOrders /\ f.step # None
  BY FreshTyped DEF Show, PageTypeInv, Flow, Steps, None
<1>1. /\ u.lockersState # "ready" /\ FreshUi(None, f).lockersState # "ready"
      /\ FreshUi(None, f).prepare = "idle"
      /\ f.step \notin {"payment", "review"} => u.prepare = "idle"
      /\ f.order # NoOrderYet => u.prepare # "loading"
      /\ ~u.started
  BY DEF FreshUi, None
<1>2. CASE items = Empty
  <2>1. ui' = FreshUi(None, f) /\ net' = calls /\ sent' = sent
    BY <1>2 DEF Show
  <2>. QED
    BY <1>0, <1>1, <2>1 DEF LoadingIsPending
<1>3. CASE items # Empty /\ f.step = "delivery"
  <2>1. ui' = u /\ net' = calls \cup {OptionsCall(f)} \cup LockersCall(f) /\ sent' = sent
    BY <1>3 DEF Show
  <2>2. OptionsCall(f) \in OptionsCalls /\ CallKnows(OptionsCall(f), f)
    BY CountryTyped DEF OptionsCall, OptionsCalls, CallKnows
  <2>3. \A q \in LockersCall(f) : q \in LockersCalls /\ CallKnows(q, f)
    BY <1>3, LockersCallTyped DEF CallKnows
  <2> HIDE DEF u
  <2>. QED
    BY <1>0, <1>1, <1>3, <2>1, <2>2, <2>3 DEF Calls, LoadingIsPending
<1>4. CASE items # Empty /\ f.step # "delivery" /\ Prepares(f, u, items)
  <2> DEFINE r == OrderCall(f, items)
  <2>1. /\ ui' = [u EXCEPT !.started = TRUE] /\ net' = calls \cup {r}
        /\ sent < MaxOrders /\ sent' = sent + 1
    BY <1>4 DEF Show
  <2>2. r \in OrderCalls /\ r.kind = "order" /\ r.live /\ Complete(r.payload)
    BY <1>0, <1>4, <2>1, OrderCallTyped
  <2> HIDE DEF u, r
  <2>3. ui' \in UiType /\ ui'.lockersState = u.lockersState
    BY <1>0, <2>1 DEF UiType
  <2>4. sent' \in 0 .. MaxOrders
    BY <1>0, <2>1, CheckoutPageAssumption
  <2>5. LoadingIsPending'
    BY <2>1, <2>2 DEF LoadingIsPending
  <2>6. CallKnows(r, f)
    BY <2>2 DEF CallKnows
  <2>. QED
    BY <1>0, <1>1, <2>1, <2>2, <2>3, <2>4, <2>5, <2>6 DEF Calls
<1>5. CASE items # Empty /\ f.step # "delivery" /\ ~Prepares(f, u, items)
  <2>1. ui' = u /\ net' = calls /\ sent' = sent
    BY <1>5 DEF Show
  <2>2. u.prepare = "loading" => FALSE
    <3>1. f.step \in {"payment", "review"} /\ f.order = NoOrderYet =>
             f.address # NoAddress /\ f.method # None
      BY DEF FlowKnows, CanContinue, NoAddress
    <3>. QED
      BY <1>1, <1>5, <3>1 DEF Prepares
  <2> HIDE DEF u
  <2>. QED
    BY <1>0, <1>1, <2>1, <2>2 DEF LoadingIsPending
<1>. QED
  BY <1>2, <1>3, <1>4, <1>5

LEMMA UnmountKnows ==
    ASSUME PageTypeInv, PageInv, NEW f
    PROVE  Unmount(net) \subseteq Calls /\ \A q \in Unmount(net) : CallKnows(q, f)
  BY UnmountedCalls DEF PageTypeInv, PageInv, CallKnows

LEMMA Known ==
    ASSUME PageTypeInv, OrderInv, PageInv
    PROVE  /\ FlowKnows(flow) /\ (check # NoCheck \/ confirming # NoOrderYet => flow.order # NoOrderYet)
           /\ page \in {"checkout", "success"} /\ basket \in Baskets \cup {Empty}
           /\ flow \in Flow /\ ui \in UiType /\ check \in Check /\ confirming \in OrdersOrNone
           /\ recovery \in Recovery /\ acts \in 0 .. MaxActs
  BY DEF PageTypeInv, OrderInv, PageInv

\* What most steps keep: the invariants, and the order that is shown.
Kept == PageTypeInv' /\ OrderInv' /\ PageInv' /\ flow'.order = flow.order

\* A new step over what stays open of the former one.
LEMMA Mounts ==
    ASSUME PageTypeInv, OrderInv, PageInv, NEW f \in Flow, FlowKnows(f),
           NEW items \in Baskets \cup {Empty},
           Show(f, items, Unmount(net)), f.order = flow.order,
           page' \in {"checkout", "success"}, basket' \in Baskets \cup {Empty},
           check' \in Check, check' # NoCheck => check # NoCheck,
           recovery' \in Recovery, acts' \in 0 .. MaxActs,
           UNCHANGED <<confirming, placed>>
    PROVE  Kept
<1>1. /\ flow' = f /\ ui' \in UiType /\ net' \subseteq Calls /\ sent' \in 0 .. MaxOrders
      /\ \A r \in net' : CallKnows(r, f)
      /\ ui'.lockersState # "ready" /\ LoadingIsPending'
  BY ShowKeeps, UnmountKnows
<1>2. PageTypeInv'
  BY <1>1 DEF PageTypeInv
<1>3. OrderInv'
  BY <1>1 DEF OrderInv
<1>4. PageInv'
  BY <1>1 DEF PageInv
<1>. QED
  BY <1>1, <1>2, <1>3, <1>4 DEF Kept

\* A step that keeps the order, what is open, and what the steps before left.
LEMMA Stays ==
    ASSUME PageTypeInv, OrderInv, PageInv,
           flow' \in Flow, FlowKnows(flow'), flow'.order = flow.order,
           CountryOf(flow') = CountryOf(flow), flow'.method = flow.method,
           flow'.step = flow.step
             \/ (flow.step # "delivery" /\ flow'.step # "delivery"),
           ui' \in UiType, ui'.lockers = ui.lockers, ui'.lockersState = ui.lockersState,
           ui'.prepare = ui.prepare,
           page' \in {"checkout", "success"}, basket' \in Baskets \cup {Empty},
           check' \in Check,
           check' # NoCheck \/ confirming' # NoOrderYet => flow.order # NoOrderYet,
           confirming' \in OrdersOrNone, recovery' \in Recovery, acts' \in 0 .. MaxActs,
           net' = net, placed' = placed, sent' = sent
    PROVE  Kept
<1>1. PageTypeInv'
  BY DEF PageTypeInv
<1>2. OrderInv'
  BY DEF OrderInv
<1>3. \A r \in net' : CallKnows(r, flow')
  BY DEF PageInv, CallKnows
<1>4. LoadingIsPending'
  BY DEF PageInv, LoadingIsPending
<1>5. ui'.lockersState = "ready" =>
          /\ flow'.step = "delivery"
          /\ ui'.lockers = [carrier |-> flow'.method, country |-> CountryOf(flow')]
  BY DEF PageInv
<1>6. PageInv'
  BY <1>3, <1>4, <1>5 DEF PageInv
<1>. QED
  BY <1>1, <1>2, <1>6 DEF Kept

LEMMA GoToStep ==
    ASSUME PageTypeInv, OrderInv, PageInv, NEW step \in Steps, GoTo(step),
           FlowKnows([flow EXCEPT !.step = step]),
           check' \in Check, check' # NoCheck => check # NoCheck,
           acts' \in 0 .. MaxActs,
           UNCHANGED <<page, basket, confirming, recovery, placed>>
    PROVE  Kept
<1> DEFINE f == [flow EXCEPT !.step = step]
<1>1. /\ f \in Flow /\ f.order = flow.order /\ f.step = step
      /\ f.method = flow.method /\ f.address = flow.address
  BY DEF PageTypeInv, Flow
<1>2. CASE {step, flow.step} \subseteq {"payment", "review"} /\ basket # Empty
  <2>1. /\ flow' = f /\ ui' = [ui EXCEPT !.submitting = FALSE, !.placing = FALSE]
        /\ UNCHANGED <<net, sent>>
    BY <1>2 DEF GoTo
  <2>2. /\ ui' \in UiType /\ ui'.lockers = ui.lockers
        /\ ui'.lockersState = ui.lockersState /\ ui'.prepare = ui.prepare
    BY <2>1 DEF PageTypeInv, UiType
  <2>3. CountryOf(f) = CountryOf(flow)
    BY <1>1 DEF CountryOf
  <2>4. check' # NoCheck \/ confirming' # NoOrderYet => flow.order # NoOrderYet
    BY DEF OrderInv
  <2> HIDE DEF f
  <2>. QED
    BY <1>1, <1>2, <2>1, <2>2, <2>3, <2>4, Stays DEF PageTypeInv, f
<1>3. CASE ~({step, flow.step} \subseteq {"payment", "review"} /\ basket # Empty)
  <2>1. Show(f, basket, Unmount(net))
    BY <1>3 DEF GoTo
  <2>2. FlowKnows(f)
    OBVIOUS
  <2> HIDE DEF f
  <2>. QED
    BY <1>1, <2>1, <2>2, Known, Mounts
<1>. QED
  BY <1>2, <1>3

-----------------------------------------------------------------------------
(* The steps *)

LEMMA ActTyped == ASSUME PageTypeInv, Act PROVE acts' \in 0 .. MaxActs
  BY CheckoutPageAssumption DEF PageTypeInv, Act

LEMMA FlowTyped ==
    ASSUME PageTypeInv
    PROVE  /\ flow.step \in Steps /\ flow.method \in Methods \cup {None}
           /\ flow.address \in Address \cup {NoAddress}
           /\ flow.locker \in Locker \cup {NoLocker}
           /\ flow.vat \in VatIds \cup {NoVat} /\ flow.order \in Payload \cup {NoOrderYet}
  BY DEF PageTypeInv, Flow

LEMMA AddressSteps ==
    ASSUME PageTypeInv, OrderInv, PageInv, EditAddress \/ SubmitAddress
    PROVE  Kept
<1>1. CASE EditAddress
  <2>1. PICK c \in Countries, ok \in BOOLEAN :
           ui' = [ui EXCEPT !.form = [country |-> c, filled |-> ok]]
    BY <1>1 DEF EditAddress
  <2>2. /\ ui' \in UiType /\ ui'.lockers = ui.lockers
        /\ ui'.lockersState = ui.lockersState /\ ui'.prepare = ui.prepare
    BY <2>1 DEF PageTypeInv, UiType, Form
  <2>3. Act /\ UNCHANGED <<page, basket, flow, net, check, confirming, recovery, placed, sent>>
    BY <1>1 DEF EditAddress
  <2>. QED
    BY <2>2, <2>3, ActTyped, Known, Stays
<1>2. CASE SubmitAddress
  <2> DEFINE f == [flow EXCEPT !.address = ui.form, !.step = "delivery"]
  <2>1. ui.form \in Address /\ ui.form.filled /\ basket # Empty
    BY <1>2 DEF SubmitAddress, Shown, PageTypeInv, UiType, Form, Address
  <2>2. /\ f \in Flow /\ f.order = flow.order /\ f.step = "delivery"
        /\ f.address = ui.form /\ f.method = flow.method /\ f.locker = flow.locker
    BY <2>1 DEF PageTypeInv, Flow, Steps
  <2>3. FlowKnows(f)
    BY <2>1, <2>2 DEF PageInv, FlowKnows
  <2>4. /\ Show(f, basket, Unmount(net)) /\ Remember(f)
        /\ UNCHANGED <<page, basket, check, confirming, placed, acts>>
    BY <1>2 DEF SubmitAddress
  <2> HIDE DEF f
  <2>5. recovery' \in Recovery
    BY <2>1, <2>2, <2>4, FlowTyped DEF Remember, Recovery, PageTypeInv, Address
  <2>. QED
    BY <2>2, <2>3, <2>4, <2>5, Known, Mounts
<1>. QED
  BY <1>1, <1>2

LEMMA ChooseMethodStep ==
    ASSUME PageTypeInv, OrderInv, PageInv, NEW m \in Methods, ChooseMethod(m)
    PROVE  Kept
<1> DEFINE f == SetMethod(flow, m)
           s == IF NeedsLocker(m) THEN "loading" ELSE "idle"
<1>1. /\ flow.step = "delivery" /\ flow' = f /\ Remember(f)
      /\ net' = Cancelled(net) \cup LockersCall(f)
      /\ ui' = [ui EXCEPT !.lockersState = s]
      /\ UNCHANGED <<page, basket, check, confirming, placed, sent, acts>>
  BY DEF ChooseMethod, Shown
<1>2. /\ f \in Flow /\ f.method = m /\ f.locker = NoLocker /\ f.order = flow.order
      /\ f.step = flow.step /\ f.address = flow.address
  BY DEF SetMethod, PageTypeInv, Flow
<1>3. s \in {"loading", "idle"}
  OBVIOUS
<1> HIDE DEF f, s
<1>4. FlowKnows(f)
  BY <1>1, <1>2 DEF FlowKnows, PageInv
<1>5. ui' \in UiType /\ ui'.lockersState = s /\ ui'.prepare = ui.prepare
  BY <1>1, <1>3 DEF PageTypeInv, UiType
<1>6. recovery' \in Recovery
  BY <1>1, <1>2, FlowTyped DEF Remember, Recovery, PageTypeInv, Address
<1>7. net' \subseteq Calls /\ \A q \in net' : CallKnows(q, f)
  <2>1. \A q \in LockersCall(f) : q \in Calls /\ CallKnows(q, f)
    BY <1>1, <1>2, LockersCallTyped DEF CallKnows, Calls
  <2>2. \A q \in Cancelled(net) : q \in net /\ q.kind # "lockers"
    BY DEF Cancelled
  <2>. QED
    BY <1>1, <2>1, <2>2 DEF PageTypeInv, PageInv, CallKnows
<1>8. LoadingIsPending'
  <2>1. \A r \in net : r.kind = "order" => r \in net'
    BY <1>1 DEF Cancelled
  <2>. QED
    BY <1>1, <1>2, <1>5, <2>1 DEF PageInv, LoadingIsPending
<1>9. PageTypeInv'
  BY <1>1, <1>2, <1>5, <1>6, <1>7 DEF PageTypeInv
<1>10. OrderInv' /\ flow'.order = flow.order
  BY <1>1, <1>2 DEF OrderInv
<1>11. PageInv'
  BY <1>1, <1>3, <1>4, <1>5, <1>7, <1>8 DEF PageInv
<1>. QED
  BY <1>9, <1>10, <1>11 DEF Kept

LEMMA DeliverySteps ==
    ASSUME PageTypeInv, OrderInv, PageInv, ChooseLocker \/ LeaveDelivery
    PROVE  Kept
<1>1. CASE ChooseLocker
  <2>1. /\ flow.step = "delivery" /\ ui.lockersState = "ready" /\ ui.lockers # NoLocker
        /\ flow' = [flow EXCEPT !.locker = ui.lockers]
        /\ UNCHANGED <<page, basket, ui, net, check, confirming, recovery, placed, sent, acts>>
    BY <1>1 DEF ChooseLocker, Shown
  <2>2. /\ flow' \in Flow /\ flow'.locker = ui.lockers /\ flow'.order = flow.order
        /\ flow'.step = flow.step /\ flow'.address = flow.address
        /\ flow'.method = flow.method
    BY <2>1 DEF PageTypeInv, Flow, UiType
  <2>3. ui.lockers.carrier = flow.method
    BY <2>1 DEF PageInv
  <2>4. FlowKnows(flow')
    BY <2>1, <2>2, <2>3 DEF FlowKnows, PageInv
  <2>5. CountryOf(flow') = CountryOf(flow)
    BY <2>2 DEF CountryOf
  <2>. QED
    BY <2>1, <2>2, <2>4, <2>5, Known, Stays
<1>2. CASE LeaveDelivery
  <2> DEFINE f == [flow EXCEPT !.step = "payment"]
  <2>1. /\ flow.step = "delivery" /\ CanContinue(flow) /\ GoTo("payment")
        /\ UNCHANGED <<page, basket, check, confirming, recovery, placed, acts>>
    BY <1>2 DEF LeaveDelivery, Shown
  <2>2. /\ f.step = "payment" /\ f.order = flow.order /\ f.method = flow.method
        /\ f.locker = flow.locker /\ f.address = flow.address
    BY DEF PageTypeInv, Flow
  <2>3. FlowKnows(f)
    BY <2>1, <2>2 DEF FlowKnows, PageInv, CanContinue
  <2>. QED
    BY <2>1, <2>3, GoToStep DEF PageTypeInv, Steps
<1>. QED
  BY <1>1, <1>2

LEMMA DeliveryCalls ==
    ASSUME PageTypeInv, OrderInv, PageInv,
           \/ RetryOptions
           \/ \E r \in net : OptionsAnswer(r) \/ LockersAnswer(r)
    PROVE  Kept
<1>1. ASSUME NEW g, flow' = [flow EXCEPT !.options = g], g \in Countries \cup {None},
             ui' \in UiType, ui'.prepare = ui.prepare,
             ui'.lockersState = "ready" =>
                \/ ui'.lockers = ui.lockers /\ ui.lockersState = "ready"
                \/ /\ flow.step = "delivery"
                   /\ ui'.lockers = [carrier |-> flow.method, country |-> CountryOf(flow)],
             net' \subseteq Calls,
             \A q \in net' : q \in net \/ q \in OptionsCalls,
             \A q \in net : q.kind = "order" => q \in net',
             UNCHANGED <<page, basket, check, confirming, recovery, placed, sent, acts>>
      PROVE  Kept
  <2>1. /\ flow' \in Flow /\ flow'.step = flow.step /\ flow'.order = flow.order
        /\ flow'.method = flow.method /\ flow'.address = flow.address
        /\ flow'.locker = flow.locker
    BY <1>1 DEF PageTypeInv, Flow
  <2>2. FlowKnows(flow') /\ CountryOf(flow') = CountryOf(flow)
    BY <2>1 DEF PageInv, FlowKnows, CanContinue, CountryOf
  <2>3. \A q \in net' : CallKnows(q, flow')
    BY <1>1, <2>1, <2>2 DEF PageInv, CallKnows, OptionsCalls
  <2>4. LoadingIsPending'
    BY <1>1, <2>1 DEF PageInv, LoadingIsPending
  <2>5. PageTypeInv'
    BY <1>1, <2>1 DEF PageTypeInv
  <2>6. OrderInv'
    BY <1>1, <2>1 DEF OrderInv
  <2>7. ui'.lockersState = "ready" =>
          /\ flow'.step = "delivery"
          /\ ui'.lockers = [carrier |-> flow'.method, country |-> CountryOf(flow')]
    BY <1>1, <2>1, <2>2 DEF PageInv
  <2>8. PageInv'
    BY <1>1, <2>2, <2>3, <2>4, <2>7 DEF PageInv
  <2>. QED
    BY <2>1, <2>5, <2>6, <2>8 DEF Kept
<1>2. flow = [flow EXCEPT !.options = flow.options] /\ flow.options \in Countries \cup {None}
  BY DEF PageTypeInv, Flow
<1>3. CASE RetryOptions
  <2>1. OptionsCall(flow) \in OptionsCalls
    BY CountryTyped DEF PageTypeInv, OptionsCall, OptionsCalls
  <2>2. /\ ui' = [ui EXCEPT !.options = "loading"] /\ net' = net \cup {OptionsCall(flow)}
        /\ UNCHANGED <<page, basket, flow, check, confirming, recovery, placed, sent, acts>>
    BY <1>3 DEF RetryOptions
  <2>3. /\ ui' \in UiType /\ ui'.prepare = ui.prepare
        /\ ui'.lockers = ui.lockers /\ ui'.lockersState = ui.lockersState
    BY <2>2 DEF PageTypeInv, UiType
  <2>4. net' \subseteq Calls
    BY <2>1, <2>2 DEF PageTypeInv, Calls
  <2>. QED
    BY <1>1, <1>2, <2>1, <2>2, <2>3, <2>4
<1>4. ASSUME NEW r \in net, OptionsAnswer(r) PROVE Kept
  <2>1. PICK state \in {"ready", "contract-pending", "error"} :
          /\ flow' = IF state = "ready" THEN [flow EXCEPT !.options = r.country] ELSE flow
          /\ ui' = IF r.live THEN [ui EXCEPT !.options = state] ELSE ui
    BY <1>4 DEF OptionsAnswer
  <2>2. /\ r.kind = "options" /\ net' = net \ {r}
        /\ UNCHANGED <<page, basket, check, confirming, recovery, placed, sent, acts>>
    BY <1>4 DEF OptionsAnswer
  <2>3. r.country \in Countries
    BY <2>2 DEF PageTypeInv, Calls, OptionsCalls, LockersCalls, OrderCalls
  <2>4. /\ ui' \in UiType /\ ui'.prepare = ui.prepare
        /\ ui'.lockers = ui.lockers /\ ui'.lockersState = ui.lockersState
    BY <2>1 DEF PageTypeInv, UiType
  <2>5. net' \subseteq Calls /\ \A q \in net : q.kind = "order" => q \in net'
    BY <2>2 DEF PageTypeInv
  <2>. QED
    BY <1>1, <1>2, <2>1, <2>2, <2>3, <2>4, <2>5
<1>5. ASSUME NEW r \in net, LockersAnswer(r) PROVE Kept
  <2>1. /\ r.kind = "lockers" /\ net' = net \ {r}
        /\ UNCHANGED <<page, basket, flow, check, confirming, recovery, placed, sent, acts>>
    BY <1>5 DEF LockersAnswer
  <2>2. /\ r \in LockersCalls /\ flow.step = "delivery"
        /\ r.carrier = flow.method /\ r.country = CountryOf(flow)
    BY <2>1 DEF PageTypeInv, PageInv, CallKnows, Calls, OptionsCalls, OrderCalls
  <2>3. LockersShown(r) = [carrier |-> flow.method, country |-> CountryOf(flow)]
        /\ LockersShown(r) \in Locker
    BY <2>2 DEF LockersShown, LockersCalls, Locker
  <2>4. /\ ui' \in UiType /\ ui'.prepare = ui.prepare
        /\ ui'.lockersState = "ready" =>
              ui'.lockers = [carrier |-> flow.method, country |-> CountryOf(flow)]
    <3>1. CASE ui' = [ui EXCEPT !.lockers = LockersShown(r), !.lockersState = "ready"]
      BY <2>3, <3>1 DEF PageTypeInv, UiType
    <3>2. CASE ui' = [ui EXCEPT !.lockersState = "error"]
      BY <3>2 DEF PageTypeInv, UiType
    <3>. QED
      BY <1>5, <3>1, <3>2 DEF LockersAnswer
  <2>5. net' \subseteq Calls /\ \A q \in net : q.kind = "order" => q \in net'
    BY <2>1 DEF PageTypeInv
  <2>. QED
    BY <1>1, <1>2, <2>1, <2>2, <2>4, <2>5
<1>. QED
  BY <1>3, <1>4, <1>5

LEMMA OrderSteps ==
    ASSUME PageTypeInv, OrderInv, PageInv, NEW r \in net,
           ServeOrder(r) \/ OrderCreated(r) \/ OrderFailed(r)
    PROVE  /\ PageTypeInv' /\ OrderInv' /\ PageInv'
           /\ flow.order # NoOrderYet => flow'.order = flow.order
<1>1. r \in OrderCalls /\ Complete(r.payload) /\ 1 \in 1 .. MaxOrders /\ r.kind = "order"
  <2>1. r.kind = "order"
    BY DEF ServeOrder, OrderCreated, OrderFailed
  <2>2. r \in OrderCalls
    BY <2>1 DEF PageTypeInv, Calls, OptionsCalls, LockersCalls
  <2>3. r.n \in 1 .. MaxOrders /\ Complete(r.payload)
    BY <2>1, <2>2 DEF OrderCalls, PageInv, CallKnows
  <2>. QED
    BY <2>1, <2>2, <2>3, CheckoutPageAssumption
<1>2. CASE ServeOrder(r)
  <2>1. PICK a \in {"created", "failed"} :
          /\ net' = (net \ {r}) \cup {[r EXCEPT !.answer = a]}
          /\ \/ placed[1] = NoOrderYet /\ placed' = [placed EXCEPT ![1] = r.payload]
             \/ placed' = placed
          /\ UNCHANGED <<page, basket, flow, ui, check, confirming, recovery, sent, acts>>
    BY <1>2 DEF ServeOrder, KeyOf
  <2> DEFINE q == [r EXCEPT !.answer = a]
  <2>2. /\ q \in OrderCalls /\ q.kind = "order" /\ q.payload = r.payload
        /\ q.live = r.live
    BY <1>1 DEF OrderCalls
  <2> HIDE DEF q
  <2>3. net' = (net \ {r}) \cup {q}
    BY <2>1 DEF q
  <2>4. /\ placed' \in [1 .. MaxOrders -> OrdersOrNone]
        /\ \A n \in 1 .. MaxOrders : n # 1 => placed'[n] = placed[n]
        /\ placed'[1] = placed[1] \/ (placed[1] = NoOrderYet /\ placed'[1] = r.payload)
    BY <1>1, <2>1 DEF PageTypeInv, OrdersOrNone, OrderCalls
  <2>5. net' \subseteq Calls
    BY <2>2, <2>3 DEF PageTypeInv, Calls
  <2>6. PageTypeInv' /\ OrderInv'
    BY <2>1, <2>4, <2>5 DEF PageTypeInv, OrderInv
  <2>7. \A c \in net' : CallKnows(c, flow')
    BY <1>1, <2>1, <2>2, <2>3 DEF PageInv, CallKnows
  <2>8. LoadingIsPending'
    BY <1>1, <2>1, <2>2, <2>3 DEF PageInv, LoadingIsPending
  <2>9. PageInv'
    BY <1>1, <2>1, <2>4, <2>7, <2>8 DEF PageInv
  <2>. QED
    BY <2>1, <2>6, <2>9
<1>3. CASE OrderCreated(r)
  <2>1. /\ net' = net \ {r} /\ flow' = [flow EXCEPT !.order = placed[1]]
        /\ ui' = IF r.live THEN [ui EXCEPT !.prepare = "ready"] ELSE ui
        /\ UNCHANGED <<page, basket, check, confirming, recovery, placed, sent, acts>>
    BY <1>3 DEF OrderCreated, KeyOf
  <2>2. placed[1] \in Payload \cup {NoOrderYet}
    BY <1>1 DEF PageTypeInv, OrdersOrNone
  <2>3. /\ flow' \in Flow /\ flow'.order = placed[1] /\ flow'.step = flow.step
        /\ flow'.method = flow.method /\ flow'.address = flow.address
        /\ flow'.locker = flow.locker
    BY <2>1, <2>2 DEF PageTypeInv, Flow
  <2>4. flow.order # NoOrderYet => flow'.order = flow.order
    BY <2>3 DEF OrderInv
  <2>5. /\ ui' \in UiType /\ ui'.lockers = ui.lockers
        /\ ui'.lockersState = ui.lockersState
        /\ ui'.prepare = "loading" => ui.prepare = "loading" /\ ~r.live
    BY <2>1 DEF PageTypeInv, UiType
  <2>6. PageTypeInv'
    BY <2>1, <2>3, <2>5 DEF PageTypeInv
  <2>7. OrderInv'
    BY <2>1, <2>3, <2>4 DEF OrderInv
  <2>8. FlowKnows(flow') /\ CountryOf(flow') = CountryOf(flow)
    BY <2>3, <2>4 DEF PageInv, FlowKnows, CanContinue, CountryOf
  <2>9. \A c \in net' : CallKnows(c, flow')
    BY <2>1, <2>3, <2>8 DEF PageInv, CallKnows
  <2>10. LoadingIsPending'
    BY <2>1, <2>4, <2>5 DEF PageInv, LoadingIsPending
  <2>11. PageInv'
    BY <2>1, <2>3, <2>5, <2>8, <2>9, <2>10 DEF PageInv
  <2>. QED
    BY <2>4, <2>6, <2>7, <2>11
<1>4. CASE OrderFailed(r)
  <2>1. PICK state \in {"error", "contract-pending"} :
          ui' = IF r.live THEN [ui EXCEPT !.prepare = state, !.started = FALSE] ELSE ui
    BY <1>4 DEF OrderFailed
  <2>2. /\ net' = net \ {r}
        /\ UNCHANGED <<page, basket, flow, check, confirming, recovery, placed, sent, acts>>
    BY <1>4 DEF OrderFailed
  <2>3. /\ ui' \in UiType /\ ui'.lockers = ui.lockers
        /\ ui'.lockersState = ui.lockersState
        /\ ui'.prepare = "loading" => ui.prepare = "loading" /\ ~r.live
    <3>1. CASE r.live
      BY <2>1, <3>1 DEF PageTypeInv, UiType
    <3>2. CASE ~r.live
      BY <2>1, <3>2 DEF PageTypeInv
    <3>. QED
      BY <3>1, <3>2
  <2>4. PageTypeInv'
    BY <2>2, <2>3 DEF PageTypeInv
  <2>5. OrderInv'
    BY <2>2 DEF OrderInv
  <2>6. LoadingIsPending'
    BY <2>2, <2>3 DEF PageInv, LoadingIsPending
  <2>7. PageInv'
    BY <2>2, <2>3, <2>6 DEF PageInv
  <2>. QED
    BY <2>2, <2>4, <2>5, <2>7
<1>. QED
  BY <1>2, <1>3, <1>4

\* The end of a check puts the page at the review, over an order.
LEMMA ToReviewStep ==
    ASSUME PageTypeInv, OrderInv, PageInv, check # NoCheck,
           NEW s \in {"idle", "valid", "invalid"},
           ToReview([flow EXCEPT !.vatStatus = s]),
           UNCHANGED <<page, basket, confirming, recovery, placed, acts>>
    PROVE  Kept
<1> DEFINE f == [flow EXCEPT !.vatStatus = s]
           g == [f EXCEPT !.step = "review"]
<1>1. /\ g \in Flow /\ g.step = "review" /\ g.order = flow.order /\ g.order # NoOrderYet
      /\ g.method = flow.method /\ g.locker = flow.locker /\ g.address = flow.address
      /\ f.step = flow.step
  BY DEF PageTypeInv, Flow, Steps, OrderInv
<1>2. FlowKnows(g)
  BY <1>1 DEF FlowKnows, PageInv
<1>3. NoCheck \in Check
  BY DEF NoCheck, Check, None
<1>4. CASE f.step \in {"payment", "review"} /\ basket # Empty
  <2>1. /\ flow' = g /\ ui' = [ui EXCEPT !.submitting = FALSE]
        /\ check' = NoCheck /\ UNCHANGED <<net, sent>>
    BY <1>4 DEF ToReview
  <2>2. /\ ui' \in UiType /\ ui'.lockers = ui.lockers
        /\ ui'.lockersState = ui.lockersState /\ ui'.prepare = ui.prepare
    BY <2>1 DEF PageTypeInv, UiType
  <2>3. CountryOf(g) = CountryOf(flow)
    BY <1>1 DEF CountryOf
  <2>4. flow.step # "delivery"
    BY <1>1, <1>4
  <2> HIDE DEF f, g
  <2>. QED
    BY <1>1, <1>2, <1>3, <2>1, <2>2, <2>3, <2>4, Stays DEF PageTypeInv
<1>5. CASE ~(f.step \in {"payment", "review"} /\ basket # Empty)
  <2>1. Show(g, basket, Unmount(net)) /\ check' = NoCheck
    BY <1>5 DEF ToReview
  <2> HIDE DEF f, g
  <2>. QED
    BY <1>1, <1>2, <1>3, <2>1, Known, Mounts
<1>. QED
  BY <1>4, <1>5

LEMMA CheckSteps ==
    ASSUME PageTypeInv, OrderInv, PageInv, Continue \/ FieldsRefused \/ FieldsAccepted \/ VatAnswer
    PROVE  Kept
<1>1. NoCheck \in Check /\ NoCheck.phase = None
  BY DEF NoCheck, Check, None
<1>2. \A b \in BOOLEAN : LET u == [ui EXCEPT !.submitting = b]
                         IN  /\ u \in UiType /\ u.lockers = ui.lockers
                             /\ u.lockersState = ui.lockersState /\ u.prepare = ui.prepare
  BY DEF PageTypeInv, UiType
<1>3. ASSUME EndCheck
      PROVE  /\ ui' \in UiType /\ ui'.lockers = ui.lockers
             /\ ui'.lockersState = ui.lockersState /\ ui'.prepare = ui.prepare
             /\ check' = NoCheck
  BY <1>2, <1>3 DEF EndCheck, PageTypeInv
<1>4. ASSUME NEW s \in {"idle", "checking", "valid", "invalid"}
      PROVE  LET f == [flow EXCEPT !.vatStatus = s]
             IN  /\ f \in Flow /\ f.order = flow.order /\ f.step = flow.step
                 /\ f.method = flow.method /\ CountryOf(f) = CountryOf(flow)
                 /\ FlowKnows(f)
  <2> DEFINE f == [flow EXCEPT !.vatStatus = s]
  <2>1. /\ f \in Flow /\ f.order = flow.order /\ f.step = flow.step
        /\ f.method = flow.method /\ f.locker = flow.locker /\ f.address = flow.address
    BY DEF PageTypeInv, Flow
  <2>. QED
    BY <2>1 DEF PageInv, FlowKnows, CanContinue, CountryOf
<1>5. CASE Continue
  <2>1. /\ check' = [phase |-> "submit", vat |-> flow.vat, live |-> TRUE]
        /\ ui' = [ui EXCEPT !.submitting = TRUE] /\ flow.order # NoOrderYet
        /\ UNCHANGED <<page, basket, flow, net, confirming, recovery, placed, sent, acts>>
    BY <1>5 DEF Continue, PaymentShown
  <2>2. check' \in Check
    BY <2>1, FlowTyped DEF Check
  <2>. QED
    BY <1>2, <2>1, <2>2, Known, Stays
<1>6. CASE FieldsRefused
  <2>1. EndCheck
        /\ UNCHANGED <<page, basket, flow, net, confirming, recovery, placed, sent, acts>>
    BY <1>6 DEF FieldsRefused
  <2>. QED
    BY <1>1, <1>3, <2>1, Known, Stays
<1>7. CASE FieldsAccepted
  <2>1. check.phase = "submit" /\ UNCHANGED <<page, basket, confirming, recovery, placed, acts>>
    BY <1>7 DEF FieldsAccepted
  <2>2. check # NoCheck
    BY <1>1, <2>1 DEF None
  <2>3. CASE ToReview([flow EXCEPT !.vatStatus = "idle"])
    BY <2>1, <2>2, <2>3, ToReviewStep
  <2>4. CASE /\ check' = [check EXCEPT !.phase = "vat"]
             /\ flow' = [flow EXCEPT !.vatStatus = "checking"]
             /\ UNCHANGED <<ui, net, sent>>
    <3>1. check' \in Check
      BY <2>4 DEF PageTypeInv, Check
    <3>. QED
      BY <1>4, <2>1, <2>2, <2>4, <3>1, Known, Stays
  <2>5. CASE /\ EndCheck
             /\ flow' = [flow EXCEPT !.vatStatus = "invalid"]
             /\ UNCHANGED <<net, sent>>
    BY <1>1, <1>3, <1>4, <2>1, <2>5, Known, Stays
  <2>. QED
    BY <1>7, <2>3, <2>4, <2>5 DEF FieldsAccepted
<1>8. CASE VatAnswer
  <2>1. check.phase = "vat" /\ UNCHANGED <<page, basket, confirming, recovery, placed, acts>>
    BY <1>8 DEF VatAnswer
  <2>2. check # NoCheck
    BY <1>1, <2>1 DEF None
  <2>3. PICK answer \in {"valid", "pending", "invalid"} :
          IF answer = "invalid"
          THEN /\ EndCheck
               /\ flow' = [flow EXCEPT !.vatStatus = StatusOf(answer)]
               /\ UNCHANGED <<net, sent>>
          ELSE ToReview([flow EXCEPT !.vatStatus = StatusOf(answer)])
    BY <1>8 DEF VatAnswer
  <2> DEFINE s == StatusOf(answer)
  <2>4. s \in {"idle", "valid", "invalid"}
    BY DEF StatusOf
  <2> HIDE DEF s
  <2>5. CASE answer = "invalid"
    <3>1. EndCheck /\ flow' = [flow EXCEPT !.vatStatus = s] /\ UNCHANGED <<net, sent>>
      BY <2>3, <2>5 DEF s
    <3>. QED
      BY <1>1, <1>3, <1>4, <2>1, <2>4, <3>1, Known, Stays
  <2>6. CASE answer # "invalid"
    <3>1. ToReview([flow EXCEPT !.vatStatus = s])
      BY <2>3, <2>6 DEF s
    <3>. QED
      BY <2>1, <2>2, <2>4, <3>1, ToReviewStep
  <2>. QED
    BY <2>5, <2>6
<1>. QED
  BY <1>5, <1>6, <1>7, <1>8

LEMMA ReviewSteps ==
    ASSUME PageTypeInv, OrderInv, PageInv,
           AcceptTerms \/ PlaceOrder \/ PaymentRefused \/ Redirected
    PROVE  Kept
<1>1. \A b \in BOOLEAN : LET u == [ui EXCEPT !.placing = b]
                         IN  /\ u \in UiType /\ u.lockers = ui.lockers
                             /\ u.lockersState = ui.lockersState /\ u.prepare = ui.prepare
  BY DEF PageTypeInv, UiType
<1>2. CASE AcceptTerms
  <2>1. flow' = [flow EXCEPT !.terms = ~flow.terms]
        /\ UNCHANGED <<page, basket, ui, net, check, confirming, recovery, placed, sent, acts>>
    BY <1>2 DEF AcceptTerms
  <2>2. /\ flow' \in Flow /\ flow'.order = flow.order /\ flow'.step = flow.step
        /\ flow'.method = flow.method /\ flow'.locker = flow.locker
        /\ flow'.address = flow.address
    BY <2>1 DEF PageTypeInv, Flow
  <2>3. FlowKnows(flow') /\ CountryOf(flow') = CountryOf(flow)
    BY <2>2 DEF PageInv, FlowKnows, CanContinue, CountryOf
  <2>. QED
    BY <2>1, <2>2, <2>3, Known, Stays
<1>3. CASE PlaceOrder
  <2>1. /\ ui' = [ui EXCEPT !.placing = TRUE] /\ confirming' = flow.order
        /\ UNCHANGED <<page, basket, flow, net, check, recovery, placed, sent, acts>>
    BY <1>3 DEF PlaceOrder
  <2>2. confirming' \in OrdersOrNone /\ flow.order # NoOrderYet
    BY <1>3, <2>1, FlowTyped DEF OrdersOrNone, PlaceOrder, MayPlace
  <2>. QED
    BY <1>1, <2>1, <2>2, Known, Stays
<1>4. CASE PaymentRefused
  <2>1. /\ ui' = [ui EXCEPT !.placing = FALSE] /\ confirming' = NoOrderYet
        /\ UNCHANGED <<page, basket, flow, net, check, recovery, placed, sent, acts>>
    BY <1>4 DEF PaymentRefused
  <2>2. confirming' \in OrdersOrNone
    BY <2>1 DEF OrdersOrNone
  <2>. QED
    BY <1>1, <2>1, <2>2, Known, Stays
<1>5. CASE Redirected
  <2>1. /\ page' = "success" /\ basket' = Empty /\ recovery' = NoRecovery
        /\ net' = {} /\ check' = NoCheck
        /\ UNCHANGED <<flow, ui, confirming, placed, sent, acts>>
        /\ confirming # NoOrderYet
    BY <1>5 DEF Redirected
  <2>2. NoCheck \in Check /\ NoRecovery \in Recovery
    BY DEF NoCheck, Check, None, Recovery
  <2>3. PageTypeInv' /\ OrderInv'
    BY <2>1, <2>2 DEF PageTypeInv, OrderInv
  <2>4. LoadingIsPending'
    BY <2>1 DEF OrderInv, LoadingIsPending
  <2>5. PageInv'
    BY <2>1, <2>4 DEF PageInv
  <2>. QED
    BY <2>1, <2>3, <2>5 DEF Kept
<1>. QED
  BY <1>2, <1>3, <1>4, <1>5

LEMMA LeaveCheckTyped ==
    ASSUME PageTypeInv, LeaveCheck
    PROVE  check' \in Check /\ (check' # NoCheck => check # NoCheck)
<1>1. check' = [check EXCEPT !.live = FALSE]
  BY DEF LeaveCheck
<1>2. check' \in Check
  BY <1>1 DEF PageTypeInv, Check
<1>3. ASSUME check = NoCheck PROVE check' = NoCheck
  <2>1. /\ check'.phase = check.phase /\ check'.vat = check.vat
        /\ check'.live = FALSE
    BY <1>1 DEF PageTypeInv, Check
  <2>2. /\ check'.phase = None /\ check'.vat = NoVat
    BY <1>3, <2>1 DEF NoCheck
  <2>3. \A c \in Check : c.phase = None /\ c.vat = NoVat /\ c.live = FALSE
                          => c = NoCheck
    BY DEF Check, NoCheck
  <2>. QED
    BY <1>2, <2>1, <2>2, <2>3
<1>. QED
  BY <1>2, <1>3

LEMMA StepBackStep ==
    ASSUME PageTypeInv, OrderInv, PageInv, StepBack
    PROVE  Kept
<1>1. PICK step \in Steps : Index(step) < Index(flow.step) /\ GoTo(step)
  BY DEF StepBack
<1>2. /\ Act /\ LeaveCheck
      /\ UNCHANGED <<page, basket, confirming, recovery, placed>>
  BY DEF StepBack
<1> DEFINE f == [flow EXCEPT !.step = step]
<1>3. /\ f.step = step /\ f.order = flow.order /\ f.method = flow.method
      /\ f.locker = flow.locker /\ f.address = flow.address
  BY DEF PageTypeInv, Flow
<1>4. /\ step # "review"
      /\ step # "address" => flow.step # "address"
      /\ step = "payment" => flow.step = "review"
  BY <1>1, FlowTyped DEF Index, Steps
<1>5. FlowKnows(f)
  BY <1>3, <1>4 DEF FlowKnows, PageInv
<1>. QED
  BY <1>1, <1>2, <1>5, ActTyped, LeaveCheckTyped, GoToStep

LEMMA EditBasketStep ==
    ASSUME PageTypeInv, OrderInv, PageInv, EditBasket
    PROVE  Kept
<1>1. PICK items \in (Baskets \cup {Empty}) \ {basket} :
        /\ basket' = items
        /\ IF items = Empty
           THEN Show(flow, Empty, Unmount(net)) /\ LeaveCheck
           ELSE /\ UNCHANGED check
                /\ IF basket = Empty
                   THEN Show(flow, items, net)
                   ELSE IF Prepares(flow, ui, items)
                   THEN /\ sent < MaxOrders
                        /\ sent' = sent + 1
                        /\ net' = net \cup {OrderCall(flow, items)}
                        /\ ui' = [ui EXCEPT !.started = TRUE]
                        /\ UNCHANGED flow
                   ELSE UNCHANGED <<flow, ui, net, sent>>
  BY DEF EditBasket
<1>2. Act /\ page' = page /\ confirming' = confirming /\ recovery' = recovery
      /\ placed' = placed
  BY DEF EditBasket
<1>3. acts' \in 0 .. MaxActs
  BY <1>2, ActTyped
<1>4. CASE items = Empty
  <2>1. Show(flow, Empty, Unmount(net)) /\ LeaveCheck /\ basket' = Empty
    BY <1>1, <1>4
  <2>. QED
    BY <1>2, <1>3, <2>1, LeaveCheckTyped, Known, Mounts
<1>5. CASE items # Empty /\ basket = Empty
  <2>1. Show(flow, items, net) /\ check' = check /\ basket' = items
    BY <1>1, <1>5
  <2>2. /\ flow' = flow /\ ui' \in UiType /\ net' \subseteq Calls
        /\ sent' \in 0 .. MaxOrders
        /\ \A r \in net' : CallKnows(r, flow)
        /\ ui'.lockersState # "ready"
        /\ LoadingIsPending'
    BY <2>1, ShowKeeps DEF PageTypeInv, PageInv
  <2>3. PageTypeInv'
    BY <1>2, <1>3, <2>1, <2>2 DEF PageTypeInv
  <2>4. OrderInv'
    BY <1>2, <2>1, <2>2 DEF OrderInv
  <2>5. PageInv'
    BY <1>2, <2>2 DEF PageInv
  <2>. QED
    BY <2>2, <2>3, <2>4, <2>5 DEF Kept
<1>6. CASE items # Empty /\ basket # Empty /\ Prepares(flow, ui, items)
  <2> DEFINE r == OrderCall(flow, items)
  <2>1. /\ sent < MaxOrders /\ sent' = sent + 1 /\ net' = net \cup {r}
        /\ ui' = [ui EXCEPT !.started = TRUE] /\ flow' = flow /\ check' = check
        /\ basket' = items
    BY <1>1, <1>6
  <2>2. r \in OrderCalls /\ r.kind = "order" /\ r.live /\ Complete(r.payload)
    BY <1>6, <2>1, OrderCallTyped DEF PageTypeInv, PageInv
  <2> HIDE DEF r
  <2>3. /\ ui' \in UiType /\ ui'.lockers = ui.lockers
        /\ ui'.lockersState = ui.lockersState /\ ui'.prepare = ui.prepare
    BY <2>1 DEF PageTypeInv, UiType
  <2>4. sent' \in 0 .. MaxOrders
    BY <2>1, CheckoutPageAssumption DEF PageTypeInv
  <2>5. PageTypeInv'
    BY <1>2, <1>3, <2>1, <2>2, <2>3, <2>4 DEF PageTypeInv, Calls
  <2>6. OrderInv'
    BY <1>2, <2>1 DEF OrderInv
  <2>7. \A q \in net' : CallKnows(q, flow')
    BY <2>1, <2>2 DEF PageInv, CallKnows
  <2>8. LoadingIsPending'
    BY <2>1, <2>2 DEF LoadingIsPending
  <2>9. PageInv'
    BY <1>2, <2>1, <2>3, <2>7, <2>8 DEF PageInv
  <2>. QED
    BY <2>1, <2>5, <2>6, <2>9 DEF Kept
<1>7. CASE items # Empty /\ basket # Empty /\ ~Prepares(flow, ui, items)
  <2>1. UNCHANGED <<flow, ui, net, sent>> /\ check' = check /\ basket' = items
    BY <1>1, <1>7
  <2>2. basket' \in Baskets \cup {Empty}
    BY <2>1
  <2>. QED
    BY <1>2, <1>3, <2>1, <2>2, Known, Stays
<1>. QED
  BY <1>4, <1>5, <1>6, <1>7

\* A new context: a new key, and nothing of the former but the snapshot.
LEMMA FreshFlow ==
    ASSUME NEW r \in Recovery
    PROVE  /\ NewFlow(r) \in Flow /\ FlowKnows(NewFlow(r))
           /\ NewFlow(r).order = NoOrderYet /\ NewFlow(r).step = "address"
<1> DEFINE f == NewFlow(r)
<1>1. r.method \in Methods \cup {None} /\ (r # NoRecovery => r.country \in Countries)
  <2>1. CASE r = NoRecovery
    BY <2>1 DEF NoRecovery
  <2>2. CASE r # NoRecovery
    BY <2>2 DEF Recovery
  <2>. QED
    BY <2>1, <2>2
<1> DEFINE address == IF r = NoRecovery THEN NoAddress
                      ELSE [country |-> r.country, filled |-> FALSE]
<1>2. address \in Address \cup {NoAddress}
  BY <1>1 DEF Address
<1>3. f = [step |-> "address", method |-> r.method, address |-> address,
           locker |-> NoLocker, options |-> None, vat |-> NoVat, vatStatus |-> "idle",
           terms |-> FALSE, order |-> NoOrderYet]
  BY DEF NewFlow
<1> HIDE DEF f, address
<1>4. f \in Flow
  BY <1>1, <1>2, <1>3 DEF Flow, Steps
<1>5. FlowKnows(f) /\ f.order = NoOrderYet /\ f.step = "address"
  BY <1>3 DEF FlowKnows
<1>. QED
  BY <1>4, <1>5 DEF f

(* What the page shows when it is mounted with nothing to restore. *)
FirstUi == FreshUi("address", NewFlow(NoRecovery))

LEMMA FreshPage ==
    /\ NoCheck \in Check /\ NoOrderYet \in OrdersOrNone /\ NoRecovery \in Recovery
    /\ NothingPlaced \in [1 .. MaxOrders -> OrdersOrNone]
    /\ \A n \in 1 .. MaxOrders : NothingPlaced[n] = NoOrderYet
    /\ FirstUi \in UiType
    /\ FirstUi.lockersState = "idle"
    /\ FirstUi.prepare = "idle"
<1>1. NoCheck \in Check /\ NoOrderYet \in OrdersOrNone /\ NoRecovery \in Recovery
  BY DEF NoCheck, Check, None, OrdersOrNone, Recovery
<1>2. /\ NothingPlaced \in [1 .. MaxOrders -> OrdersOrNone]
      /\ \A n \in 1 .. MaxOrders : NothingPlaced[n] = NoOrderYet
  BY <1>1 DEF NothingPlaced
<1>3. NewFlow(NoRecovery) \in Flow /\ "address" \in Steps \cup {None}
  BY <1>1, FreshFlow DEF Steps
<1>4. FirstUi \in UiType
  BY <1>3, FreshTyped DEF FirstUi
<1>5. /\ FirstUi.lockersState = "idle"
      /\ FirstUi.prepare = "idle"
  BY DEF FreshUi, FirstUi
<1>. QED
  BY <1>1, <1>2, <1>4, <1>5

LEMMA ReloadStep ==
    ASSUME PageTypeInv, OrderInv, PageInv, Reload
    PROVE  PageTypeInv' /\ OrderInv' /\ PageInv' /\ flow'.order = NoOrderYet
<1>1. /\ flow' = NewFlow(recovery) /\ ui' = FirstUi
      /\ net' = {} /\ check' = NoCheck /\ confirming' = NoOrderYet
      /\ placed' = NothingPlaced /\ sent' = 0
      /\ UNCHANGED <<page, basket, recovery>> /\ Act
  BY DEF Reload, FirstUi
<1>2. /\ flow' \in Flow /\ FlowKnows(flow') /\ flow'.order = NoOrderYet
      /\ flow'.step = "address"
  BY <1>1, FreshFlow DEF PageTypeInv
<1>3. acts' \in 0 .. MaxActs
  BY <1>1, ActTyped
<1>4. sent' \in 0 .. MaxOrders
  BY <1>1, CheckoutPageAssumption
<1>5. ui' \in UiType /\ ui'.lockersState = "idle" /\ ui'.prepare = "idle"
  BY <1>1, FreshPage
<1>6. /\ check' \in Check /\ confirming' \in OrdersOrNone
      /\ placed' \in [1 .. MaxOrders -> OrdersOrNone]
      /\ \A n \in 1 .. MaxOrders : placed'[n] = NoOrderYet
  BY <1>1, FreshPage
<1>7. PageTypeInv'
  BY <1>1, <1>2, <1>3, <1>4, <1>5, <1>6 DEF PageTypeInv
<1>8. OrderInv'
  BY <1>1, <1>2, <1>6 DEF OrderInv
<1>9. PageInv'
  BY <1>1, <1>2, <1>5, <1>6 DEF PageInv, LoadingIsPending
<1>. QED
  BY <1>2, <1>7, <1>8, <1>9

LEMMA PageInit == CheckoutPageInit => PageTypeInv /\ OrderInv /\ PageInv
<1> SUFFICES ASSUME CheckoutPageInit PROVE PageTypeInv /\ OrderInv /\ PageInv
  OBVIOUS
<1>1. /\ page = "checkout" /\ basket \in Baskets /\ flow = NewFlow(NoRecovery)
      /\ ui = FirstUi
      /\ net = {} /\ check = NoCheck /\ confirming = NoOrderYet
      /\ recovery = NoRecovery /\ placed = NothingPlaced /\ sent = 0 /\ acts = 0
  BY DEF CheckoutPageInit, FirstUi
<1>2. /\ flow \in Flow /\ FlowKnows(flow) /\ flow.order = NoOrderYet /\ flow.step = "address"
  BY <1>1, FreshPage, FreshFlow
<1>3. sent \in 0 .. MaxOrders /\ acts \in 0 .. MaxActs
  BY <1>1, CheckoutPageAssumption
<1>4. ui \in UiType /\ ui.lockersState = "idle" /\ ui.prepare = "idle"
  BY <1>1, FreshPage
<1>5. /\ check \in Check /\ confirming \in OrdersOrNone /\ recovery \in Recovery
      /\ placed \in [1 .. MaxOrders -> OrdersOrNone]
      /\ \A n \in 1 .. MaxOrders : placed[n] = NoOrderYet
  BY <1>1, FreshPage
<1>6. PageTypeInv
  BY <1>1, <1>2, <1>3, <1>4, <1>5 DEF PageTypeInv
<1>7. OrderInv
  BY <1>1, <1>2, <1>5 DEF OrderInv
<1>8. PageInv
  BY <1>1, <1>2, <1>4, <1>5 DEF PageInv, LoadingIsPending
<1>. QED
  BY <1>6, <1>7, <1>8

LEMMA PageStep ==
    PageTypeInv /\ OrderInv /\ PageInv /\ [CheckoutPageNext]_pageVars =>
        /\ PageTypeInv' /\ OrderInv' /\ PageInv'
        /\ flow.order # NoOrderYet => flow'.order \in {flow.order, NoOrderYet}
<1> SUFFICES ASSUME PageTypeInv, OrderInv, PageInv, [CheckoutPageNext]_pageVars
             PROVE  /\ PageTypeInv' /\ OrderInv' /\ PageInv'
                    /\ flow.order # NoOrderYet => flow'.order \in {flow.order, NoOrderYet}
  OBVIOUS
<1>1. CASE Kept
  BY <1>1 DEF Kept
<1>2. ASSUME NEW r \in net, ServeOrder(r) \/ OrderCreated(r) \/ OrderFailed(r)
      PROVE  /\ PageTypeInv' /\ OrderInv' /\ PageInv'
             /\ flow.order # NoOrderYet => flow'.order = flow.order
  BY <1>2, OrderSteps
<1>3. CASE Reload
  BY <1>3, ReloadStep
<1>4. CASE EditAddress \/ SubmitAddress
  BY <1>1, <1>4, AddressSteps
<1>5. CASE \E m \in Methods : ChooseMethod(m)
  BY <1>1, <1>5, ChooseMethodStep
<1>6. CASE ChooseLocker \/ LeaveDelivery
  BY <1>1, <1>6, DeliverySteps
<1>7. CASE RetryOptions \/ \E r \in net : OptionsAnswer(r) \/ LockersAnswer(r)
  BY <1>1, <1>7, DeliveryCalls
<1>8. ASSUME EditVat PROVE Kept
  <2>1. PICK v \in VatIds \cup {NoVat} :
           flow' = [flow EXCEPT !.vat = v, !.vatStatus = "idle"]
    BY <1>8 DEF EditVat
  <2>2. /\ flow' \in Flow /\ flow'.order = flow.order /\ flow'.step = flow.step
        /\ flow'.method = flow.method /\ flow'.locker = flow.locker
        /\ flow'.address = flow.address
    BY <2>1 DEF PageTypeInv, Flow
  <2>3. FlowKnows(flow') /\ CountryOf(flow') = CountryOf(flow)
    BY <2>2 DEF PageInv, FlowKnows, CanContinue, CountryOf
  <2>4. Act /\ UNCHANGED <<page, basket, ui, net, check, confirming, recovery, placed, sent>>
    BY <1>8 DEF EditVat
  <2>. QED
    BY <2>2, <2>3, <2>4, ActTyped, Known, Stays
<1>9. CASE Continue \/ FieldsRefused \/ FieldsAccepted \/ VatAnswer
  BY <1>1, <1>9, CheckSteps
<1>10. CASE StepBack
  BY <1>1, <1>10, StepBackStep
<1>11. CASE AcceptTerms \/ PlaceOrder \/ PaymentRefused \/ Redirected
  BY <1>1, <1>11, ReviewSteps
<1>12. CASE EditBasket
  BY <1>1, <1>12, EditBasketStep
<1>13. ASSUME UNCHANGED pageVars PROVE Kept
  BY <1>13, Known, Stays DEF pageVars
<1>. QED
  BY <1>1, <1>2, <1>3, <1>4, <1>5, <1>6, <1>7, <1>8, <1>9, <1>10, <1>11, <1>12,
     <1>13 DEF CheckoutPageNext, Answers

LEMMA PageHolds == CheckoutPageSpec => [](PageTypeInv /\ OrderInv /\ PageInv)
  BY PageInit, PageStep, PTL DEF CheckoutPageSpec

-----------------------------------------------------------------------------
(* The properties *)

\* Every reachable state of the checkout page is well typed.
THEOREM PageTyped == CheckoutPageSpec => []CheckoutPageTypeOK
<1>1. PageTypeInv => CheckoutPageTypeOK
  <2> SUFFICES ASSUME PageTypeInv PROVE CheckoutPageTypeOK
    OBVIOUS
  <2>1. \A r \in net : r.kind # "order" => r.country \in Countries
    BY DEF PageTypeInv, Calls, OptionsCalls, LockersCalls, OrderCalls
  <2>. QED
    BY <2>1 DEF PageTypeInv, CheckoutPageTypeOK, UiType, Form, OrdersOrNone
<1>. QED
  BY PageHolds, <1>1, PTL

\* However often the payment phase mounts, fails and asks again, the server keeps
\* at most one order between two page loads.
THEOREM VisitPlacesOne == CheckoutPageSpec => []OneOrderPerVisit
<1>1. OrderInv => OneOrderPerVisit
  BY DEF OrderInv, OneOrderPerVisit
<1>. QED
  BY PageHolds, <1>1, PTL

\* An order goes out with a good address, a method, and a locker of that method.
THEOREM OrdersAreComplete == CheckoutPageSpec => []OrderIsComplete
<1>1. PageInv => OrderIsComplete
  BY DEF PageInv, Complete, OrderIsComplete
<1>. QED
  BY PageHolds, <1>1, PTL

\* The lockers on offer are those of the method and country chosen now.
THEOREM LockersAreCurrent == CheckoutPageSpec => []LockersFollow
<1>1. PageInv => LockersFollow
  BY DEF PageInv, LockersFollow
<1>. QED
  BY PageHolds, <1>1, PTL

\* The review is never shown without an order.
THEOREM ReviewNeedsOrder == CheckoutPageSpec => []ReviewHasOrder
<1>1. PageInv => ReviewHasOrder
  BY DEF PageInv, FlowKnows, ReviewHasOrder
<1>. QED
  BY PageHolds, <1>1, PTL

\* A payment phase that prepares has a request open, or the order has come.
THEOREM PreparingIsPending == CheckoutPageSpec => []LoadingIsPending
<1>1. PageInv => LoadingIsPending
  BY DEF PageInv
<1>. QED
  BY PageHolds, <1>1, PTL

\* No late answer puts another order under the card fields.
THEOREM ShownOrderStays == CheckoutPageSpec => OrderIsStable
<1> DEFINE Stable == flow.order # NoOrderYet => flow'.order \in {flow.order, NoOrderYet}
<1>1. PageTypeInv /\ OrderInv /\ PageInv /\ [CheckoutPageNext]_pageVars => [Stable]_pageVars
  BY PageStep
<1>. QED
  BY PageHolds, <1>1, PTL DEF CheckoutPageSpec, OrderIsStable

=============================================================================
