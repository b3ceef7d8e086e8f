------------------------------- MODULE Erasure -------------------------------
(***************************************************************************)
(* Erasure requests (GDPR Art. 17) and the retention of old orders.         *)
(*                                                                          *)
(* request_erasure stores the request, writes the audit trail and enqueues  *)
(* run_erasure_fanout; a worker runs the registered handlers, records what  *)
(* came of it, and asks for a retry while something failed.  A task is      *)
(* acknowledged when it ends: a lost worker's task runs again from its      *)
(* first line, also when its retry is already in the queue.  Beside them    *)
(* beat warns of requests near their deadline, and a nightly sweep cuts the *)
(* link between old orders and the users whose erasure has completed.       *)
(*                                                                          *)
(* ERASURE_REGISTRY holds the one handler _default_handlers registers.      *)
(***************************************************************************)
EXTENDS Naturals

CONSTANTS
    Users,
    Requests,       \* rows of ErasureRequest
    Orders,
    RequestUser,    \* whose erasure a request asks for
    OrderBuyer,     \* who bought an order
    Executors,      \* worker processes of the compliance queue
    MaxRetries,     \* max_retries of run_erasure_fanout
    MaxLosses       \* bound: processes lost in the middle of a task

ASSUME ErasureAssumption ==
    /\ RequestUser \in [Requests -> Users]
    /\ OrderBuyer \in [Orders -> Users]
    /\ MaxRetries \in Nat /\ MaxLosses \in Nat

VARIABLES
    request,    \* status, and whether completed_at is set
    account,    \* what of a user's personal data is there
    asking,     \* requests stored whose caller has not enqueued the task
    queue,      \* messages of a request, by the retries they have behind them
    executor,   \* what each worker is at
    near,       \* requests within three days of due_at
    warned,     \* requests the SLA check warned of
    old,        \* orders older than the financial retention
    linked,     \* orders that still name their buyer
    cursor,     \* completed requests the sweep has read and not yet handled
    dropped,    \* requests a task of which ended with an error nothing retries
    losses      \* for the bound MaxLosses

erasure == <<request, account, asking, queue, executor, near, warned,
             old, linked, cursor, dropped, losses>>

subject == <<account, old, linked, cursor>>
alarm == <<near, warned>>

-----------------------------------------------------------------------------
Statuses == {"requested", "in_progress", "completed", "partially_blocked"}
Unstored == [status |-> "none", stamped |-> FALSE]
Whole == [consents |-> TRUE, profile |-> TRUE, contact |-> TRUE]
Gone == [consents |-> FALSE, profile |-> FALSE, contact |-> FALSE]

(* A worker holds the message it took and the row as it was loaded.         *)
Free == [at |-> "free"]
Stages == {"start", "consents", "profile", "contact", "save", "finish", "ack"}
Busy == [at : Stages, of : Requests, tries : 0 .. MaxRetries,
         stamped : BOOLEAN, failed : BOOLEAN]
At(w, stage) == executor[w].at = stage
Go(w, stage) == executor' = [executor EXCEPT ![w].at = stage]
Leave(w) == executor' = [executor EXCEPT ![w] = Free]

Stored(r) == request[r].status # "none"
Open(r) == Stored(r) /\ request[r].status # "completed"
Erased(u) == account[u] = Gone

Enqueued(r, n) == [queue EXCEPT ![r][n] = @ + 1]

-----------------------------------------------------------------------------
(* request_erasure: the row, then the task.                                 *)
RequestErasure(r) ==
    /\ ~Stored(r)
    /\ request' = [request EXCEPT ![r].status = "requested"]
    /\ asking' = asking \cup {r}
    /\ UNCHANGED <<subject, alarm, queue, executor, dropped, losses>>

EnqueueFanout(r) ==
    /\ r \in asking
    /\ queue' = Enqueued(r, 0)
    /\ asking' = asking \ {r}
    /\ UNCHANGED <<subject, alarm, request, executor, dropped, losses>>

(* The process dies, or the audit row or the broker raises, in between.     *)
LoseCaller(r) ==
    /\ r \in asking
    /\ asking' = asking \ {r}
    /\ dropped' = dropped \cup {r}
    /\ UNCHANGED <<subject, alarm, request, queue, executor, losses>>

-----------------------------------------------------------------------------
(* run_erasure_fanout: a message is taken and the request loaded; of one    *)
(* that has completed nothing more is done.                                 *)
Done(r) == request[r].status = "completed"

StartFanout(w, r, n) ==
    /\ At(w, "free") /\ queue[r][n] > 0
    /\ queue' = [queue EXCEPT ![r][n] = @ - 1]
    /\ IF Done(r)
       THEN UNCHANGED executor
       ELSE executor' = [executor EXCEPT ![w] =
                [at |-> "start", of |-> r, tries |-> n,
                 stamped |-> request[r].stamped, failed |-> FALSE]]
    /\ UNCHANGED <<subject, alarm, request, asking, dropped, losses>>

MarkInProgress(w) ==
    /\ At(w, "start")
    /\ request' = [request EXCEPT ![executor[w].of].status = "in_progress"]
    /\ Go(w, "consents")
    /\ UNCHANGED <<subject, alarm, asking, queue, dropped, losses>>

(* erase_users: three statements, each committed by itself.                 *)
After(part) ==
    CASE part = "consents" -> "profile"
      [] part = "profile" -> "contact"
      [] part = "contact" -> "save"

Erase(w, part) ==
    /\ At(w, part)
    /\ account' = [account EXCEPT ![RequestUser[executor[w].of]][part] = FALSE]
    /\ Go(w, After(part))
    /\ UNCHANGED <<old, linked, cursor, alarm, request, asking, queue, dropped, losses>>

(* One of them raises: execute_erasure notes it and goes on.                *)
HandlerFails(w) ==
    /\ executor[w].at \in {"consents", "profile", "contact"}
    /\ executor' = [executor EXCEPT ![w].at = "save", ![w].failed = TRUE]
    /\ UNCHANGED <<subject, alarm, request, asking, queue, dropped, losses>>

(* The row is saved from the copy the task has held since it began.         *)
OutcomeHopeful(e) == [status |-> "completed", stamped |-> TRUE]
Outcome(e) ==
    IF e.failed
    THEN [status |-> "partially_blocked", stamped |-> e.stamped]
    ELSE [status |-> "completed", stamped |-> TRUE]

SaveOutcome(w) ==
    /\ At(w, "save")
    /\ request' = [request EXCEPT ![executor[w].of] = Outcome(executor[w])]
    /\ Go(w, "finish")
    /\ UNCHANGED <<subject, alarm, asking, queue, dropped, losses>>

(* The task ends well, or is sent again after default_retry_delay: the new  *)
(* message is in the queue before the old one is acknowledged.              *)
FinishFanout(w) ==
    /\ At(w, "finish") /\ ~executor[w].failed
    /\ Leave(w)
    /\ UNCHANGED <<subject, alarm, request, asking, queue, dropped, losses>>

MayRetry(e) == e.failed /\ e.tries < MaxRetries

RetryFanout(w) ==
    /\ At(w, "finish") /\ MayRetry(executor[w])
    /\ queue' = Enqueued(executor[w].of, executor[w].tries + 1)
    /\ Go(w, "ack")
    /\ UNCHANGED <<subject, alarm, request, asking, dropped, losses>>

Acknowledge(w) ==
    /\ At(w, "ack")
    /\ Leave(w)
    /\ UNCHANGED <<subject, alarm, request, asking, queue, dropped, losses>>

(* The retries are used up, or a statement outside the handlers raises: the *)
(* task fails and is acknowledged all the same.                             *)
FailFanout(w) ==
    /\ \/ At(w, "finish") /\ executor[w].failed /\ executor[w].tries = MaxRetries
       \/ executor[w].at \in {"start", "save", "finish"}
    /\ dropped' = dropped \cup {executor[w].of}
    /\ Leave(w)
    /\ UNCHANGED <<subject, alarm, request, asking, queue, losses>>

(* The worker is lost: what it had not acknowledged is delivered again.     *)
LoseExecutor(w) ==
    /\ ~At(w, "free") /\ losses < MaxLosses
    /\ queue' = Enqueued(executor[w].of, executor[w].tries)
    /\ Leave(w)
    /\ losses' = losses + 1
    /\ UNCHANGED <<subject, alarm, request, asking, dropped>>

-----------------------------------------------------------------------------
(* check_erasure_sla, hourly.                                               *)
Approach(r) ==
    /\ Stored(r) /\ r \notin near
    /\ near' = near \cup {r}
    /\ UNCHANGED <<subject, warned, request, asking, queue, executor, dropped, losses>>

AtRiskWaiting == {r \in near : request[r].status \in {"requested", "partially_blocked"}}
AtRisk ==
    {r \in near : request[r].status \in {"requested", "in_progress", "partially_blocked"}}

CheckErasureSla ==
    /\ warned' = warned \cup AtRisk
    /\ UNCHANGED <<subject, near, request, asking, queue, executor, dropped, losses>>

-----------------------------------------------------------------------------
(* nightly_retention_sweep: the completed requests are read, then one       *)
(* UPDATE for each; a lost sweep is taken up by the next one.               *)
OrderAges(o) ==
    /\ o \notin old
    /\ old' = old \cup {o}
    /\ UNCHANGED <<account, linked, cursor, alarm, request, asking, queue, executor,
                   dropped, losses>>

Swept == {r \in Requests : request[r].status = "completed"}

OpenRetentionSweep ==
    /\ cursor = {}
    /\ cursor' = Swept
    /\ UNCHANGED <<account, old, linked, alarm, request, asking, queue, executor,
                   dropped, losses>>

BoughtBy(u) == {o \in Orders : OrderBuyer[o] = u}

AnonymizeHistory(r) ==
    /\ r \in cursor
    /\ linked' = linked \ (old \cap BoughtBy(RequestUser[r]))
    /\ cursor' = cursor \ {r}
    /\ UNCHANGED <<account, old, alarm, request, asking, queue, executor, dropped, losses>>

LoseSweep ==
    /\ cursor # {} /\ losses < MaxLosses
    /\ cursor' = {}
    /\ losses' = losses + 1
    /\ UNCHANGED <<account, old, linked, alarm, request, asking, queue, executor, dropped>>

-----------------------------------------------------------------------------
ErasureInit ==
    /\ request = [r \in Requests |-> Unstored]
    /\ account = [u \in Users |-> Whole]
    /\ asking = {} /\ near = {} /\ warned = {} /\ dropped = {}
    /\ queue = [r \in Requests |-> [n \in 0 .. MaxRetries |-> 0]]
    /\ executor = [w \in Executors |-> Free]
    /\ old = {} /\ linked = Orders /\ cursor = {}
    /\ losses = 0

(* What a worker does next by itself.                                       *)
Works(w) ==
    \/ \E r \in Requests, n \in 0 .. MaxRetries : StartFanout(w, r, n)
    \/ MarkInProgress(w)
    \/ \E part \in {"consents", "profile", "contact"} : Erase(w, part)
    \/ HandlerFails(w)
    \/ SaveOutcome(w) \/ FinishFanout(w) \/ RetryFanout(w) \/ Acknowledge(w)
    \/ FailFanout(w)

ErasureNext ==
    \/ \E r \in Requests :
          RequestErasure(r) \/ EnqueueFanout(r) \/ LoseCaller(r) \/ Approach(r)
    \/ \E w \in Executors : Works(w) \/ LoseExecutor(w)
    \/ CheckErasureSla
    \/ \E o \in Orders : OrderAges(o)
    \/ OpenRetentionSweep \/ LoseSweep
    \/ \E r \in Requests : AnonymizeHistory(r)

ErasureSpec == ErasureInit /\ [][ErasureNext]_erasure

(* Callers and workers go on, beat keeps its schedule, and time passes.     *)
ErasureFairness ==
    /\ \A r \in Requests : WF_erasure(EnqueueFanout(r)) /\ WF_erasure(Approach(r))
    /\ \A w \in Executors : WF_erasure(Works(w))
    /\ WF_erasure(CheckErasureSla)
    /\ WF_erasure(OpenRetentionSweep)
    /\ \A r \in Requests : WF_erasure(AnonymizeHistory(r))

ErasureFairSpec == ErasureSpec /\ ErasureFairness

-----------------------------------------------------------------------------
(* The types of the state.                                                  *)
ErasureTypeOK ==
    /\ request \in [Requests -> [status : Statuses \cup {"none"}, stamped : BOOLEAN]]
    /\ account \in [Users -> [consents : BOOLEAN, profile : BOOLEAN, contact : BOOLEAN]]
    /\ asking \subseteq Requests /\ near \subseteq Requests /\ warned \subseteq Requests
    /\ queue \in [Requests -> [0 .. MaxRetries -> Nat]]
    /\ executor \in [Executors -> Busy \cup {Free}]
    /\ old \subseteq Orders /\ linked \subseteq Orders
    /\ cursor \subseteq Requests /\ dropped \subseteq Requests
    /\ losses \in 0 .. MaxLosses

(* A request is called completed only when nothing of the user is left,     *)
(* through handlers that fail halfway, tasks run again and two requests of  *)
(* one user run at a time.                                                  *)
CompletedIsErased ==
    \A r \in Requests : request[r].status = "completed" => Erased(RequestUser[r])

(* The tax evidence loses its buyer only when it is past the retention and  *)
(* that buyer's own data has been erased ("never touches other buyers").    *)
AnonymizedIsErased ==
    \A o \in Orders \ linked : o \in old /\ Erased(OrderBuyer[o])

(* A worker that will save an outcome, or that has one to be retried.       *)
Holds(w, r) ==
    /\ ~At(w, "free") /\ executor[w].of = r
    /\ \/ executor[w].at \in {"start", "consents", "profile", "contact", "save"}
       \/ At(w, "finish") /\ executor[w].failed

(* A request that is not completed is in somebody's hands: its caller's, a  *)
(* message's or a worker's; or one of its tasks ended with an error that    *)
(* the broker does not repeat.                                              *)
OpenIsInHand ==
    \A r \in Requests : Open(r) =>
        \/ r \in asking \/ r \in dropped
        \/ \E n \in 0 .. MaxRetries : queue[r][n] > 0
        \/ \E w \in Executors : Holds(w, r)

(* Whatever stops a request, it is completed or the SLA check warns of it.  *)
CompletedOrWarned ==
    \A r \in Requests : Open(r) ~> (request[r].status = "completed" \/ r \in warned)

(* The retries come to an end: the fan-out completes, or its task fails for *)
(* good.                                                                    *)
FanoutEnds ==
    \A r \in Requests : Open(r) ~> (request[r].status = "completed" \/ r \in dropped)

(* An order past the retention, of a buyer whose request stays completed,   *)
(* loses its link in the end.                                               *)
OldOrdersAreUnlinked ==
    \A r \in Requests : \A o \in BoughtBy(RequestUser[r]) :
        <>[](request[r].status = "completed") /\ <>(o \in old) => <>(o \notin linked)

(* An erasure comes to an end that somebody sees, with its task and with    *)
(* the old orders of its user.                                              *)
EveryErasureEnds == CompletedOrWarned /\ FanoutEnds /\ OldOrdersAreUnlinked
=============================================================================
