-------------------------- MODULE InternalPayments --------------------------
(***************************************************************************)
(* The internal payment API (payments_app/internal_views.py) with the      *)
(* idempotency table it shares with checkout (core/idempotency.py) and the *)
(* Celery handler that advances its intents (payments_app/tasks.py).       *)
(*                                                                         *)
(* No view opens a transaction: each statement commits on its own and the  *)
(* process may die between two of them.  A caller that got no answer sends *)
(* the same request again, with the same Idempotency-Key.  Requests the    *)
(* views refuse before any SELECT (authentication, outage, malformed or    *)
(* incomplete bodies) change nothing and are not sent here.                *)
(***************************************************************************)
EXTENDS Naturals

CONSTANTS Intents,       \* primary keys the InternalPaymentIntent table hands out
          Requests,      \* the bodies callers send
          Kind,          \* Kind[r]: "create" (an intent) or "refund"
          Key,           \* Key[r]: the Idempotency-Key, with its scope
          Keys,
          Target,        \* Target[r]: the intent a refund names
          Amount,        \* Amount[r]: amount_cents, 0 where a refund omits it
          MaxAmount,     \* the largest value of the cents columns
          Threads,       \* web threads
          Mortal,        \* the web threads whose process may die
          MaxSends       \* bound: how often one body is sent

ASSUME InternalPaymentsAssumption ==
    /\ "none" \notin Requests
    /\ Kind \in [Requests -> {"create", "refund"}]
    /\ Key \in [Requests -> Keys]
    /\ Target \in [Requests -> Intents]
    /\ MaxAmount \in Nat
    /\ Amount \in [Requests -> 0..MaxAmount]
    /\ \A r \in Requests : Kind[r] = "create" => Amount[r] > 0
    /\ Mortal \subseteq Threads
    /\ MaxSends \in Nat

VARIABLES
    intent,     \* the InternalPaymentIntent rows; status "none": no row yet
    moved,      \* moved[i]: what the InternalRefund rows of i add up to
    rows,       \* rows[k]: intent and refund rows inserted for key k
    idem,       \* the IdempotencyRecord of each key; request "none": no row
    thread,     \* what each web thread is doing
    sent,       \* sent[r]: times r was sent
    answers,    \* history: <<k, n>> where 201 with the n-th row of k was sent
    paid,       \* history: the intents Stripe has reported as succeeded
    job,        \* handle_payment_succeeded of each intent
    forwarded   \* history: the intents handed to forward_internal_event

vars == <<intent, moved, rows, idem, thread, sent, answers, paid, job, forwarded>>

REFUNDABLE_STATUSES == {"succeeded", "partially_refunded"}

Statuses == {"requires_payment_method", "refunded"} \cup REFUNDABLE_STATUSES

NoRow == [status |-> "none", amount |-> 0, refunded |-> 0]
NoRecord == [request |-> "none", row |-> 0]

\* A thread's request, the refund's amount and what it loaded of the intent.
IdleThread == [pc |-> "idle", request |-> "none", amount |-> 0, seen |-> 0, row |-> 0]

Init ==
    /\ intent = [i \in Intents |-> NoRow]
    /\ moved = [i \in Intents |-> 0]
    /\ rows = [k \in Keys |-> 0]
    /\ idem = [k \in Keys |-> NoRecord]
    /\ thread = [t \in Threads |-> IdleThread]
    /\ sent = [r \in Requests |-> 0]
    /\ answers = {}
    /\ paid = {}
    /\ job = [i \in Intents |-> "none"]
    /\ forwarded = {}

-----------------------------------------------------------------------------
(* Web threads *)

Answer(t) == thread' = [thread EXCEPT ![t] = IdleThread]

\* get_cached_response: replay the stored answer, 409 on another body, or go on.
Receive(t, r) ==
    LET record == idem[Key[r]]
    IN  /\ thread[t].pc = "idle"
        /\ sent[r] < MaxSends
        /\ sent' = [sent EXCEPT ![r] = @ + 1]
        /\ IF record = NoRecord
             THEN thread' = [thread EXCEPT ![t].pc = Kind[r], ![t].request = r]
             ELSE UNCHANGED thread
        /\ answers' = IF record.request = r
                        THEN answers \cup {<<Key[r], record.row>>}
                        ELSE answers
        /\ UNCHANGED <<intent, moved, rows, idem, paid, job, forwarded>>

\* A refund of want cents is let through if the intent passes.
Proceed(t, want, pass) ==
    /\ thread[t].pc = "refund"
    /\ thread' = IF pass
                   THEN [thread EXCEPT
                           ![t].pc = "insert", ![t].amount = want,
                           ![t].seen = intent[Target[thread[t].request]].refunded]
                   ELSE [thread EXCEPT ![t] = IdleThread]
    /\ UNCHANGED <<intent, moved, rows, idem, sent, answers, paid, job, forwarded>>

\* amount_cents, or what remains.
Wanted(r) == IF Amount[r] = 0
               THEN intent[Target[r]].amount - intent[Target[r]].refunded
               ELSE Amount[r]

\* The SELECT of the intent and the three checks on what it returned; a 404 or
\* a 422 changes nothing.
LoadIntent(t) ==
    LET i == intent[Target[thread[t].request]]
        want == Wanted(thread[t].request)
    IN  Proceed(t, want, /\ i.status \in REFUNDABLE_STATUSES
                         /\ want > 0
                         /\ i.refunded + want <= i.amount)

\* A row is inserted for the key: the n-th, if it is not the first.
InsertFor(k) == rows' = [rows EXCEPT ![k] = @ + 1]

InsertRefund(t) ==
    LET T == thread[t]
        k == Key[T.request]
    IN  /\ T.pc = "insert"
        /\ moved' = [moved EXCEPT ![Target[T.request]] = @ + T.amount]
        /\ InsertFor(k)
        /\ thread' = [thread EXCEPT ![t].pc = "save", ![t].row = rows[k] + 1]
        /\ UNCHANGED <<intent, idem, sent, answers, paid, job, forwarded>>

\* One UPDATE of the two columns.
WriteIntent(t, refunded, status) ==
    /\ thread[t].pc = "save"
    /\ intent' = [intent EXCEPT ![Target[thread[t].request]].refunded = refunded,
                                ![Target[thread[t].request]].status = status]
    /\ thread' = [thread EXCEPT ![t].pc = "store"]
    /\ UNCHANGED <<moved, rows, idem, sent, answers, paid, job, forwarded>>

\* Mutants: > for >=, and = for +=.
SaveIntentStrict(t) ==
    LET total == thread[t].seen + thread[t].amount
    IN  WriteIntent(t, total,
                    IF total > intent[Target[thread[t].request]].amount
                      THEN "refunded" ELSE "partially_refunded")

SaveIntentOverwrite(t) ==
    LET total == thread[t].amount
    IN  WriteIntent(t, total,
                    IF total >= intent[Target[thread[t].request]].amount
                      THEN "refunded" ELSE "partially_refunded")

\* intent.save(update_fields): both columns from the copy loaded earlier.
SaveIntent(t) ==
    LET total == thread[t].seen + thread[t].amount
    IN  WriteIntent(t, total,
                    IF total >= intent[Target[thread[t].request]].amount
                      THEN "refunded" ELSE "partially_refunded")

CreateIntent(t) ==
    LET r == thread[t].request
        k == Key[r]
    IN  /\ thread[t].pc = "create"
        /\ \E i \in Intents :
             /\ intent[i].status = "none"
             /\ intent' = [intent EXCEPT
                    ![i] = [status |-> "requires_payment_method",
                            amount |-> Amount[r], refunded |-> 0]]
        /\ InsertFor(k)
        /\ thread' = [thread EXCEPT ![t].pc = "store", ![t].row = rows[k] + 1]
        /\ UNCHANGED <<moved, idem, sent, answers, paid, job, forwarded>>

\* store_response (update_or_create: the last writer's answer stays) and 201.
StoreResponse(t) ==
    LET T == thread[t]
        k == Key[T.request]
    IN  /\ T.pc = "store"
        /\ idem' = [idem EXCEPT ![k] = [request |-> T.request, row |-> T.row]]
        /\ answers' = answers \cup {<<k, T.row>>}
        /\ Answer(t)
        /\ UNCHANGED <<intent, moved, rows, sent, paid, job, forwarded>>

\* The process dies in the middle of a request; what it committed stays.
LoseThread(t) ==
    /\ t \in Mortal
    /\ thread[t].pc # "idle"
    /\ Answer(t)
    /\ UNCHANGED <<intent, moved, rows, idem, sent, answers, paid, job, forwarded>>

-----------------------------------------------------------------------------
(* The tail of handle_payment_succeeded, for an intent of this API *)

\* Stripe reports the payment, once or again: a resent event, a redelivered
\* task.  OrderFlow models the way from the webhook to the task.  The column
\* the task looks the intent up by is not set in the repository yet: here it
\* is set as soon as the row exists, as in the contract test.
StripeSucceeds(i) ==
    /\ intent[i].status # "none"
    /\ job[i] = "none"
    /\ job' = [job EXCEPT ![i] = "queued"]
    /\ paid' = paid \cup {i}
    /\ UNCHANGED <<intent, moved, rows, idem, thread, sent, answers, forwarded>>

\* internal.save(update_fields): the status, whatever it was.
SaveSucceeded(i) ==
    /\ job[i] = "queued"
    /\ intent' = [intent EXCEPT ![i].status = "succeeded"]
    /\ job' = [job EXCEPT ![i] = "saved"]
    /\ UNCHANGED <<moved, rows, idem, thread, sent, answers, paid, forwarded>>

ForwardEvent(i) ==
    /\ job[i] = "saved"
    /\ forwarded' = forwarded \cup {i}
    /\ job' = [job EXCEPT ![i] = "none"]
    /\ UNCHANGED <<intent, moved, rows, idem, thread, sent, answers, paid>>

\* acks_late: the worker is lost, the task is delivered again.
LoseWorker(i) ==
    /\ job[i] = "saved"
    /\ job' = [job EXCEPT ![i] = "queued"]
    /\ UNCHANGED <<intent, moved, rows, idem, thread, sent, answers, paid,
                   forwarded>>

-----------------------------------------------------------------------------

RequestStep(t) ==
    \/ LoadIntent(t) \/ InsertRefund(t) \/ SaveIntent(t) \/ CreateIntent(t)
    \/ StoreResponse(t)

TaskStep(i) == SaveSucceeded(i) \/ ForwardEvent(i)

Next ==
    \/ \E t \in Threads : \/ RequestStep(t) \/ LoseThread(t)
                          \/ \E r \in Requests : Receive(t, r)
    \/ \E i \in Intents : StripeSucceeds(i) \/ TaskStep(i) \/ LoseWorker(i)

Spec == Init /\ [][Next]_vars

-----------------------------------------------------------------------------

Rows == [status: Statuses \cup {"none"}, amount: 0..MaxAmount,
         refunded: 0..MaxAmount]

ThreadStates ==
    [pc: {"idle", "create", "refund", "insert", "save", "store"},
     request: Requests \cup {"none"}, amount: Nat, seen: Nat, row: Nat]

\* The type of every variable; the cents columns never overflow.
TypeOK ==
    /\ intent \in [Intents -> Rows]
    /\ moved \in [Intents -> Nat]
    /\ rows \in [Keys -> Nat]
    /\ idem \in [Keys -> [request: Requests \cup {"none"}, row: Nat]]
    /\ thread \in [Threads -> ThreadStates]
    /\ sent \in [Requests -> Nat]
    /\ answers \subseteq Keys \X Nat
    /\ paid \subseteq Intents
    /\ job \in [Intents -> {"none", "queued", "saved"}]
    /\ forwarded \subseteq Intents

\* However many refunds save from stale copies, an intent's refunded_cents stays
\* within its amount (the check at internal_views.py:216 is made on a copy).
RefundedWithinAmount == \A i \in Intents : intent[i].refunded <= intent[i].amount

\* The intent never claims more refunded than its refund rows add up to: a lost
\* update or a crash can only make it claim less.
RefundedIsBacked == \A i \in Intents : intent[i].refunded <= moved[i]

\* Status and refunded_cents tell one story, as far as the status speaks of
\* refunds, though two writers set the status from what they loaded.
StatusMatchesRefunded ==
    \A i \in Intents :
        LET row == intent[i]
        IN  /\ row.status = "refunded" => row.refunded = row.amount
            /\ row.status = "partially_refunded"
                 => row.refunded > 0 /\ row.refunded < row.amount
            /\ row.status \in {"none", "requires_payment_method"} => moved[i] = 0

\* No money moves back for a payment Stripe has not reported, and the product
\* is never told "succeeded" of one.
MovedOnlyIfPaid ==
    \A i \in Intents : moved[i] > 0 \/ i \in forwarded => i \in paid

\* Requests served one at a time: every answer to a key names the same row,
\* though the process may die after the insert and the caller try again.
AnswersAgree ==
    \A a, b \in answers : a[1] = b[1] => a = b

\* With one thread that dies, refunded_cents may fall behind but never goes back.
RefundedGrows ==
    [][\A i \in Intents : intent'[i].refunded >= intent[i].refunded]_intent

\* With one thread that never dies the API keeps its promise.
Ledger == INSTANCE RefundLedger
            WITH amount <- [i \in Intents |-> intent[i].amount],
                 refunded <- moved,
                 done <- {k \in Keys : rows[k] > 0}

KeepsPromise == Ledger!Spec

=============================================================================
