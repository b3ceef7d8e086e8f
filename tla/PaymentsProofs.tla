--------------------------- MODULE PaymentsProofs ---------------------------
(***************************************************************************)
(* Theorems about InternalPayments and about Forwarding, which extends it, *)
(* for every set of intents, requests, keys, threads and workers, and every *)
(* amount and number of resends, retries and losses.                       *)
(***************************************************************************)
EXTENDS Forwarding, TLAPS

(* The internal payment API.                                               *)
\* What a request in progress relies on: the amounts it computed from its copy
\* of the intent, whatever the row holds by now.
ThreadOK(t) ==
    LET T == thread[t]
        i == Target[T.request]
    IN  /\ T.pc # "idle" => T.request \in Requests
        /\ T.pc = "create" => Kind[T.request] = "create"
        /\ T.pc \in {"insert", "save"}
             => /\ T.amount > 0
                /\ T.seen + T.amount <= intent[i].amount
                /\ i \in paid
                /\ intent[i].status \notin {"none", "requires_payment_method"}
        /\ T.pc = "insert" => T.seen <= moved[i]
        /\ T.pc = "save" => T.seen + T.amount <= moved[i]

IntentOK(i) ==
    LET row == intent[i]
    IN  /\ row.status = "none" => row.amount = 0 /\ row.refunded = 0
        /\ row.status # "none" => row.amount > 0
        /\ row.status \in {"none", "requires_payment_method"} => moved[i] = 0
        /\ row.status \notin {"none", "requires_payment_method"} => i \in paid
        /\ row.status = "refunded" => row.refunded = row.amount
        /\ row.status = "partially_refunded"
             => row.refunded > 0 /\ row.refunded < row.amount
        /\ row.refunded <= row.amount
        /\ row.refunded <= moved[i]
        /\ moved[i] > 0 \/ i \in forwarded \/ job[i] # "none" => i \in paid
        /\ i \in paid => row.status # "none"

PaymentsInv ==
    /\ TypeOK
    /\ \A t \in Threads : ThreadOK(t)
    /\ \A i \in Intents : IntentOK(i)

LEMMA PaymentsInvInit == Init => PaymentsInv
BY InternalPaymentsAssumption
   DEF Init, PaymentsInv, TypeOK, ThreadOK, IntentOK, NoRow, NoRecord, IdleThread, Rows,
       Statuses, REFUNDABLE_STATUSES, ThreadStates

LEMMA PaymentsInvStep == PaymentsInv /\ [Next]_vars => PaymentsInv'
<1> SUFFICES ASSUME PaymentsInv, [Next]_vars PROVE PaymentsInv'
  OBVIOUS
<1> USE InternalPaymentsAssumption
<1> USE DEF PaymentsInv, ThreadStates, Rows
<1>1. ASSUME NEW t \in Threads, NEW r \in Requests, Receive(t, r) PROVE PaymentsInv'
  <2>1. TypeOK'
    <3>1. Key[r] \in Keys /\ idem[Key[r]].row \in Nat
      BY DEF TypeOK
    <3>2. thread' \in [Threads -> ThreadStates]
      <4> DEFINE T == [thread[t] EXCEPT !.pc = Kind[r], !.request = r]
      <4>1. thread \in [Threads -> ThreadStates] /\ thread[t] \in ThreadStates
        BY DEF TypeOK
      <4>2. Kind[r] \in {"create", "refund"}
        OBVIOUS
      <4>3. T \in ThreadStates
        BY <4>1, <4>2
      <4>4. thread' = thread \/ thread' = [thread EXCEPT ![t] = T]
        BY <1>1 DEF Receive
      <4>. QED
        BY <4>1, <4>3, <4>4
    <3>3. answers' \subseteq Keys \X Nat
      BY <1>1, <3>1 DEF TypeOK, Receive
    <3>. QED
      BY <1>1, <3>2, <3>3 DEF TypeOK, Receive
  <2>2. ASSUME NEW x \in Threads PROVE ThreadOK(x)'
    <3>1. CASE x = t
      BY <1>1, <3>1 DEF TypeOK, ThreadOK, Receive
    <3>2. CASE x # t
      <4>1. thread'[x] = thread[x]
        BY <1>1, <3>2 DEF TypeOK, Receive
      <4>. QED
        BY <1>1, <4>1 DEF ThreadOK, Receive
    <3>. QED
      BY <3>1, <3>2
  <2>3. ASSUME NEW i \in Intents PROVE IntentOK(i)'
    BY <1>1 DEF IntentOK, Receive
  <2>. QED
    BY <2>1, <2>2, <2>3
<1>2. ASSUME NEW t \in Threads, LoadIntent(t) PROVE PaymentsInv'
  <2> DEFINE i == Target[thread[t].request]
             rest == intent[i].amount - intent[i].refunded
             want == IF Amount[thread[t].request] = 0
                       THEN rest ELSE Amount[thread[t].request]
  <2>1. /\ i \in Intents /\ intent[i] \in Rows
        /\ rest \in Nat /\ want \in Nat
    BY <1>2 DEF TypeOK, ThreadOK, IntentOK, LoadIntent, Proceed, Wanted
  <2>2. \/ thread' = [thread EXCEPT ![t] = IdleThread]
        \/ /\ thread' = [thread EXCEPT ![t].pc = "insert", ![t].amount = want,
                                       ![t].seen = intent[i].refunded]
           /\ intent[i].status \in REFUNDABLE_STATUSES
           /\ want > 0
           /\ intent[i].refunded + want <= intent[i].amount
    BY <1>2 DEF LoadIntent, Proceed, Wanted
  <2>3. TypeOK'
    <3> DEFINE T == [thread[t] EXCEPT !.pc = "insert", !.amount = want,
                                      !.seen = intent[i].refunded]
    <3>1. thread \in [Threads -> ThreadStates] /\ thread[t] \in ThreadStates
      BY DEF TypeOK
    <3>2. T \in ThreadStates /\ IdleThread \in ThreadStates
      <4>1. T \in ThreadStates
        <5>1. intent[i].refunded \in Nat /\ want \in Nat
          BY <2>1
        <5> HIDE DEF want, i
        <5>. QED
          BY <3>1, <5>1
      <4>2. IdleThread \in ThreadStates
        BY DEF IdleThread
      <4>. QED
        BY <4>1, <4>2
    <3>3. \/ thread' = [thread EXCEPT ![t] = IdleThread]
          \/ thread' = [thread EXCEPT ![t] = T]
      BY <2>2
    <3>4. thread' \in [Threads -> ThreadStates]
      BY <3>1, <3>2, <3>3
    <3>. QED
      BY <1>2, <3>4 DEF TypeOK, LoadIntent, Proceed, Wanted
  <2>4. ASSUME NEW x \in Threads PROVE ThreadOK(x)'
    <3>1. CASE x = t
      <4>1. CASE thread' = [thread EXCEPT ![t] = IdleThread]
        BY <3>1, <4>1 DEF TypeOK, ThreadOK, IdleThread
      <4>2. CASE thread' # [thread EXCEPT ![t] = IdleThread]
        <5>1. thread'[t].pc = "insert" /\ thread'[t].request = thread[t].request
          BY <2>2, <4>2 DEF TypeOK
        <5>2. thread'[t].amount = want /\ thread'[t].seen = intent[i].refunded
          BY <2>2, <4>2 DEF TypeOK
        <5>3. IntentOK(i) /\ thread[t].request \in Requests
          BY <1>2, <2>1 DEF ThreadOK, LoadIntent, Proceed, Wanted
        <5>4. intent' = intent /\ moved' = moved /\ paid' = paid
          BY <1>2 DEF LoadIntent, Proceed, Wanted
        <5>. QED
          BY <2>1, <2>2, <3>1, <4>2, <5>1, <5>2, <5>3, <5>4
             DEF ThreadOK, IntentOK, REFUNDABLE_STATUSES
      <4>. QED
        BY <4>1, <4>2
    <3>2. CASE x # t
      BY <1>2, <3>2 DEF TypeOK, ThreadOK, LoadIntent, Proceed, Wanted
    <3>. QED
      BY <3>1, <3>2
  <2>5. ASSUME NEW x \in Intents PROVE IntentOK(x)'
    BY <1>2 DEF IntentOK, LoadIntent, Proceed, Wanted
  <2>. QED
    BY <2>3, <2>4, <2>5
<1>3. ASSUME NEW t \in Threads, InsertRefund(t) PROVE PaymentsInv'
  <2> DEFINE i == Target[thread[t].request]
             k == Key[thread[t].request]
  <2>1. /\ i \in Intents /\ k \in Keys
        /\ thread[t].amount \in Nat /\ thread[t].amount > 0 /\ thread[t].seen \in Nat
        /\ i \in paid
        /\ intent[i].status \notin {"none", "requires_payment_method"}
    BY <1>3 DEF TypeOK, ThreadOK, InsertRefund
  <2>2. /\ moved' = [moved EXCEPT ![i] = @ + thread[t].amount]
        /\ rows' = [rows EXCEPT ![k] = @ + 1]
        /\ thread' = [thread EXCEPT ![t].pc = "save", ![t].row = rows[k] + 1]
    BY <1>3 DEF InsertRefund, InsertFor
  <2>3. TypeOK'
    <3> DEFINE T == [thread[t] EXCEPT !.pc = "save", !.row = rows[k] + 1]
    <3>1. T \in ThreadStates
      <4>1. thread[t] \in ThreadStates /\ rows[k] + 1 \in Nat
        BY <2>1 DEF TypeOK
      <4> HIDE DEF k
      <4>. QED
        BY <4>1
    <3>2. thread' = [thread EXCEPT ![t] = T]
      BY <2>2
    <3>3. thread' \in [Threads -> ThreadStates]
      BY <3>1, <3>2 DEF TypeOK
    <3>4. moved' \in [Intents -> Nat] /\ rows' \in [Keys -> Nat]
      BY <2>1, <2>2 DEF TypeOK
    <3>. QED
      BY <1>3, <3>3, <3>4 DEF TypeOK, InsertRefund
  <2>4. ASSUME NEW x \in Threads PROVE ThreadOK(x)'
    <3>1. CASE x = t
      BY <1>3, <2>1, <2>2, <3>1 DEF TypeOK, ThreadOK, InsertRefund
    <3>2. CASE x # t
      <4>1. ASSUME NEW j \in Intents PROVE moved[j] <= moved'[j]
        BY <2>1, <2>2 DEF TypeOK
      <4>2. thread'[x] = thread[x] /\ intent' = intent /\ paid' = paid
        BY <1>3, <2>2, <3>2 DEF TypeOK, InsertRefund
      <4>3. thread[x].pc # "idle" => Target[thread[x].request] \in Intents
        BY DEF ThreadOK
      <4>. QED
        BY <2>3, <4>1, <4>2, <4>3 DEF TypeOK, ThreadOK
    <3>. QED
      BY <3>1, <3>2
  <2>5. ASSUME NEW x \in Intents PROVE IntentOK(x)'
    BY <1>3, <2>1, <2>2 DEF TypeOK, IntentOK, InsertRefund
  <2>. QED
    BY <2>3, <2>4, <2>5
<1>4. ASSUME NEW t \in Threads, SaveIntent(t) PROVE PaymentsInv'
  <2> DEFINE i == Target[thread[t].request]
             total == thread[t].seen + thread[t].amount
             status == IF total >= intent[i].amount
                         THEN "refunded" ELSE "partially_refunded"
             row == [intent[i] EXCEPT !.refunded = total, !.status = status]
  <2>1. /\ i \in Intents /\ intent[i] \in Rows
        /\ total \in Nat /\ total > 0 /\ total <= intent[i].amount
        /\ total <= moved[i] /\ i \in paid
        /\ intent[i].status \notin {"none", "requires_payment_method"}
    BY <1>4 DEF TypeOK, ThreadOK, SaveIntent, WriteIntent
  <2>2. /\ intent' = [intent EXCEPT ![i] = row]
        /\ thread' = [thread EXCEPT ![t].pc = "store"]
    BY <1>4 DEF SaveIntent, WriteIntent
  <2>3. /\ row \in Rows
        /\ row.refunded = total /\ row.status = status
        /\ row.amount = intent[i].amount
    <3>1. status \in Statuses /\ total \in 0..MaxAmount
      BY <2>1 DEF Statuses, REFUNDABLE_STATUSES
    <3> HIDE DEF status, total, i
    <3>. QED
      BY <2>1, <3>1
  <2>4. TypeOK'
    <3>1. intent' \in [Intents -> Rows]
      BY <2>2, <2>3 DEF TypeOK
    <3>2. thread' \in [Threads -> ThreadStates]
      BY <2>2 DEF TypeOK
    <3>. QED
      BY <1>4, <3>1, <3>2 DEF TypeOK, SaveIntent, WriteIntent
  <2>5. ASSUME NEW x \in Threads PROVE ThreadOK(x)'
    <3>1. CASE x = t
      BY <1>4, <2>2, <3>1 DEF TypeOK, ThreadOK, SaveIntent, WriteIntent
    <3>2. CASE x # t
      <4>1. ASSUME NEW j \in Intents
            PROVE  /\ intent'[j].amount = intent[j].amount
                   /\ intent[j].status \notin {"none", "requires_payment_method"}
                        => intent'[j].status \notin {"none", "requires_payment_method"}
        <5>1. intent'[j] = IF j = i THEN row ELSE intent[j]
          BY <2>2 DEF TypeOK
        <5> HIDE DEF row
        <5>. QED
          BY <2>3, <5>1
      <4>2. thread'[x] = thread[x] /\ moved' = moved /\ paid' = paid
        BY <1>4, <2>2, <3>2 DEF TypeOK, SaveIntent, WriteIntent
      <4>3. thread[x].pc # "idle" => Target[thread[x].request] \in Intents
        BY DEF ThreadOK
      <4>. QED
        BY <4>1, <4>2, <4>3 DEF ThreadOK
    <3>. QED
      BY <3>1, <3>2
  <2>6. ASSUME NEW x \in Intents PROVE IntentOK(x)'
    <3>1. CASE x = i
      <4>1. intent'[i] = row /\ UNCHANGED <<moved, paid, job, forwarded>>
        <5>1. intent'[i] = row
          BY <2>1, <2>2 DEF TypeOK
        <5>2. UNCHANGED <<moved, paid, job, forwarded>>
          BY <1>4 DEF SaveIntent, WriteIntent
        <5>. QED
          BY <5>1, <5>2
      <4>2. \/ status = "refunded" /\ total = intent[i].amount
            \/ status = "partially_refunded" /\ total < intent[i].amount
        BY <2>1
      <4>3. IntentOK(i)
        BY <2>1
      <4> HIDE DEF status, total, row, i
      <4>. QED
        BY <2>1, <2>3, <3>1, <4>1, <4>2, <4>3 DEF IntentOK
    <3>2. CASE x # i
      BY <1>4, <2>1, <2>2, <3>2 DEF TypeOK, IntentOK, SaveIntent, WriteIntent
    <3>. QED
      BY <3>1, <3>2
  <2>. QED
    BY <2>4, <2>5, <2>6
<1>5. ASSUME NEW t \in Threads, CreateIntent(t) PROVE PaymentsInv'
  <2> DEFINE r == thread[t].request
             k == Key[r]
             row == [status |-> "requires_payment_method", amount |-> Amount[r],
                     refunded |-> 0]
  <2>1. r \in Requests /\ k \in Keys /\ Amount[r] \in 1..MaxAmount /\ row \in Rows
    BY <1>5 DEF TypeOK, ThreadOK, CreateIntent, Statuses
  <2>2. PICK i \in Intents : /\ intent[i].status = "none"
                             /\ intent' = [intent EXCEPT ![i] = row]
    BY <1>5 DEF CreateIntent
  <2>3. /\ rows' = [rows EXCEPT ![k] = @ + 1]
        /\ thread' = [thread EXCEPT ![t].pc = "store", ![t].row = rows[k] + 1]
        /\ UNCHANGED <<moved, idem, sent, answers, paid, job, forwarded>>
    BY <1>5 DEF CreateIntent, InsertFor
  <2>4. TypeOK'
    <3> DEFINE T == [thread[t] EXCEPT !.pc = "store", !.row = rows[k] + 1]
    <3>1. T \in ThreadStates
      <4>1. thread[t] \in ThreadStates /\ rows[k] + 1 \in Nat
        BY <2>1 DEF TypeOK
      <4> HIDE DEF k
      <4>. QED
        BY <4>1
    <3>2. thread' = [thread EXCEPT ![t] = T]
      BY <2>3
    <3>3. thread' \in [Threads -> ThreadStates]
      BY <3>1, <3>2 DEF TypeOK
    <3>4. intent' \in [Intents -> Rows] /\ rows' \in [Keys -> Nat]
      BY <2>1, <2>2, <2>3 DEF TypeOK
    <3>. QED
      BY <2>3, <3>3, <3>4 DEF TypeOK
  <2>5. ASSUME NEW x \in Threads PROVE ThreadOK(x)'
    <3>1. CASE x = t
      BY <1>5, <2>3, <3>1 DEF TypeOK, ThreadOK, CreateIntent
    <3>2. CASE x # t
      <4>1. ASSUME NEW j \in Intents, intent[j].status # "none"
            PROVE  intent'[j] = intent[j]
        BY <2>2, <4>1 DEF TypeOK
      <4>2. thread'[x] = thread[x]
        BY <2>3, <3>2 DEF TypeOK
      <4>3. thread[x].pc # "idle" => Target[thread[x].request] \in Intents
        BY DEF ThreadOK
      <4>4. thread[x].pc \in {"insert", "save"}
              => intent'[Target[thread[x].request]] = intent[Target[thread[x].request]]
        BY <4>1, <4>3 DEF ThreadOK
      <4>5. ThreadOK(x) /\ moved' = moved /\ paid' = paid
        BY <2>3
      <4> HIDE DEF PaymentsInv, row, k, r
      <4>. QED
        BY <4>2, <4>4, <4>5 DEF ThreadOK
    <3>. QED
      BY <3>1, <3>2
  <2>6. ASSUME NEW x \in Intents PROVE IntentOK(x)'
    BY <2>1, <2>2, <2>3 DEF TypeOK, IntentOK
  <2>. QED
    BY <2>4, <2>5, <2>6
<1>6. ASSUME NEW t \in Threads, StoreResponse(t) PROVE PaymentsInv'
  BY <1>6 DEF PaymentsInv, TypeOK, ThreadOK, IntentOK, StoreResponse, Answer, IdleThread,
              ThreadStates
<1>7. ASSUME NEW t \in Threads, LoseThread(t) PROVE PaymentsInv'
  BY <1>7 DEF PaymentsInv, TypeOK, ThreadOK, IntentOK, LoseThread, Answer, IdleThread,
              ThreadStates
<1>8. ASSUME NEW i \in Intents, StripeSucceeds(i) PROVE PaymentsInv'
  BY <1>8 DEF PaymentsInv, TypeOK, ThreadOK, IntentOK, StripeSucceeds
<1>9. ASSUME NEW i \in Intents, SaveSucceeded(i) PROVE PaymentsInv'
  BY <1>9 DEF PaymentsInv, TypeOK, ThreadOK, IntentOK, SaveSucceeded, Rows, Statuses,
              REFUNDABLE_STATUSES, ThreadStates
<1>10. ASSUME NEW i \in Intents, ForwardEvent(i) PROVE PaymentsInv'
  BY <1>10 DEF PaymentsInv, TypeOK, ThreadOK, IntentOK, ForwardEvent
<1>11. ASSUME NEW i \in Intents, LoseWorker(i) PROVE PaymentsInv'
  BY <1>11 DEF PaymentsInv, TypeOK, ThreadOK, IntentOK, LoseWorker
<1>12. CASE UNCHANGED vars
  BY <1>12 DEF PaymentsInv, TypeOK, ThreadOK, IntentOK, vars
<1>. QED
  BY <1>1, <1>2, <1>3, <1>4, <1>5, <1>6, <1>7, <1>8, <1>9, <1>10, <1>11, <1>12
     DEF Next, RequestStep, TaskStep

LEMMA PaymentsInvHolds == Spec => []PaymentsInv
BY PaymentsInvInit, PaymentsInvStep, PTL DEF Spec

\* Every variable keeps its type: no sum of cents leaves its column.
THEOREM PaymentsTyped == Spec => []TypeOK
<1>1. PaymentsInv => TypeOK
  BY DEF PaymentsInv
<1>. QED
  BY PaymentsInvHolds, <1>1, PTL

\* Any number of racing refunds: refunded_cents stays within amount_cents, ...
THEOREM RefundedIsWithinAmount == Spec => []RefundedWithinAmount
<1>1. PaymentsInv => RefundedWithinAmount
  BY DEF PaymentsInv, IntentOK, RefundedWithinAmount
<1>. QED
  BY PaymentsInvHolds, <1>1, PTL

\* ... and never above what the refund rows add up to.
THEOREM RefundedHasRows == Spec => []RefundedIsBacked
<1>1. PaymentsInv => RefundedIsBacked
  BY DEF PaymentsInv, IntentOK, RefundedIsBacked
<1>. QED
  BY PaymentsInvHolds, <1>1, PTL

\* Two writers of the status and the stale copies they write from never make it
\* contradict refunded_cents.
THEOREM StatusIsTrue == Spec => []StatusMatchesRefunded
<1>1. PaymentsInv => StatusMatchesRefunded
  BY DEF PaymentsInv, IntentOK, StatusMatchesRefunded
<1>. QED
  BY PaymentsInvHolds, <1>1, PTL

\* Money moves back, and success is forwarded, only after Stripe's report.
THEOREM OnlyPaidMoves == Spec => []MovedOnlyIfPaid
<1>1. PaymentsInv => MovedOnlyIfPaid
  BY DEF PaymentsInv, IntentOK, MovedOnlyIfPaid
<1>. QED
  BY PaymentsInvHolds, <1>1, PTL

-----------------------------------------------------------------------------
(* One thread *)

OneThread == \A s, t \in Threads : s = t

\* What was answered is what is stored, and the request in progress found
\* nothing stored.
Stored ==
    /\ \A a \in answers : /\ idem[a[1]].request \in Requests
                          /\ idem[a[1]].row = a[2]
    /\ \A t \in Threads :
          thread[t].pc # "idle" => idem[Key[thread[t].request]] = NoRecord

LEMMA StoredInit == Init => Stored
BY DEF Init, Stored, IdleThread

LEMMA StoredStep ==
    ASSUME OneThread, PaymentsInv, Stored, [Next]_vars
    PROVE  Stored'
<1> USE InternalPaymentsAssumption DEF ThreadStates
<1>1. /\ thread \in [Threads -> ThreadStates]
      /\ idem \in [Keys -> [request: Requests \cup {"none"}, row: Nat]]
      /\ answers \subseteq Keys \X Nat
  BY DEF PaymentsInv, TypeOK
<1>2. ASSUME NEW t \in Threads, NEW r \in Requests, Receive(t, r) PROVE Stored'
  <2>1. idem' = idem
    BY <1>2 DEF Receive
  <2>2. ASSUME NEW a \in answers'
        PROVE  idem[a[1]].request \in Requests /\ idem[a[1]].row = a[2]
    BY <1>2 DEF Receive, Stored
  <2>3. ASSUME NEW x \in Threads, thread'[x].pc # "idle"
        PROVE  idem[Key[thread'[x].request]] = NoRecord
    <3>1. CASE idem[Key[r]] = NoRecord
      BY <1>1, <1>2, <2>3, <3>1 DEF OneThread, Receive
    <3>2. CASE idem[Key[r]] # NoRecord
      BY <1>2, <2>3, <3>2 DEF Receive, Stored
    <3>. QED
      BY <3>1, <3>2
  <2>. QED
    BY <2>1, <2>2, <2>3 DEF Stored
<1>3. ASSUME NEW t \in Threads, StoreResponse(t) PROVE Stored'
  <2> DEFINE r == thread[t].request
             k == Key[r]
             n == thread[t].row
  <2>1. /\ r \in Requests /\ k \in Keys /\ n \in Nat
        /\ idem[k] = NoRecord
    BY <1>1, <1>3 DEF PaymentsInv, ThreadOK, StoreResponse, Stored
  <2>2. /\ idem' = [idem EXCEPT ![k] = [request |-> r, row |-> n]]
        /\ answers' = answers \cup {<<k, n>>}
        /\ thread' = [thread EXCEPT ![t] = IdleThread]
    BY <1>3 DEF StoreResponse, Answer
  <2>3. ASSUME NEW a \in answers PROVE a[1] # k /\ a[1] \in Keys
    <3>1. idem[a[1]].request \in Requests
      BY DEF Stored
    <3>. QED
      BY <1>1, <2>1, <3>1 DEF NoRecord
  <2>4. ASSUME NEW a \in answers'
        PROVE  idem'[a[1]].request \in Requests /\ idem'[a[1]].row = a[2]
    <3>1. CASE a \in answers
      BY <1>1, <2>1, <2>2, <2>3, <3>1 DEF Stored
    <3>2. CASE a = <<k, n>>
      BY <1>1, <2>1, <2>2, <3>2
    <3>. QED
      BY <2>2, <2>4, <3>1, <3>2
  <2>5. \A x \in Threads : thread'[x].pc = "idle"
    BY <1>1, <2>2 DEF OneThread, IdleThread
  <2>. QED
    BY <2>4, <2>5 DEF Stored
<1>4. ASSUME NEW t \in Threads,
             \/ LoadIntent(t) \/ InsertRefund(t) \/ SaveIntent(t)
             \/ CreateIntent(t) \/ LoseThread(t)
      PROVE  Stored'
  <2>1. idem' = idem /\ answers' = answers
    BY <1>4 DEF LoadIntent, Proceed, Wanted, InsertRefund, SaveIntent, WriteIntent, CreateIntent, LoseThread
  <2>2. ASSUME NEW x \in Threads, thread'[x].pc # "idle"
        PROVE  thread[x].pc # "idle" /\ thread'[x].request = thread[x].request
    <3>1. x = t
      BY DEF OneThread
    <3>2. CASE LoadIntent(t)
      BY <1>1, <2>2, <3>1, <3>2 DEF LoadIntent, Proceed, Wanted, IdleThread
    <3>3. CASE InsertRefund(t) \/ SaveIntent(t) \/ CreateIntent(t)
      BY <1>1, <3>1, <3>3 DEF InsertRefund, SaveIntent, WriteIntent, CreateIntent
    <3>4. CASE LoseThread(t)
      BY <1>1, <2>2, <3>1, <3>4 DEF LoseThread, Answer, IdleThread
    <3>. QED
      BY <1>4, <3>2, <3>3, <3>4
  <2>. QED
    BY <2>1, <2>2 DEF Stored
<1>5. ASSUME NEW i \in Intents,
             \/ StripeSucceeds(i) \/ SaveSucceeded(i) \/ ForwardEvent(i)
             \/ LoseWorker(i)
      PROVE  Stored'
  BY <1>5 DEF Stored, StripeSucceeds, SaveSucceeded, ForwardEvent, LoseWorker
<1>6. CASE UNCHANGED vars
  BY <1>6 DEF Stored, vars
<1>. QED
  BY <1>2, <1>3, <1>4, <1>5, <1>6 DEF Next, RequestStep, TaskStep

\* Served one at a time, requests get one answer per key, crashes or not.
THEOREM OneThreadAgrees ==
    ASSUME OneThread
    PROVE  Spec => []AnswersAgree
<1>1. PaymentsInv /\ Stored /\ [Next]_vars => Stored'
  BY StoredStep
<1>2. PaymentsInv /\ Stored => AnswersAgree
  BY DEF PaymentsInv, TypeOK, Stored, AnswersAgree
<1>. QED
  BY PaymentsInvHolds, StoredInit, <1>1, <1>2, PTL DEF Spec

\* The refund in progress computed its total from what the row holds now.
SeenIsCurrent ==
    \A t \in Threads : thread[t].pc \in {"insert", "save"} =>
        thread[t].seen = intent[Target[thread[t].request]].refunded

LEMMA SeenStep ==
    ASSUME OneThread, PaymentsInv, SeenIsCurrent, [Next]_vars
    PROVE  SeenIsCurrent' /\ \A i \in Intents : intent'[i].refunded >= intent[i].refunded
<1> USE InternalPaymentsAssumption DEF ThreadStates
<1>1. /\ thread \in [Threads -> ThreadStates]
      /\ intent \in [Intents -> Rows]
      /\ \A i \in Intents : intent[i].refunded \in Nat
  BY DEF PaymentsInv, TypeOK, Rows
<1>2. ASSUME NEW t \in Threads, LoadIntent(t)
      PROVE  SeenIsCurrent' /\ intent' = intent
  <2>1. intent' = intent
    BY <1>2 DEF LoadIntent, Proceed
  <2>2. \/ thread'[t].pc = "idle"
        \/ /\ thread'[t].request = thread[t].request
           /\ thread'[t].seen = intent[Target[thread[t].request]].refunded
    BY <1>1, <1>2 DEF LoadIntent, Proceed, Wanted, IdleThread
  <2>. QED
    BY <2>1, <2>2 DEF OneThread, SeenIsCurrent
<1>3. ASSUME NEW t \in Threads, SaveIntent(t)
      PROVE  SeenIsCurrent' /\ \A i \in Intents : intent'[i].refunded >= intent[i].refunded
  <2> DEFINE i == Target[thread[t].request]
             total == thread[t].seen + thread[t].amount
  <2>1. /\ i \in Intents /\ thread[t].amount \in Nat /\ thread[t].seen \in Nat
        /\ thread[t].seen = intent[i].refunded
    BY <1>1, <1>3 DEF SaveIntent, WriteIntent, PaymentsInv, ThreadOK, SeenIsCurrent
  <2>2. PICK status : intent' = [intent EXCEPT ![i].refunded = total, ![i].status = status]
    BY <1>3 DEF SaveIntent, WriteIntent
  <2>3. /\ intent'[i].refunded = total
        /\ \A j \in Intents \ {i} : intent'[j] = intent[j]
    BY <1>1, <2>1, <2>2 DEF Rows
  <2>4. thread'[t].pc = "store"
    BY <1>1, <1>3 DEF SaveIntent, WriteIntent
  <2>. QED
    BY <1>1, <2>1, <2>3, <2>4 DEF OneThread, SeenIsCurrent
<1>4. ASSUME NEW t \in Threads, CreateIntent(t)
      PROVE  SeenIsCurrent' /\ \A i \in Intents : intent'[i].refunded >= intent[i].refunded
  <2>1. thread'[t].pc = "store"
    BY <1>1, <1>4 DEF CreateIntent
  <2>2. PICK i \in Intents, row \in [refunded : {0}, amount : {Amount[thread[t].request]},
                                     status : {"requires_payment_method"}] :
           intent[i].status = "none" /\ intent' = [intent EXCEPT ![i] = row]
    BY <1>4 DEF CreateIntent
  <2>3. intent[i].refunded = 0
    BY <2>2 DEF PaymentsInv, IntentOK
  <2>. QED
    BY <1>1, <2>1, <2>2, <2>3 DEF OneThread, SeenIsCurrent
<1>5. ASSUME NEW t \in Threads, InsertRefund(t)
      PROVE  SeenIsCurrent' /\ intent' = intent
  BY <1>1, <1>5 DEF InsertRefund, SeenIsCurrent, OneThread
<1>6. ASSUME NEW t \in Threads, StoreResponse(t) \/ LoseThread(t)
      PROVE  SeenIsCurrent' /\ intent' = intent
  <2>1. thread'[t].pc = "idle" /\ intent' = intent
    BY <1>1, <1>6 DEF StoreResponse, LoseThread, Answer, IdleThread
  <2>. QED
    BY <2>1 DEF SeenIsCurrent, OneThread
<1>7. ASSUME NEW t \in Threads, NEW r \in Requests, Receive(t, r)
      PROVE  SeenIsCurrent' /\ intent' = intent
  <2>1. thread' = thread \/ thread'[t].pc = Kind[r]
    BY <1>1, <1>7 DEF Receive
  <2>2. Kind[r] \in {"create", "refund"} /\ intent' = intent
    BY <1>7 DEF Receive
  <2>. QED
    BY <2>1, <2>2 DEF SeenIsCurrent, OneThread
<1>8. ASSUME NEW i \in Intents, SaveSucceeded(i)
      PROVE  SeenIsCurrent' /\ \A j \in Intents : intent'[j].refunded = intent[j].refunded
  <2>1. thread' = thread /\ \A j \in Intents : intent'[j].refunded = intent[j].refunded
    BY <1>1, <1>8 DEF SaveSucceeded, Rows
  <2>2. \A t \in Threads : thread[t].pc \in {"insert", "save"} =>
            Target[thread[t].request] \in Intents
    BY DEF PaymentsInv, ThreadOK
  <2>. QED
    BY <2>1, <2>2 DEF SeenIsCurrent
<1>9. ASSUME NEW i \in Intents, StripeSucceeds(i) \/ ForwardEvent(i) \/ LoseWorker(i)
      PROVE  SeenIsCurrent' /\ intent' = intent
  BY <1>9 DEF StripeSucceeds, ForwardEvent, LoseWorker, SeenIsCurrent
<1>10. CASE UNCHANGED vars
  BY <1>1, <1>10 DEF SeenIsCurrent, vars
<1>. QED
  BY <1>1, <1>2, <1>3, <1>4, <1>5, <1>6, <1>7, <1>8, <1>9, <1>10
     DEF Next, RequestStep, TaskStep

\* Served one at a time, refunds are only added to refunded_cents: no save
\* takes it back, whichever requests die and whatever Stripe reports meanwhile.
THEOREM OneThreadNeverGoesBack ==
    ASSUME OneThread
    PROVE  Spec => RefundedGrows
<1>1. Init => SeenIsCurrent
  BY DEF Init, SeenIsCurrent, IdleThread
<1>2. PaymentsInv /\ SeenIsCurrent /\ [Next]_vars => SeenIsCurrent'
  BY SeenStep
<1>3. PaymentsInv /\ SeenIsCurrent /\ [Next]_vars =>
         [\A i \in Intents : intent'[i].refunded >= intent[i].refunded]_intent
  BY SeenStep
<1>. QED
  BY PaymentsInvHolds, <1>1, <1>2, <1>3, PTL DEF Spec, RefundedGrows

-----------------------------------------------------------------------------
(* One thread that does not die *)

OneImmortal == OneThread /\ Mortal = {}

\* The intent row is behind its refund rows by the refund in progress, and the
\* key of the request in progress has no row until it inserts one.
Exact ==
    /\ \A i \in Intents :
          (\A t \in Threads : thread[t].pc # "save") => intent[i].refunded = moved[i]
    /\ \A t \in Threads :
          LET T == thread[t]
          IN  /\ T.pc = "insert" => T.seen = intent[Target[T.request]].refunded
              /\ T.pc = "save"
                   => /\ T.seen + T.amount = moved[Target[T.request]]
                      /\ \A i \in Intents \ {Target[T.request]} :
                            intent[i].refunded = moved[i]
              /\ T.pc \in {"create", "refund", "insert"} => rows[Key[T.request]] = 0
    /\ \A k \in Keys : rows[k] > 0 =>
          \/ idem[k] # NoRecord
          \/ \E t \in Threads : /\ thread[t].pc \in {"save", "store"}
                                /\ Key[thread[t].request] = k

LEMMA ExactInit == Init => Exact
BY InternalPaymentsAssumption DEF Init, Exact, IdleThread, NoRow

LEMMA ExactStep ==
    ASSUME OneImmortal, PaymentsInv, Stored, Exact, [Next]_vars
    PROVE  Exact'
<1> USE InternalPaymentsAssumption
<1>1. /\ thread \in [Threads -> ThreadStates]
      /\ idem \in [Keys -> [request: Requests \cup {"none"}, row: Nat]]
      /\ intent \in [Intents -> Rows]
      /\ moved \in [Intents -> Nat]
      /\ rows \in [Keys -> Nat]
  BY DEF PaymentsInv, TypeOK
<1>2. ASSUME NEW t \in Threads, NEW r \in Requests, Receive(t, r) PROVE Exact'
  <2>1. UNCHANGED <<intent, moved, rows, idem>> /\ thread[t].pc = "idle"
    BY <1>2 DEF Receive
  <2>2. rows[Key[r]] = 0 \/ idem[Key[r]] # NoRecord
    BY <1>1, <2>1 DEF Exact, OneImmortal, OneThread
  <2>3. CASE idem[Key[r]] # NoRecord
    BY <1>2, <2>1, <2>3 DEF Exact, Receive
  <2>4. CASE idem[Key[r]] = NoRecord
    <3>1. thread'[t].pc \in {"create", "refund"} /\ thread'[t].request = r
      BY <1>1, <1>2, <2>4 DEF Receive, ThreadStates
    <3>2. \A x \in Threads : x = t
      BY DEF OneImmortal, OneThread
    <3>. QED
      BY <2>1, <2>2, <2>4, <3>1, <3>2 DEF Exact
  <2>. QED
    BY <2>3, <2>4
<1>3. ASSUME NEW t \in Threads, LoadIntent(t) PROVE Exact'
  <2>1. UNCHANGED <<intent, moved, rows, idem>> /\ thread[t].pc = "refund"
    BY <1>3 DEF LoadIntent, Proceed, Wanted
  <2>2. \/ thread'[t].pc = "idle"
        \/ /\ thread'[t].pc = "insert"
           /\ thread'[t].request = thread[t].request
           /\ thread'[t].seen = intent[Target[thread[t].request]].refunded
    BY <1>1, <1>3 DEF LoadIntent, Proceed, Wanted, IdleThread, ThreadStates
  <2>3. \A x \in Threads : x = t
    BY DEF OneImmortal, OneThread
  <2>. QED
    BY <2>1, <2>2, <2>3 DEF Exact
<1>4. ASSUME NEW t \in Threads, InsertRefund(t) PROVE Exact'
  <2> DEFINE r == thread[t].request
             i == Target[r]
             k == Key[r]
  <2>1. /\ r \in Requests /\ i \in Intents /\ k \in Keys
        /\ thread[t].pc = "insert" /\ thread[t].amount \in Nat
        /\ thread[t].seen \in Nat
    BY <1>1, <1>4 DEF InsertRefund, PaymentsInv, ThreadOK, ThreadStates
  <2>2. \A x \in Threads : x = t
    BY DEF OneImmortal, OneThread
  <2>3. /\ intent' = intent /\ idem' = idem
        /\ moved' = [moved EXCEPT ![i] = @ + thread[t].amount]
        /\ rows' = [rows EXCEPT ![k] = @ + 1]
    BY <1>4 DEF InsertRefund, InsertFor
  <2>4. /\ thread'[t].pc = "save" /\ thread'[t].request = r
        /\ thread'[t].amount = thread[t].amount /\ thread'[t].seen = thread[t].seen
    BY <1>1, <1>4 DEF InsertRefund, ThreadStates
  <2>5. /\ \A j \in Intents : intent[j].refunded = moved[j]
        /\ thread[t].seen = moved[i]
    BY <2>1, <2>2 DEF Exact
  <2>6. /\ thread[t].seen + thread[t].amount = moved'[i]
        /\ \A j \in Intents \ {i} : intent[j].refunded = moved'[j]
    BY <1>1, <2>1, <2>3, <2>5
  <2>7. \A l \in Keys : rows'[l] > 0 => l = k \/ rows[l] > 0
    BY <1>1, <2>1, <2>3
  <2>8. \A l \in Keys : rows[l] > 0 => idem[l] # NoRecord
    BY <2>1, <2>2 DEF Exact
  <2> HIDE DEF r, i, k
  <2>9. ASSUME NEW l \in Keys, rows'[l] > 0
        PROVE  idem'[l] # NoRecord \/ Key[thread'[t].request] = l
    BY <2>3, <2>4, <2>7, <2>8, <2>9 DEF k, r
  <2>. QED
    BY <2>2, <2>3, <2>4, <2>6, <2>9 DEF Exact, i, r
<1>5. ASSUME NEW t \in Threads, SaveIntent(t) PROVE Exact'
  <2> DEFINE i == Target[thread[t].request]
             total == thread[t].seen + thread[t].amount
  <2>1. \A x \in Threads : x = t
    BY DEF OneImmortal, OneThread
  <2>2. /\ thread[t].pc = "save" /\ i \in Intents
        /\ total = moved[i]
        /\ \A j \in Intents \ {i} : intent[j].refunded = moved[j]
    BY <1>5 DEF SaveIntent, WriteIntent, Exact, PaymentsInv, ThreadOK
  <2>3. /\ UNCHANGED <<moved, rows, idem>>
        /\ thread'[t].pc = "store" /\ thread'[t].request = thread[t].request
    BY <1>1, <1>5 DEF SaveIntent, WriteIntent, ThreadStates
  <2>4. \A j \in Intents :
           intent'[j].refunded = IF j = i THEN total ELSE intent[j].refunded
    BY <1>1, <1>5, <2>2 DEF SaveIntent, WriteIntent, Rows
  <2>5. \A j \in Intents : intent'[j].refunded = moved'[j]
    BY <2>2, <2>3, <2>4
  <2>. QED
    BY <2>1, <2>2, <2>3, <2>5 DEF Exact
<1>6. ASSUME NEW t \in Threads, CreateIntent(t) PROVE Exact'
  <2> DEFINE k == Key[thread[t].request]
  <2>1. \A x \in Threads : x = t
    BY DEF OneImmortal, OneThread
  <2>2. /\ UNCHANGED <<moved, idem>>
        /\ rows' = [rows EXCEPT ![k] = @ + 1]
        /\ thread[t].pc = "create" /\ k \in Keys
    BY <1>6 DEF CreateIntent, InsertFor, PaymentsInv, ThreadOK
  <2>3. thread'[t].pc = "store" /\ thread'[t].request = thread[t].request
    BY <1>1, <1>6 DEF CreateIntent, ThreadStates
  <2>4. \A j \in Intents : intent[j].status = "none" => intent[j].refunded = 0
    BY DEF PaymentsInv, IntentOK
  <2>5. \A j \in Intents : intent'[j].refunded = intent[j].refunded
    BY <1>1, <1>6, <2>4 DEF CreateIntent
  <2>6. \A j \in Intents : intent'[j].refunded = moved'[j]
    BY <2>1, <2>2, <2>5 DEF Exact
  <2>7. \A l \in Keys : rows'[l] > 0 => l = k \/ rows[l] > 0
    BY <1>1, <2>2
  <2>. QED
    BY <2>1, <2>2, <2>3, <2>6, <2>7 DEF Exact
<1>7. ASSUME NEW t \in Threads, StoreResponse(t) PROVE Exact'
  <2>1. \A x \in Threads : x = t
    BY DEF OneImmortal, OneThread
  <2>2. /\ UNCHANGED <<intent, moved, rows>> /\ thread[t].pc = "store"
        /\ thread'[t].pc = "idle"
    BY <1>1, <1>7 DEF StoreResponse, Answer, IdleThread
  <2>3. /\ thread[t].request \in Requests
        /\ \A l \in Keys : idem[l] # NoRecord \/ l = Key[thread[t].request]
                             => idem'[l] # NoRecord
    BY <1>1, <1>7, <2>2 DEF StoreResponse, PaymentsInv, ThreadOK, NoRecord
  <2>. QED
    BY <2>1, <2>2, <2>3 DEF Exact
<1>8. ASSUME NEW t \in Threads, LoseThread(t) PROVE Exact'
  BY <1>8 DEF LoseThread, OneImmortal
<1>9. ASSUME NEW i \in Intents, SaveSucceeded(i) PROVE Exact'
  <2>1. /\ UNCHANGED <<moved, rows, idem, thread>>
        /\ \A j \in Intents : intent'[j].refunded = intent[j].refunded
    BY <1>1, <1>9 DEF SaveSucceeded, Rows
  <2>2. \A t \in Threads : thread[t].pc = "insert" => Target[thread[t].request] \in Intents
    BY DEF PaymentsInv, ThreadOK
  <2>. QED
    BY <2>1, <2>2 DEF Exact
<1>10. ASSUME NEW i \in Intents,
              StripeSucceeds(i) \/ ForwardEvent(i) \/ LoseWorker(i)
       PROVE  Exact'
  BY <1>10 DEF Exact, StripeSucceeds, ForwardEvent, LoseWorker
<1>11. CASE UNCHANGED vars
  BY <1>11 DEF Exact, vars
<1>. QED
  BY <1>2, <1>3, <1>4, <1>5, <1>6, <1>7, <1>8, <1>9, <1>10, <1>11
     DEF Next, RequestStep, TaskStep

\* An insert is the ledger's step; everything else leaves the ledger alone.
LEMMA LedgerStep ==
    ASSUME OneImmortal, PaymentsInv, Exact, [Next]_vars
    PROVE  [Ledger!Next]_(Ledger!vars)
<1> USE InternalPaymentsAssumption
<1> DEFINE amount == [i \in Intents |-> intent[i].amount]
           done == {k \in Keys : rows[k] > 0}
<1>1. /\ intent \in [Intents -> Rows]
      /\ moved \in [Intents -> Nat]
      /\ rows \in [Keys -> Nat]
      /\ thread \in [Threads -> ThreadStates]
  BY DEF PaymentsInv, TypeOK
<1>2. ASSUME NEW t \in Threads, InsertRefund(t) PROVE Ledger!Next
  <2> DEFINE r == thread[t].request
             i == Target[r]
             k == Key[r]
             a == thread[t].amount
  <2>1. /\ i \in Intents /\ k \in Keys /\ i \in paid
        /\ a \in Nat /\ a > 0 /\ thread[t].seen \in Nat
        /\ thread[t].seen + a <= intent[i].amount
        /\ intent[i].amount \in 0..MaxAmount
    BY <1>1, <1>2 DEF InsertRefund, PaymentsInv, ThreadOK, ThreadStates, Rows
  <2>2. rows[k] = 0 /\ thread[t].seen = moved[i]
    BY <1>2, <2>1 DEF InsertRefund, Exact, OneImmortal, OneThread
  <2>3. k \notin done /\ moved[i] + a <= amount[i] /\ a \in Ledger!Amounts
    BY <2>1, <2>2 DEF Ledger!Amounts
  <2>4. /\ moved' = [moved EXCEPT ![i] = @ + a]
        /\ rows' = [rows EXCEPT ![k] = @ + 1]
        /\ intent' = intent /\ paid' = paid
    BY <1>2 DEF InsertRefund, InsertFor
  <2>5. done' = done \cup {k} /\ amount' = amount
    BY <1>1, <2>1, <2>4
  <2> HIDE DEF i, k, a, amount, done
  <2>. QED
    BY <2>1, <2>3, <2>4, <2>5 DEF Ledger!Next, Ledger!Refund, amount, done
<1>3. ASSUME NEW t \in Threads, CreateIntent(t) PROVE Ledger!Next
  <2> DEFINE r == thread[t].request
             k == Key[r]
  <2>1. r \in Requests /\ k \in Keys /\ Amount[r] \in Ledger!Amounts
    BY <1>3 DEF CreateIntent, PaymentsInv, ThreadOK, Ledger!Amounts
  <2>2. PICK i \in Intents :
           /\ intent[i].status = "none"
           /\ intent' = [intent EXCEPT
                 ![i] = [status |-> "requires_payment_method",
                         amount |-> Amount[r], refunded |-> 0]]
    BY <1>3 DEF CreateIntent
  <2>3. rows[k] = 0 /\ amount[i] = 0
    BY <1>3, <2>2 DEF CreateIntent, Exact, PaymentsInv, IntentOK
  <2>4. amount' = [amount EXCEPT ![i] = Amount[r]]
    BY <1>1, <2>2
  <2>5. rows' = [rows EXCEPT ![k] = @ + 1] /\ moved' = moved /\ paid' = paid
    BY <1>3 DEF CreateIntent, InsertFor
  <2>6. done' = done \cup {k} /\ k \notin done
    BY <1>1, <2>1, <2>3, <2>5
  <2> HIDE DEF r, k
  <2>. QED
    BY <2>1, <2>3, <2>4, <2>5, <2>6 DEF Ledger!Next, Ledger!Create
<1>4. ASSUME NEW i \in Intents, StripeSucceeds(i) PROVE Ledger!Next
  <2>1. amount[i] > 0
    BY <1>1, <1>4 DEF StripeSucceeds, PaymentsInv, IntentOK
  <2>2. UNCHANGED <<amount, moved, done>> /\ paid' = paid \cup {i}
    BY <1>4 DEF StripeSucceeds
  <2>3. Ledger!Succeed(i)
    BY <2>1, <2>2 DEF Ledger!Succeed
  <2>. QED
    BY <2>3 DEF Ledger!Next
<1>5. ASSUME NEW t \in Threads, SaveIntent(t) PROVE UNCHANGED Ledger!vars
  <2>1. \A i \in Intents : intent'[i].amount = intent[i].amount
    BY <1>1, <1>5 DEF SaveIntent, WriteIntent, Rows
  <2>2. amount' = amount /\ UNCHANGED <<moved, done, paid>>
    BY <1>5, <2>1 DEF SaveIntent, WriteIntent
  <2>. QED
    BY <2>2 DEF Ledger!vars
<1>6. ASSUME NEW i \in Intents, SaveSucceeded(i) PROVE UNCHANGED Ledger!vars
  <2>1. \A j \in Intents : intent'[j].amount = intent[j].amount
    BY <1>1, <1>6 DEF SaveSucceeded, Rows
  <2>2. amount' = amount /\ UNCHANGED <<moved, done, paid>>
    BY <1>6, <2>1 DEF SaveSucceeded
  <2>. QED
    BY <2>2 DEF Ledger!vars
<1>7. ASSUME UNCHANGED <<intent, moved, rows, paid>> PROVE UNCHANGED Ledger!vars
  BY <1>7 DEF Ledger!vars
<1>. QED
  BY <1>2, <1>3, <1>4, <1>5, <1>6, <1>7
     DEF Next, RequestStep, TaskStep, Receive, LoadIntent, Proceed, Wanted, StoreResponse,
         LoseThread, ForwardEvent, LoseWorker, vars

\* One thread that does not die keeps the promise: a key does its work once and
\* an intent's refunds never exceed its amount.
THEOREM SerialKeepsPromise ==
    ASSUME OneImmortal
    PROVE  Spec => KeepsPromise
<1>1. Init => Ledger!Init
  BY DEF Init, Ledger!Init, NoRow
<1>2. PaymentsInv /\ Stored /\ [Next]_vars => Stored'
  BY StoredStep DEF OneImmortal
<1>3. PaymentsInv /\ Stored /\ Exact /\ [Next]_vars => Exact'
  BY ExactStep
<1>4. PaymentsInv /\ Exact /\ [Next]_vars => [Ledger!Next]_(Ledger!vars)
  BY LedgerStep
<1>5. Spec => Ledger!Spec
  BY PaymentsInvHolds, StoredInit, ExactInit, <1>1, <1>2, <1>3, <1>4, PTL
     DEF Spec, Ledger!Spec
<1>. QED
  BY <1>5 DEF KeepsPromise

-----------------------------------------------------------------------------
(* The delivery of its events.                                             *)
(* The API does not notice that its events are delivered.                   *)
LEMMA StepIsPayments == [ForwardingNext]_allVars => [Next]_vars
BY DEF ForwardingNext, allVars, Elsewhere, Report, EnqueueForward, LoseHandler,
       Delivers, TakeForward, PostForward, PostRaises, RetryForward,
       AcknowledgeForward, FailForward, LoseCourier, Next, TaskStep

(* Whatever is proved of the internal payment API alone holds of the API    *)
(* whose events are delivered.                                              *)
THEOREM KeepsPayments == ForwardingSpec => Spec
BY StepIsPayments, PTL DEF ForwardingSpec, ForwardingInit, Spec

LEMMA PaymentsHold == ForwardingSpec => []PaymentsInv
BY KeepsPayments, PaymentsInvHolds, PTL

-----------------------------------------------------------------------------
(* Types.                                                                   *)
Busy == [at : {"post", "raised", "retried"}, of : Intents,
         tries : 0 .. MaxRetries, status : Envelopes]

LEMMA BusyHolds ==
    ASSUME ForwardingTypeOK, NEW w \in Couriers, ~At(w, "free")
    PROVE  courier[w] \in Busy
<1>1. courier[w] \in {Free} \cup Busy
    BY DEF ForwardingTypeOK, Busy
<1>2. courier[w] # Free
    BY DEF At, Free
<1> QED BY <1>1, <1>2

LEMMA EnqueuedTyped ==
    ASSUME ForwardingTypeOK, NEW i \in Intents, NEW n \in 0 .. MaxRetries
    PROVE  Enqueued(i, n) \in [Intents -> [0 .. MaxRetries -> Nat]]
<1>1. outbox \in [Intents -> [0 .. MaxRetries -> Nat]]
    BY DEF ForwardingTypeOK
<1>2. outbox[i] \in [0 .. MaxRetries -> Nat] /\ outbox[i][n] \in Nat
    BY <1>1
<1>3. [outbox[i] EXCEPT ![n] = outbox[i][n] + 1] \in [0 .. MaxRetries -> Nat]
    BY <1>2
<1> QED BY <1>1, <1>3 DEF Enqueued

LEMMA LeaveTyped ==
    ASSUME ForwardingTypeOK, NEW w \in Couriers, Leave(w)
    PROVE  courier' \in [Couriers -> {Free} \cup Busy]
BY DEF ForwardingTypeOK, Leave, Busy

LEMMA GoTyped ==
    ASSUME ForwardingTypeOK, NEW w \in Couriers, ~At(w, "free"),
           NEW stage \in {"post", "raised", "retried"}, Go(w, stage)
    PROVE  courier' \in [Couriers -> {Free} \cup Busy]
BY BusyHolds DEF ForwardingTypeOK, Go, Busy

LEMMA ForwardingTypeInit == ForwardingInit => ForwardingTypeOK
BY ForwardingAssumption DEF ForwardingInit, ForwardingTypeOK, Envelopes

LEMMA ForwardingTypeStep ==
    PaymentsInv /\ ForwardingTypeOK /\ [ForwardingNext]_allVars => ForwardingTypeOK'
<1> SUFFICES ASSUME PaymentsInv, ForwardingTypeOK, [ForwardingNext]_allVars
             PROVE  ForwardingTypeOK'
    OBVIOUS
<1> USE ForwardingAssumption
<1>1. ASSUME UNCHANGED delivery PROVE ForwardingTypeOK'
    BY <1>1 DEF delivery, ForwardingTypeOK
<1>2. ASSUME NEW i \in Intents, EnqueueForward(i) PROVE ForwardingTypeOK'
    <2>1. 0 \in 0 .. MaxRetries
        OBVIOUS
    <2>2. outbox' \in [Intents -> [0 .. MaxRetries -> Nat]]
        BY <1>2, <2>1, EnqueuedTyped DEF EnqueueForward, Sends
    <2> QED BY <1>2, <2>2 DEF EnqueueForward, Sends, ForwardingTypeOK
<1>3. ASSUME NEW i \in Intents, LoseHandler(i) PROVE ForwardingTypeOK'
    BY <1>3 DEF LoseHandler, ForwardingTypeOK
<1>4. ASSUME NEW w \in Couriers, NEW i \in Intents, NEW n \in 0 .. MaxRetries,
             TakeForward(w, i, n)
      PROVE  ForwardingTypeOK'
    <2>1. outbox' \in [Intents -> [0 .. MaxRetries -> Nat]]
        BY <1>4 DEF TakeForward, ForwardingTypeOK
    <2>2. intent[i].status \in Envelopes
        BY DEF PaymentsInv, TypeOK, Rows, Envelopes
    <2>3. [at |-> "post", of |-> i, tries |-> n, status |-> intent[i].status] \in Busy
        BY <2>2 DEF Busy
    <2>4. courier' \in [Couriers -> {Free} \cup Busy]
        BY <1>4, <2>3 DEF TakeForward, ForwardingTypeOK, Busy
    <2> QED BY <1>4, <2>1, <2>4 DEF TakeForward, ForwardingTypeOK, Busy
<1>5. ASSUME NEW w \in Couriers, PostForward(w) PROVE ForwardingTypeOK'
    <2>1. courier[w] \in Busy
        BY <1>5, BusyHolds DEF PostForward, At
    <2>2. courier' \in [Couriers -> {Free} \cup Busy]
        BY <1>5, LeaveTyped DEF PostForward
    <2> QED BY <1>5, <2>1, <2>2 DEF PostForward, Receives, ForwardingTypeOK, Busy
<1>6. ASSUME NEW w \in Couriers, PostRaises(w) PROVE ForwardingTypeOK'
    <2>1. courier[w] \in Busy
        BY <1>6, BusyHolds DEF PostRaises, At
    <2>2. courier' \in [Couriers -> {Free} \cup Busy]
        BY <1>6, <2>1 DEF PostRaises, ForwardingTypeOK, Busy, Envelopes
    <2> QED BY <1>6, <2>1, <2>2 DEF PostRaises, Receives, ForwardingTypeOK, Busy
<1>7. ASSUME NEW w \in Couriers, RetryForward(w) PROVE ForwardingTypeOK'
    <2>1. courier[w] \in Busy /\ ~At(w, "free")
        BY <1>7, BusyHolds DEF RetryForward, At
    <2>2. courier' \in [Couriers -> {Free} \cup Busy]
        BY <1>7, <2>1, GoTyped DEF RetryForward
    <2>3. courier[w].tries + 1 \in 0 .. MaxRetries /\ courier[w].of \in Intents
        BY <1>7, <2>1 DEF RetryForward, Busy
    <2> QED BY <1>7, <2>2, <2>3, EnqueuedTyped DEF RetryForward, ForwardingTypeOK, Busy
<1>8. ASSUME NEW w \in Couriers, AcknowledgeForward(w) PROVE ForwardingTypeOK'
    BY <1>8, LeaveTyped DEF AcknowledgeForward, ForwardingTypeOK, Busy
<1>9. ASSUME NEW w \in Couriers, FailForward(w) PROVE ForwardingTypeOK'
    <2>1. courier[w] \in Busy
        BY <1>9, BusyHolds DEF FailForward, At
    <2> QED BY <1>9, <2>1, LeaveTyped DEF FailForward, ForwardingTypeOK, Busy
<1>10. ASSUME NEW w \in Couriers, LoseCourier(w) PROVE ForwardingTypeOK'
    <2>1. courier[w] \in Busy
        BY <1>10, BusyHolds DEF LoseCourier
    <2>2. courier[w].of \in Intents /\ courier[w].tries \in 0 .. MaxRetries
        BY <2>1 DEF Busy
    <2>3. outbox' \in [Intents -> [0 .. MaxRetries -> Nat]]
        BY <1>10, <2>2, EnqueuedTyped DEF LoseCourier
    <2>4. courier' \in [Couriers -> {Free} \cup Busy]
        BY <1>10, LeaveTyped DEF LoseCourier
    <2> QED BY <1>10, <2>3, <2>4 DEF LoseCourier, ForwardingTypeOK, Busy
<1> QED
    BY <1>1, <1>2, <1>3, <1>4, <1>5, <1>6, <1>7, <1>8, <1>9, <1>10
       DEF ForwardingNext, Elsewhere, Report, Delivers, allVars

(* The messages, the workers and what the products were told keep their     *)
(* types: a retry never counts beyond max_retries.                          *)
THEOREM ForwardingTyped == ForwardingSpec => []ForwardingTypeOK
<1>1. ForwardingSpec => ForwardingTypeOK
    BY ForwardingTypeInit DEF ForwardingSpec
<1> QED BY <1>1, PaymentsHold, ForwardingTypeStep, PTL DEF ForwardingSpec

-----------------------------------------------------------------------------
(* What the products are told.  A payment that has succeeded never looks    *)
(* unpaid again and keeps its amount, and what was moved back stays moved:  *)
(* a status that fits an intent when it is loaded still fits when the       *)
(* envelope arrives, although the row may say something else by then.       *)
Settled == REFUNDABLE_STATUSES \cup {"refunded"}

LEMMA SettledStays ==
    ASSUME PaymentsInv, [Next]_vars, NEW i \in Intents
    PROVE  /\ intent[i].status \in Settled =>
                  /\ intent'[i].status \in Settled
                  /\ intent'[i].amount = intent[i].amount
           /\ moved'[i] >= moved[i]
           /\ i \in paid => i \in paid'
<1> USE DEF PaymentsInv, TypeOK, Rows
<1>1. ASSUME NEW t \in Threads, InsertRefund(t)
      PROVE  UNCHANGED <<intent, paid>> /\ moved'[i] >= moved[i]
    <2>1. thread[t].amount \in Nat /\ moved[i] \in Nat
        BY DEF ThreadStates
    <2> QED BY <1>1, <2>1 DEF InsertRefund
<1>2. ASSUME NEW t \in Threads, SaveIntent(t)
      PROVE  /\ UNCHANGED <<moved, paid>>
             /\ intent'[i].amount = intent[i].amount
             /\ intent[i].status \in Settled => intent'[i].status \in Settled
    BY <1>2 DEF SaveIntent, WriteIntent, Settled, REFUNDABLE_STATUSES
<1>3. ASSUME NEW t \in Threads, CreateIntent(t)
      PROVE  /\ UNCHANGED <<moved, paid>>
             /\ intent[i].status # "none" => intent'[i] = intent[i]
    BY <1>3 DEF CreateIntent
<1>4. ASSUME NEW j \in Intents, SaveSucceeded(j)
      PROVE  /\ UNCHANGED <<moved, paid>>
             /\ intent'[i].amount = intent[i].amount
             /\ intent[i].status \in Settled => intent'[i].status \in Settled
    BY <1>4 DEF SaveSucceeded, Settled, REFUNDABLE_STATUSES
<1>5. \/ UNCHANGED <<intent, moved>> /\ paid \subseteq paid'
      \/ \E t \in Threads : InsertRefund(t) \/ SaveIntent(t) \/ CreateIntent(t)
      \/ \E j \in Intents : SaveSucceeded(j)
    BY DEF Next, vars, RequestStep, TaskStep, LoadIntent, Proceed, StoreResponse,
           LoseThread, Receive, StripeSucceeds, ForwardEvent, LoseWorker
<1>6. moved[i] \in Nat
    OBVIOUS
<1> QED BY <1>1, <1>2, <1>3, <1>4, <1>5, <1>6 DEF Settled, REFUNDABLE_STATUSES

(* What is forwarded has been saved as succeeded.                           *)
ForwardedIsSettled ==
    \A i \in Intents : i \in forwarded \/ job[i] = "saved" => intent[i].status \in Settled

LEMMA ForwardedIsSettledStep ==
    PaymentsInv /\ ForwardedIsSettled /\ [Next]_vars => ForwardedIsSettled'
<1> SUFFICES ASSUME PaymentsInv, ForwardedIsSettled, [Next]_vars, NEW i \in Intents,
                    i \in forwarded' \/ job'[i] = "saved"
             PROVE  intent'[i].status \in Settled
    BY DEF ForwardedIsSettled
<1> USE DEF PaymentsInv, TypeOK, Rows
<1>1. CASE i \in forwarded \/ job[i] = "saved"
    BY <1>1, SettledStays DEF ForwardedIsSettled
<1>2. CASE ~(i \in forwarded \/ job[i] = "saved")
    <2>1. SaveSucceeded(i)
        BY <1>2 DEF Next, vars, RequestStep, TaskStep, LoadIntent, Proceed,
           InsertRefund, SaveIntent, WriteIntent, CreateIntent, StoreResponse,
           LoseThread, Receive, StripeSucceeds, SaveSucceeded, ForwardEvent, LoseWorker
    <2> QED BY <2>1 DEF SaveSucceeded, Settled, REFUNDABLE_STATUSES
<1> QED BY <1>1, <1>2

LEMMA ForwardedHolds == Spec => []ForwardedIsSettled
<1>1. Init => ForwardedIsSettled
    BY DEF Init, ForwardedIsSettled
<1> QED BY <1>1, PaymentsInvHolds, ForwardedIsSettledStep, PTL DEF Spec

Fits(i, status) ==
    /\ i \in paid
    /\ intent[i].status \in Settled
    /\ status \in Settled
    /\ status = "refunded" => moved[i] >= intent[i].amount

ToldInv ==
    /\ \A i \in Intents, n \in 0 .. MaxRetries : outbox[i][n] > 0 => i \in forwarded
    /\ \A w \in Couriers : ~At(w, "free") => courier[w].of \in forwarded
    /\ \A w \in Couriers : At(w, "post") => Fits(courier[w].of, courier[w].status)
    /\ \A i \in Intents : told[i] # "none" => Fits(i, told[i])

LEMMA FitsStays ==
    ASSUME PaymentsInv, [Next]_vars, NEW i \in Intents, NEW status, Fits(i, status)
    PROVE  Fits(i, status)'
<1>1. /\ intent[i].amount \in Nat
      /\ moved[i] \in Nat /\ moved'[i] >= moved[i]
      /\ intent'[i].amount = intent[i].amount
    BY SettledStays DEF Fits, PaymentsInv, TypeOK, Rows
<1>2. i \in paid' /\ intent'[i].status \in Settled
    BY SettledStays DEF Fits
<1>3. moved[i] >= intent[i].amount => moved'[i] >= intent'[i].amount
    <2>1. moved'[i] \in Nat
        BY PaymentsInvStep DEF PaymentsInv, TypeOK
    <2> QED BY <1>1, <2>1
<1> QED BY <1>2, <1>3 DEF Fits

(* A forwarded intent fits the status its row holds.                        *)
LEMMA LoadedFits ==
    ASSUME PaymentsInv, ForwardedIsSettled, NEW i \in Intents, i \in forwarded
    PROVE  Fits(i, intent[i].status)
<1>1. IntentOK(i) /\ intent[i].status \in Settled
    BY DEF PaymentsInv, ForwardedIsSettled
<1>2. i \in paid
    BY <1>1 DEF IntentOK
<1>3. intent[i].status = "refunded" => moved[i] >= intent[i].amount
    BY <1>1 DEF IntentOK, PaymentsInv, TypeOK, Rows
<1> QED BY <1>1, <1>2, <1>3 DEF Fits

(* Fits of the next state, for a status of this one.                        *)
FitsThen(i, status) ==
    /\ i \in paid'
    /\ intent'[i].status \in Settled
    /\ status \in Settled
    /\ status = "refunded" => moved'[i] >= intent'[i].amount

LEMMA ToldInvStep ==
    /\ PaymentsInv /\ ForwardedIsSettled /\ ForwardingTypeOK
    /\ ToldInv /\ ForwardingTypeOK' /\ [ForwardingNext]_allVars
    => ToldInv'
<1> SUFFICES ASSUME PaymentsInv, ForwardedIsSettled, ForwardingTypeOK, ForwardingTypeOK',
                    ToldInv, [ForwardingNext]_allVars
             PROVE  ToldInv'
    OBVIOUS
<1>1. [Next]_vars
    BY StepIsPayments
<1>2. ASSUME NEW i \in Intents, NEW status, Fits(i, status)
      PROVE  FitsThen(i, status)
    BY <1>1, <1>2, FitsStays DEF Fits, FitsThen
<1>3. forwarded \subseteq forwarded'
    BY <1>1 DEF Next, vars, RequestStep, TaskStep, LoadIntent, Proceed,
       InsertRefund, SaveIntent, WriteIntent, CreateIntent, StoreResponse,
       LoseThread, Receive, StripeSucceeds, SaveSucceeded, ForwardEvent, LoseWorker
<1>4. ASSUME NEW w \in Couriers, ~At(w, "free")
      PROVE  /\ courier[w].of \in Intents /\ courier[w].of \in forwarded
             /\ courier[w].tries \in 0 .. MaxRetries
    BY <1>4, BusyHolds DEF ToldInv, Busy
<1>5. ASSUME NEW i \in Intents, told'[i] = told[i], told'[i] # "none"
      PROVE  Fits(i, told[i])'
    BY <1>2, <1>5 DEF ToldInv, Fits, FitsThen
<1>6. ASSUME NEW w \in Couriers, courier'[w] = courier[w]
      PROVE  /\ ~At(w, "free")' => courier'[w].of \in forwarded'
             /\ At(w, "post")' => Fits(courier[w].of, courier[w].status)'
    <2>1. ~At(w, "free")' => courier'[w].of \in forwarded'
        BY <1>3, <1>4, <1>6 DEF At
    <2>2. ASSUME At(w, "post")' PROVE Fits(courier[w].of, courier[w].status)'
        <3>1. At(w, "post") /\ ~At(w, "free")
            BY <1>6, <2>2 DEF At
        <3>2. Fits(courier[w].of, courier[w].status)
            BY <3>1 DEF ToldInv
        <3>3. FitsThen(courier[w].of, courier[w].status)
            BY <1>2, <1>4, <3>1, <3>2
        <3> QED BY <1>6, <3>3 DEF Fits, FitsThen
    <2> QED BY <2>1, <2>2
(* Each step: the messages, the workers, and what was told.                 *)
<1>7. ASSUME UNCHANGED <<outbox, courier, told>> PROVE ToldInv'
    BY <1>3, <1>5, <1>6, <1>7 DEF ToldInv
<1>8. ASSUME NEW i \in Intents, EnqueueForward(i) PROVE ToldInv'
    <2>1. UNCHANGED <<courier, told>> /\ i \in forwarded'
        BY <1>8 DEF EnqueueForward, ForwardEvent, Sends
    <2>2. ASSUME NEW j \in Intents, NEW n \in 0 .. MaxRetries, outbox'[j][n] > 0
          PROVE  j \in forwarded'
        BY <1>3, <1>8, <2>1, <2>2
           DEF EnqueueForward, Sends, Enqueued, ToldInv, ForwardingTypeOK
    <2> QED BY <1>5, <1>6, <2>1, <2>2 DEF ToldInv
<1>9. ASSUME NEW w \in Couriers, NEW i \in Intents, NEW n \in 0 .. MaxRetries,
             TakeForward(w, i, n)
      PROVE  ToldInv'
    <2>1. i \in forwarded /\ UNCHANGED <<vars, told>>
        BY <1>9 DEF TakeForward, ToldInv
    <2>2. ASSUME NEW j \in Intents, NEW k \in 0 .. MaxRetries, outbox'[j][k] > 0
          PROVE  j \in forwarded'
        BY <1>3, <1>9, <2>1, <2>2 DEF TakeForward, ToldInv, ForwardingTypeOK
    <2>3. FitsThen(i, intent[i].status)
        BY <1>2, <2>1, LoadedFits
    <2>4. ASSUME NEW v \in Couriers
          PROVE  /\ ~At(v, "free")' => courier'[v].of \in forwarded'
                 /\ At(v, "post")' => Fits(courier[v].of, courier[v].status)'
        <3>1. CASE courier'[v] = courier[v]
            BY <1>6, <3>1
        <3>2. CASE courier'[v] # courier[v]
            <4>1. v = w /\ courier'[w] =
                    [at |-> "post", of |-> i, tries |-> n, status |-> intent[i].status]
                BY <1>9, <3>2 DEF TakeForward, ForwardingTypeOK
            <4> QED BY <1>3, <2>1, <2>3, <4>1 DEF Fits, FitsThen
        <3> QED BY <3>1, <3>2
    <2> QED BY <1>5, <2>1, <2>2, <2>4 DEF ToldInv
<1>10. ASSUME NEW w \in Couriers, PostForward(w) \/ PostRaises(w) PROVE ToldInv'
    <2>1. /\ At(w, "post") /\ UNCHANGED <<vars, outbox>>
          /\ Receives(w) \/ UNCHANGED told
        BY <1>10 DEF PostForward, PostRaises
    <2>2. ~At(w, "free")
        BY <2>1 DEF At
    <2>3. FitsThen(courier[w].of, courier[w].status)
        BY <1>2, <1>4, <2>1, <2>2 DEF ToldInv
    <2>4. ASSUME NEW i \in Intents, told'[i] # "none" PROVE Fits(i, told[i])'
        <3>1. CASE told'[i] = told[i]
            BY <1>5, <2>4, <3>1
        <3>2. CASE told'[i] # told[i]
            <4>1. i = courier[w].of /\ told'[i] = courier[w].status
                BY <2>1, <3>2 DEF Receives, ForwardingTypeOK
            <4> QED BY <2>3, <4>1 DEF Fits, FitsThen
        <3> QED BY <3>1, <3>2
    <2>5. ASSUME NEW v \in Couriers
          PROVE  /\ ~At(v, "free")' => courier'[v].of \in forwarded'
                 /\ At(v, "post")' => Fits(courier[v].of, courier[v].status)'
        <3>1. CASE v # w
            <4>1. courier'[v] = courier[v]
                BY <1>10, <3>1 DEF PostForward, PostRaises, Leave, ForwardingTypeOK
            <4> QED BY <1>6, <4>1
        <3>2. CASE v = w
            <4>1. ~At(w, "post")'
                BY <1>10, <1>4, <2>2, BusyHolds
                   DEF PostForward, PostRaises, Leave, At, Free, ForwardingTypeOK, Busy
            <4>2. At(w, "free")' \/ courier'[w].of = courier[w].of
                BY <1>10, <2>2, BusyHolds
                   DEF PostForward, PostRaises, Leave, At, Free, ForwardingTypeOK, Busy
            <4> QED BY <1>3, <1>4, <2>2, <3>2, <4>1, <4>2
        <3> QED BY <3>1, <3>2
    <2> QED BY <1>3, <2>1, <2>4, <2>5 DEF ToldInv
<1>11. ASSUME NEW w \in Couriers,
              \/ RetryForward(w) \/ AcknowledgeForward(w) \/ FailForward(w)
              \/ LoseCourier(w)
       PROVE  ToldInv'
    <2>1. ~At(w, "free") /\ UNCHANGED told
        BY <1>11 DEF RetryForward, AcknowledgeForward, FailForward, LoseCourier, At
    <2>2. ASSUME NEW j \in Intents, NEW k \in 0 .. MaxRetries, outbox'[j][k] > 0
          PROVE  j \in forwarded'
        <3>1. CASE outbox' = outbox
            BY <1>3, <2>2, <3>1 DEF ToldInv
        <3>2. CASE j # courier[w].of
            <4>1. outbox'[j] = outbox[j]
                BY <1>11, <3>2 DEF RetryForward, AcknowledgeForward, FailForward,
                   LoseCourier, Enqueued, ForwardingTypeOK
            <4> QED BY <1>3, <2>2, <4>1 DEF ToldInv
        <3>3. CASE j = courier[w].of
            BY <1>3, <1>4, <2>1, <3>3
        <3> QED BY <3>1, <3>2, <3>3
    <2>3. ASSUME NEW v \in Couriers
          PROVE  /\ ~At(v, "free")' => courier'[v].of \in forwarded'
                 /\ At(v, "post")' => Fits(courier[v].of, courier[v].status)'
        <3>1. CASE v # w
            <4>1. courier'[v] = courier[v]
                BY <1>11, <3>1 DEF RetryForward, AcknowledgeForward, FailForward,
                   LoseCourier, Leave, Go, ForwardingTypeOK
            <4> QED BY <1>6, <4>1
        <3>2. CASE v = w
            <4>1. At(w, "free")' \/ courier'[w] = [courier[w] EXCEPT !.at = "retried"]
                BY <1>11 DEF RetryForward, AcknowledgeForward, FailForward,
                   LoseCourier, Leave, Go, At, Free, ForwardingTypeOK
            <4>2. courier[w] \in Busy
                BY <2>1, BusyHolds
            <4>3. \/ At(w, "free")'
                  \/ ~At(w, "post")' /\ courier'[w].of = courier[w].of
                BY <4>1, <4>2 DEF At, Busy
            <4>4. At(w, "free")' => ~At(w, "post")'
                BY DEF At
            <4> QED BY <1>3, <1>4, <2>1, <3>2, <4>3, <4>4
        <3> QED BY <3>1, <3>2
    <2> QED BY <1>5, <2>1, <2>2, <2>3 DEF ToldInv
<1> QED
    BY <1>7, <1>8, <1>9, <1>10, <1>11
       DEF ForwardingNext, Elsewhere, Report, LoseHandler, Delivers, delivery, allVars

LEMMA ToldHolds == ForwardingSpec => []ToldInv
<1>1. ForwardingInit => ToldInv
    BY DEF ForwardingInit, ToldInv, At, Free
<1>2. ForwardingSpec => []ForwardedIsSettled
    BY KeepsPayments, ForwardedHolds, PTL
<1> QED
    BY <1>1, <1>2, PaymentsHold, ForwardingTyped, ToldInvStep, PTL DEF ForwardingSpec

(* What a product was told was so: Stripe had reported the payment, and     *)
(* what it heard to be refunded had been moved back in full.                *)
THEOREM ToldWasTrue == ForwardingSpec => []ToldIsTrue
<1>1. ToldInv => ToldIsTrue
    BY DEF ToldInv, ToldIsTrue, Fits, Settled
<1> QED BY <1>1, ToldHolds, PTL

-----------------------------------------------------------------------------
(* No lost worker and no failed attempt swallows an event.                  *)
Accounted(i) == told[i] # "none" \/ i \in failed \/ InHand(i)

LEMMA MessageCounts ==
    ASSUME NEW i \in Intents, NEW n \in 0 .. MaxRetries, outbox'[i][n] > 0
    PROVE  Accounted(i)'
BY DEF Accounted, InHand

LEMMA InHandStep ==
    /\ ForwardingTypeOK /\ ForwardingTypeOK' /\ ToldInv
    /\ ForwardIsInHand /\ [ForwardingNext]_allVars
    => ForwardIsInHand'
<1> SUFFICES ASSUME ForwardingTypeOK, ForwardingTypeOK', ToldInv, ForwardIsInHand,
                    [ForwardingNext]_allVars, NEW i \in Intents,
                    i \in forwarded', i \in remote'
             PROVE  Accounted(i)'
    BY DEF ForwardIsInHand, ForwardingTypeOK, Accounted
<1> USE ForwardingAssumption
<1>1. i \in remote
    BY DEF ForwardingNext, Elsewhere, Report, EnqueueForward, Sends, LoseHandler,
       Delivers, TakeForward, PostForward, PostRaises, RetryForward,
       AcknowledgeForward, FailForward, LoseCourier, delivery, allVars
<1>2. i \in forwarded => Accounted(i)
    BY <1>1 DEF ForwardIsInHand, Accounted
<1>3. ASSUME i \in forwarded, UNCHANGED <<outbox, courier, told, failed>>
      PROVE  Accounted(i)'
    BY <1>2, <1>3 DEF Accounted, InHand
<1>4. ASSUME NEW j \in Intents, EnqueueForward(j) PROVE Accounted(i)'
    <2>1. 0 \in 0 .. MaxRetries
        OBVIOUS
    <2>2. CASE i = j
        <3>1. outbox'[i][0] = outbox[i][0] + 1 /\ outbox[i][0] \in Nat
            BY <1>4, <2>1, <2>2 DEF EnqueueForward, Sends, Enqueued, ForwardingTypeOK
        <3> QED BY <2>1, <3>1, MessageCounts
    <2>3. CASE i # j
        <3>1. i \in forwarded /\ outbox'[i] = outbox[i]
            BY <1>4, <2>3 DEF EnqueueForward, ForwardEvent, Sends, Enqueued,
               ForwardingTypeOK
        <3> QED BY <1>2, <1>4, <3>1 DEF EnqueueForward, Sends, Accounted, InHand
    <2> QED BY <2>2, <2>3
<1>5. ASSUME NEW w \in Couriers, NEW j \in Intents, NEW k \in 0 .. MaxRetries,
             TakeForward(w, j, k), i \in forwarded
      PROVE  Accounted(i)'
    <2>1. CASE i = j
        <3>1. courier'[w] = [at |-> "post", of |-> i, tries |-> k,
                             status |-> intent[i].status]
            BY <1>1, <1>5, <2>1 DEF TakeForward, ForwardingTypeOK
        <3>2. courier'[w].at = "post" /\ courier'[w].of = i
            BY <3>1
        <3> QED BY <3>2 DEF Accounted, InHand
    <2>2. CASE i # j
        <3>1. outbox'[i] = outbox[i] /\ UNCHANGED <<told, failed>>
            BY <1>5, <2>2 DEF TakeForward, ForwardingTypeOK
        <3>2. \A v \in Couriers :
                  courier[v].at \in {"post", "raised"} => courier'[v] = courier[v]
            BY <1>5 DEF TakeForward, At, ForwardingTypeOK
        <3> QED BY <1>2, <1>5, <3>1, <3>2 DEF Accounted, InHand
    <2> QED BY <2>1, <2>2
<1>6. ASSUME NEW w \in Couriers, PostForward(w) \/ PostRaises(w), i \in forwarded
      PROVE  Accounted(i)'
    <2>1. ~At(w, "free") /\ courier[w].status # "none"
        BY <1>6 DEF PostForward, PostRaises, At, ToldInv, Fits, Settled,
           REFUNDABLE_STATUSES
    <2>2. courier[w] \in Busy
        BY <2>1, BusyHolds
    <2>3. UNCHANGED <<outbox, failed>>
        BY <1>6 DEF PostForward, PostRaises
    <2>4. told[i] # "none" => told'[i] # "none"
        BY <1>6, <2>1 DEF PostForward, PostRaises, Receives, ForwardingTypeOK
    <2>5. ASSUME NEW v \in Couriers, v # w PROVE courier'[v] = courier[v]
        BY <1>6, <2>5 DEF PostForward, PostRaises, Leave, ForwardingTypeOK
    <2>6. CASE courier[w].of = i
        <3>1. CASE PostForward(w)
            <4>1. told'[i] # "none"
                BY <2>1, <2>6, <3>1 DEF PostForward, Receives, ForwardingTypeOK
            <4> QED BY <4>1 DEF Accounted
        <3>2. CASE PostRaises(w)
            <4>1. courier'[w].at = "raised" /\ courier'[w].of = i
                BY <2>2, <2>6, <3>2 DEF PostRaises, ForwardingTypeOK, Busy
            <4> QED BY <4>1 DEF Accounted, InHand
        <3> QED BY <1>6, <3>1, <3>2
    <2>7. CASE courier[w].of # i
        BY <1>2, <1>6, <2>3, <2>4, <2>5, <2>7 DEF Accounted, InHand
    <2> QED BY <2>6, <2>7
<1>7. ASSUME NEW w \in Couriers, RetryForward(w) \/ LoseCourier(w), i \in forwarded
      PROVE  Accounted(i)'
    <2>1. ~At(w, "free")
        BY <1>7 DEF RetryForward, LoseCourier, At
    <2>2. courier[w] \in Busy
        BY <2>1, BusyHolds
    <2>3. UNCHANGED <<told, failed>>
        BY <1>7 DEF RetryForward, LoseCourier
    <2>4. CASE courier[w].of = i
        <3>1. PICK n \in 0 .. MaxRetries : outbox' = Enqueued(i, n)
            <4>1. courier[w].tries \in 0 .. MaxRetries
                BY <2>2 DEF Busy
            <4>2. CASE RetryForward(w)
                <5>1. courier[w].tries + 1 \in 0 .. MaxRetries
                    BY <4>1, <4>2 DEF RetryForward
                <5> QED BY <2>4, <4>2, <5>1 DEF RetryForward
            <4>3. CASE LoseCourier(w)
                BY <2>4, <4>1, <4>3 DEF LoseCourier
            <4> QED BY <1>7, <4>2, <4>3
        <3>2. outbox'[i][n] = outbox[i][n] + 1 /\ outbox[i][n] \in Nat
            BY <3>1 DEF Enqueued, ForwardingTypeOK
        <3> QED BY <3>2, MessageCounts
    <2>5. CASE courier[w].of # i
        <3>1. outbox'[i] = outbox[i]
            BY <1>7, <2>5 DEF RetryForward, LoseCourier, Enqueued, ForwardingTypeOK
        <3>2. ASSUME NEW v \in Couriers, v # w PROVE courier'[v] = courier[v]
            BY <1>7, <3>2 DEF RetryForward, LoseCourier, Leave, Go, ForwardingTypeOK
        <3> QED BY <1>2, <1>7, <2>3, <2>5, <3>1, <3>2 DEF Accounted, InHand
    <2> QED BY <2>4, <2>5
<1>8. ASSUME NEW w \in Couriers, AcknowledgeForward(w) \/ FailForward(w),
             i \in forwarded
      PROVE  Accounted(i)'
    <2>1. UNCHANGED <<told, outbox>> /\ failed \subseteq failed'
        BY <1>8 DEF AcknowledgeForward, FailForward
    <2>2. ASSUME NEW v \in Couriers, v # w PROVE courier'[v] = courier[v]
        BY <1>8, <2>2 DEF AcknowledgeForward, FailForward, Leave, ForwardingTypeOK
    <2>3. CASE courier[w].of = i /\ FailForward(w)
        BY <2>3 DEF FailForward, Accounted
    <2>4. CASE courier[w].of # i \/ AcknowledgeForward(w)
        <3>1. ~(courier[w].at \in {"post", "raised"} /\ courier[w].of = i)
            BY <2>4 DEF AcknowledgeForward, At
        <3> QED BY <1>2, <1>8, <2>1, <2>2, <3>1 DEF Accounted, InHand
    <2> QED BY <1>8, <2>3, <2>4
<1>9. i \notin forwarded => \E j \in Intents : EnqueueForward(j)
    BY DEF ForwardingNext, Elsewhere, Report, LoseHandler, Delivers, TakeForward,
       PostForward, PostRaises, RetryForward, AcknowledgeForward, FailForward,
       LoseCourier, allVars, vars, RequestStep, LoadIntent, Proceed, InsertRefund,
       SaveIntent, WriteIntent, CreateIntent, StoreResponse, LoseThread, Receive,
       StripeSucceeds, SaveSucceeded, LoseWorker
<1> QED
    BY <1>3, <1>4, <1>5, <1>6, <1>7, <1>8, <1>9
       DEF ForwardingNext, Elsewhere, Report, LoseHandler, Delivers, delivery, allVars

(* An event that was enqueued for a product elsewhere has reached it, is in *)
(* the queue or with a worker, or has used up its retries.                  *)
THEOREM ForwardsAreInHand == ForwardingSpec => []ForwardIsInHand
<1>1. ForwardingInit => ForwardIsInHand
    BY DEF ForwardingInit, Init, ForwardIsInHand
<1> QED
    BY <1>1, ForwardingTyped, ToldHolds, InHandStep, PTL DEF ForwardingSpec
=============================================================================
