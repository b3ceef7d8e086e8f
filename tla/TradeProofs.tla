---------------------------- MODULE TradeProofs -----------------------------
(***************************************************************************)
(* What a buyer and a seller rely on: the checkout of the server, for every *)
(* set of requests, keys, carts and baskets and every number of attempts,  *)
(* and the pages of a seller, for any countries and bounds.                *)
(***************************************************************************)
EXTENDS Checkout, SellerPages, SequenceTheorems, FiniteSetTheorems,
        WellFoundedInduction, TLAPS

(* The checkout of the server.                                             *)
(* The inductive invariant *)

Held == {"close_cart", "pay", "store"}

AnswerType == [view: Views, key: Keys, payload: Payloads, number: Nat \ {0},
               secret: 0..MaxIntents]

\* What a request's record holds at each point of its way.
Good(q) ==
    /\ q.view = "place" => /\ q.cart = NoCart
                           /\ q.payload.cart = NoCart
                           /\ q.pc \notin {"payload", "items"}
    /\ q.view = "place" /\ q.pc # "idle" => q.payload.items # Empty
    /\ q.view = "checkout" =>
          /\ q.cart \in Carts
          /\ q.pc # "inner"
          /\ q.pc # "payload" => q.payload.cart = q.cart
    /\ q.pc \in {"number", "save"} \cup Held => q.items # Empty
    /\ q.view = "place" /\ q.pc # "idle" => q.items # Empty
    /\ q.pc \in {"save"} \cup Held => q.number # 0

\* The order numbers are bounded, so there is a highest one.
Bounded == \E n \in Nat : \A o \in orders : o.number <= n

\* Number and key are unique among the committed orders and the open ones.
Unique ==
    /\ \A o, p \in orders : o.number = p.number \/ o.key = p.key => o = p
    /\ \A r \in Requests : HoldsOrder(r) => ~Collides(r) /\ ~Waits(r)

\* Orders, records and carts tell the same story.
Whole ==
    /\ OrderIsWhole
    /\ \A o \in orders : record[o.key[1]][o.key[2]] # NoRecord

\* What was answered is what is stored.
Told ==
    /\ AnswerIsBacked
    /\ \A a \in answers :
          record[a.view][a.key] = [payload |-> a.payload, number |-> a.number]

CheckoutInv ==
    /\ TypeOK
    /\ \A r \in Requests : Good(request[r])
    /\ Bounded /\ Unique /\ Whole /\ Told

-----------------------------------------------------------------------------
(* Data *)

\* The natural numbers are well-founded.
LEMMA LeastNumber ==
    ASSUME NEW T, T \subseteq Nat, T # {}
    PROVE  \E n \in T : \A m \in T : n <= m
<1> DEFINE Less == OpToRel(<, Nat)
<1>1. IsWellFoundedOn(Less, Nat)
  BY NatLessThanWellFounded
<1>2. Less = {p \in Nat \X Nat : p[1] < p[2]}
  BY DEF OpToRel
<1> HIDE DEF Less
<1>3. PICK n \in T : \A m \in T : <<m, n>> \notin Less
  BY <1>1, WFMin, Zenon
<1>4. ASSUME NEW m \in T PROVE n <= m
  <2>1. n \in Nat /\ m \in Nat
    OBVIOUS
  <2>2. <<m, n>> \in Nat \X Nat
    BY <2>1
  <2>3. ~(<<m, n>>[1] < <<m, n>>[2])
    BY <1>2, <1>3, <2>2
  <2>. QED
    BY <2>1, <2>3
<1>. QED
  BY <1>4

\* A bounded set of numbers has a greatest one, which Greatest picks.
LEMMA GreatestNumber ==
    ASSUME NEW S, S \subseteq Nat, S # {},
           NEW bound \in Nat, \A n \in S : n <= bound
    PROVE  Greatest(S) \in S /\ \A n \in S : n <= Greatest(S)
<1> DEFINE T == {u \in Nat : \A n \in S : n <= u}
<1>1. PICK u \in T : \A m \in T : u <= m
  <2>1. T \subseteq Nat /\ T # {}
    OBVIOUS
  <2>. QED
    BY <2>1, LeastNumber
<1>2. u \in Nat /\ \A n \in S : n <= u
  BY <1>1
<1>3. u \in S
  <2> SUFFICES ASSUME u \notin S PROVE FALSE
    OBVIOUS
  <2>1. \A n \in S : n \in Nat /\ n < u
    BY <1>2
  <2>2. u - 1 \in Nat /\ \A n \in S : n <= u - 1
    <3>1. PICK n \in S : TRUE
      OBVIOUS
    <3>2. n \in Nat /\ n < u /\ u \in Nat
      BY <1>2, <2>1
    <3>. QED
      BY <2>1, <3>2
  <2>3. u - 1 \in T
    BY <2>2
  <2>. QED
    BY <1>1, <1>2, <2>3
<1>. QED
  BY <1>2, <1>3 DEF Greatest

\* The number a request reads is higher than every committed one.
LEMMA NumberIsFresh ==
    ASSUME TypeOK, Bounded, NEW offset \in Nat
    PROVE  /\ NextOrderNumber(offset) \in Nat \ {0}
           /\ \A o \in orders : o.number # NextOrderNumber(offset)
<1> DEFINE S == {offset} \cup {o.number : o \in orders}
<1>1. \A o \in orders : o.number \in Nat
  BY DEF TypeOK, OrderRows
<1>2. PICK b \in Nat : \A o \in orders : o.number <= b
  BY DEF Bounded
<1>3. PICK bound \in Nat : b <= bound /\ offset <= bound
  BY <1>2
<1>4. S \subseteq Nat /\ S # {} /\ \A n \in S : n <= bound
  BY <1>1, <1>2, <1>3
<1> HIDE DEF S
<1>5. Greatest(S) \in Nat /\ \A n \in S : n <= Greatest(S)
  BY <1>4, GreatestNumber
<1>6. NextOrderNumber(offset) = 1 + Greatest(S)
  BY DEF NextOrderNumber, S
<1>7. \A o \in orders : o.number <= Greatest(S)
  BY <1>5 DEF S
<1>. QED
  BY <1>1, <1>5, <1>6, <1>7

-----------------------------------------------------------------------------
(* Steps that change no committed row *)

LEMMA IdleTyped == Idle \in RequestStates /\ Good(Idle) /\ Idle.pc = "idle"
<1>1. (CHOOSE k \in Keys : TRUE) \in Keys
  BY CheckoutAssumption
<1>2. NoRecord.payload \in Payloads
  BY CheckoutAssumption DEF NoRecord, Payloads
<1>3. 0 \in 0..(Attempts - 1) /\ 0 \in 0..MaxIntents
  BY CheckoutAssumption
<1>. QED
  BY <1>1, <1>2, <1>3, CheckoutAssumption
     DEF Idle, RequestStates, Good, Held, Views, NoRecord

\* Request r moves on to q; no row changes, and what is answered is stored.
LEMMA RequestTells ==
    ASSUME CheckoutInv,
           NEW r \in Requests, NEW q \in RequestStates, Good(q),
           q.pc \in Held =>
              /\ \A o \in orders : /\ o.number # q.number
                                   /\ o.key # <<q.view, q.key>>
              /\ \A s \in Requests \ {r} : HoldsOrder(s) =>
                    /\ request[s].number # q.number
                    /\ OrderKey(s) # <<q.view, q.key>>,
           request' = [request EXCEPT ![r] = q],
           intents' \in 0..MaxIntents,
           UNCHANGED <<cart, basket, orders, record>>,
           answers' \subseteq AnswerType, Told'
    PROVE  CheckoutInv'
<1>1. request \in [Requests -> RequestStates]
  BY DEF CheckoutInv, TypeOK
<1>2. request'[r] = q /\ \A s \in Requests \ {r} : request'[s] = request[s]
  BY <1>1
<1>3. TypeOK'
  BY <1>1 DEF CheckoutInv, TypeOK, AnswerType
<1>4. (\A s \in Requests : Good(request[s]))'
  BY <1>2 DEF CheckoutInv
<1>5. Unique'
  <2>1. ASSUME NEW s \in Requests, HoldsOrder(s)' PROVE ~Collides(s)'
    <3>1. CASE s = r
      BY <1>2, <2>1, <3>1 DEF HoldsOrder, Held, Collides, OrderKey
    <3>2. CASE s # r
      BY <1>2, <2>1, <3>2 DEF HoldsOrder, Collides, OrderKey, CheckoutInv, Unique
    <3>. QED
      BY <3>1, <3>2
  <2>2. ASSUME NEW s \in Requests, HoldsOrder(s)',
               NEW t \in Requests \ {s}, HoldsOrder(t)'
        PROVE  request'[t].number # request'[s].number /\ OrderKey(t)' # OrderKey(s)'
    <3>1. CASE s = r
      BY <1>2, <2>2, <3>1 DEF HoldsOrder, Held, OrderKey
    <3>2. CASE t = r
      BY <1>2, <2>2, <3>2 DEF HoldsOrder, Held, OrderKey
    <3>3. CASE s # r /\ t # r
      BY <1>2, <2>2, <3>3 DEF HoldsOrder, Waits, OrderKey, CheckoutInv, Unique
    <3>. QED
      BY <3>1, <3>2, <3>3
  <2>3. ASSUME NEW s \in Requests, HoldsOrder(s)' PROVE ~Waits(s)'
    BY <2>2, <2>3 DEF Waits
  <2>. QED
    BY <2>1, <2>3 DEF CheckoutInv, Unique
<1>6. Bounded' /\ Whole'
  BY DEF CheckoutInv, Bounded, Whole, OrderIsWhole
<1>. QED
  BY <1>3, <1>4, <1>5, <1>6 DEF CheckoutInv

\* Request r moves on to q and nothing else changes, but for Stripe's count.
LEMMA RequestMoves ==
    ASSUME CheckoutInv,
           NEW r \in Requests, NEW q \in RequestStates, Good(q),
           q.pc \in Held =>
              /\ \A o \in orders : /\ o.number # q.number
                                   /\ o.key # <<q.view, q.key>>
              /\ \A s \in Requests \ {r} : HoldsOrder(s) =>
                    /\ request[s].number # q.number
                    /\ OrderKey(s) # <<q.view, q.key>>,
           request' = [request EXCEPT ![r] = q],
           intents' \in 0..MaxIntents,
           UNCHANGED <<cart, basket, orders, record, answers>>
    PROVE  CheckoutInv'
<1>1. answers' \subseteq AnswerType
  BY DEF CheckoutInv, TypeOK, AnswerType
<1>2. Told'
  BY DEF CheckoutInv, Told, AnswerIsBacked
<1>. QED
  BY <1>1, <1>2, RequestTells

\* A transaction that ends without a commit changes nothing.
LEMMA Leaves ==
    ASSUME CheckoutInv, NEW r \in Requests, Leave(r),
           UNCHANGED <<cart, basket, orders, record, intents, answers>>
    PROVE  CheckoutInv'
<1>1. intents' \in 0..MaxIntents
  BY DEF CheckoutInv, TypeOK
<1>. QED
  BY <1>1, IdleTyped, RequestMoves DEF Leave, Held

\* A request that holds an order keeps it unique.
LEMMA HolderKeeps ==
    ASSUME CheckoutInv, NEW r \in Requests, HoldsOrder(r)
    PROVE  /\ \A o \in orders : /\ o.number # request[r].number
                                /\ o.key # OrderKey(r)
           /\ \A s \in Requests \ {r} : HoldsOrder(s) =>
                 /\ request[s].number # request[r].number
                 /\ OrderKey(s) # OrderKey(r)
BY DEF CheckoutInv, Unique, Collides, Waits

LEMMA Reads ==
    ASSUME CheckoutInv, NEW r \in Requests,
           \/ \E k \in CheckoutKeys, c \in Carts : ReceiveCheckout(r, k, c)
           \/ \E k \in PlaceKeys, b \in Baskets : ReceivePlace(r, k, b)
           \/ ReadPayload(r) \/ LookupInner(r) \/ ReadItems(r)
           \/ ReadNumber(r) \/ CloseCart(r) \/ CreatePaymentIntent(r)
           \/ SaveOrder(r) \/ Rollback(r)
    PROVE  CheckoutInv'
<1>0. /\ request[r] \in RequestStates
      /\ Good(request[r])
      /\ cart \in [Carts -> {"active", "checked_out"}]
      /\ basket \in [Carts -> Baskets]
      /\ intents \in 0..MaxIntents
      /\ TypeOK /\ Bounded
  BY DEF CheckoutInv, TypeOK
<1>1. ASSUME NEW k \in CheckoutKeys, NEW c \in Carts, ReceiveCheckout(r, k, c)
      PROVE  CheckoutInv'
  <2> DEFINE q == [Idle EXCEPT !.pc = "payload", !.view = "checkout",
                               !.key = k, !.cart = c, !.status = cart[c]]
  <2>1. q \in RequestStates /\ q.pc \notin Held /\ Good(q)
    BY <1>0, IdleTyped, CheckoutAssumption
       DEF RequestStates, Good, Held, Views, Keys
  <2>2. request' = [request EXCEPT ![r] = q]
    BY <1>1 DEF ReceiveCheckout, Continue
  <2> HIDE DEF q
  <2>. QED
    BY <1>0, <1>1, <2>1, <2>2, RequestMoves DEF ReceiveCheckout
<1>2. ASSUME NEW k \in PlaceKeys, NEW b \in Baskets, ReceivePlace(r, k, b)
      PROVE  CheckoutInv'
  <2> DEFINE q == [Idle EXCEPT !.pc = "lookup", !.key = k, !.items = b,
                               !.payload.items = b]
  <2>1. q \in RequestStates /\ q.pc \notin Held
    BY <1>0, IdleTyped, CheckoutAssumption
       DEF RequestStates, Payloads, Held, Views, Keys
  <2>2. Good(q)
    BY <1>2, IdleTyped, CheckoutAssumption
       DEF ReceivePlace, Good, Held, Idle, NoRecord
  <2>3. request' = [request EXCEPT ![r] = q]
    BY <1>2 DEF ReceivePlace, Continue
  <2> HIDE DEF q
  <2>. QED
    BY <1>0, <1>2, <2>1, <2>2, <2>3, RequestMoves DEF ReceivePlace
<1>3. CASE ReadPayload(r)
  <2> DEFINE x == request[r]
             q == [x EXCEPT !.pc = "lookup", !.payload.cart = x.cart,
                            !.payload.items = basket[x.cart]]
  <2>1. x.view = "checkout" /\ x.cart \in Carts
    BY <1>0, <1>3 DEF ReadPayload, At, Good, RequestStates, Views
  <2>2. q \in RequestStates /\ q.pc \notin Held
    BY <1>0, <2>1 DEF RequestStates, Payloads, Held
  <2>3. Good(q)
    BY <1>0, <2>1 DEF Good, RequestStates, Payloads, Held
  <2>4. request' = [request EXCEPT ![r] = q]
    BY <1>3 DEF ReadPayload
  <2> HIDE DEF q
  <2>. QED
    BY <1>0, <1>3, <2>2, <2>3, <2>4, RequestMoves DEF ReadPayload
<1>4. CASE LookupInner(r)
  <2> DEFINE q == [request[r] EXCEPT !.pc = "number"]
  <2>1. q \in RequestStates /\ q.pc \notin Held
    BY <1>0 DEF RequestStates, Held
  <2>2. Good(q)
    BY <1>0, <1>4 DEF LookupInner, At, Good, RequestStates, Held, Views
  <2>3. request' = [request EXCEPT ![r] = q] \/ Leave(r)
    BY <1>4 DEF LookupInner
  <2> HIDE DEF q
  <2>. QED
    BY <1>0, <1>4, <2>1, <2>2, <2>3, RequestMoves, Leaves DEF LookupInner
<1>5. CASE ReadItems(r)
  <2> DEFINE b == basket[request[r].cart]
             q == [request[r] EXCEPT !.pc = "number", !.items = b]
  <2>1. request[r].view = "checkout" /\ request[r].cart \in Carts
    BY <1>0, <1>5 DEF ReadItems, At, Good, RequestStates, Views
  <2>2. q \in RequestStates /\ q.pc \notin Held
    BY <1>0, <2>1 DEF RequestStates, Held
  <2>3. \/ request' = [request EXCEPT ![r] = q] /\ b # Empty
        \/ Leave(r)
    BY <1>5 DEF ReadItems
  <2>4. b # Empty => Good(q)
    BY <1>0, <1>5, <2>1 DEF ReadItems, At, Good, RequestStates, Held
  <2> HIDE DEF q, b
  <2>. QED
    BY <1>0, <1>5, <2>2, <2>3, <2>4, RequestMoves, Leaves DEF ReadItems
<1>6. CASE ReadNumber(r)
  <2> DEFINE n == NextOrderNumber(request[r].attempt)
             q == [request[r] EXCEPT !.pc = "save", !.number = n]
  <2>1. n \in Nat \ {0}
    BY <1>0, NumberIsFresh, CheckoutAssumption DEF RequestStates
  <2> HIDE DEF n
  <2>2. q \in RequestStates /\ q.pc \notin Held
    BY <1>0, <2>1 DEF RequestStates, Held
  <2>3. Good(q)
    BY <1>0, <1>6, <2>1 DEF ReadNumber, At, Good, RequestStates, Held
  <2>4. request' = [request EXCEPT ![r] = q]
    BY <1>6 DEF ReadNumber, n
  <2> HIDE DEF q
  <2>. QED
    BY <1>0, <1>6, <2>2, <2>3, <2>4, RequestMoves DEF ReadNumber
<1>7. CASE CloseCart(r)
  <2> DEFINE q == [request[r] EXCEPT !.pc = "pay"]
  <2>1. q \in RequestStates /\ HoldsOrder(r)
    BY <1>0, <1>7 DEF RequestStates, CloseCart, At, HoldsOrder
  <2>2. /\ Good(q) /\ q.number = request[r].number
        /\ <<q.view, q.key>> = OrderKey(r)
    BY <1>0, <1>7 DEF CloseCart, At, Good, RequestStates, Held, OrderKey
  <2>3. request' = [request EXCEPT ![r] = q]
    BY <1>7 DEF CloseCart
  <2> HIDE DEF q
  <2>. QED
    BY <1>0, <1>7, <2>1, <2>2, <2>3, HolderKeeps, RequestMoves DEF CloseCart
<1>8. CASE CreatePaymentIntent(r)
  <2> DEFINE q(i) == [request[r] EXCEPT !.pc = "store", !.intent = i]
  <2>1. HoldsOrder(r)
    BY <1>0, <1>8 DEF CreatePaymentIntent, At, HoldsOrder
  <2>2. ASSUME NEW i \in 0..MaxIntents, intents' \in 0..MaxIntents,
               request' = [request EXCEPT ![r] = q(i)]
        PROVE  CheckoutInv'
    <3> DEFINE x == q(i)
    <3>1. x \in RequestStates
      BY <1>0 DEF RequestStates
    <3>2. /\ Good(x) /\ x.number = request[r].number
          /\ <<x.view, x.key>> = OrderKey(r)
      BY <1>0, <1>8 DEF CreatePaymentIntent, At, Good, RequestStates, Held,
                        OrderKey
    <3>3. request' = [request EXCEPT ![r] = x]
      BY <2>2
    <3> HIDE DEF x
    <3>. QED
      BY <1>8, <2>1, <2>2, <3>1, <3>2, <3>3, HolderKeeps, RequestMoves
         DEF CreatePaymentIntent
  <2>3. CASE /\ intents < MaxIntents
             /\ intents' = intents + 1
             /\ request' = [request EXCEPT ![r].pc = "store",
                                           ![r].intent = intents + 1]
    <3>1. intents + 1 \in 0..MaxIntents
      BY <1>0, <2>3, CheckoutAssumption
    <3>. QED
      BY <2>2, <2>3, <3>1
  <2>4. CASE UNCHANGED intents /\ request' = [request EXCEPT ![r].pc = "store"]
    <3>1. request' = [request EXCEPT ![r] = q(request[r].intent)]
      BY <1>0, <2>4 DEF RequestStates
    <3>2. request[r].intent \in 0..MaxIntents
      BY <1>0 DEF RequestStates
    <3>. QED
      BY <1>0, <2>2, <2>4, <3>1, <3>2
  <2>. QED
    BY <1>8, <2>3, <2>4 DEF CreatePaymentIntent
<1>9. CASE SaveOrder(r)
  <2>1. CASE InsertOrder(r)
    <3> DEFINE q == [request[r] EXCEPT !.pc = "close_cart"]
    <3>1. q \in RequestStates
      BY <1>0 DEF RequestStates
    <3>2. /\ Good(q) /\ q.number = request[r].number
          /\ <<q.view, q.key>> = OrderKey(r)
      BY <1>0, <1>9 DEF SaveOrder, At, Good, RequestStates, Held, OrderKey
    <3>3. request' = [request EXCEPT ![r] = q]
      BY <2>1 DEF InsertOrder
    <3>4. /\ \A o \in orders : /\ o.number # request[r].number
                                /\ o.key # OrderKey(r)
          /\ \A s \in Requests \ {r} : HoldsOrder(s) =>
                /\ request[s].number # request[r].number
                /\ OrderKey(s) # OrderKey(r)
      BY <2>1 DEF InsertOrder, Collides, Waits
    <3> HIDE DEF q
    <3>. QED
      BY <1>0, <1>9, <3>1, <3>2, <3>3, <3>4, RequestMoves DEF SaveOrder
  <2>2. CASE RetryOrder(r)
    <3> DEFINE q == [request[r] EXCEPT !.pc = "number", !.attempt = @ + 1]
    <3>1. request[r].attempt + 1 \in 0..(Attempts - 1)
      BY <1>0, <2>2, CheckoutAssumption DEF RetryOrder, RequestStates
    <3>2. q \in RequestStates /\ q.pc \notin Held
      BY <1>0, <3>1 DEF RequestStates, Held
    <3>3. Good(q)
      BY <1>0, <1>9 DEF SaveOrder, At, Good, RequestStates, Held
    <3>4. request' = [request EXCEPT ![r] = q]
      BY <2>2 DEF RetryOrder
    <3> HIDE DEF q
    <3>. QED
      BY <1>0, <1>9, <3>2, <3>3, <3>4, RequestMoves DEF SaveOrder
  <2>. QED
    BY <1>9, <2>1, <2>2, Leaves DEF SaveOrder, GiveUp
<1>10. CASE Rollback(r)
  BY <1>10, Leaves DEF Rollback
<1>. QED
  BY <1>1, <1>2, <1>3, <1>4, <1>5, <1>6, <1>7, <1>8, <1>9, <1>10

\* A replay answers with the order the record names, which has the record's key.
LEMMA LookupStep ==
    ASSUME CheckoutInv, NEW r \in Requests, Lookup(r)
    PROVE  CheckoutInv'
<1> DEFINE v == request[r].view
           k == request[r].key
           found == record[v][k]
<1>0. /\ request[r] \in RequestStates /\ Good(request[r])
      /\ v \in Views /\ k \in Keys
      /\ intents \in 0..MaxIntents
      /\ request[r].pc = "lookup"
      /\ UNCHANGED <<cart, basket, orders, record, intents>>
  BY DEF CheckoutInv, TypeOK, RequestStates, Lookup, At
<1>1. CASE found = NoRecord
  <2> DEFINE q == [request[r] EXCEPT !.pc = IF v = "place" THEN "inner"
                                                           ELSE "items"]
  <2>1. q \in RequestStates /\ q.pc \notin Held
    BY <1>0 DEF RequestStates, Held
  <2>2. Good(q)
    BY <1>0 DEF Good, RequestStates, Held, Views
  <2>3. request' = [request EXCEPT ![r] = q] /\ UNCHANGED answers
    BY <1>1 DEF Lookup
  <2> HIDE DEF q
  <2>. QED
    BY <1>0, <2>1, <2>2, <2>3, RequestMoves
<1>2. CASE found # NoRecord /\ found.payload = request[r].payload
  <2>1. PICK o \in orders : o.number = found.number /\ Answer(r, o.number, o.intent)
    BY <1>2 DEF Lookup
  <2>2. PICK p \in orders : p.key = <<v, k>>
    BY <1>0, <1>2 DEF CheckoutInv, Whole, OrderIsWhole
  <2>3. p.number = found.number
    BY <2>2 DEF CheckoutInv, Whole, OrderIsWhole
  <2>4. o = p
    BY <2>1, <2>3 DEF CheckoutInv, Unique
  <2> DEFINE a == [view |-> v, key |-> k, payload |-> request[r].payload,
                   number |-> o.number,
                   secret |-> IF v = "place" THEN o.intent ELSE 0]
  <2>5. answers' = answers \cup {a}
    BY <2>1 DEF Answer
  <2>6. /\ found.payload = a.payload /\ found.number = a.number
        /\ found \in [payload: Payloads, number: Nat]
    BY <1>0, <1>2, <2>1 DEF CheckoutInv, TypeOK
  <2>7. a \in AnswerType
    BY <1>0, CheckoutAssumption DEF AnswerType, CheckoutInv, TypeOK, OrderRows, RequestStates
  <2>8. found = [payload |-> a.payload, number |-> a.number]
    BY <2>6
  <2>9. /\ a.view = v /\ a.key = k /\ a.number = o.number
        /\ a.secret \in {0, o.intent}
    OBVIOUS
  <2> HIDE DEF a
  <2>10. answers' \subseteq AnswerType
    BY <2>5, <2>7 DEF CheckoutInv, TypeOK, AnswerType
  <2>11. Told'
    BY <1>0, <2>2, <2>4, <2>5, <2>8, <2>9 DEF CheckoutInv, Told, AnswerIsBacked
  <2>12. Leave(r)
    BY <1>2 DEF Lookup
  <2>. QED
    BY <1>0, <2>10, <2>11, <2>12, IdleTyped, RequestTells DEF Leave, Held
<1>3. CASE found # NoRecord /\ found.payload # request[r].payload
  BY <1>0, <1>3, Leaves DEF Lookup
<1>. QED
  BY <1>1, <1>2, <1>3

-----------------------------------------------------------------------------
(* The commit *)

LEMMA CommitStep ==
    ASSUME CheckoutInv, NEW r \in Requests, StoreResponse(r)
    PROVE  CheckoutInv'
<1> DEFINE x == request[r]
           row == OrderRow(r)
           stored == [payload |-> x.payload, number |-> x.number]
<1>0. /\ x \in RequestStates /\ Good(x) /\ HoldsOrder(r) /\ x.pc = "store"
      /\ x.view \in Views /\ x.key \in Keys /\ x.number \in Nat \ {0}
  BY DEF CheckoutInv, TypeOK, RequestStates, Good, Held, StoreResponse, At, HoldsOrder
<1>1. /\ row.number = x.number /\ row.key = <<x.view, x.key>>
      /\ row.intent = x.intent /\ row \in OrderRows
  BY <1>0 DEF OrderRow, OrderKey, OrderRows, RequestStates, Good, Held
<1>2. /\ orders' = orders \cup {row}
      /\ cart' = [d \in Carts |-> IF d = x.cart THEN "checked_out" ELSE cart[d]]
      /\ record' = [record EXCEPT ![x.view][x.key] = stored]
      /\ request' = [request EXCEPT ![r] = Idle]
      /\ UNCHANGED <<basket, intents>>
  BY <1>1 DEF StoreResponse, Leave
<1> DEFINE a == [view |-> x.view, key |-> x.key, payload |-> x.payload,
                 number |-> x.number,
                 secret |-> IF x.view = "place" THEN x.intent ELSE 0]
<1>3. answers' = answers \cup {a}
  BY <1>1 DEF StoreResponse, Answer
<1>4. a \in AnswerType
  BY <1>0, CheckoutAssumption DEF AnswerType, RequestStates
<1>5. /\ a.view = x.view /\ a.key = x.key /\ a.number = x.number
      /\ a.payload = x.payload /\ a.secret \in {0, x.intent}
  OBVIOUS
<1>6. /\ stored \in [payload: Payloads, number: Nat]
      /\ stored.number = x.number /\ stored.payload = x.payload
  BY <1>0 DEF RequestStates
<1>7. stored # NoRecord
  BY <1>0, CheckoutAssumption DEF Good, RequestStates, NoRecord, Views
<1>8. /\ \A o \in orders : o.number # x.number /\ o.key # <<x.view, x.key>>
      /\ \A s \in Requests \ {r} : HoldsOrder(s) =>
            request[s].number # x.number /\ OrderKey(s) # <<x.view, x.key>>
  BY <1>0, HolderKeeps DEF OrderKey
<1>9. record[x.view][x.key] = NoRecord
  <2>1. \A v \in Views, k \in Keys : record[v][k] # NoRecord =>
           \E o \in orders : o.key = <<v, k>>
    BY DEF CheckoutInv, Whole, OrderIsWhole
  <2> HIDE DEF x, row, a, stored
  <2>. QED
    BY <1>0, <1>8, <2>1
<1>10. /\ record \in [Views -> [Keys -> [payload: Payloads, number: Nat]]]
       /\ request \in [Requests -> RequestStates]
  BY DEF CheckoutInv, TypeOK
<1>11. \A v \in Views, k \in Keys :
          record'[v][k] = IF v = x.view /\ k = x.key THEN stored ELSE record[v][k]
  <2> HIDE DEF x, row, a, stored
  <2>1. record' = [record EXCEPT ![x.view] = [@ EXCEPT ![x.key] = stored]]
    BY <1>2
  <2>. QED
    BY <1>10, <2>1
<1>12. \A s \in Requests : request'[s] = IF s = r THEN Idle ELSE request[s]
  BY <1>2, <1>10
<1> HIDE DEF x, row, a, stored
<1>13. TypeOK'
  <2>1. record' \in [Views -> [Keys -> [payload: Payloads, number: Nat]]]
    BY <1>2, <1>6, <1>10
  <2>2. request' \in [Requests -> RequestStates]
    BY <1>2, <1>10, IdleTyped
  <2>3. cart' \in [Carts -> {"active", "checked_out"}]
    BY <1>2 DEF CheckoutInv, TypeOK
  <2>. QED
    BY <1>1, <1>2, <1>3, <1>4, <2>1, <2>2, <2>3 DEF CheckoutInv, TypeOK, AnswerType
<1>14. (\A s \in Requests : Good(request[s]))'
  BY <1>12, IdleTyped DEF CheckoutInv
<1>15. Bounded'
  <2>1. PICK n \in Nat : \A o \in orders : o.number <= n
    BY DEF CheckoutInv, Bounded
  <2>2. PICK m \in Nat : n <= m /\ x.number <= m
    BY <1>0
  <2>3. \A o \in orders : o.number \in Nat
    BY DEF CheckoutInv, TypeOK, OrderRows
  <2>4. \A o \in orders' : o.number <= m
    BY <1>1, <1>2, <2>1, <2>2, <2>3
  <2>. QED
    BY <2>4 DEF Bounded
<1>16. Unique'
  <2>1. (\A o, p \in orders : o.number = p.number \/ o.key = p.key => o = p)'
    BY <1>1, <1>2, <1>8 DEF CheckoutInv, Unique
  <2>2. ASSUME NEW s \in Requests, HoldsOrder(s)' PROVE ~Collides(s)' /\ ~Waits(s)'
    <3>1. s # r /\ HoldsOrder(s) /\ request'[s] = request[s]
      BY <1>12, <2>2, IdleTyped DEF HoldsOrder
    <3>2. ~Collides(s) /\ ~Waits(s)
      BY <3>1 DEF CheckoutInv, Unique
    <3>3. ~Collides(s)'
      BY <1>1, <1>2, <1>8, <3>1, <3>2 DEF Collides, OrderKey
    <3>4. ~Waits(s)'
      BY <1>12, <3>1, <3>2, IdleTyped DEF Waits, HoldsOrder, OrderKey
    <3>. QED
      BY <3>3, <3>4
  <2>. QED
    BY <2>1, <2>2 DEF Unique
<1>17. Whole'
  <2>1. \A o \in orders : /\ o.key[1] \in Views /\ o.key[2] \in Keys
                         /\ o.key = <<o.key[1], o.key[2]>>
    BY DEF CheckoutInv, TypeOK, OrderRows
  <2>2. ASSUME NEW o \in orders'
        PROVE  /\ record'[o.key[1]][o.key[2]].number = o.number
               /\ record'[o.key[1]][o.key[2]] # NoRecord
    <3>1. CASE o = row
      BY <1>0, <1>1, <1>6, <1>7, <1>11, <3>1
    <3>2. CASE o \in orders
      <4>1. record'[o.key[1]][o.key[2]] = record[o.key[1]][o.key[2]]
        BY <1>8, <1>11, <2>1, <3>2
      <4>. QED
        BY <3>2, <4>1 DEF CheckoutInv, Whole, OrderIsWhole
    <3>. QED
      BY <1>2, <3>1, <3>2
  <2>3. ASSUME NEW v \in Views, NEW k \in Keys, record'[v][k] # NoRecord
        PROVE  \E o \in orders' : o.key = <<v, k>>
    <3>1. CASE v = x.view /\ k = x.key
      BY <1>1, <1>2, <3>1
    <3>2. CASE ~(v = x.view /\ k = x.key)
      <4>1. record[v][k] # NoRecord
        BY <1>11, <2>3, <3>2
      <4>2. PICK o \in orders : o.key = <<v, k>>
        BY <4>1 DEF CheckoutInv, Whole, OrderIsWhole
      <4>. QED
        BY <1>2, <4>2
    <3>. QED
      BY <3>1, <3>2
  <2>4. ASSUME NEW c \in Carts
        PROVE  cart'[c] = "checked_out" <=>
                  \E k \in Keys : record'["checkout"][k].payload.cart = c
    <3>1. cart[c] = "checked_out" <=>
             \E k \in Keys : record["checkout"][k].payload.cart = c
      BY DEF CheckoutInv, Whole, OrderIsWhole
    <3>2. CASE x.view = "place"
      <4>1. x.cart = NoCart /\ c # x.cart
        BY <1>0, <3>2, CheckoutAssumption DEF Good
      <4>2. \A k \in Keys : record'["checkout"][k] = record["checkout"][k]
        BY <1>11, <3>2 DEF Views
      <4>. QED
        BY <1>2, <3>1, <4>1, <4>2
    <3>3. CASE x.view = "checkout"
      <4>1. stored.payload.cart = x.cart
        BY <1>0, <1>6, <3>3 DEF Good
      <4>2. record'["checkout"][x.key] = stored
        BY <1>0, <1>11, <3>3 DEF Views
      <4>3. record["checkout"][x.key].payload.cart # c
        BY <1>9, <3>3, CheckoutAssumption DEF NoRecord
      <4>4. \A k \in Keys : k # x.key =>
               record'["checkout"][k] = record["checkout"][k]
        BY <1>11, <3>3 DEF Views
      <4>5. CASE c = x.cart
        BY <1>0, <1>2, <4>1, <4>2, <4>5
      <4>6. CASE c # x.cart
        BY <1>2, <3>1, <4>1, <4>2, <4>3, <4>4, <4>6
      <4>. QED
        BY <4>5, <4>6
    <3>. QED
      BY <1>0, <3>2, <3>3 DEF Views
  <2>. QED
    BY <2>2, <2>3, <2>4 DEF Whole, OrderIsWhole
<1>18. Told'
  <2>1. ASSUME NEW b \in answers'
        PROVE  /\ \E o \in orders' : /\ o.number = b.number
                                    /\ o.key = <<b.view, b.key>>
                                    /\ b.secret \in {0, o.intent}
               /\ record'[b.view][b.key] =
                     [payload |-> b.payload, number |-> b.number]
    <3>1. CASE b = a
      BY <1>0, <1>1, <1>2, <1>5, <1>11, <3>1 DEF stored
    <3>2. CASE b \in answers
      <4>1. PICK o \in orders : /\ o.number = b.number
                               /\ o.key = <<b.view, b.key>>
                               /\ b.secret \in {0, o.intent}
        BY <3>2 DEF CheckoutInv, Told, AnswerIsBacked
      <4>2. ~(b.view = x.view /\ b.key = x.key)
        BY <1>8, <4>1
      <4>3. b.view \in Views /\ b.key \in Keys
        BY <3>2 DEF CheckoutInv, TypeOK
      <4>4. record'[b.view][b.key] = record[b.view][b.key]
        BY <1>11, <4>2, <4>3
      <4>. QED
        BY <1>2, <3>2, <4>1, <4>4 DEF CheckoutInv, Told
    <3>. QED
      BY <1>3, <3>1, <3>2
  <2>. QED
    BY <2>1 DEF Told, AnswerIsBacked
<1>. QED
  BY <1>13, <1>14, <1>15, <1>16, <1>17, <1>18 DEF CheckoutInv

-----------------------------------------------------------------------------
(* The invariant holds *)

LEMMA CheckoutInvInit == Init => CheckoutInv
<1> SUFFICES ASSUME Init PROVE CheckoutInv
  OBVIOUS
<1>1. TypeOK
  <2>1. NoRecord \in [payload: Payloads, number: Nat]
    BY CheckoutAssumption DEF NoRecord, Payloads
  <2>. QED
    BY <2>1, IdleTyped, CheckoutAssumption DEF Init, TypeOK
<1>2. \A r \in Requests : Good(request[r]) /\ ~HoldsOrder(r)
  BY IdleTyped DEF Init, HoldsOrder
<1>3. Bounded /\ Unique /\ Told
  BY <1>2 DEF Init, Bounded, Unique, Told, AnswerIsBacked
<1>4. Whole
  BY CheckoutAssumption DEF Init, Whole, OrderIsWhole, NoRecord, Views
<1>. QED
  BY <1>1, <1>2, <1>3, <1>4 DEF CheckoutInv

LEMMA CheckoutInvStep == CheckoutInv /\ [Next]_vars => CheckoutInv'
<1> SUFFICES ASSUME CheckoutInv, [Next]_vars PROVE CheckoutInv'
  OBVIOUS
<1>1. ASSUME NEW r \in Requests,
             \/ Step(r) \/ Rollback(r)
             \/ \E k \in CheckoutKeys, c \in Carts : ReceiveCheckout(r, k, c)
             \/ \E k \in PlaceKeys, b \in Baskets : ReceivePlace(r, k, b)
      PROVE  CheckoutInv'
  BY <1>1, Reads, LookupStep, CommitStep DEF Step
<1>2. ASSUME NEW c \in Carts, NEW b \in Baskets, EditCart(c, b) PROVE CheckoutInv'
  <2>1. TypeOK'
    BY <1>2 DEF EditCart, CheckoutInv, TypeOK
  <2>2. Unique'
    BY <1>2 DEF EditCart, CheckoutInv, Unique, HoldsOrder, Collides, Waits, OrderKey
  <2>3. Bounded' /\ Whole' /\ Told'
    BY <1>2 DEF EditCart, CheckoutInv, Bounded, Whole, OrderIsWhole, Told, AnswerIsBacked
  <2>4. (\A r \in Requests : Good(request[r]))'
    BY <1>2 DEF EditCart, CheckoutInv
  <2>. QED
    BY <2>1, <2>2, <2>3, <2>4 DEF CheckoutInv
<1>3. CASE UNCHANGED vars
  <2>1. TypeOK'
    BY <1>3 DEF vars, CheckoutInv, TypeOK
  <2>2. Unique'
    BY <1>3 DEF vars, CheckoutInv, Unique, HoldsOrder, Collides, Waits, OrderKey
  <2>3. Bounded' /\ Whole' /\ Told'
    BY <1>3 DEF vars, CheckoutInv, Bounded, Whole, OrderIsWhole, Told, AnswerIsBacked
  <2>4. (\A r \in Requests : Good(request[r]))'
    BY <1>3 DEF vars, CheckoutInv
  <2>. QED
    BY <2>1, <2>2, <2>3, <2>4 DEF CheckoutInv
<1>. QED
  BY <1>1, <1>2, <1>3 DEF Next

LEMMA CheckoutInvHolds == Spec => []CheckoutInv
BY CheckoutInvInit, CheckoutInvStep, PTL DEF Spec

\* Every variable keeps its type; in particular an order number is read from
\* the highest one that is committed.
THEOREM CheckoutTyped == Spec => []TypeOK
<1>1. CheckoutInv => TypeOK
  BY DEF CheckoutInv
<1>. QED
  BY <1>1, CheckoutInvHolds, PTL

\* The clients of one key are told of one order, for one payload.
THEOREM OneOrderPerKey == Spec => []AnswersAgree
<1>1. CheckoutInv => AnswersAgree
  <2> SUFFICES ASSUME CheckoutInv, NEW a \in answers, NEW b \in answers,
                      a.view = b.view, a.key = b.key
               PROVE  a.payload = b.payload /\ a.number = b.number
    BY DEF AnswersAgree
  <2>1. [payload |-> a.payload, number |-> a.number] =
           [payload |-> b.payload, number |-> b.number]
    BY DEF CheckoutInv, Told
  <2>. QED
    BY <2>1
<1>. QED
  BY <1>1, CheckoutInvHolds, PTL

\* What a client is told of is committed.
THEOREM AnswersAreBacked == Spec => []AnswerIsBacked
<1>1. CheckoutInv => AnswerIsBacked
  BY DEF CheckoutInv, Told
<1>. QED
  BY <1>1, CheckoutInvHolds, PTL

\* An order, its record and its cart's status are there together or not at all.
THEOREM OrdersAreWhole == Spec => []OrderIsWhole
<1>1. CheckoutInv => OrderIsWhole
  BY DEF CheckoutInv, Whole
<1>. QED
  BY <1>1, CheckoutInvHolds, PTL

-----------------------------------------------------------------------------
(* The attempts of a request *)

\* While its key is free, every attempt q has behind it met an order of its own,
\* and so has the one that is about to collide.
CountedFor(q) ==
    (\A o \in orders : o.key # <<q.view, q.key>>) =>
        /\ q.attempt <= Cardinality(orders)
        /\ q.pc = "save" /\ (\E o \in orders : o.number = q.number)
              => q.attempt + 1 <= Cardinality(orders)

Counted ==
    /\ IsFiniteSet(orders)
    /\ \A r \in Requests : CountedFor(request[r])

LEMMA CountedInit == Init => Counted
<1> SUFFICES ASSUME Init PROVE Counted
  OBVIOUS
<1>1. IsFiniteSet(orders) /\ Cardinality(orders) = 0
  BY FS_EmptySet DEF Init
<1>2. \A r \in Requests : request[r].attempt = 0 /\ request[r].pc = "idle"
  BY DEF Init, Idle
<1>. QED
  BY <1>1, <1>2 DEF Counted, CountedFor

\* A step of r that leaves the orders alone.
LEMMA CountedMoves ==
    ASSUME Counted, request \in [Requests -> RequestStates],
           NEW r \in Requests, NEW q, CountedFor(q),
           request' = [request EXCEPT ![r] = q], UNCHANGED orders
    PROVE  Counted'
<1>1. \A s \in Requests : request'[s] = IF s = r THEN q ELSE request[s]
  OBVIOUS
<1>2. ASSUME NEW s \in Requests PROVE CountedFor(request[s])'
  <2>1. CASE s = r
    BY <1>1, <2>1 DEF CountedFor
  <2>2. CASE s # r
    BY <1>1, <2>2 DEF Counted, CountedFor
  <2>. QED
    BY <2>1, <2>2
<1>. QED
  BY <1>2 DEF Counted

LEMMA CountedStep == CheckoutInv /\ Counted /\ [Next]_vars => Counted'
<1> SUFFICES ASSUME CheckoutInv, Counted, [Next]_vars PROVE Counted'
  OBVIOUS
<1>0. /\ request \in [Requests -> RequestStates]
      /\ \A r \in Requests : request[r] \in RequestStates
      /\ Cardinality(orders) \in Nat
      /\ TypeOK /\ Bounded
  BY FS_CardinalityType DEF CheckoutInv, TypeOK, Counted
<1>1. ASSUME NEW q, q.attempt = 0, q.pc # "save" PROVE CountedFor(q)
  BY <1>0, <1>1 DEF CountedFor
<1>2. Idle.attempt = 0 /\ Idle.pc # "save"
  BY DEF Idle
<1>3. ASSUME NEW r \in Requests, Leave(r), UNCHANGED orders PROVE Counted'
  BY <1>0, <1>1, <1>2, <1>3, CountedMoves DEF Leave
\* The steps that neither count an attempt nor choose a number.
<1>4. ASSUME NEW r \in Requests, NEW q,
             q.view = request[r].view, q.key = request[r].key,
             q.attempt = request[r].attempt, q.pc # "save",
             request' = [request EXCEPT ![r] = q], UNCHANGED orders
      PROVE  Counted'
  <2>1. CountedFor(q)
    BY <1>4 DEF Counted, CountedFor
  <2>. QED
    BY <1>0, <1>4, <2>1, CountedMoves
<1>5. ASSUME NEW r \in Requests,
             \/ \E k \in CheckoutKeys, c \in Carts : ReceiveCheckout(r, k, c)
             \/ \E k \in PlaceKeys, b \in Baskets : ReceivePlace(r, k, b)
      PROVE  Counted'
  <2>1. PICK q : /\ q.attempt = 0 /\ q.pc # "save"
                 /\ request' = [request EXCEPT ![r] = q] /\ UNCHANGED orders
    BY <1>5 DEF ReceiveCheckout, ReceivePlace, Continue, Idle
  <2>. QED
    BY <1>0, <1>1, <2>1, CountedMoves
<1>6. ASSUME NEW r \in Requests,
             \/ ReadPayload(r) \/ Lookup(r) \/ LookupInner(r) \/ ReadItems(r)
             \/ CloseCart(r) \/ CreatePaymentIntent(r) \/ Rollback(r)
             \/ SaveOrder(r) /\ (InsertOrder(r) \/ GiveUp(r))
      PROVE  Counted'
  <2>1. \/ Leave(r)
        \/ \E q : /\ q.view = request[r].view /\ q.key = request[r].key
                  /\ q.attempt = request[r].attempt /\ q.pc # "save"
                  /\ request' = [request EXCEPT ![r] = q]
    BY <1>0, <1>6
       DEF ReadPayload, Lookup, LookupInner, ReadItems, CloseCart, InsertOrder,
           CreatePaymentIntent, Rollback, GiveUp, RequestStates
  <2>2. UNCHANGED orders
    BY <1>6 DEF ReadPayload, Lookup, LookupInner, ReadItems, CloseCart,
                CreatePaymentIntent, Rollback, SaveOrder
  <2>. QED
    BY <1>3, <1>4, <2>1, <2>2
<1>7. ASSUME NEW r \in Requests, ReadNumber(r) PROVE Counted'
  <2> DEFINE n == NextOrderNumber(request[r].attempt)
             q == [request[r] EXCEPT !.pc = "save", !.number = n]
  <2>1. \A o \in orders : o.number # n
    BY <1>0, NumberIsFresh, CheckoutAssumption DEF RequestStates
  <2> HIDE DEF n
  <2>2. /\ q.view = request[r].view /\ q.key = request[r].key
        /\ q.attempt = request[r].attempt /\ q.number = n
    BY <1>0 DEF RequestStates
  <2>3. request' = [request EXCEPT ![r] = q] /\ UNCHANGED orders
    BY <1>7 DEF ReadNumber, n
  <2> HIDE DEF q
  <2>4. CountedFor(q)
    BY <2>1, <2>2 DEF Counted, CountedFor
  <2>. QED
    BY <1>0, <2>3, <2>4, CountedMoves
<1>8. ASSUME NEW r \in Requests, SaveOrder(r), RetryOrder(r) PROVE Counted'
  <2> DEFINE q == [request[r] EXCEPT !.pc = "number", !.attempt = @ + 1]
  <2>1. /\ q.view = request[r].view /\ q.key = request[r].key
        /\ q.attempt = request[r].attempt + 1 /\ q.pc = "number"
    BY <1>0 DEF RequestStates
  <2>2. request' = [request EXCEPT ![r] = q] /\ UNCHANGED orders
    BY <1>8 DEF SaveOrder, RetryOrder
  <2> HIDE DEF q
  <2>3. request[r].pc = "save" /\ Collides(r) /\ CountedFor(request[r])
    BY <1>8 DEF SaveOrder, RetryOrder, At, Counted
  <2>4. CountedFor(q)
    BY <2>1, <2>3 DEF CountedFor, Collides, OrderKey
  <2>. QED
    BY <1>0, <2>2, <2>4, CountedMoves
<1>9. ASSUME NEW r \in Requests, StoreResponse(r) PROVE Counted'
  <2> DEFINE row == OrderRow(r)
  <2>1. HoldsOrder(r) /\ row.number = request[r].number
    BY <1>9 DEF StoreResponse, At, HoldsOrder, OrderRow
  <2>2. orders' = orders \cup {row} /\ request' = [request EXCEPT ![r] = Idle]
    BY <1>9 DEF StoreResponse, Leave
  <2> HIDE DEF row
  <2>3. row \notin orders
    BY <2>1, HolderKeeps
  <2>4. IsFiniteSet(orders') /\ Cardinality(orders') = Cardinality(orders) + 1
    BY <2>2, <2>3, FS_AddElement DEF Counted
  <2>5. ASSUME NEW s \in Requests PROVE CountedFor(request[s])'
    <3>1. CASE s = r
      BY <1>0, <1>2, <2>2, <2>4, <3>1 DEF CountedFor
    <3>2. CASE s # r
      <4>1. request'[s] = request[s]
        BY <1>0, <2>2, <3>2
      <4>2. CountedFor(request[s]) /\ request[s].attempt \in Nat
        BY <1>0, CheckoutAssumption DEF Counted, RequestStates
      <4>. QED
        BY <1>0, <2>2, <2>4, <4>1, <4>2 DEF CountedFor
    <3>. QED
      BY <3>1, <3>2
  <2>. QED
    BY <2>4, <2>5 DEF Counted
<1>10. CASE UNCHANGED <<orders, request>>
  BY <1>10 DEF Counted, CountedFor
<1>. QED
  BY <1>5, <1>6, <1>7, <1>8, <1>9, <1>10 DEF Next, Step, SaveOrder, EditCart, vars

\* order.save() gives up only on a key that is taken, or when at least as many
\* orders as it has attempts have been placed.
THEOREM RetryIsRaceSafe == Spec => RetriesSuffice
<1>1. Counted /\ [Next]_vars =>
        [\A r \in Requests : GiveUp(r) =>
            \/ \E o \in orders : o.key = OrderKey(r)
            \/ Cardinality(orders) >= Attempts]_vars
  <2> SUFFICES ASSUME Counted, NEW r \in Requests, GiveUp(r),
                      \A o \in orders : o.key # OrderKey(r)
               PROVE  Cardinality(orders) >= Attempts
    OBVIOUS
  <2>1. request[r].pc = "save" /\ request[r].attempt + 1 = Attempts
    BY DEF GiveUp, At
  <2>2. \E o \in orders : o.number = request[r].number
    BY DEF GiveUp, Collides
  <2>3. request[r].attempt + 1 <= Cardinality(orders)
    BY <2>1, <2>2 DEF Counted, CountedFor, OrderKey
  <2>4. Cardinality(orders) \in Nat
    BY FS_CardinalityType DEF Counted
  <2>. QED
    BY <2>1, <2>3, <2>4, CheckoutAssumption
<1>2. Spec => []Counted
  BY CountedInit, CountedStep, CheckoutInvHolds, PTL DEF Spec
<1>. QED
  BY <1>1, <1>2, PTL DEF Spec, RetriesSuffice

-----------------------------------------------------------------------------
(* The pages of a seller.                                                  *)
Files == 1 .. MaxFiles
DocType == [file : 0 .. MaxFiles, preview : BOOLEAN, status : Docs]
WizardType ==
    [step : Steps, form : Form \cup {NoForm}, info : Form \cup {NoForm}, logo : 0 .. MaxFiles,
     docs : [Kinds -> DocType], connect : {"idle", "redirecting", "error"},
     converting : BOOLEAN, portalPending : BOOLEAN, submitting : BOOLEAN,
     outcome : Outcomes]
ListingType ==
    [filled : BOOLEAN, category : BOOLEAN, profile : BOOLEAN, images : Seq(Files),
     options : [Options -> {"loading", "ready", "gap"}], submitting : BOOLEAN,
     outcome : Outcomes]
DashType ==
    [panels : [Panels -> {"loading", "ready", "gap", "error"}], page : 1 .. MaxPages,
     pages : 1 .. MaxPages, rows : 0 .. MaxPages,
     orders : {"loading", "ready", "gap", "error"}]

(* The open requests and conversions, by kind.                              *)
UploadType ==
    [kind : {"upload"}, of : Kinds, file : Files, preview : BOOLEAN,
     answer : Outcomes \cup {None}]
ConvertType == [kind : {"convert"}, batch : Seq(Files)]
PostType == [kind : {"post"}, of : {"onboarding", "listing"}, n : Nat, live : BOOLEAN]
OptionsType == [kind : {"options"}, of : Options]
OtherType ==
    [kind : {"logo"}, file : Files] \cup [kind : {"panel"}, of : Panels]
        \cup [kind : {"orders"}, page : 1 .. MaxPages]
        \cup [kind : {"connect"}, live : BOOLEAN, here : BOOLEAN]
CallType == UploadType \cup ConvertType \cup PostType \cup OptionsType \cup OtherType

SellerTypes ==
    /\ route \in Routes
    /\ wizard \in WizardType /\ listing \in ListingType /\ dash \in DashType
    /\ files \in 0 .. MaxFiles /\ held \subseteq Files /\ acts \in 0 .. MaxActs
    /\ Len(posted) <= MaxPosts

(* The business data the wizard keeps passed the checks of its form.        *)
InfoPasses == wizard.info = NoForm \/ (wizard.info \in Form /\ FormPasses(wizard.info))

(* What is sent did too.                                                    *)
OnboardingSent == {b \in [page : {"onboarding"}, info : Form] : FormPasses(b.info)}
ListingSent ==
    {b \in [page : {"listing"}, images : Seq(Files), offered : {{"ready"}}] :
        IsInjective(b.images)}
AllPosted == posted \in Seq(OnboardingSent \cup ListingSent)

(* A file the server said it took is stored.                                *)
AnsweredIsHeld ==
    \A c \in net : c.kind = "upload" /\ c.answer = "ok" => c.file \in held

Awaited(k) == \E c \in net : c.kind = "upload" /\ c.of = k /\ c.file = wizard.docs[k].file
UploadIsOpen == \A k \in Kinds : wizard.docs[k].status = "uploading" => Awaited(k)

PostIsOpen(page) == \E c \in net : c.kind = "post" /\ c.of = page /\ c.live
SubmitIsOpen ==
    /\ wizard.submitting => PostIsOpen("onboarding") /\ route = "onboarding"
    /\ listing.submitting => PostIsOpen("listing") /\ route = "listing"

(* The choices are of options that are there, and options come once.        *)
ChoiceIsOffered ==
    /\ listing.category => listing.options["categories"] = "ready"
    /\ listing.profile => listing.options["profiles"] = "ready"
    /\ \A c \in net : c.kind = "options" => listing.options[c.of] = "loading"

(* The images shown and those still converting are different files.         *)
In(f, s) == \E i \in 1 .. Len(s) : s[i] = f
Fresh(s) ==
    /\ s # <<>> /\ IsInjective(s)
    /\ \A f \in Files : In(f, s) => f <= files /\ ~In(f, listing.images)
ImagesDiffer ==
    /\ IsInjective(listing.images)
    /\ \A f \in Files : In(f, listing.images) => f <= files
    /\ \A c \in net : c.kind = "convert" => Fresh(c.batch)
    /\ \A c, d \in net : c.kind = "convert" /\ d.kind = "convert" /\ c # d =>
          \A f \in Files : ~(In(f, c.batch) /\ In(f, d.batch))

SellerInv ==
    /\ SellerTypes
    /\ net \subseteq CallType
    /\ InfoPasses
    /\ AllPosted
    /\ AnsweredIsHeld
    /\ UploadedIsHeld
    /\ UploadIsOpen
    /\ SubmitIsOpen
    /\ ChoiceIsOffered
    /\ ImagesDiffer

-----------------------------------------------------------------------------
(* Sequences of files.                                                      *)

LEMMA RemoveAtFacts ==
    ASSUME NEW S, NEW s \in Seq(S), NEW i \in 1 .. Len(s)
    PROVE  /\ RemoveAt(s, i) \in Seq(S)
           /\ Len(RemoveAt(s, i)) = Len(s) - 1
           /\ \A j \in 1 .. Len(s) - 1 : RemoveAt(s, i)[j] = IF j < i THEN s[j] ELSE s[j + 1]
<1>. DEFINE a == SubSeq(s, 1, i - 1)
            b == SubSeq(s, i + 1, Len(s))
<1>1. Len(s) \in Nat /\ \A j \in 1 .. Len(s) : s[j] \in S
      BY LenProperties, ElementOfSeq
<1>2. /\ a \in Seq(S) /\ Len(a) = i - 1
      /\ \A j \in 1 .. i - 1 : a[j] = s[j]
      BY <1>1, SubSeqProperties
<1>3. /\ b \in Seq(S) /\ Len(b) = Len(s) - i
      /\ \A j \in 1 .. Len(s) - i : b[j] = s[i + j]
  <2>1. /\ b \in Seq(S) /\ Len(b) = IF i + 1 <= Len(s) THEN Len(s) - (i + 1) + 1 ELSE 0
        /\ \A j \in 1 .. Len(s) - (i + 1) + 1 : b[j] = s[(i + 1) + j - 1]
        BY <1>1, SubSeqProperties
  <2>. QED BY <1>1, <2>1
<1>. HIDE DEF a, b
<1>4. /\ a \o b \in Seq(S)
      /\ Len(a \o b) = Len(a) + Len(b)
      /\ \A j \in 1 .. Len(a) + Len(b) : (a \o b)[j] = IF j <= Len(a) THEN a[j] ELSE b[j - Len(a)]
      BY <1>2, <1>3, ConcatProperties
<1>5. RemoveAt(s, i) = a \o b
      BY DEF RemoveAt, a, b
<1>6. ASSUME NEW j \in 1 .. Len(s) - 1
      PROVE  (a \o b)[j] = IF j < i THEN s[j] ELSE s[j + 1]
  <2>1. CASE j < i
        BY <1>1, <1>2, <1>3, <1>4, <2>1
  <2>2. CASE j >= i
    <3>1. (a \o b)[j] = b[j - (i - 1)]
          BY <1>1, <1>2, <1>3, <1>4, <2>2
    <3>2. j - (i - 1) \in 1 .. Len(s) - i
          BY <1>1, <2>2
    <3>3. b[j - (i - 1)] = s[i + (j - (i - 1))]
          BY <1>3, <3>2
    <3>4. i + (j - (i - 1)) = j + 1
          BY <1>1
    <3>. QED BY <2>2, <3>1, <3>3, <3>4
  <2>3. j < i \/ j >= i
        BY <1>1
  <2>. QED BY <2>1, <2>2, <2>3
<1>7. Len(a \o b) = Len(s) - 1
      BY <1>1, <1>2, <1>3, <1>4
<1>. QED BY <1>4, <1>5, <1>6, <1>7

LEMMA InsertAtFacts ==
    ASSUME NEW S, NEW s \in Seq(S), NEW i \in 1 .. Len(s) + 1, NEW e \in S
    PROVE  /\ InsertAt(s, i, e) \in Seq(S)
           /\ Len(InsertAt(s, i, e)) = Len(s) + 1
           /\ \A j \in 1 .. Len(s) + 1 :
                 InsertAt(s, i, e)[j] = IF j < i THEN s[j] ELSE IF j = i THEN e ELSE s[j - 1]
<1>. DEFINE a == SubSeq(s, 1, i - 1)
            b == SubSeq(s, i, Len(s))
            m == <<e>>
<1>1. Len(s) \in Nat /\ \A j \in 1 .. Len(s) : s[j] \in S
      BY LenProperties, ElementOfSeq
<1>2. /\ a \in Seq(S) /\ Len(a) = i - 1
      /\ \A j \in 1 .. i - 1 : a[j] = s[j]
      BY <1>1, SubSeqProperties
<1>3. /\ b \in Seq(S) /\ Len(b) = Len(s) - i + 1
      /\ \A j \in 1 .. Len(s) - i + 1 : b[j] = s[i + j - 1]
      BY <1>1, SubSeqProperties
<1>4. m \in Seq(S) /\ Len(m) = 1 /\ m[1] = e
      OBVIOUS
<1>5. InsertAt(s, i, e) = (a \o m) \o b
      BY DEF InsertAt
<1>. HIDE DEF a, b, m
<1>6. /\ a \o m \in Seq(S)
      /\ Len(a \o m) = i
      /\ \A j \in 1 .. i : (a \o m)[j] = IF j < i THEN s[j] ELSE e
  <2>1. /\ a \o m \in Seq(S)
        /\ Len(a \o m) = Len(a) + Len(m)
        /\ \A j \in 1 .. Len(a) + Len(m) : (a \o m)[j] = IF j <= Len(a) THEN a[j] ELSE m[j - Len(a)]
        BY <1>2, <1>4, ConcatProperties
  <2>2. (a \o m)[i] = e
        BY <1>1, <1>2, <1>4, <2>1
  <2>. QED BY <1>1, <1>2, <1>4, <2>1, <2>2
<1>. DEFINE am == a \o m
<1>. HIDE DEF am
<1>7. /\ am \o b \in Seq(S)
      /\ Len(am \o b) = Len(am) + Len(b)
      /\ \A j \in 1 .. Len(am) + Len(b) : (am \o b)[j] = IF j <= Len(am) THEN am[j] ELSE b[j - Len(am)]
  <2>1. am \in Seq(S) /\ b \in Seq(S)
        BY <1>3, <1>6 DEF am
  <2>. QED BY <2>1, ConcatProperties
<1>8. Len(am) = i /\ \A j \in 1 .. i : am[j] = IF j < i THEN s[j] ELSE e
      BY <1>6 DEF am
<1>9. ASSUME NEW j \in 1 .. Len(s) + 1
      PROVE  (am \o b)[j] = IF j < i THEN s[j] ELSE IF j = i THEN e ELSE s[j - 1]
  <2>1. CASE j <= i
        BY <1>1, <1>3, <1>7, <1>8, <2>1
  <2>2. CASE j > i
    <3>1. (am \o b)[j] = b[j - i]
          BY <1>1, <1>3, <1>7, <1>8, <2>2
    <3>2. j - i \in 1 .. Len(s) - i + 1
          BY <1>1, <2>2
    <3>3. b[j - i] = s[i + (j - i) - 1]
          BY <1>3, <3>2
    <3>4. i + (j - i) - 1 = j - 1
          BY <1>1
    <3>. QED BY <2>2, <3>1, <3>3, <3>4
  <2>3. j <= i \/ j > i
        BY <1>1
  <2>. QED BY <2>1, <2>2, <2>3
<1>10. Len(am \o b) = Len(s) + 1
       BY <1>1, <1>3, <1>7, <1>8
<1>. QED BY <1>5, <1>7, <1>9, <1>10 DEF am

(* A removal keeps the images different, and shows no new one.              *)
LEMMA RemovalKeeps ==
    ASSUME NEW S, NEW s \in Seq(S), NEW i \in 1 .. Len(s), IsInjective(s)
    PROVE  /\ RemoveAt(s, i) \in Seq(S)
           /\ IsInjective(RemoveAt(s, i))
           /\ \A f : In(f, RemoveAt(s, i)) => In(f, s)
<1>. DEFINE r == RemoveAt(s, i)
<1>1. Len(s) \in Nat /\ DOMAIN s = 1 .. Len(s)
      BY LenProperties
<1>2. /\ r \in Seq(S) /\ Len(r) = Len(s) - 1 /\ DOMAIN r = 1 .. Len(r)
      /\ \A j \in 1 .. Len(r) : r[j] = IF j < i THEN s[j] ELSE s[j + 1]
      BY RemoveAtFacts, LenProperties
<1>. HIDE DEF r
<1>3. IsInjective(r)
  <2>. SUFFICES ASSUME NEW j \in 1 .. Len(r), NEW k \in 1 .. Len(r), r[j] = r[k]
                PROVE  j = k
       BY <1>2 DEF IsInjective
  <2>1. PICK jj \in 1 .. Len(s) : jj = IF j < i THEN j ELSE j + 1
        BY <1>1, <1>2
  <2>2. PICK kk \in 1 .. Len(s) : kk = IF k < i THEN k ELSE k + 1
        BY <1>1, <1>2
  <2>3. s[jj] = s[kk]
        BY <1>2, <2>1, <2>2
  <2>4. jj = kk
        BY <1>1, <2>3 DEF IsInjective
  <2>. QED BY <1>1, <1>2, <2>1, <2>2, <2>4
<1>4. ASSUME NEW f, In(f, r) PROVE In(f, s)
  <2>1. PICK j \in 1 .. Len(r) : r[j] = f
        BY <1>4 DEF In
  <2>2. PICK jj \in 1 .. Len(s) : jj = IF j < i THEN j ELSE j + 1
        BY <1>1, <1>2
  <2>. QED BY <1>2, <2>1, <2>2 DEF In
<1>. QED BY <1>2, <1>3, <1>4 DEF r

(* So does the move of an image to another place: it is put back.           *)
LEMMA MoveKeeps ==
    ASSUME NEW S, NEW s \in Seq(S), NEW from \in 1 .. Len(s), NEW to \in 1 .. Len(s),
           IsInjective(s)
    PROVE  /\ Moved(s, from, to) \in Seq(S)
           /\ IsInjective(Moved(s, from, to))
           /\ \A f : In(f, Moved(s, from, to)) => In(f, s)
<1>. DEFINE r == RemoveAt(s, from)
            m == Moved(s, from, to)
            e == s[from]
<1>1. Len(s) \in Nat /\ DOMAIN s = 1 .. Len(s) /\ e \in S
      BY LenProperties, ElementOfSeq
<1>2. /\ r \in Seq(S) /\ Len(r) = Len(s) - 1 /\ DOMAIN r = 1 .. Len(r)
      /\ \A j \in 1 .. Len(r) : r[j] = IF j < from THEN s[j] ELSE s[j + 1]
      BY RemoveAtFacts, LenProperties
<1>3. IsInjective(r) /\ \A f : In(f, r) => In(f, s)
      BY RemovalKeeps
<1>4. ~In(e, r)
  <2>. SUFFICES ASSUME NEW j \in 1 .. Len(r), r[j] = e PROVE FALSE
       BY DEF In
  <2>1. PICK jj \in 1 .. Len(s) : jj = IF j < from THEN j ELSE j + 1
        BY <1>1, <1>2
  <2>2. s[jj] = s[from]
        BY <1>2, <2>1
  <2>3. jj = from
        BY <1>1, <2>2 DEF IsInjective
  <2>. QED BY <1>1, <1>2, <2>1, <2>3
<1>5. m = InsertAt(r, to, e)
      BY DEF Moved
<1>. HIDE DEF r, e, m
<1>6. /\ m \in Seq(S) /\ Len(m) = Len(s) /\ DOMAIN m = 1 .. Len(m)
      /\ \A j \in 1 .. Len(m) : m[j] = IF j < to THEN r[j] ELSE IF j = to THEN e ELSE r[j - 1]
  <2>1. to \in 1 .. Len(r) + 1 /\ Len(r) + 1 = Len(s)
        BY <1>1, <1>2
  <2>2. /\ m \in Seq(S) /\ Len(m) = Len(r) + 1
        /\ \A j \in 1 .. Len(r) + 1 : m[j] = IF j < to THEN r[j] ELSE IF j = to THEN e ELSE r[j - 1]
    <3>1. r \in Seq(S) /\ e \in S
          BY <1>1, <1>2
    <3>2. /\ InsertAt(r, to, e) \in Seq(S) /\ Len(InsertAt(r, to, e)) = Len(r) + 1
          /\ \A j \in 1 .. Len(r) + 1 : InsertAt(r, to, e)[j] =
                IF j < to THEN r[j] ELSE IF j = to THEN e ELSE r[j - 1]
          BY <2>1, <3>1, InsertAtFacts
    <3>. QED BY <1>5, <3>2
  <2>. QED BY <2>1, <2>2, LenProperties
<1>7. \A j \in 1 .. Len(m) : \/ j = to /\ m[j] = e
                             \/ j # to /\ \E k \in 1 .. Len(r) : /\ m[j] = r[k]
                                                                 /\ k = IF j < to THEN j ELSE j - 1
  <2>. SUFFICES ASSUME NEW j \in 1 .. Len(m), j # to
                PROVE  \E k \in 1 .. Len(r) : m[j] = r[k] /\ k = IF j < to THEN j ELSE j - 1
       BY <1>6
  <2>1. (IF j < to THEN j ELSE j - 1) \in 1 .. Len(r)
        BY <1>1, <1>2, <1>6
  <2>. QED BY <1>1, <1>6, <2>1
<1>8. IsInjective(m)
  <2>. SUFFICES ASSUME NEW j \in 1 .. Len(m), NEW k \in 1 .. Len(m), m[j] = m[k]
                PROVE  j = k
       BY <1>6 DEF IsInjective
  <2>1. CASE j = to \/ k = to
        BY <1>4, <1>7, <2>1 DEF In
  <2>2. CASE j # to /\ k # to
    <3>1. PICK jj \in 1 .. Len(r) : m[j] = r[jj] /\ jj = IF j < to THEN j ELSE j - 1
          BY <1>7, <2>2
    <3>2. PICK kk \in 1 .. Len(r) : m[k] = r[kk] /\ kk = IF k < to THEN k ELSE k - 1
          BY <1>7, <2>2
    <3>3. jj = kk
          BY <1>2, <1>3, <3>1, <3>2 DEF IsInjective
    <3>. QED BY <1>1, <1>6, <2>2, <3>1, <3>2, <3>3
  <2>. QED BY <2>1, <2>2
<1>9. ASSUME NEW f, In(f, m) PROVE In(f, s)
  <2>1. PICK j \in 1 .. Len(m) : m[j] = f
        BY <1>9 DEF In
  <2>2. f = e \/ In(f, r)
        BY <1>7, <2>1 DEF In
  <2>. QED BY <1>3, <2>2 DEF In, e
<1>. QED BY <1>6, <1>8, <1>9 DEF m

LEMMA SliceKeeps ==
    ASSUME NEW S, NEW s \in Seq(S), NEW room \in Int, IsInjective(s)
    PROVE  /\ Slice(s, room) \in Seq(S)
           /\ IsInjective(Slice(s, room))
           /\ \A f : In(f, Slice(s, room)) => In(f, s)
<1>1. Len(s) \in Nat /\ DOMAIN s = 1 .. Len(s) /\ \A j \in 1 .. Len(s) : s[j] \in S
      BY LenProperties, ElementOfSeq
<1>2. PICK n \in Int : n <= Len(s) /\ Slice(s, room) = SubSeq(s, 1, n)
  <2>. DEFINE k == IF room >= 0 THEN (IF room < Len(s) THEN room ELSE Len(s))
                   ELSE Len(s) + room
  <2>1. k \in Int /\ k <= Len(s)
        BY <1>1
  <2>2. Slice(s, room) = SubSeq(s, 1, k)
        BY DEF Slice
  <2>. QED BY <2>1, <2>2
<1>. DEFINE r == SubSeq(s, 1, n)
<1>3. /\ r \in Seq(S) /\ Len(r) <= Len(s)
      /\ \A j \in 1 .. Len(r) : r[j] = s[j]
  <2>1. \A j \in 1 .. n : s[j] \in S
        BY <1>1, <1>2
  <2>2. /\ r \in Seq(S) /\ Len(r) = IF 1 <= n THEN n - 1 + 1 ELSE 0
        /\ \A j \in 1 .. n - 1 + 1 : r[j] = s[1 + j - 1]
        BY <2>1, SubSeqProperties
  <2>. QED BY <1>1, <1>2, <2>2
<1>. HIDE DEF r
<1>4. DOMAIN r = 1 .. Len(r) /\ Len(r) \in Nat
      BY <1>3, LenProperties
<1>5. IsInjective(r)
      BY <1>1, <1>3, <1>4 DEF IsInjective
<1>6. \A f : In(f, r) => In(f, s)
      BY <1>1, <1>3, <1>4 DEF In
<1>. QED BY <1>2, <1>3, <1>5, <1>6 DEF r

LEMMA AppendKeeps ==
    ASSUME NEW S, NEW s \in Seq(S), NEW e \in S, IsInjective(s), ~In(e, s)
    PROVE  /\ Append(s, e) \in Seq(S)
           /\ IsInjective(Append(s, e))
           /\ \A f : In(f, Append(s, e)) => f = e \/ In(f, s)
<1>. DEFINE r == Append(s, e)
<1>1. Len(s) \in Nat /\ DOMAIN s = 1 .. Len(s)
      BY LenProperties
<1>2. /\ r \in Seq(S) /\ Len(r) = Len(s) + 1 /\ r[Len(s) + 1] = e
      /\ \A j \in 1 .. Len(s) : r[j] = s[j]
      BY AppendProperties
<1>3. DOMAIN r = 1 .. Len(r)
      BY <1>2, LenProperties
<1>. HIDE DEF r
<1>4. \A j \in 1 .. Len(r) : j = Len(s) + 1 \/ j \in 1 .. Len(s)
      BY <1>1, <1>2
<1>5. IsInjective(r)
      BY <1>1, <1>2, <1>3, <1>4 DEF IsInjective, In
<1>6. \A f : In(f, r) => f = e \/ In(f, s)
      BY <1>1, <1>2, <1>4 DEF In
<1>. QED BY <1>2, <1>5, <1>6 DEF r

LEMMA TailKeeps ==
    ASSUME NEW S, NEW s \in Seq(S), s # <<>>, IsInjective(s)
    PROVE  /\ Head(s) \in S /\ In(Head(s), s)
           /\ Tail(s) \in Seq(S)
           /\ Len(s) # 1 => Tail(s) # <<>>
           /\ IsInjective(Tail(s))
           /\ ~In(Head(s), Tail(s))
           /\ \A f : In(f, Tail(s)) => In(f, s)
<1>. DEFINE r == Tail(s)
<1>1. Len(s) \in Nat \ {0} /\ DOMAIN s = 1 .. Len(s)
      BY EmptySeq, LenProperties
<1>2. /\ Head(s) \in S /\ r \in Seq(S) /\ Len(r) = Len(s) - 1
      /\ \A j \in 1 .. Len(r) : r[j] = s[j + 1]
      BY HeadTailProperties
<1>3. DOMAIN r = 1 .. Len(r)
      BY <1>2, LenProperties
<1>4. Head(s) = s[1]
      BY <1>1
<1>5. Len(s) # 1 => r # <<>>
      BY <1>1, <1>2, EmptySeq
<1>. HIDE DEF r
<1>6. \A j \in 1 .. Len(r) : j + 1 \in 1 .. Len(s) /\ j + 1 # 1
      BY <1>1, <1>2
<1>7. IsInjective(r)
      BY <1>1, <1>2, <1>3, <1>6 DEF IsInjective
<1>8. ~In(Head(s), r)
  <2>1. 1 \in 1 .. Len(s)
        BY <1>1
  <2>. QED BY <1>1, <1>2, <1>4, <1>6, <2>1 DEF In, IsInjective
<1>9. \A f : In(f, r) => In(f, s)
      BY <1>2, <1>6 DEF In
<1>10. In(Head(s), s)
       BY <1>1, <1>4 DEF In
<1>. QED BY <1>2, <1>5, <1>7, <1>8, <1>9, <1>10 DEF r

(* The files chosen at once.                                                *)
LEMMA ChosenFiles ==
    ASSUME NEW n \in Nat, NEW k \in 1 .. MaxFiles - n
    PROVE  /\ [i \in 1 .. k |-> n + i] \in Seq(Files)
           /\ IsInjective([i \in 1 .. k |-> n + i])
           /\ \A f : In(f, [i \in 1 .. k |-> n + i]) => f \in n + 1 .. n + k
<1>. DEFINE s == [i \in 1 .. k |-> n + i]
<1>0. MaxFiles \in Nat
      BY SellerPagesAssumption
<1>1. s \in [1 .. k -> Files]
      BY <1>0 DEF Files
<1>2. s \in Seq(Files) /\ Len(s) = k
      BY <1>0, <1>1
<1>3. IsInjective(s)
      BY DEF IsInjective
<1>4. \A f : In(f, s) => f \in n + 1 .. n + k
      BY <1>2 DEF In
<1>. QED BY <1>2, <1>3, <1>4

-----------------------------------------------------------------------------
(* What keeps the parts of the invariant.                                   *)

DocsInv == AnsweredIsHeld /\ UploadedIsHeld /\ UploadIsOpen

LEMMA DocsStay ==
    ASSUME DocsInv, wizard'.docs = wizard.docs, held \subseteq held',
           \A c \in net' : c.kind = "upload" => c \in net,
           \A c \in net : c.kind = "upload" => c \in net'
    PROVE  DocsInv'
<1>1. AnsweredIsHeld'
      BY DEF DocsInv, AnsweredIsHeld
<1>2. UploadedIsHeld'
      BY DEF DocsInv, UploadedIsHeld
<1>3. UploadIsOpen'
      BY DEF DocsInv, UploadIsOpen, Awaited
<1>. QED BY <1>1, <1>2, <1>3 DEF DocsInv

LEMMA SubmitStays ==
    ASSUME SubmitIsOpen,
           wizard'.submitting => wizard.submitting,
           listing'.submitting => listing.submitting, route' = route,
           \A c \in net : c.kind = "post" => c \in net'
    PROVE  SubmitIsOpen'
    BY DEF SubmitIsOpen, PostIsOpen

LEMMA ChoiceStays ==
    ASSUME ChoiceIsOffered,
           listing'.category = listing.category, listing'.profile = listing.profile,
           listing'.options = listing.options,
           \A c \in net' : c.kind = "options" => c \in net
    PROVE  ChoiceIsOffered'
    BY DEF ChoiceIsOffered

LEMMA ImagesStay ==
    ASSUME ImagesDiffer, files \in Nat, files' \in Nat, files <= files', MaxFiles \in Nat,
           IsInjective(listing'.images),
           \A f : In(f, listing'.images) => In(f, listing.images),
           \A c \in net' : c.kind = "convert" => c \in net
    PROVE  ImagesDiffer'
<1>1. \A f \in Files : In(f, listing'.images) => f <= files'
      BY DEF ImagesDiffer, Files
<1>2. ASSUME NEW c \in net', c.kind = "convert" PROVE Fresh(c.batch)'
  <2>1. Fresh(c.batch)
        BY <1>2 DEF ImagesDiffer
  <2>. QED BY <2>1 DEF Fresh, Files
<1>3. \A c, d \in net' : c.kind = "convert" /\ d.kind = "convert" /\ c # d =>
          \A f \in Files : ~(In(f, c.batch) /\ In(f, d.batch))
      BY DEF ImagesDiffer
<1>. QED BY <1>1, <1>2, <1>3 DEF ImagesDiffer, In

(* The open requests of each kind.                                          *)
LEMMA CallKinds ==
    ASSUME NEW c \in CallType
    PROVE  /\ c.kind = "upload" => c \in UploadType
           /\ c.kind = "convert" => c \in ConvertType
           /\ c.kind = "post" => c \in PostType
           /\ c.kind = "options" => c \in OptionsType
           /\ c.kind = "logo" => c.file \in Files
           /\ c.kind = "panel" => c.of \in Panels
           /\ c.kind = "orders" => c.page \in 1 .. MaxPages
           /\ c.kind = "connect" => c \in [kind : {"connect"}, live : BOOLEAN, here : BOOLEAN]
    BY DEF CallType, UploadType, ConvertType, PostType, OptionsType, OtherType

-----------------------------------------------------------------------------
(* Steps.                                                                   *)

LEMMA FreshTypes ==
    /\ FreshWizard \in WizardType
    /\ FreshListing \in ListingType
    /\ FreshDash \in DashType
<1>1. NoDoc \in DocType
      BY SellerPagesAssumption DEF NoDoc, DocType, Docs
<1>2. FreshWizard \in WizardType
      BY <1>1, SellerPagesAssumption DEF FreshWizard, WizardType, Steps, Outcomes
<1>3. <<>> \in Seq(Files)
      BY EmptySeq
<1>4. FreshListing \in ListingType
      BY <1>3 DEF FreshListing, ListingType, Outcomes
<1>5. 1 \in 1 .. MaxPages /\ 0 \in 0 .. MaxPages
      BY SellerPagesAssumption
<1>6. FreshDash \in DashType
      BY <1>5 DEF FreshDash, DashType
<1>. QED BY <1>2, <1>4, <1>6

LEMMA LoadsTypes ==
    ASSUME NEW r \in Routes
    PROVE  /\ Loads(r) \subseteq CallType
           /\ \A c \in Loads(r) : c.kind \in {"panel", "orders", "options"}
<1>0. 1 \in 1 .. MaxPages
      BY SellerPagesAssumption
<1>1. CASE r = "dashboard"
      BY <1>0, <1>1 DEF Loads, CallType, OtherType
<1>2. CASE r = "listing"
      BY <1>2 DEF Loads, CallType, OptionsType
<1>3. CASE r = "onboarding"
      BY <1>3 DEF Loads
<1>. QED BY <1>1, <1>2, <1>3 DEF Routes

LEMMA OrphansTypes ==
    ASSUME NEW calls \in SUBSET CallType
    PROVE  /\ Orphans(calls) \subseteq CallType
           /\ \A c \in Orphans(calls) : c.kind \in {"post", "connect"}
<1>. SUFFICES ASSUME NEW x \in Orphans(calls)
              PROVE  x \in CallType /\ x.kind \in {"post", "connect"}
     OBVIOUS
<1>1. PICK c \in calls : c.kind \in {"post", "connect"} /\ x = [c EXCEPT !.live = FALSE]
      BY DEF Orphans
<1>2. CASE c.kind = "post"
  <2>1. c \in PostType
        BY <1>2, CallKinds
  <2>2. x \in PostType /\ x.kind = "post"
        BY <1>1, <1>2, <2>1 DEF PostType
  <2>. QED BY <2>2 DEF CallType
<1>3. CASE c.kind = "connect"
  <2>1. c \in [kind : {"connect"}, live : BOOLEAN, here : BOOLEAN]
        BY <1>3, CallKinds
  <2>2. x \in [kind : {"connect"}, live : BOOLEAN, here : BOOLEAN] /\ x.kind = "connect"
        BY <1>1, <1>3, <2>1
  <2>. QED BY <2>2 DEF CallType, OtherType
<1>. QED BY <1>1, <1>2, <1>3

(* A page opens: no form, document or image is left to be answered for.     *)
LEMMA OpenStep ==
    ASSUME SellerInv, NEW r \in Routes, NEW calls \in SUBSET net, Open(r, calls),
           UNCHANGED <<files, held, posted>>, acts' \in 0 .. MaxActs
    PROVE  SellerInv'
<1>1. /\ route' = r /\ wizard' = FreshWizard /\ listing' = FreshListing /\ dash' = FreshDash
      /\ net' = Orphans(calls) \cup Loads(r)
      BY DEF Open
<1>2. SellerTypes'
      BY <1>1, FreshTypes DEF SellerInv, SellerTypes
<1>3. calls \in SUBSET CallType
      BY DEF SellerInv
<1>4. /\ net' \subseteq CallType
      /\ \A c \in net' : c.kind \in {"post", "connect", "panel", "orders", "options"}
      BY <1>1, <1>3, OrphansTypes, LoadsTypes
<1>5. InfoPasses' /\ AllPosted'
      BY <1>1 DEF InfoPasses, FreshWizard, SellerInv, AllPosted
<1>6. AnsweredIsHeld' /\ UploadedIsHeld' /\ UploadIsOpen'
  <2>1. \A k \in Kinds : wizard'.docs[k].status = "empty"
        BY <1>1 DEF FreshWizard, NoDoc
  <2>. QED BY <1>4, <2>1 DEF AnsweredIsHeld, UploadedIsHeld, UploadIsOpen
<1>7. SubmitIsOpen'
      BY <1>1 DEF SubmitIsOpen, FreshWizard, FreshListing
<1>8. ChoiceIsOffered'
  <2>1. \A c \in net' : c.kind = "options" => c.of \in Options
        BY <1>4, CallKinds DEF OptionsType
  <2>. QED BY <1>1, <2>1 DEF ChoiceIsOffered, FreshListing
<1>9. ImagesDiffer'
  <2>1. listing'.images = <<>> /\ Len(<<>>) = 0 /\ IsInjective(<<>>)
        BY <1>1 DEF FreshListing, IsInjective
  <2>. QED BY <1>4, <2>1 DEF ImagesDiffer, In
<1>. QED BY <1>2, <1>4, <1>5, <1>6, <1>7, <1>8, <1>9 DEF SellerInv

(* A step that touches no document, no image, no choice and no attempt.     *)
LEMMA SentStep ==
    ASSUME SellerInv, SellerTypes', UNCHANGED held, AllPosted', InfoPasses', SubmitIsOpen',
           wizard'.docs = wizard.docs, files <= files',
           listing'.category = listing.category, listing'.profile = listing.profile,
           listing'.options = listing.options, listing'.images = listing.images,
           net' \subseteq CallType,
           \A c \in net' : c.kind \in {"upload", "convert", "options"} => c \in net,
           \A c \in net : c.kind = "upload" => c \in net'
    PROVE  SellerInv'
<1>1. DocsInv'
  <2>1. DocsInv
        BY DEF SellerInv, DocsInv
  <2>. QED BY <2>1, DocsStay
<1>2. ChoiceIsOffered'
      BY ChoiceStays DEF SellerInv
<1>3. ImagesDiffer'
  <2>1. files \in Nat /\ files' \in Nat /\ MaxFiles \in Nat /\ ImagesDiffer
        BY SellerPagesAssumption DEF SellerInv, SellerTypes
  <2>. QED BY <2>1, ImagesStay DEF ImagesDiffer
<1>. QED BY <1>1, <1>2, <1>3 DEF SellerInv, DocsInv

LEMMA QuietStep ==
    ASSUME SellerInv, SellerTypes', UNCHANGED <<held, posted>>, InfoPasses', SubmitIsOpen',
           wizard'.docs = wizard.docs, files <= files',
           listing'.category = listing.category, listing'.profile = listing.profile,
           listing'.options = listing.options, listing'.images = listing.images,
           net' \subseteq CallType,
           \A c \in net' : c.kind \in {"upload", "convert", "options"} => c \in net,
           \A c \in net : c.kind = "upload" => c \in net'
    PROVE  SellerInv'
<1>1. AllPosted'
      BY DEF SellerInv, AllPosted
<1>. QED BY <1>1, SentStep

LEMMA ActType ==
    ASSUME SellerTypes, Act
    PROVE  acts' \in 0 .. MaxActs
    BY SellerPagesAssumption DEF SellerTypes, Act

LEMMA FileType ==
    ASSUME SellerTypes, ChooseFile
    PROVE  files' \in 0 .. MaxFiles /\ files' \in Files /\ files < files'
    BY SellerPagesAssumption DEF SellerTypes, ChooseFile, Files

LEMMA NavigateStep ==
    ASSUME SellerInv, Navigate
    PROVE  SellerInv'
<1>1. PICK r \in Routes : Open(r, net)
      BY DEF Navigate
<1>2. acts' \in 0 .. MaxActs
      BY ActType DEF Navigate, SellerInv
<1>. QED BY <1>1, <1>2, OpenStep DEF Navigate

(* Another step of the wizard: its form and its attempt start anew.         *)
LEMMA ToStepType ==
    ASSUME NEW w \in WizardType, NEW step \in Steps
    PROVE  /\ ToStep(w, step) \in WizardType
           /\ ToStep(w, step).info = w.info /\ ToStep(w, step).docs = w.docs
           /\ ~ToStep(w, step).submitting
    BY DEF ToStep, WizardType, Outcomes

LEMMA UnboundFacts ==
    ASSUME NEW calls \in SUBSET CallType
    PROVE  /\ Unbound(calls) \subseteq CallType
           /\ \A x \in Unbound(calls) : x.kind \in {"upload", "convert", "options"} => x \in calls
           /\ \A c \in calls : c.kind \in {"upload", "convert", "options"} => c \in Unbound(calls)
<1>1. ASSUME NEW x \in Unbound(calls)
      PROVE  /\ x \in CallType
             /\ x.kind \in {"upload", "convert", "options"} => x \in calls
  <2>1. PICK c \in calls : x = Unbind(c)
        BY DEF Unbound
  <2>2. CASE c.kind = "post"
    <3>1. c \in PostType /\ x = [c EXCEPT !.live = FALSE]
          BY <2>1, <2>2, CallKinds DEF Unbind
    <3>2. x \in PostType /\ x.kind = "post"
          BY <2>2, <3>1 DEF PostType
    <3>. QED BY <3>2 DEF CallType
  <2>3. CASE c.kind = "connect"
    <3>1. c \in [kind : {"connect"}, live : BOOLEAN, here : BOOLEAN]
          /\ x = [c EXCEPT !.here = FALSE]
          BY <2>1, <2>3, CallKinds DEF Unbind
    <3>2. x \in [kind : {"connect"}, live : BOOLEAN, here : BOOLEAN] /\ x.kind = "connect"
          BY <2>3, <3>1
    <3>. QED BY <3>2 DEF CallType, OtherType
  <2>4. CASE c.kind \notin {"post", "connect"}
        BY <2>1, <2>4 DEF Unbind
  <2>. QED BY <2>2, <2>3, <2>4
<1>2. \A c \in calls : c.kind \in {"upload", "convert", "options"} => c \in Unbound(calls)
      BY DEF Unbound, Unbind
<1>. QED BY <1>1, <1>2

LEMMA GoToStepStep ==
    ASSUME SellerInv, GoToStep
    PROVE  SellerInv'
<1>1. PICK step \in Steps : wizard' = ToStep(wizard, step)
      BY DEF GoToStep
<1>2. /\ UNCHANGED <<route, listing, dash, files, held, posted>>
      /\ net' = Unbound(net) /\ route = "onboarding" /\ Act
      BY DEF GoToStep
<1>3. /\ wizard' \in WizardType /\ wizard'.info = wizard.info /\ wizard'.docs = wizard.docs
      /\ ~wizard'.submitting
      BY <1>1, ToStepType DEF SellerInv, SellerTypes
<1>4. SellerTypes'
      BY <1>2, <1>3, ActType DEF SellerInv, SellerTypes
<1>5. InfoPasses'
      BY <1>3 DEF SellerInv, InfoPasses
<1>6. SubmitIsOpen'
      BY <1>2, <1>3 DEF SellerInv, SubmitIsOpen
<1>7. /\ net' \subseteq CallType
      /\ \A c \in net' : c.kind \in {"upload", "convert", "options"} => c \in net
      /\ \A c \in net : c.kind = "upload" => c \in net'
      BY <1>2, UnboundFacts DEF SellerInv
<1>8. files <= files'
      BY <1>2 DEF SellerInv, SellerTypes
<1>. QED BY <1>2, <1>3, <1>4, <1>5, <1>6, <1>7, <1>8, QuietStep

(* The business form, the logo and Stripe's onboarding.                     *)
LEMMA BusinessStep ==
    ASSUME SellerInv,
           \/ EditForm \/ SubmitForm \/ ChooseLogo \/ RemoveLogo \/ StartConnect
           \/ \E c \in net : LogoConverted(c)
    PROVE  SellerInv'
<1>1. UNCHANGED <<route, listing, dash, held, posted>>
      BY DEF EditForm, SubmitForm, ChooseLogo, RemoveLogo, StartConnect, LogoConverted
<1>2. files' \in 0 .. MaxFiles /\ files <= files'
  <2>1. CASE ChooseLogo
        BY <2>1, FileType DEF SellerInv, SellerTypes, ChooseLogo
  <2>2. CASE UNCHANGED files
        BY <2>2 DEF SellerInv, SellerTypes
  <2>. QED BY <2>1, <2>2 DEF EditForm, SubmitForm, RemoveLogo, StartConnect, LogoConverted
<1>3. acts' \in 0 .. MaxActs
  <2>1. Act \/ UNCHANGED acts
        BY DEF EditForm, SubmitForm, ChooseLogo, RemoveLogo, StartConnect, LogoConverted
  <2>. QED BY <2>1, ActType DEF SellerInv, SellerTypes
<1>4. /\ wizard' \in WizardType /\ wizard'.docs = wizard.docs
      /\ wizard'.submitting => wizard.submitting
      /\ InfoPasses'
  <2>0. wizard \in WizardType /\ InfoPasses
        BY DEF SellerInv, SellerTypes
  <2>1. CASE EditForm
        BY <2>0, <2>1 DEF EditForm, WizardType, InfoPasses
  <2>2. CASE SubmitForm
    <3>1. PICK w : w = [wizard EXCEPT !.info = wizard.form]
          OBVIOUS
    <3>2. FormPasses(wizard.form) /\ wizard' = ToStep(w, "identity") /\ "identity" \in Steps
          BY <2>2, <3>1 DEF SubmitForm, Steps
    <3>3. w \in WizardType /\ w.info = wizard.form /\ w.docs = wizard.docs
          BY <2>0, <3>1 DEF WizardType
    <3>4. wizard.form \in Form
          BY <2>0, <3>2 DEF WizardType, FormPasses, NoForm
    <3>. QED BY <3>2, <3>3, <3>4, ToStepType DEF InfoPasses
  <2>3. CASE ChooseLogo
        BY <2>0, <2>3 DEF ChooseLogo, WizardType, InfoPasses
  <2>4. CASE RemoveLogo
        BY <2>0, <2>4, SellerPagesAssumption DEF RemoveLogo, WizardType, InfoPasses
  <2>5. CASE StartConnect
        BY <2>0, <2>5 DEF StartConnect, WizardType, InfoPasses
  <2>6. ASSUME NEW c \in net, LogoConverted(c)
        PROVE  /\ wizard' \in WizardType /\ wizard'.docs = wizard.docs
               /\ wizard'.submitting => wizard.submitting
               /\ InfoPasses'
    <3>1. c \in CallType /\ c.kind = "logo"
          BY <2>6 DEF LogoConverted, SellerInv
    <3>2. c.file \in Files
          BY <3>1, CallKinds
    <3>3. c.file \in 0 .. MaxFiles
          BY <3>2, SellerPagesAssumption DEF Files
    <3>. QED BY <2>0, <2>6, <3>3 DEF LogoConverted, WizardType, InfoPasses
  <2>. QED BY <2>1, <2>2, <2>3, <2>4, <2>5, <2>6
<1>5. /\ net' \subseteq CallType
      /\ \A c \in net' : c.kind \in {"upload", "convert", "options"} => c \in net
      /\ \A c \in net : c.kind \in {"upload", "post"} => c \in net'
  <2>0. net \subseteq CallType
        BY DEF SellerInv
  <2>1. CASE ChooseLogo
    <3>1. files' \in Files
          BY <2>1, FileType DEF SellerInv, ChooseLogo
    <3>. QED BY <2>0, <2>1, <3>1 DEF ChooseLogo, CallType, OtherType
  <2>2. CASE StartConnect
    <3>1. PICK q : q = [kind |-> "connect", live |-> TRUE, here |-> TRUE]
          OBVIOUS
    <3>2. q \in CallType /\ q.kind = "connect"
          BY <3>1 DEF CallType, OtherType
    <3>3. net' = net \cup {q}
          BY <2>2, <3>1 DEF StartConnect
    <3>. QED BY <2>0, <3>2, <3>3
  <2>3. CASE \E c \in net : LogoConverted(c)
        BY <2>0, <2>3 DEF LogoConverted
  <2>4. CASE EditForm \/ SubmitForm \/ RemoveLogo
        BY <2>0, <2>4 DEF EditForm, SubmitForm, RemoveLogo
  <2>. QED BY <2>1, <2>2, <2>3, <2>4
<1>6. SellerTypes'
      BY <1>1, <1>2, <1>3, <1>4 DEF SellerInv, SellerTypes
<1>7. SubmitIsOpen'
      BY <1>1, <1>4, <1>5, SubmitStays DEF SellerInv, SubmitIsOpen
<1>. QED BY <1>1, <1>2, <1>4, <1>5, <1>6, <1>7, QuietStep

(* Stripe's onboarding starts elsewhere, or fails.                          *)
LEMMA ConnectAnswerStep ==
    ASSUME SellerInv, NEW c \in net, ConnectAnswer(c)
    PROVE  SellerInv'
<1>1. UNCHANGED <<files, held, posted, acts>> /\ c.kind = "connect"
      BY DEF ConnectAnswer
<1>2. CASE Open("dashboard", {})
  <2>1. {} \in SUBSET net /\ "dashboard" \in Routes /\ acts' \in 0 .. MaxActs
        BY <1>1 DEF Routes, SellerInv, SellerTypes
  <2>. QED BY <1>1, <1>2, <2>1, OpenStep
<1>3. CASE /\ net' = net \ {c}
           /\ \E status \in {"idle", "error"} :
                 wizard' = IF ~c.live THEN wizard
                           ELSE [wizard EXCEPT !.connect = status,
                                               !.portalPending = @ \/ (status = "idle" /\ c.here)]
           /\ UNCHANGED <<route, listing, dash>>
  <2>0. wizard \in WizardType
        BY DEF SellerInv, SellerTypes
  <2>1. PICK status \in {"idle", "error"} :
          wizard' = IF ~c.live THEN wizard
                    ELSE [wizard EXCEPT !.connect = status,
                                        !.portalPending = @ \/ (status = "idle" /\ c.here)]
        BY <1>3
  <2>2. PICK b \in BOOLEAN : b = (wizard.portalPending \/ (status = "idle" /\ c.here))
        OBVIOUS
  <2>3. wizard' = wizard \/ wizard' = [wizard EXCEPT !.connect = status, !.portalPending = b]
        BY <2>1, <2>2
  <2>4. /\ wizard' \in WizardType /\ wizard'.docs = wizard.docs
        /\ wizard'.submitting = wizard.submitting /\ wizard'.info = wizard.info
        BY <2>0, <2>3 DEF WizardType
  <2>5. SellerTypes'
        BY <1>1, <1>3, <2>4 DEF SellerInv, SellerTypes
  <2>6. InfoPasses'
        BY <2>4 DEF SellerInv, InfoPasses
  <2>7. SubmitIsOpen'
        BY <1>1, <1>3, <2>4, SubmitStays DEF SellerInv, SubmitIsOpen
  <2>8. files <= files'
        BY <1>1 DEF SellerInv, SellerTypes
  <2>. QED BY <1>1, <1>3, <2>4, <2>5, <2>6, <2>7, <2>8, QuietStep DEF SellerInv
<1>. QED BY <1>2, <1>3 DEF ConnectAnswer

(* A document is put in its zone.                                           *)
LEMMA SetDocFacts ==
    ASSUME wizard \in WizardType, NEW k \in Kinds, NEW doc \in DocType, SetDoc(k, doc)
    PROVE  /\ wizard' \in WizardType
           /\ wizard'.info = wizard.info /\ wizard'.submitting = wizard.submitting
           /\ \A j \in Kinds : wizard'.docs[j] = IF j = k THEN doc ELSE wizard.docs[j]
<1>1. wizard' = [wizard EXCEPT !.docs = [wizard.docs EXCEPT ![k] = doc]]
      BY DEF SetDoc
<1>2. PICK docs \in [Kinds -> DocType] : docs = [wizard.docs EXCEPT ![k] = doc]
      BY DEF WizardType
<1>3. wizard' = [wizard EXCEPT !.docs = docs]
      BY <1>1, <1>2
<1>4. \A j \in Kinds : docs[j] = IF j = k THEN doc ELSE wizard.docs[j]
      BY <1>2 DEF WizardType
<1>5. wizard'.docs = docs
      BY <1>3 DEF WizardType
<1>. QED BY <1>3, <1>4, <1>5 DEF WizardType

(* A step that touches documents and uploads only.                          *)
LEMMA DocStep ==
    ASSUME SellerInv, UNCHANGED <<route, listing, dash, posted>>,
           wizard' \in WizardType, wizard'.info = wizard.info,
           wizard'.submitting = wizard.submitting,
           files' \in 0 .. MaxFiles, files <= files', acts' \in 0 .. MaxActs, held' \subseteq Files,
           net' \subseteq CallType,
           \A c \in net' : c.kind # "upload" => c \in net,
           \A c \in net : c.kind # "upload" => c \in net',
           DocsInv'
    PROVE  SellerInv'
<1>1. SellerTypes'
      BY DEF SellerInv, SellerTypes
<1>2. InfoPasses' /\ AllPosted'
      BY DEF SellerInv, InfoPasses, AllPosted
<1>3. SubmitIsOpen'
      BY SubmitStays DEF SellerInv
<1>4. ChoiceIsOffered'
      BY ChoiceStays DEF SellerInv
<1>5. ImagesDiffer'
  <2>1. files \in Nat /\ files' \in Nat /\ MaxFiles \in Nat /\ ImagesDiffer
        BY SellerPagesAssumption DEF SellerInv, SellerTypes
  <2>. QED BY <2>1, ImagesStay DEF ImagesDiffer
<1>. QED BY <1>1, <1>2, <1>3, <1>4, <1>5 DEF SellerInv, DocsInv

LEMMA DropDocumentStep ==
    ASSUME SellerInv, NEW k \in Kinds, DropDocument(k)
    PROVE  SellerInv'
<1>1. UNCHANGED <<route, listing, dash, held, posted, acts>> /\ ChooseFile
      BY DEF DropDocument
<1>2. files' \in 0 .. MaxFiles /\ files' \in Files /\ files <= files'
      BY <1>1, FileType DEF SellerInv, SellerTypes
<1>3. wizard \in WizardType /\ net \subseteq CallType /\ held \subseteq Files /\ acts \in 0 .. MaxActs
      BY DEF SellerInv, SellerTypes
<1>4. CASE /\ SetDoc(k, [file |-> files', preview |-> FALSE, status |-> "error"])
           /\ UNCHANGED net
  <2>0. PICK doc : doc = [file |-> files', preview |-> FALSE, status |-> "error"]
        OBVIOUS
  <2>1. doc \in DocType /\ doc.status = "error"
        BY <1>2, <2>0 DEF DocType, Docs
  <2>2. /\ wizard' \in WizardType
        /\ wizard'.info = wizard.info /\ wizard'.submitting = wizard.submitting
        /\ \A j \in Kinds : wizard'.docs[j] = IF j = k THEN doc ELSE wizard.docs[j]
        BY <1>3, <1>4, <2>0, <2>1, SetDocFacts
  <2>3. DocsInv'
        BY <1>1, <1>4, <2>1, <2>2
           DEF SellerInv, DocsInv, AnsweredIsHeld, UploadedIsHeld, UploadIsOpen, Awaited
  <2>. QED BY <1>1, <1>2, <1>3, <1>4, <2>2, <2>3, DocStep
<1>5. ASSUME NEW image \in BOOLEAN,
             SetDoc(k, [file |-> files', preview |-> image, status |-> "uploading"]),
             net' = net \cup {[kind |-> "upload", of |-> k, file |-> files',
                               preview |-> image, answer |-> None]}
      PROVE  SellerInv'
  <2>0. PICK doc : doc = [file |-> files', preview |-> image, status |-> "uploading"]
        OBVIOUS
  <2>1. doc \in DocType /\ doc.status = "uploading" /\ doc.file = files'
        BY <1>2, <2>0 DEF DocType, Docs
  <2>2. /\ wizard' \in WizardType
        /\ wizard'.info = wizard.info /\ wizard'.submitting = wizard.submitting
        /\ \A j \in Kinds : wizard'.docs[j] = IF j = k THEN doc ELSE wizard.docs[j]
        BY <1>3, <1>5, <2>0, <2>1, SetDocFacts
  <2>9. PICK q : q = [kind |-> "upload", of |-> k, file |-> files', preview |-> image,
                      answer |-> None]
        OBVIOUS
  <2>3. /\ q \in UploadType
        /\ q.kind = "upload" /\ q.of = k /\ q.file = files' /\ q.answer = None
        BY <1>2, <2>9 DEF UploadType
  <2>4. net' = net \cup {q} /\ q \in CallType
        BY <1>5, <2>3, <2>9 DEF CallType
  <2>5. AnsweredIsHeld'
        BY <1>1, <2>3, <2>4 DEF SellerInv, AnsweredIsHeld, None
  <2>6. UploadedIsHeld'
        BY <1>1, <2>1, <2>2 DEF SellerInv, UploadedIsHeld
  <2>7. UploadIsOpen'
        BY <2>1, <2>2, <2>3, <2>4 DEF SellerInv, UploadIsOpen, Awaited
  <2>8. DocsInv'
        BY <2>5, <2>6, <2>7 DEF DocsInv
  <2>. QED BY <1>1, <1>2, <1>3, <2>2, <2>3, <2>4, <2>8, DocStep
<1>. QED BY <1>4, <1>5 DEF DropDocument

LEMMA RemoveDocumentStep ==
    ASSUME SellerInv, NEW k \in Kinds, RemoveDocument(k)
    PROVE  SellerInv'
<1>1. UNCHANGED <<route, listing, dash, net, files, held, posted>> /\ SetDoc(k, NoDoc) /\ Act
      BY DEF RemoveDocument
<1>2. /\ wizard \in WizardType /\ net \subseteq CallType /\ held \subseteq Files
      /\ files \in 0 .. MaxFiles /\ files <= files /\ acts' \in 0 .. MaxActs
      BY <1>1, ActType DEF SellerInv, SellerTypes
<1>0. PICK doc : doc = NoDoc
      OBVIOUS
<1>3. doc \in DocType /\ doc.status = "empty"
      BY <1>0, SellerPagesAssumption DEF DocType, Docs, NoDoc
<1>4. /\ wizard' \in WizardType
      /\ wizard'.info = wizard.info /\ wizard'.submitting = wizard.submitting
      /\ \A j \in Kinds : wizard'.docs[j] = IF j = k THEN doc ELSE wizard.docs[j]
      BY <1>0, <1>1, <1>2, <1>3, SetDocFacts
<1>5. DocsInv'
      BY <1>1, <1>3, <1>4
         DEF SellerInv, DocsInv, AnsweredIsHeld, UploadedIsHeld, UploadIsOpen, Awaited
<1>. QED BY <1>1, <1>2, <1>4, <1>5, DocStep

(* The server stores what it takes.                                         *)
LEMMA ServeUploadStep ==
    ASSUME SellerInv, NEW c \in net, ServeUpload(c)
    PROVE  SellerInv'
<1>1. /\ UNCHANGED <<route, wizard, listing, dash, files, posted, acts>>
      /\ c.kind = "upload" /\ c.answer = None
      BY DEF ServeUpload
<1>2. /\ wizard \in WizardType /\ net \subseteq CallType /\ held \subseteq Files
      /\ files \in 0 .. MaxFiles /\ files <= files /\ acts \in 0 .. MaxActs
      BY DEF SellerInv, SellerTypes
<1>3. c \in UploadType
      BY <1>1, <1>2, CallKinds
<1>4. PICK a \in Outcomes : /\ net' = (net \ {c}) \cup {[c EXCEPT !.answer = a]}
                            /\ held' = IF a = "ok" THEN held \cup {c.file} ELSE held
      BY DEF ServeUpload
<1>0. PICK q : q = [c EXCEPT !.answer = a]
      OBVIOUS
<1>5. /\ q \in UploadType
      /\ q.kind = "upload" /\ q.of = c.of /\ q.file = c.file /\ q.answer = a
      BY <1>0, <1>3 DEF UploadType
<1>6. net' = (net \ {c}) \cup {q} /\ q \in CallType
      BY <1>0, <1>4, <1>5 DEF CallType
<1>7. held' \subseteq Files /\ held \subseteq held' /\ (a = "ok" => c.file \in held')
      BY <1>2, <1>3, <1>4 DEF UploadType
<1>8. AnsweredIsHeld'
      BY <1>5, <1>6, <1>7 DEF SellerInv, AnsweredIsHeld
<1>9. UploadedIsHeld'
      BY <1>1, <1>7 DEF SellerInv, UploadedIsHeld
<1>10. ASSUME NEW k \in Kinds, wizard'.docs[k].status = "uploading"
       PROVE  Awaited(k)'
  <2>1. PICK d \in net : d.kind = "upload" /\ d.of = k /\ d.file = wizard.docs[k].file
        BY <1>1, <1>10 DEF SellerInv, UploadIsOpen, Awaited
  <2>2. CASE d = c
        BY <1>1, <1>5, <1>6, <2>1, <2>2 DEF Awaited
  <2>3. CASE d # c
        BY <1>1, <1>6, <2>1, <2>3 DEF Awaited
  <2>. QED BY <2>2, <2>3
<1>11. DocsInv'
       BY <1>8, <1>9, <1>10 DEF DocsInv, UploadIsOpen
<1>. QED BY <1>1, <1>2, <1>5, <1>6, <1>7, <1>11, DocStep

(* The answer of an upload is shown in its zone.                            *)
LEMMA UploadAnswerStep ==
    ASSUME SellerInv, NEW c \in net, UploadAnswer(c)
    PROVE  SellerInv'
<1>1. /\ UNCHANGED <<route, listing, dash, files, held, posted, acts>>
      /\ c.kind = "upload" /\ c.answer # None /\ net' = net \ {c}
      BY DEF UploadAnswer
<1>2. /\ wizard \in WizardType /\ net \subseteq CallType /\ held \subseteq Files
      /\ files \in 0 .. MaxFiles /\ files <= files /\ acts \in 0 .. MaxActs
      BY DEF SellerInv, SellerTypes
<1>3. c \in UploadType
      BY <1>1, <1>2, CallKinds
<1>4. PICK a \in {c.answer, "error"} :
          SetDoc(c.of, [file |-> c.file, preview |-> c.preview, status |-> DocStatus(a)])
      BY DEF UploadAnswer
<1>5. /\ DocStatus(a) \in Docs /\ DocStatus(a) # "uploading"
      /\ DocStatus(a) = "uploaded" => a = "ok"
      BY DEF DocStatus, Docs
<1>6. c.of \in Kinds /\ c.preview \in BOOLEAN /\ c.file \in 0 .. MaxFiles
      BY <1>3, SellerPagesAssumption DEF UploadType, Files
<1>0. PICK doc : doc = [file |-> c.file, preview |-> c.preview, status |-> DocStatus(a)]
      OBVIOUS
<1>7. doc \in DocType /\ doc.file = c.file /\ doc.status = DocStatus(a)
      BY <1>0, <1>5, <1>6 DEF DocType
<1>8. PICK k \in Kinds : k = c.of
      BY <1>6
<1>9. /\ wizard' \in WizardType
      /\ wizard'.info = wizard.info /\ wizard'.submitting = wizard.submitting
      /\ \A j \in Kinds : wizard'.docs[j] = IF j = k THEN doc ELSE wizard.docs[j]
      BY <1>0, <1>2, <1>4, <1>7, <1>8, SetDocFacts
<1>10. AnsweredIsHeld'
       BY <1>1 DEF SellerInv, AnsweredIsHeld
<1>11. UploadedIsHeld'
  <2>1. DocStatus(a) = "uploaded" => c.file \in held
        BY <1>1, <1>4, <1>5 DEF SellerInv, AnsweredIsHeld
  <2>. QED BY <1>1, <1>7, <1>9, <2>1 DEF SellerInv, UploadedIsHeld
<1>12. ASSUME NEW j \in Kinds, wizard'.docs[j].status = "uploading"
       PROVE  Awaited(j)'
  <2>1. j # k /\ wizard'.docs[j] = wizard.docs[j]
        BY <1>5, <1>7, <1>9, <1>12
  <2>2. PICK d \in net : d.kind = "upload" /\ d.of = j /\ d.file = wizard.docs[j].file
        BY <1>12, <2>1 DEF SellerInv, UploadIsOpen, Awaited
  <2>3. d \in net'
        BY <1>1, <1>8, <2>1, <2>2
  <2>. QED BY <2>1, <2>2, <2>3 DEF Awaited
<1>13. DocsInv'
       BY <1>10, <1>11, <1>12 DEF DocsInv, UploadIsOpen
<1>. QED BY <1>1, <1>2, <1>9, <1>13, DocStep

-----------------------------------------------------------------------------
(* The forms that are sent.                                                 *)

LEMMA PostFacts ==
    ASSUME SellerInv, NEW page \in {"onboarding", "listing"},
           NEW body \in OnboardingSent \cup ListingSent, Post(page, body)
    PROVE  /\ AllPosted' /\ Len(posted') <= MaxPosts
           /\ net' \subseteq CallType /\ PostIsOpen(page)'
           /\ \A c \in net' : c.kind # "post" => c \in net
           /\ net \subseteq net'
<1>1. posted \in Seq(OnboardingSent \cup ListingSent) /\ net \subseteq CallType
      BY DEF SellerInv, AllPosted
<1>2. /\ Len(posted) \in Nat /\ Len(posted) < MaxPosts /\ MaxPosts \in Nat
      /\ posted' = Append(posted, body)
      BY <1>1, LenProperties, SellerPagesAssumption DEF Post
<1>3. posted' \in Seq(OnboardingSent \cup ListingSent) /\ Len(posted') = Len(posted) + 1
      BY <1>1, <1>2, AppendProperties
<1>4. PICK q : q = [kind |-> "post", of |-> page, n |-> Len(posted) + 1, live |-> TRUE]
      OBVIOUS
<1>5. q \in PostType /\ q.kind = "post" /\ q.of = page /\ q.live
      BY <1>2, <1>4 DEF PostType
<1>6. net' = net \cup {q} /\ q \in CallType
      BY <1>4, <1>5 DEF Post, CallType
<1>. QED BY <1>1, <1>2, <1>3, <1>5, <1>6 DEF AllPosted, PostIsOpen

LEMMA SubmitWizardStep ==
    ASSUME SellerInv, SubmitWizard
    PROVE  SellerInv'
<1>1. /\ UNCHANGED <<route, listing, dash, files, held, acts>> /\ route = "onboarding"
      /\ wizard' = [wizard EXCEPT !.submitting = TRUE, !.outcome = "ok"]
      /\ wizard.info # NoForm
      BY DEF SubmitWizard, AtStep
<1>2. wizard.info \in Form /\ FormPasses(wizard.info)
      BY <1>1 DEF SellerInv, InfoPasses
<1>3. PICK body : body = [page |-> "onboarding", info |-> wizard.info]
      OBVIOUS
<1>4. body \in OnboardingSent \cup ListingSent
      BY <1>2, <1>3 DEF OnboardingSent
<1>5. Post("onboarding", body)
      BY <1>3 DEF SubmitWizard
<1>6. /\ AllPosted' /\ Len(posted') <= MaxPosts
      /\ net' \subseteq CallType /\ PostIsOpen("onboarding")'
      /\ \A c \in net' : c.kind # "post" => c \in net
      /\ net \subseteq net'
      BY <1>4, <1>5, PostFacts
<1>7. /\ wizard' \in WizardType /\ wizard'.docs = wizard.docs /\ wizard'.info = wizard.info
      BY <1>1 DEF SellerInv, SellerTypes, WizardType, Outcomes
<1>8. SellerTypes' /\ InfoPasses'
      BY <1>1, <1>6, <1>7 DEF SellerInv, SellerTypes, InfoPasses
<1>9. SubmitIsOpen'
  <2>1. listing'.submitting => PostIsOpen("listing") /\ route = "listing"
        BY <1>1 DEF SellerInv, SubmitIsOpen
  <2>. QED BY <1>1, <1>6, <2>1 DEF SubmitIsOpen
<1>10. files <= files'
       BY <1>1 DEF SellerInv, SellerTypes
<1>. QED BY <1>1, <1>6, <1>7, <1>8, <1>9, <1>10, SentStep

LEMMA SubmitListingStep ==
    ASSUME SellerInv, SubmitListing
    PROVE  SellerInv'
<1>1. /\ UNCHANGED <<route, wizard, dash, files, held, acts>> /\ route = "listing"
      /\ listing' = [listing EXCEPT !.submitting = TRUE, !.outcome = "ok"]
      /\ listing.category /\ listing.profile
      BY DEF SubmitListing, AtListing
<1>2. listing.images \in Seq(Files) /\ IsInjective(listing.images)
      BY DEF SellerInv, SellerTypes, ListingType, ImagesDiffer
<1>3. {listing.options[o] : o \in Options} = {"ready"}
      BY <1>1 DEF SellerInv, ChoiceIsOffered, Options
<1>4. PICK body : body = [page |-> "listing", images |-> listing.images,
                          offered |-> {listing.options[o] : o \in Options}]
      OBVIOUS
<1>5. body \in OnboardingSent \cup ListingSent
  <2>1. /\ body \in [page : {"listing"}, images : Seq(Files), offered : {{"ready"}}]
        /\ body.images = listing.images
        BY <1>2, <1>3, <1>4
  <2>. QED BY <1>2, <2>1 DEF ListingSent
<1>6. Post("listing", body)
      BY <1>4 DEF SubmitListing
<1>7. /\ AllPosted' /\ Len(posted') <= MaxPosts
      /\ net' \subseteq CallType /\ PostIsOpen("listing")'
      /\ \A c \in net' : c.kind # "post" => c \in net
      /\ net \subseteq net'
      BY <1>5, <1>6, PostFacts
<1>8. /\ listing' \in ListingType /\ listing'.images = listing.images
      /\ listing'.category = listing.category /\ listing'.profile = listing.profile
      /\ listing'.options = listing.options
      BY <1>1 DEF SellerInv, SellerTypes, ListingType, Outcomes
<1>9. SellerTypes' /\ InfoPasses'
      BY <1>1, <1>7, <1>8 DEF SellerInv, SellerTypes, InfoPasses
<1>10. SubmitIsOpen'
  <2>1. wizard'.submitting => PostIsOpen("onboarding") /\ route = "onboarding"
        BY <1>1 DEF SellerInv, SubmitIsOpen
  <2>. QED BY <1>1, <1>7, <2>1 DEF SubmitIsOpen
<1>11. files <= files'
       BY <1>1 DEF SellerInv, SellerTypes
<1>. QED BY <1>1, <1>7, <1>8, <1>9, <1>10, <1>11, SentStep

(* The answer frees the button of its own attempt only.                     *)
LEMMA PostAnswerStep ==
    ASSUME SellerInv, NEW c \in net, PostAnswer(c)
    PROVE  SellerInv'
<1>1. UNCHANGED <<files, held, posted, acts>> /\ c.kind = "post"
      BY DEF PostAnswer
<1>2. /\ wizard \in WizardType /\ listing \in ListingType /\ net \subseteq CallType
      /\ files \in 0 .. MaxFiles /\ files <= files /\ acts \in 0 .. MaxActs
      BY DEF SellerInv, SellerTypes
<1>3. CASE route = "dashboard" /\ net' = net \ {c} /\ UNCHANGED <<route, wizard, listing, dash>>
  <2>1. SellerTypes' /\ InfoPasses'
        BY <1>1, <1>3 DEF SellerInv, SellerTypes, InfoPasses
  <2>2. SubmitIsOpen'
        BY <1>3 DEF SellerInv, SubmitIsOpen
  <2>. QED BY <1>1, <1>2, <1>3, <2>1, <2>2, QuietStep
<1>4. CASE Open("dashboard", net \ {c})
  <2>1. "dashboard" \in Routes /\ (net \ {c}) \in SUBSET net /\ acts' \in 0 .. MaxActs
        BY <1>1, <1>2 DEF Routes
  <2>. QED BY <1>1, <1>4, <2>1, OpenStep
<1>5. ASSUME NEW outcome \in {"pending", "error"},
             net' = net \ {c},
             wizard' = IF c.of = "onboarding" /\ c.live
                       THEN [wizard EXCEPT !.outcome = outcome,
                                           !.submitting = SubmittingAfter(c)]
                       ELSE wizard,
             listing' = IF c.of = "listing" /\ c.live
                        THEN [listing EXCEPT !.outcome = outcome,
                                             !.submitting = SubmittingAfter(c)]
                        ELSE listing,
             UNCHANGED <<route, dash>>
      PROVE  SellerInv'
  <2>1. /\ wizard' \in WizardType /\ wizard'.docs = wizard.docs /\ wizard'.info = wizard.info
        /\ wizard'.submitting => wizard.submitting /\ ~(c.of = "onboarding" /\ c.live)
    <3>1. CASE c.of = "onboarding" /\ c.live
      <4>1. wizard' = [wizard EXCEPT !.outcome = outcome, !.submitting = FALSE]
            BY <1>5, <3>1 DEF SubmittingAfter
      <4>. QED BY <1>2, <4>1 DEF WizardType, Outcomes
    <3>2. CASE ~(c.of = "onboarding" /\ c.live)
          BY <1>2, <1>5, <3>2
    <3>. QED BY <3>1, <3>2
  <2>2. /\ listing' \in ListingType /\ listing'.images = listing.images
        /\ listing'.category = listing.category /\ listing'.profile = listing.profile
        /\ listing'.options = listing.options
        /\ listing'.submitting => listing.submitting /\ ~(c.of = "listing" /\ c.live)
    <3>1. CASE c.of = "listing" /\ c.live
      <4>1. listing' = [listing EXCEPT !.outcome = outcome, !.submitting = FALSE]
            BY <1>5, <3>1 DEF SubmittingAfter
      <4>. QED BY <1>2, <4>1 DEF ListingType, Outcomes
    <3>2. CASE ~(c.of = "listing" /\ c.live)
          BY <1>2, <1>5, <3>2
    <3>. QED BY <3>1, <3>2
  <2>3. SellerTypes' /\ InfoPasses'
        BY <1>1, <1>5, <2>1, <2>2 DEF SellerInv, SellerTypes, InfoPasses
  <2>4. SubmitIsOpen'
        BY <1>5, <2>1, <2>2 DEF SellerInv, SubmitIsOpen, PostIsOpen
  <2>. QED BY <1>1, <1>2, <1>5, <2>1, <2>2, <2>3, <2>4, QuietStep
<1>. QED BY <1>3, <1>4, <1>5 DEF PostAnswer

-----------------------------------------------------------------------------
(* The listing form.                                                        *)

(* A step that touches the listing only.                                    *)
LEMMA ListingStep ==
    ASSUME SellerInv, UNCHANGED <<route, wizard, dash, held, posted>>,
           listing' \in ListingType, listing'.submitting = listing.submitting,
           files' \in 0 .. MaxFiles, acts' \in 0 .. MaxActs,
           net' \subseteq CallType,
           \A c \in net' : c.kind \in {"upload", "post"} => c \in net,
           \A c \in net : c.kind \in {"upload", "post"} => c \in net',
           ChoiceIsOffered', ImagesDiffer'
    PROVE  SellerInv'
<1>1. SellerTypes'
      BY DEF SellerInv, SellerTypes
<1>2. InfoPasses' /\ AllPosted'
      BY DEF SellerInv, InfoPasses, AllPosted
<1>3. SubmitIsOpen'
      BY SubmitStays DEF SellerInv
<1>4. DocsInv'
  <2>1. DocsInv
        BY DEF SellerInv, DocsInv
  <2>. QED BY <2>1, DocsStay
<1>. QED BY <1>1, <1>2, <1>3, <1>4 DEF SellerInv, DocsInv

(* Options come once, so a choice made is of options that are there.        *)
LEMMA OptionsAnswerStep ==
    ASSUME SellerInv, NEW c \in net, OptionsAnswer(c)
    PROVE  SellerInv'
<1>1. /\ UNCHANGED <<route, wizard, dash, files, held, posted, acts>>
      /\ c.kind = "options" /\ net' = net \ {c}
      BY DEF OptionsAnswer
<1>2. /\ listing \in ListingType /\ net \subseteq CallType
      /\ files \in 0 .. MaxFiles /\ files <= files /\ acts \in 0 .. MaxActs
      BY DEF SellerInv, SellerTypes
<1>3. c \in OptionsType
      BY <1>1, <1>2, CallKinds
<1>4. PICK state \in {"ready", "gap"} : listing' = [listing EXCEPT !.options[c.of] = state]
      BY DEF OptionsAnswer
<1>5. PICK o \in Options : o = c.of
      BY <1>3 DEF OptionsType
<1>6. PICK options : options = [listing.options EXCEPT ![o] = state]
      OBVIOUS
<1>7. /\ options \in [Options -> {"loading", "ready", "gap"}]
      /\ \A p \in Options : options[p] = IF p = o THEN state ELSE listing.options[p]
      BY <1>2, <1>6 DEF ListingType
<1>8. listing' = [listing EXCEPT !.options = options]
      BY <1>4, <1>5, <1>6
<1>9. /\ listing' \in ListingType /\ listing'.images = listing.images
      /\ listing'.category = listing.category /\ listing'.profile = listing.profile
      /\ listing'.options = options /\ listing'.submitting = listing.submitting
      BY <1>2, <1>7, <1>8 DEF ListingType
<1>10. ChoiceIsOffered'
  <2>1. listing.options[o] = "loading"
        BY <1>1, <1>5 DEF SellerInv, ChoiceIsOffered
  <2>2. /\ listing'.category => options["categories"] = "ready"
        /\ listing'.profile => options["profiles"] = "ready"
    <3>1. /\ listing.category => listing.options["categories"] = "ready"
          /\ listing.profile => listing.options["profiles"] = "ready"
          BY DEF SellerInv, ChoiceIsOffered
    <3>2. "categories" \in Options /\ "profiles" \in Options
          BY DEF Options
    <3>. QED BY <1>7, <1>9, <2>1, <3>1, <3>2
  <2>3. ASSUME NEW d \in net', d.kind = "options" PROVE options[d.of] = "loading"
    <3>1. d \in net /\ d # c
          BY <1>1
    <3>2. d \in OptionsType
          BY <1>2, <2>3, <3>1, CallKinds
    <3>3. d.of # o /\ d.of \in Options
          BY <1>3, <1>5, <3>1, <3>2 DEF OptionsType
    <3>4. listing.options[d.of] = "loading"
          BY <2>3, <3>1 DEF SellerInv, ChoiceIsOffered
    <3>. QED BY <1>7, <3>3, <3>4
  <2>. QED BY <1>9, <2>2, <2>3 DEF ChoiceIsOffered
<1>11. ImagesDiffer'
  <2>1. files \in Nat /\ files' \in Nat /\ MaxFiles \in Nat /\ ImagesDiffer /\ files <= files'
        BY <1>1, SellerPagesAssumption DEF SellerInv, SellerTypes
  <2>. QED BY <1>1, <1>9, <2>1, ImagesStay DEF ImagesDiffer
<1>. QED BY <1>1, <1>2, <1>9, <1>10, <1>11, ListingStep

LEMMA EditListingStep ==
    ASSUME SellerInv, EditListing
    PROVE  SellerInv'
<1>1. UNCHANGED <<route, wizard, dash, net, files, held, posted>> /\ Act
      BY DEF EditListing
<1>2. /\ listing \in ListingType /\ net \subseteq CallType
      /\ files \in 0 .. MaxFiles /\ files <= files /\ acts' \in 0 .. MaxActs
      BY <1>1, ActType DEF SellerInv, SellerTypes
<1>3. PICK b \in BOOLEAN : b = ~listing.filled
      OBVIOUS
<1>4. \/ listing' = [listing EXCEPT !.filled = b]
      \/ listing.options["categories"] = "ready" /\ listing' = [listing EXCEPT !.category = TRUE]
      \/ listing.options["profiles"] = "ready" /\ listing' = [listing EXCEPT !.profile = TRUE]
      BY <1>3 DEF EditListing, Offered
<1>5. /\ listing' \in ListingType /\ listing'.images = listing.images
      /\ listing'.submitting = listing.submitting /\ listing'.options = listing.options
      /\ listing'.category => listing.category \/ listing.options["categories"] = "ready"
      /\ listing'.profile => listing.profile \/ listing.options["profiles"] = "ready"
      BY <1>2, <1>4 DEF ListingType
<1>6. ChoiceIsOffered'
      BY <1>1, <1>5 DEF SellerInv, ChoiceIsOffered
<1>7. ImagesDiffer'
  <2>1. files \in Nat /\ files' \in Nat /\ MaxFiles \in Nat /\ ImagesDiffer /\ files <= files'
        BY <1>1, SellerPagesAssumption DEF SellerInv, SellerTypes
  <2>. QED BY <1>1, <1>5, <2>1, ImagesStay DEF ImagesDiffer
<1>. QED BY <1>1, <1>2, <1>5, <1>6, <1>7, ListingStep

(* Images of the list are moved or taken out.                               *)
LEMMA ReorderStep ==
    ASSUME SellerInv, MoveImage \/ RemoveImage
    PROVE  SellerInv'
<1>1. UNCHANGED <<route, wizard, dash, net, files, held, posted>> /\ Act
      BY DEF MoveImage, RemoveImage
<1>2. /\ listing \in ListingType /\ net \subseteq CallType
      /\ files \in 0 .. MaxFiles /\ files <= files /\ acts' \in 0 .. MaxActs
      BY <1>1, ActType DEF SellerInv, SellerTypes
<1>3. listing.images \in Seq(Files) /\ IsInjective(listing.images)
      BY <1>2 DEF SellerInv, ListingType, ImagesDiffer
<1>4. PICK s : s = listing.images
      OBVIOUS
<1>5. PICK images \in Seq(Files) : /\ listing' = [listing EXCEPT !.images = images]
                                   /\ IsInjective(images)
                                   /\ \A f : In(f, images) => In(f, s)
  <2>0. s \in Seq(Files) /\ IsInjective(s)
        BY <1>3, <1>4
  <2>1. CASE MoveImage
    <3>1. PICK from \in 1 .. Len(s), to \in 1 .. Len(s) :
              listing' = [listing EXCEPT !.images = Moved(s, from, to)]
          BY <1>4, <2>1 DEF MoveImage
    <3>. QED BY <2>0, <3>1, MoveKeeps
  <2>2. CASE RemoveImage
    <3>1. PICK i \in 1 .. Len(s) : listing' = [listing EXCEPT !.images = RemoveAt(s, i)]
          BY <1>4, <2>2 DEF RemoveImage
    <3>. QED BY <2>0, <3>1, RemovalKeeps
  <2>. QED BY <2>1, <2>2
<1>6. /\ listing' \in ListingType /\ listing'.images = images
      /\ listing'.category = listing.category /\ listing'.profile = listing.profile
      /\ listing'.options = listing.options /\ listing'.submitting = listing.submitting
      BY <1>2, <1>5 DEF ListingType
<1>7. ChoiceIsOffered'
      BY <1>1, <1>6, ChoiceStays DEF SellerInv
<1>8. ImagesDiffer'
  <2>1. files \in Nat /\ files' \in Nat /\ MaxFiles \in Nat /\ ImagesDiffer /\ files <= files'
        BY <1>1, SellerPagesAssumption DEF SellerInv, SellerTypes
  <2>. QED BY <1>1, <1>4, <1>5, <1>6, <2>1, ImagesStay
<1>. QED BY <1>1, <1>2, <1>6, <1>7, <1>8, ListingStep

(* A batch that starts to convert holds files nobody has chosen before.     *)
LEMMA AddFilesStep ==
    ASSUME SellerInv, AddFiles
    PROVE  SellerInv'
<1>1. UNCHANGED <<route, wizard, listing, dash, held, posted, acts>>
      BY DEF AddFiles
<1>2. /\ listing \in ListingType /\ net \subseteq CallType /\ ImagesDiffer
      /\ files \in Nat /\ files <= MaxFiles /\ acts \in 0 .. MaxActs /\ MaxFiles \in Nat
      BY SellerPagesAssumption DEF SellerInv, SellerTypes
<1>3. PICK k \in 1 .. MaxFiles - files :
          /\ files' = files + k
          /\ LET batch == Slice([i \in 1 .. k |-> files + i], MaxImages - Len(listing.images))
             IN  net' = IF batch = <<>> THEN net
                        ELSE net \cup {[kind |-> "convert", batch |-> batch]}
      BY DEF AddFiles
<1>4. PICK chosen : chosen = [i \in 1 .. k |-> files + i]
      OBVIOUS
<1>5. /\ chosen \in Seq(Files) /\ IsInjective(chosen)
      /\ \A f : In(f, chosen) => f \in files + 1 .. files + k
      BY <1>2, <1>4, ChosenFiles
<1>14. PICK room : room = MaxImages - Len(listing.images)
       OBVIOUS
<1>6. room \in Int
  <2>1. Len(listing.images) \in Nat
        BY <1>2, LenProperties DEF ListingType
  <2>. QED BY <1>14, <2>1, SellerPagesAssumption
<1>7. PICK batch : batch = Slice(chosen, room)
      OBVIOUS
<1>8. /\ batch \in Seq(Files) /\ IsInjective(batch)
      /\ \A f : In(f, batch) => In(f, chosen)
      BY <1>5, <1>6, <1>7, SliceKeeps
<1>9. net' = net \/ (batch # <<>> /\ net' = net \cup {[kind |-> "convert", batch |-> batch]})
      BY <1>3, <1>4, <1>14, <1>7
<1>10. files' \in Nat /\ files <= files' /\ files' \in 0 .. MaxFiles
       BY <1>2, <1>3
<1>11. ChoiceIsOffered'
  <2>1. \A c \in net' : c.kind = "options" => c \in net
        BY <1>9
  <2>. QED BY <1>1, <2>1, ChoiceStays DEF SellerInv
<1>12. CASE net' = net
  <2>1. ImagesDiffer'
        BY <1>1, <1>2, <1>10, <1>12, ImagesStay DEF ImagesDiffer
  <2>. QED BY <1>1, <1>2, <1>10, <1>11, <1>12, <2>1, ListingStep
<1>13. CASE batch # <<>> /\ net' = net \cup {[kind |-> "convert", batch |-> batch]}
  <2>1. PICK q : q = [kind |-> "convert", batch |-> batch]
        OBVIOUS
  <2>2. q \in CallType /\ q.kind = "convert" /\ q.batch = batch
        BY <1>8, <2>1 DEF CallType, ConvertType
  <2>3. net' = net \cup {q}
        BY <1>13, <2>1
  <2>4. ASSUME NEW f \in Files, In(f, batch)
        PROVE  /\ f <= files' /\ ~In(f, listing.images)
               /\ \A c \in net : c.kind = "convert" => ~In(f, c.batch)
    <3>1. f \in files + 1 .. files + k /\ ~(f <= files) /\ f <= files'
          BY <1>2, <1>3, <1>5, <1>8, <2>4
    <3>2. \A c \in net : c.kind = "convert" => Fresh(c.batch)
          BY <1>2 DEF ImagesDiffer
    <3>. QED BY <1>2, <3>1, <3>2 DEF ImagesDiffer, Fresh
  <2>5. \A c \in net' : c.kind = "convert" => Fresh(c.batch)'
    <3>1. Fresh(batch)'
          BY <1>1, <1>8, <1>13, <2>4 DEF Fresh, In, Files
    <3>2. \A c \in net : c.kind = "convert" => Fresh(c.batch)
          BY <1>2 DEF ImagesDiffer
    <3>3. \A c \in net : c.kind = "convert" => Fresh(c.batch)'
          BY <1>1, <1>2, <1>10, <3>2 DEF Fresh, In, Files
    <3>. QED BY <2>2, <2>3, <3>1, <3>3
  <2>6. \A c, d \in net' : c.kind = "convert" /\ d.kind = "convert" /\ c # d =>
            \A f \in Files : ~(In(f, c.batch) /\ In(f, d.batch))
        BY <1>2, <2>2, <2>3, <2>4 DEF ImagesDiffer
  <2>7. \A f \in Files : In(f, listing'.images) => f <= files'
        BY <1>1, <1>2, <1>10 DEF ImagesDiffer, Files
  <2>8. ImagesDiffer'
        BY <1>1, <1>2, <2>5, <2>6, <2>7 DEF ImagesDiffer, In, Files
  <2>. QED BY <1>1, <1>2, <1>10, <1>11, <2>2, <2>3, <2>8, ListingStep
<1>. QED BY <1>9, <1>12, <1>13

(* The first file of a batch joins the images; the others stay fresh.       *)
LEMMA ConvertedStep ==
    ASSUME SellerInv, NEW c \in net, Converted(c)
    PROVE  SellerInv'
<1>1. /\ UNCHANGED <<route, wizard, dash, files, held, posted, acts>> /\ c.kind = "convert"
      BY DEF Converted
<1>2. /\ listing \in ListingType /\ net \subseteq CallType /\ ImagesDiffer
      /\ files \in Nat /\ files \in 0 .. MaxFiles /\ files <= files
      /\ acts \in 0 .. MaxActs /\ MaxFiles \in Nat
      BY SellerPagesAssumption DEF SellerInv, SellerTypes
<1>3. c \in ConvertType
      BY <1>1, <1>2, CallKinds
<1>4. PICK s : s = c.batch
      OBVIOUS
<1>5. s \in Seq(Files) /\ Fresh(s) /\ s # <<>> /\ IsInjective(s)
      BY <1>1, <1>2, <1>3, <1>4 DEF ConvertType, ImagesDiffer, Fresh
<1>6. PICK h \in Files : h = Head(s) /\ In(h, s)
      BY <1>5, TailKeeps
<1>7. PICK rest : rest = Tail(s)
      OBVIOUS
<1>8. /\ rest \in Seq(Files) /\ IsInjective(rest) /\ ~In(h, rest)
      /\ Len(s) # 1 => rest # <<>>
      /\ \A f : In(f, rest) => In(f, s)
      BY <1>5, <1>6, <1>7, TailKeeps
<1>9. CASE net' = net \ {c} /\ UNCHANGED listing
  <2>1. ChoiceIsOffered'
        BY <1>9, ChoiceStays DEF SellerInv
  <2>2. ImagesDiffer'
        BY <1>1, <1>2, <1>9, ImagesStay DEF ImagesDiffer
  <2>. QED BY <1>1, <1>2, <1>9, <2>1, <2>2, ListingStep
<1>10. CASE /\ listing' = [listing EXCEPT !.images = Append(listing.images, h)]
            /\ net' = (net \ {c}) \cup (IF Len(s) = 1 THEN {} ELSE {[c EXCEPT !.batch = rest]})
  <2>1. PICK old : old = listing.images
        OBVIOUS
  <2>2. old \in Seq(Files) /\ IsInjective(old) /\ ~In(h, old)
        BY <1>2, <1>5, <1>6, <2>1 DEF ListingType, ImagesDiffer, Fresh
  <2>3. PICK images : images = Append(old, h)
        OBVIOUS
  <2>4. /\ images \in Seq(Files) /\ IsInjective(images)
        /\ \A f : In(f, images) => f = h \/ In(f, old)
        BY <2>2, <2>3, AppendKeeps
  <2>5. listing' = [listing EXCEPT !.images = images]
        BY <1>10, <2>1, <2>3
  <2>6. /\ listing' \in ListingType /\ listing'.images = images
        /\ listing'.category = listing.category /\ listing'.profile = listing.profile
        /\ listing'.options = listing.options /\ listing'.submitting = listing.submitting
        BY <1>2, <2>4, <2>5 DEF ListingType
  <2>7. PICK q : q = [c EXCEPT !.batch = rest]
        OBVIOUS
  <2>8. q \in CallType /\ q.kind = "convert" /\ q.batch = rest
        BY <1>3, <1>8, <2>7 DEF CallType, ConvertType
  <2>9. net' = net \ {c} \/ (rest # <<>> /\ net' = (net \ {c}) \cup {q})
        BY <1>8, <1>10, <2>7
  <2>10. ChoiceIsOffered'
    <3>1. \A d \in net' : d.kind = "options" => d \in net
          BY <2>8, <2>9
    <3>. QED BY <2>6, <3>1, ChoiceStays DEF SellerInv
  <2>11. \A f \in Files : In(f, images) => f <= files
    <3>1. h <= files
          BY <1>5, <1>6 DEF Fresh
    <3>2. \A f \in Files : In(f, old) => f <= files
          BY <1>2, <2>1 DEF ImagesDiffer
    <3>. QED BY <2>4, <3>1, <3>2
  <2>12. ASSUME NEW d \in net \ {c}, d.kind = "convert"
         PROVE  /\ d.batch # <<>> /\ IsInjective(d.batch)
                /\ \A f \in Files : In(f, d.batch) => /\ f <= files /\ ~In(f, images)
                                                     /\ ~In(f, rest)
    <3>1. Fresh(d.batch) /\ \A f \in Files : ~(In(f, d.batch) /\ In(f, s))
          BY <1>1, <1>2, <1>4, <2>12 DEF ImagesDiffer
    <3>2. \A f \in Files : In(f, d.batch) => f <= files /\ ~In(f, old) /\ f # h
          BY <1>6, <2>1, <3>1 DEF Fresh
    <3>. QED BY <1>8, <2>4, <3>1, <3>2 DEF Fresh
  <2>13. \A f \in Files : In(f, rest) => f <= files /\ ~In(f, images)
    <3>1. \A f \in Files : In(f, rest) => f <= files /\ ~In(f, old) /\ f # h
          BY <1>5, <1>8, <2>1 DEF Fresh
    <3>. QED BY <2>4, <3>1
  <2>14. \A d \in net' : d.kind = "convert" => Fresh(d.batch)'
    <3>. SUFFICES ASSUME NEW d \in net', d.kind = "convert" PROVE Fresh(d.batch)'
         OBVIOUS
    <3>1. CASE d \in net \ {c}
          BY <1>1, <2>6, <2>12, <3>1 DEF Fresh, In, Files
    <3>2. CASE d = q /\ rest # <<>>
          BY <1>1, <1>8, <2>6, <2>8, <2>13, <3>2 DEF Fresh, In, Files
    <3>. QED BY <2>9, <3>1, <3>2
  <2>15. \A d, e \in net' : d.kind = "convert" /\ e.kind = "convert" /\ d # e =>
             \A f \in Files : ~(In(f, d.batch) /\ In(f, e.batch))
    <3>. SUFFICES ASSUME NEW d \in net', NEW e \in net', d.kind = "convert", e.kind = "convert",
                         d # e, NEW f \in Files, In(f, d.batch), In(f, e.batch)
                  PROVE  FALSE
         OBVIOUS
    <3>1. CASE d \in net /\ e \in net
          BY <1>2, <3>1 DEF ImagesDiffer
    <3>2. CASE d = q
          BY <2>8, <2>9, <2>12, <3>2
    <3>3. CASE e = q
          BY <2>8, <2>9, <2>12, <3>3
    <3>. QED BY <2>9, <3>1, <3>2, <3>3
  <2>16. ImagesDiffer'
         BY <1>1, <2>4, <2>6, <2>11, <2>14, <2>15 DEF ImagesDiffer, In, Files
  <2>. QED BY <1>1, <1>2, <2>6, <2>8, <2>9, <2>10, <2>16, ListingStep
<1>. QED BY <1>4, <1>6, <1>7, <1>9, <1>10 DEF Converted

-----------------------------------------------------------------------------
(* The dashboard.                                                           *)

LEMMA DashboardStep ==
    ASSUME SellerInv, TurnPage \/ \E c \in net : PanelAnswer(c) \/ OrdersAnswer(c)
    PROVE  SellerInv'
<1>1. UNCHANGED <<route, wizard, listing, files, held, posted>>
      BY DEF TurnPage, PanelAnswer, OrdersAnswer
<1>2. /\ dash \in DashType /\ net \subseteq CallType /\ files <= files
      BY DEF SellerInv, SellerTypes
<1>3. acts' \in 0 .. MaxActs
  <2>1. Act \/ UNCHANGED acts
        BY DEF TurnPage, PanelAnswer, OrdersAnswer
  <2>. QED BY <2>1, ActType DEF SellerInv, SellerTypes
<1>4. /\ dash' \in DashType /\ net' \subseteq CallType
      /\ \A c \in net' : c.kind \in {"upload", "convert", "options"} => c \in net
      /\ \A c \in net : c.kind \in {"upload", "post"} => c \in net'
  <2>1. CASE TurnPage
    <3>1. PICK p \in Turns(dash.page, dash.pages) :
              /\ dash' = [dash EXCEPT !.page = p, !.orders = "loading"]
              /\ net' = net \cup {[kind |-> "orders", page |-> p]}
          BY <2>1 DEF TurnPage
    <3>2. p \in 1 .. MaxPages
          BY <1>2, SellerPagesAssumption DEF Turns, DashType
    <3>3. PICK q : q = [kind |-> "orders", page |-> p]
          OBVIOUS
    <3>4. q \in CallType /\ q.kind = "orders"
          BY <3>2, <3>3 DEF CallType, OtherType
    <3>5. net' = net \cup {q}
          BY <3>1, <3>3
    <3>6. dash' \in DashType
          BY <1>2, <3>1, <3>2 DEF DashType
    <3>. QED BY <1>2, <3>4, <3>5, <3>6
  <2>2. ASSUME NEW c \in net, PanelAnswer(c)
        PROVE  dash' \in DashType /\ net' = net \ {c} /\ c.kind = "panel"
    <3>1. PICK s \in {"ready", "gap", "error"} : dash' = [dash EXCEPT !.panels[c.of] = s]
          BY <2>2 DEF PanelAnswer
    <3>2. PICK panels : panels = [dash.panels EXCEPT ![c.of] = s]
          OBVIOUS
    <3>3. panels \in [Panels -> {"loading", "ready", "gap", "error"}]
          BY <1>2, <3>2 DEF DashType
    <3>4. dash' = [dash EXCEPT !.panels = panels]
          BY <3>1, <3>2
    <3>5. dash' \in DashType
          BY <1>2, <3>3, <3>4 DEF DashType
    <3>. QED BY <2>2, <3>5 DEF PanelAnswer
  <2>3. ASSUME NEW c \in net, OrdersAnswer(c)
        PROVE  dash' \in DashType /\ net' = net \ {c} /\ c.kind = "orders"
    <3>1. Served(c.page) \in 0 .. MaxPages
          BY SellerPagesAssumption DEF Served
    <3>2. dash' \in DashType
          BY <1>2, <2>3, <3>1 DEF OrdersAnswer, DashType
    <3>. QED BY <2>3, <3>2 DEF OrdersAnswer
  <2>4. CASE \E c \in net : PanelAnswer(c) \/ OrdersAnswer(c)
    <3>1. PICK c \in net : dash' \in DashType /\ net' = net \ {c} /\ c.kind \in {"panel", "orders"}
          BY <2>2, <2>3, <2>4
    <3>. QED BY <1>2, <3>1
  <2>. QED BY <2>1, <2>4
<1>5. SellerTypes' /\ InfoPasses'
      BY <1>1, <1>3, <1>4 DEF SellerInv, SellerTypes, InfoPasses
<1>6. SubmitIsOpen'
      BY <1>1, <1>4, SubmitStays DEF SellerInv
<1>. QED BY <1>1, <1>2, <1>4, <1>5, <1>6, QuietStep

-----------------------------------------------------------------------------
(* The first page that opens starts from the invariant.                     *)
LEMMA SellerInvInit == SellerInit => SellerInv
<1>. SUFFICES ASSUME SellerInit PROVE SellerInv
     OBVIOUS
<1>1. /\ route \in Routes /\ wizard = FreshWizard /\ listing = FreshListing
      /\ dash = FreshDash /\ net = Loads(route)
      /\ files = 0 /\ held = {} /\ posted = <<>> /\ acts = 0
      BY DEF SellerInit
<1>2. SellerTypes
      BY <1>1, FreshTypes, SellerPagesAssumption DEF SellerTypes
<1>3. /\ net \subseteq CallType
      /\ \A c \in net : c.kind \in {"panel", "orders", "options"}
      BY <1>1, LoadsTypes
<1>4. InfoPasses /\ AllPosted
      BY <1>1, EmptySeq DEF InfoPasses, FreshWizard, AllPosted
<1>5. AnsweredIsHeld /\ UploadedIsHeld /\ UploadIsOpen
  <2>1. \A k \in Kinds : wizard.docs[k].status = "empty"
        BY <1>1 DEF FreshWizard, NoDoc
  <2>. QED BY <1>3, <2>1 DEF AnsweredIsHeld, UploadedIsHeld, UploadIsOpen
<1>6. SubmitIsOpen
      BY <1>1 DEF SubmitIsOpen, FreshWizard, FreshListing
<1>7. ChoiceIsOffered
  <2>1. \A c \in net : c.kind = "options" => c.of \in Options
        BY <1>3, CallKinds DEF OptionsType
  <2>. QED BY <1>1, <2>1 DEF ChoiceIsOffered, FreshListing
<1>8. ImagesDiffer
  <2>1. listing.images = <<>> /\ Len(<<>>) = 0 /\ IsInjective(<<>>)
        BY <1>1 DEF FreshListing, IsInjective
  <2>. QED BY <1>3, <2>1 DEF ImagesDiffer, In
<1>. QED BY <1>2, <1>3, <1>4, <1>5, <1>6, <1>7, <1>8 DEF SellerInv

(* Every action keeps it.                                                   *)
LEMMA SellerInvStep == SellerInv /\ [SellerNext]_sellerVars => SellerInv'
<1>. SUFFICES ASSUME SellerInv, [SellerNext]_sellerVars PROVE SellerInv'
     OBVIOUS
<1>1. CASE Navigate
      BY <1>1, NavigateStep
<1>2. CASE GoToStep
      BY <1>2, GoToStepStep
<1>3. CASE EditForm \/ SubmitForm \/ ChooseLogo \/ RemoveLogo \/ StartConnect
      BY <1>3, BusinessStep
<1>4. ASSUME NEW k \in Kinds, DropDocument(k) \/ RemoveDocument(k) PROVE SellerInv'
      BY <1>4, DropDocumentStep, RemoveDocumentStep
<1>5. CASE SubmitWizard
      BY <1>5, SubmitWizardStep
<1>6. CASE EditListing
      BY <1>6, EditListingStep
<1>7. CASE AddFiles
      BY <1>7, AddFilesStep
<1>8. CASE MoveImage \/ RemoveImage
      BY <1>8, ReorderStep
<1>9. CASE SubmitListing
      BY <1>9, SubmitListingStep
<1>10. CASE TurnPage
       BY <1>10, DashboardStep
<1>11. ASSUME NEW c \in net,
              \/ LogoConverted(c) \/ ServeUpload(c) \/ UploadAnswer(c)
              \/ ConnectAnswer(c) \/ PostAnswer(c) \/ OptionsAnswer(c)
              \/ Converted(c) \/ PanelAnswer(c) \/ OrdersAnswer(c)
       PROVE  SellerInv'
       BY <1>11, BusinessStep, ServeUploadStep, UploadAnswerStep, ConnectAnswerStep,
          PostAnswerStep, OptionsAnswerStep, ConvertedStep, DashboardStep
<1>12. CASE UNCHANGED sellerVars
       BY <1>12 DEF sellerVars, SellerInv, SellerTypes, InfoPasses, AllPosted, AnsweredIsHeld,
          UploadedIsHeld, UploadIsOpen, Awaited, SubmitIsOpen, PostIsOpen, ChoiceIsOffered,
          ImagesDiffer, Fresh, In
<1>. QED BY <1>1, <1>2, <1>3, <1>4, <1>5, <1>6, <1>7, <1>8, <1>9, <1>10, <1>11, <1>12
         DEF SellerNext, Answers

LEMMA SellerInvHolds == SellerSpec => []SellerInv
<1>. QED BY SellerInvInit, SellerInvStep, PTL DEF SellerSpec

-----------------------------------------------------------------------------
(* The seller's pages keep their types, wait only for requests that are     *)
(* open, and never show an image twice: the whole invariant of the runs,    *)
(* for any countries, files, images, posts and pages.                       *)
THEOREM SellerPagesAreSound == SellerSpec => []SellerPagesInv
<1>1. SellerInv => SellerPagesInv
  <2>. SUFFICES ASSUME SellerInv PROVE SellerPagesInv
       OBVIOUS
  <2>1. SellerTypeOK
    <3>1. wizard \in WizardType /\ listing \in ListingType /\ dash \in DashType
          BY DEF SellerInv, SellerTypes
    <3>2. \A i \in 1 .. Len(listing.images) : listing.images[i] \in Files
          BY <3>1, ElementOfSeq DEF ListingType
    <3>. QED BY <3>1, <3>2 DEF SellerInv, SellerTypes, SellerTypeOK, WizardType, DashType, DocType, Files
  <2>2. UploadingIsPending
        BY DEF SellerInv, UploadIsOpen, Awaited, UploadingIsPending
  <2>3. SubmittingIsOpen
        BY DEF SellerInv, SubmitIsOpen, PostIsOpen, SubmittingIsOpen
  <2>4. ImagesAreDistinct
        BY DEF SellerInv, ImagesDiffer, ImagesAreDistinct
  <2>. QED BY <2>1, <2>2, <2>3, <2>4 DEF SellerPagesInv
<1>. QED BY SellerInvHolds, <1>1, PTL

(* No document is shown as uploaded that the server has not stored, in      *)
(* whatever order the answers of several files of one zone arrive.          *)
THEOREM UploadedDocumentsAreHeld == SellerSpec => []UploadedIsHeld
<1>1. SellerInv => UploadedIsHeld
      BY DEF SellerInv
<1>. QED BY SellerInvHolds, <1>1, PTL

(* Every form that is sent passed its checks: the business data is complete *)
(* and its number fits the country, a listing has different images and      *)
(* choices from options that did load.                                      *)
THEOREM SubmittedFormsAreValid == SellerSpec => []SubmittedIsValid
<1>1. SellerInv => SubmittedIsValid
  <2>. SUFFICES ASSUME SellerInv, NEW n \in 1 .. Len(posted)
                PROVE  \/ /\ posted[n].page = "onboarding"
                          /\ posted[n].info.filled
                          /\ posted[n].info.number = posted[n].info.country
                       \/ /\ posted[n].page = "listing"
                          /\ posted[n].offered = {"ready"}
                          /\ IsInjective(posted[n].images)
       BY DEF SubmittedIsValid
  <2>1. posted[n] \in OnboardingSent \cup ListingSent
        BY ElementOfSeq DEF SellerInv, AllPosted
  <2>. QED BY <2>1 DEF OnboardingSent, ListingSent, FormPasses
<1>. QED BY SellerInvHolds, <1>1, PTL
=============================================================================
