------------------------------ MODULE Checkout ------------------------------
(***************************************************************************)
(* How a cart, or a list of catalog lines, becomes an order.  CheckoutView *)
(* and OrderCreateView call checkout() and place_order(), each one         *)
(* transaction at READ COMMITTED: a SELECT sees what is committed at that  *)
(* moment, an INSERT of a unique value waits for the open transaction that *)
(* holds it, an UPDATE waits for the one that wrote the row, and nothing a *)
(* transaction wrote is seen by others before it commits.                  *)
(*                                                                         *)
(* What a transaction has written and not committed is therefore in its    *)
(* request's record; the other variables are the committed database.       *)
(***************************************************************************)
EXTENDS Integers, FiniteSets

CONSTANTS Requests,    \* the web threads serving order requests
          CheckoutKeys, PlaceKeys,  \* the Idempotency-Key headers clients
                       \* send to CheckoutView and to OrderCreateView
          Carts,       \* the carts of one user
          Baskets,     \* what a cart or a list of lines can hold
          Empty,       \* the basket of a cart without items
          NoCart,      \* in the payload of a request that names lines
          Attempts,    \* how often order.save() is tried (5 in the code)
          MaxIntents   \* bound: PaymentIntents created at Stripe

Keys == CheckoutKeys \cup PlaceKeys

ASSUME CheckoutAssumption ==
    /\ Keys # {}
    /\ Empty \in Baskets
    /\ NoCart \notin Carts
    /\ Attempts \in Nat \ {0}
    /\ MaxIntents \in Nat

VARIABLES
    cart,       \* Cart.status
    basket,     \* the CartItem rows of each cart
    orders,     \* the Order rows, each with its items and its PaymentRecord
    record,     \* the IdempotencyRecord of each view and key, or NoRecord
    intents,    \* how many PaymentIntents exist at Stripe
    request,    \* what each web thread is doing
    answers     \* history: the 201 answers

vars == <<cart, basket, orders, record, intents, request, answers>>

\* The scopes orders.checkout and orders.place.  place_order() stores its inner
\* checkout's record, of key "place:<key>", in the same transaction as its own:
\* record["place"][k] is both.
Views == {"checkout", "place"}

Payloads == [cart: Carts \cup {NoCart}, items: Baskets]

NoRecord == [payload |-> [cart |-> NoCart, items |-> Empty], number |-> 0]

Idle == [pc |-> "idle", view |-> "place", key |-> CHOOSE k \in Keys : TRUE,
         cart |-> NoCart, status |-> "active", payload |-> NoRecord.payload,
         items |-> Empty, attempt |-> 0, number |-> 0, intent |-> 0]

Init ==
    /\ cart = [c \in Carts |-> "active"]
    /\ basket \in [Carts -> Baskets]
    /\ orders = {}
    /\ record = [v \in Views |-> [k \in Keys |-> NoRecord]]
    /\ intents = 0
    /\ request = [r \in Requests |-> Idle]
    /\ answers = {}

\* Request r is at this point of its transaction.
At(r, pc) == request[r].pc = pc

\* Order.idempotency_key: the key itself, or "place:<key>".
OrderKey(r) == <<request[r].view, request[r].key>>

\* The transaction holds its order's number and key, its cart's row.
HoldsOrder(r) == request[r].pc \in {"close_cart", "pay", "store"}
HoldsCart(r) == request[r].pc \in {"pay", "store"}

\* The transaction, or the request before it, ends and leaves nothing behind.
Leave(r) == request' = [request EXCEPT ![r] = Idle]

Continue(r, next) == request' = [request EXCEPT ![r] = next]

Answer(r, number, intent) ==
    answers' = answers \cup
        {[view |-> request[r].view, key |-> request[r].key,
          payload |-> request[r].payload, number |-> number,
          secret |-> IF request[r].view = "place" THEN intent ELSE 0]}

-----------------------------------------------------------------------------
(* orders_app/views.py *)

\* CheckoutView loads the cart, and its status, before the transaction opens.
ReceiveCheckout(r, k, c) ==
    /\ At(r, "idle")
    /\ Continue(r, [Idle EXCEPT !.pc = "payload", !.view = "checkout",
                                !.key = k, !.cart = c, !.status = cart[c]])
    /\ UNCHANGED <<cart, basket, orders, record, intents, answers>>

\* OrderCreateView resolves the lines, of an active cart or as sent, and
\* answers 400 when there is none.
ReceivePlace(r, k, lines) ==
    /\ At(r, "idle")
    /\ lines # Empty
    /\ Continue(r, [Idle EXCEPT !.pc = "lookup", !.key = k, !.items = lines,
                                !.payload.items = lines])
    /\ UNCHANGED <<cart, basket, orders, record, intents, answers>>

-----------------------------------------------------------------------------
(* orders_app/services.py: checkout and place_order *)

ReadPayload(r) ==
    /\ At(r, "payload")
    /\ request' = [request EXCEPT ![r].pc = "lookup",
                                  ![r].payload.cart = request[r].cart,
                                  ![r].payload.items = basket[request[r].cart]]
    /\ UNCHANGED <<cart, basket, orders, record, intents, answers>>

\* get_cached_response: no record goes on, one of the same payload replays its
\* order, one of another payload is an IdempotencyConflict.
Lookup(r) ==
    LET found == record[request[r].view][request[r].key]
    IN  /\ At(r, "lookup")
        /\ \/ /\ found = NoRecord
              /\ request' = [request EXCEPT ![r].pc =
                               IF request[r].view = "place" THEN "inner"
                                                            ELSE "items"]
              /\ UNCHANGED answers
           \/ /\ found # NoRecord
              /\ Leave(r)
              /\ \/ /\ found.payload = request[r].payload
                    /\ \E o \in orders : /\ o.number = found.number
                                         /\ Answer(r, o.number, o.intent)
                 \/ /\ found.payload # request[r].payload
                    /\ UNCHANGED answers
        /\ UNCHANGED <<cart, basket, orders, record, intents>>

\* place_order has created a cart of its own, whose id is in the payload of the
\* inner checkout: a record found now never matches it.
LookupInner(r) ==
    /\ At(r, "inner")
    /\ IF record["place"][request[r].key] = NoRecord
         THEN request' = [request EXCEPT ![r].pc = "number"]
         ELSE Leave(r)
    /\ UNCHANGED <<cart, basket, orders, record, intents, answers>>

\* The status is the one loaded before the transaction; the items, which the
\* order will be made of, are read a second time.
ReadItems(r) ==
    LET items == basket[request[r].cart]
    IN  /\ At(r, "items")
        /\ IF request[r].status # "active" \/ items = Empty
             THEN Leave(r)
             ELSE request' = [request EXCEPT ![r].pc = "number",
                                             ![r].items = items]
        /\ UNCHANGED <<cart, basket, orders, record, intents, answers>>

Greatest(numbers) == CHOOSE n \in numbers : \A m \in numbers : m <= n

\* _next_order_number
NextOrderNumber(offset) ==
    1 + Greatest({offset} \cup {o.number : o \in orders})

\* Mutant: a retry keeps the number of the first attempt.
ReadNumberOnce(r) ==
    /\ At(r, "number")
    /\ request' = [request EXCEPT ![r].pc = "save",
                       ![r].number = IF @ = 0 THEN NextOrderNumber(0) ELSE @]
    /\ UNCHANGED <<cart, basket, orders, record, intents, answers>>

ReadNumber(r) ==
    /\ At(r, "number")
    /\ request' = [request EXCEPT ![r].pc = "save",
                       ![r].number = NextOrderNumber(request[r].attempt)]
    /\ UNCHANGED <<cart, basket, orders, record, intents, answers>>

\* A committed order has the number or the key of r's, Order's two unique
\* columns; an open transaction has it.
Collides(r) ==
    \E o \in orders : o.number = request[r].number \/ o.key = OrderKey(r)

Waits(r) ==
    \E s \in Requests \ {r} :
        /\ HoldsOrder(s)
        /\ \/ request[s].number = request[r].number
           \/ OrderKey(s) = OrderKey(r)

InsertOrder(r) ==
    /\ ~Collides(r) /\ ~Waits(r)
    /\ request' = [request EXCEPT ![r].pc = "close_cart"]

\* IntegrityError, whichever of the two columns it is about: try again.
RetryOrder(r) ==
    /\ Collides(r)
    /\ request[r].attempt + 1 < Attempts
    /\ request' = [request EXCEPT ![r].pc = "number", ![r].attempt = @ + 1]

\* The last attempt's IntegrityError is raised.
GiveUp(r) ==
    /\ At(r, "save")
    /\ Collides(r)
    /\ request[r].attempt + 1 = Attempts
    /\ Leave(r)

\* Mutants: idempotency_key is not unique; the retry is not bounded.
SaveOrderAnyKey(r) ==
    /\ At(r, "save")
    /\ \A o \in orders : o.number # request[r].number
    /\ request' = [request EXCEPT ![r].pc = "close_cart"]
    /\ UNCHANGED <<cart, basket, orders, record, intents, answers>>

SaveOrderForever(r) ==
    /\ At(r, "save")
    /\ \/ InsertOrder(r)
       \/ Collides(r) /\ request' = [request EXCEPT ![r].pc = "number"]
    /\ UNCHANGED <<cart, basket, orders, record, intents, answers>>

SaveOrder(r) ==
    /\ At(r, "save")
    /\ InsertOrder(r) \/ RetryOrder(r) \/ GiveUp(r)
    /\ UNCHANGED <<cart, basket, orders, record, intents, answers>>

OrderRow(r) == [number |-> request[r].number, key |-> OrderKey(r),
                items |-> request[r].items, intent |-> request[r].intent]

\* Mutant: without transaction.atomic the order row commits by itself.
CloseCartAutocommit(r) ==
    /\ At(r, "close_cart")
    /\ orders' = orders \cup {OrderRow(r)}
    /\ request' = [request EXCEPT ![r].pc = "pay"]
    /\ UNCHANGED <<cart, basket, record, intents, answers>>

\* cart.save(): whatever the row's status is by now.  place_order's own cart is
\* nobody else's.
CloseCart(r) ==
    /\ At(r, "close_cart")
    /\ \A s \in Requests \ {r} :
          HoldsCart(s) => request[s].cart = NoCart
                            \/ request[s].cart # request[r].cart
    /\ request' = [request EXCEPT ![r].pc = "pay"]
    /\ UNCHANGED <<cart, basket, orders, record, intents, answers>>

\* PaymentsNotConfigured leaves the order without an intent.
CreatePaymentIntent(r) ==
    /\ At(r, "pay")
    /\ \/ /\ intents < MaxIntents
          /\ intents' = intents + 1
          /\ request' = [request EXCEPT ![r].pc = "store",
                                        ![r].intent = intents + 1]
       \/ /\ UNCHANGED intents
          /\ request' = [request EXCEPT ![r].pc = "store"]
    /\ UNCHANGED <<cart, basket, orders, record, answers>>

\* store_response, and the commit of all the transaction wrote.
StoreResponse(r) ==
    LET row == OrderRow(r)
        c == request[r].cart
    IN  /\ At(r, "store")
        /\ orders' = orders \cup {row}
        /\ cart' = [d \in Carts |-> IF d = c THEN "checked_out" ELSE cart[d]]
        /\ record' = [record EXCEPT ![request[r].view][request[r].key] =
                         [payload |-> request[r].payload, number |-> row.number]]
        /\ Answer(r, row.number, row.intent)
        /\ Leave(r)
        /\ UNCHANGED <<basket, intents>>

\* A refusal (no price, no tax rate), an error of Stripe or of the database, or
\* the loss of the process: the transaction is rolled back, Stripe's intent
\* stays.
Rollback(r) ==
    /\ ~At(r, "idle")
    /\ Leave(r)
    /\ UNCHANGED <<cart, basket, orders, record, intents, answers>>

\* A write of the cart API.  Its requests look for an active cart and write the
\* items by a later statement, so one may reach a cart that was checked out.
EditCart(c, b) ==
    /\ b # basket[c]
    /\ basket' = [basket EXCEPT ![c] = b]
    /\ UNCHANGED <<cart, orders, record, intents, request, answers>>

-----------------------------------------------------------------------------

Step(r) ==
    \/ ReadPayload(r) \/ Lookup(r) \/ LookupInner(r) \/ ReadItems(r)
    \/ ReadNumber(r) \/ SaveOrder(r) \/ CloseCart(r)
    \/ CreatePaymentIntent(r) \/ StoreResponse(r)

Next ==
    \/ \E r \in Requests :
        \/ Step(r) \/ Rollback(r)
        \/ \E k \in CheckoutKeys, c \in Carts : ReceiveCheckout(r, k, c)
        \/ \E k \in PlaceKeys, b \in Baskets : ReceivePlace(r, k, b)
    \/ \E c \in Carts, b \in Baskets : EditCart(c, b)

Spec == Init /\ [][Next]_vars

\* A rollback no step of the code makes.
Loss == \E r \in Requests : Rollback(r) /\ ~Step(r)

\* Threads run, and at some point nothing is lost any more.
FairSpec ==
    /\ Spec
    /\ \A r \in Requests : WF_vars(Step(r))
    /\ <>[][~Loss]_vars

-----------------------------------------------------------------------------

OrderRows == [number: Nat \ {0}, key: Views \X Keys, items: Baskets \ {Empty},
              intent: 0..MaxIntents]

RequestStates ==
    [pc: {"idle", "payload", "lookup", "inner", "items", "number", "save",
          "close_cart", "pay", "store"},
     view: Views, key: Keys, cart: Carts \cup {NoCart},
     status: {"active", "checked_out"}, payload: Payloads, items: Baskets,
     attempt: 0..(Attempts - 1), number: Nat, intent: 0..MaxIntents]

\* The type of every variable.
TypeOK ==
    /\ cart \in [Carts -> {"active", "checked_out"}]
    /\ basket \in [Carts -> Baskets]
    /\ orders \subseteq OrderRows
    /\ record \in [Views -> [Keys -> [payload: Payloads, number: Nat]]]
    /\ intents \in 0..MaxIntents
    /\ request \in [Requests -> RequestStates]
    /\ answers \subseteq [view: Views, key: Keys, payload: Payloads,
                          number: Nat \ {0}, secret: 0..MaxIntents]

\* core/idempotency.py:7-9: however requests race, die and are retried, the
\* clients of one key are only ever told of one order, and only those who sent
\* the payload it was stored for.
AnswersAgree ==
    \A a, b \in answers :
        a.view = b.view /\ a.key = b.key
            => a.payload = b.payload /\ a.number = b.number

\* No client is told of an order that is not committed, or given the secret of
\* an intent that its order's PaymentRecord does not carry.
AnswerIsBacked ==
    \A a \in answers : \E o \in orders :
        /\ o.number = a.number
        /\ o.key = <<a.view, a.key>>
        /\ a.secret \in {0, o.intent}

\* An order, its idempotency record and its cart's status are there together or
\* not at all, so a retry after any crash finds either nothing or an answer.
OrderIsWhole ==
    /\ \A o \in orders : record[o.key[1]][o.key[2]].number = o.number
    /\ \A v \in Views, k \in Keys : record[v][k] # NoRecord =>
          \E o \in orders : o.key = <<v, k>>
    /\ \A c \in Carts : cart[c] = "checked_out" <=>
          \E k \in Keys : record["checkout"][k].payload.cart = c

\* services.py:28-31, "race-safe": order.save() gives up only on a key that is
\* taken, or when as many orders as it has attempts have been placed.
RetriesSuffice ==
    [][\A r \in Requests : GiveUp(r) =>
          \/ \E o \in orders : o.key = OrderKey(r)
          \/ Cardinality(orders) >= Attempts]_vars

\* Every request is answered: no two transactions wait for each other's order
\* number, key or cart, and no retry goes on for ever.
Answered == \A r \in Requests : ~At(r, "idle") ~> At(r, "idle")
=============================================================================
