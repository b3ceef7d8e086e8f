---------------------------- MODULE CheckoutPage ----------------------------
(***************************************************************************)
(* The checkout page of one browser tab: the steps address, delivery,      *)
(* payment and review over one context (checkout-provider.tsx), the        *)
(* requests each step sends, and their answers, which may come after the   *)
(* step that asked is gone.  The server's side of POST /orders/ is module  *)
(* Checkout: here it keeps one order per Idempotency-Key.                  *)
(*                                                                         *)
(* An address is its country and whether its fields pass the schema; what  *)
(* the cart holds is a member of Baskets; prices and wording are left out. *)
(***************************************************************************)
EXTENDS Integers, FiniteSets

CONSTANTS
    Countries,  \* CHECKOUT_COUNTRIES
    Home,       \* the country of an empty form, "LT"
    Baskets,    \* what the cart may hold
    Empty,      \* an empty cart
    VatIds,     \* VAT ids a buyer may type that pass the format check
    NoVat,      \* an empty VAT field
    MaxOrders,  \* bound: POST /orders/ requests between two page loads
    MaxActs     \* bound: edits of a field or the cart, steps back and reloads

ASSUME CheckoutPageAssumption ==
    /\ Home \in Countries
    /\ Empty \notin Baskets
    /\ NoVat \notin VatIds
    /\ MaxOrders \in Nat /\ MaxActs \in Nat

VARIABLES
    page,       \* "checkout" or "success"
    basket,     \* the items of the cart store
    flow,       \* the context of CheckoutProvider
    ui,         \* the state of the components of the step that is shown
    net,        \* open requests
    check,      \* handleContinue of the payment step, while it awaits
                \*   (bound: one at a time)
    confirming, \* confirmPayment is open
    recovery,   \* the snapshot in sessionStorage
    placed,     \* the server's orders, by idempotency key
    sent,       \* POST /orders/ requests sent since the page was loaded
    acts        \* for the bound MaxActs

pageVars == <<page, basket, flow, ui, net, check, confirming, recovery, placed,
              sent, acts>>

-----------------------------------------------------------------------------
Steps == {"address", "delivery", "payment", "review"}
Lockers == {"dpd_locker", "omniva_locker"}      \* methods, and carriers
Methods == {"courier"} \cup Lockers
None == "none"

Address == [country : Countries, filled : BOOLEAN]
NoAddress == [country |-> None, filled |-> FALSE]
Locker == [carrier : Lockers, country : Countries]
NoLocker == [carrier |-> None, country |-> None]

(* What createOrder sends.                                                  *)
Payload == [basket : Baskets, address : Address, method : Methods,
            locker : Locker \cup {NoLocker}, vat : VatIds \cup {NoVat}]
NoOrderYet == [basket |-> Empty]

(* address?.country ?? "LT".                                                *)
CountryOf(f) == IF f.address = NoAddress THEN Home ELSE f.address.country

(* The steps a locker carrier needs, and the guard of Continue.             *)
NeedsLocker(method) == method \in Lockers
CanContinue(f) ==
    /\ f.method # None
    /\ NeedsLocker(f.method) => f.locker # NoLocker

(* useState(mintIdempotencyKey): one key for as long as the page lives.     *)
KeyOfCall(n) == n
KeyOf(n) == 1

-----------------------------------------------------------------------------
(* The components of a step when it mounts.  The address form starts from   *)
(* the address of the context, the delivery step asks for its options and   *)
(* lockers, the payment phase for an order.                                 *)

FormOf(f) == [country |-> CountryOf(f), filled |-> f.address.filled]

NoForm == [country |-> Home, filled |-> FALSE]

FreshUi(step, f) ==
    [form |-> IF step = "address" THEN FormOf(f) ELSE NoForm,
     options |-> IF step = "delivery" THEN "loading" ELSE "idle",
     lockers |-> NoLocker,
     lockersState |-> IF step = "delivery" /\ NeedsLocker(f.method)
                      THEN "loading" ELSE "idle",
     prepare |-> IF step \notin {"payment", "review"} THEN "idle"
                 ELSE IF f.order # NoOrderYet THEN "ready" ELSE "loading",
     started |-> FALSE, submitting |-> FALSE, placing |-> FALSE]

OptionsCall(f) == [kind |-> "options", country |-> CountryOf(f), live |-> TRUE]

LockersCall(f) ==
    IF NeedsLocker(f.method)
    THEN {[kind |-> "lockers", carrier |-> f.method, country |-> CountryOf(f)]}
    ELSE {}

OrderCall(f, items) ==
    [kind |-> "order", n |-> sent + 1, live |-> TRUE, answer |-> None,
     payload |-> [basket |-> items, address |-> f.address,
                  method |-> f.method, locker |-> f.locker, vat |-> f.vat]]

(* The cleanup of the locker effect: its request is dropped.                *)
NotCancelled(calls) == calls
Cancelled(calls) == {r \in calls : r.kind # "lockers"}

(* Unmounting: the other requests go on, with nobody to show their state to.*)
Unmount(calls) ==
    {IF r.kind = "lockers" THEN r ELSE [r EXCEPT !.live = FALSE]
        : r \in Cancelled(calls)}

(* The effect of PaymentPhase: no order yet, none being asked for by this   *)
(* mount, and both choices made.                                            *)
Prepares(f, u, items) ==
    /\ f.step \in {"payment", "review"}
    /\ items # Empty
    /\ f.order = NoOrderYet
    /\ ~u.started
    /\ f.address # NoAddress
    /\ f.method # None

(* The step that f shows is mounted anew, over the open requests `calls`.   *)
Show(f, items, calls) ==
    LET u == FreshUi(f.step, f) IN
    /\ flow' = f
    /\ IF items = Empty
       THEN /\ ui' = FreshUi(None, f)
            /\ net' = calls
            /\ UNCHANGED sent
       ELSE IF f.step = "delivery"
       THEN /\ ui' = u
            /\ net' = calls \cup {OptionsCall(f)} \cup LockersCall(f)
            /\ UNCHANGED sent
       ELSE IF Prepares(f, u, items)
       THEN /\ sent < MaxOrders
            /\ ui' = [u EXCEPT !.started = TRUE]
            /\ net' = calls \cup {OrderCall(f, items)}
            /\ sent' = sent + 1
       ELSE /\ ui' = u
            /\ net' = calls
            /\ UNCHANGED sent

(* goToStep.  Payment and review are one PaymentPhase: going from one to    *)
(* the other keeps it mounted.                                              *)
GoTo(step) ==
    LET f == [flow EXCEPT !.step = step] IN
    IF {step, flow.step} \subseteq {"payment", "review"} /\ basket # Empty
    THEN /\ flow' = f
         /\ ui' = [ui EXCEPT !.submitting = FALSE, !.placing = FALSE]
         /\ UNCHANGED <<net, sent>>
    ELSE Show(f, basket, Unmount(net))

Shown(step) == page = "checkout" /\ basket # Empty /\ flow.step = step

Act ==
    /\ acts < MaxActs
    /\ acts' = acts + 1

(* writeRecovery: whenever the method or the address changes.               *)
Remember(f) ==
    recovery' = IF f.method # None /\ f.address # NoAddress
                THEN [method |-> f.method, country |-> f.address.country]
                ELSE recovery

NoRecovery == [method |-> None, country |-> None]

-----------------------------------------------------------------------------
(* The address step.                                                        *)

(* Typing: the country, or a field that makes the form pass or fail the     *)
(* schema and the postal pattern of its country.                            *)
EditAddress ==
    /\ Shown("address")
    /\ Act
    /\ \E c \in Countries, ok \in BOOLEAN :
          ui' = [ui EXCEPT !.form = [country |-> c, filled |-> ok]]
    /\ UNCHANGED <<page, basket, flow, net, check, confirming, recovery, placed,
                   sent>>

(* handleSubmit: only an address that passes is stored.                     *)
SubmitAddress ==
    LET f == [flow EXCEPT !.address = ui.form, !.step = "delivery"] IN
    /\ Shown("address")
    /\ ui.form.filled
    /\ Show(f, basket, Unmount(net))
    /\ Remember(f)
    /\ UNCHANGED <<page, basket, check, confirming, placed, acts>>

-----------------------------------------------------------------------------
(* The delivery step.                                                       *)

SetMethod(f, m) == [f EXCEPT !.method = m, !.locker = NoLocker]

(* The radio of a method that is not chosen yet: the locker is reset, and   *)
(* the effect asks for the carrier's lockers and drops the request before.  *)
ChooseMethod(m) ==
    LET f == SetMethod(flow, m) IN
    /\ Shown("delivery")
    /\ ui.options = "ready"
    /\ m # flow.method
    /\ flow' = f
    /\ Remember(f)
    /\ net' = Cancelled(net) \cup LockersCall(f)
    /\ ui' = [ui EXCEPT !.lockersState = IF NeedsLocker(m) THEN "loading"
                                                           ELSE "idle"]
    /\ UNCHANGED <<page, basket, check, confirming, placed, sent, acts>>

ChooseLocker ==
    /\ Shown("delivery")
    /\ NeedsLocker(flow.method)
    /\ ui.lockersState = "ready"
    /\ ui.lockers # NoLocker
    /\ flow.locker # ui.lockers
    /\ flow' = [flow EXCEPT !.locker = ui.lockers]
    /\ UNCHANGED <<page, basket, ui, net, check, confirming, recovery, placed,
                   sent, acts>>

RetryOptions ==
    /\ Shown("delivery")
    /\ ui.options = "error"
    /\ ui' = [ui EXCEPT !.options = "loading"]
    /\ net' = net \cup {OptionsCall(flow)}
    /\ UNCHANGED <<page, basket, flow, check, confirming, recovery, placed,
                   sent, acts>>

(* Continue; with the options pending there is no button.  (Back: StepBack) *)
LeaveDelivery ==
    /\ Shown("delivery")
    /\ ui.options # "contract-pending"
    /\ CanContinue(flow)
    /\ GoTo("payment")
    /\ UNCHANGED <<page, basket, check, confirming, recovery, placed, acts>>

(* The options arrive: setShippingOptions is of the context, so they are    *)
(* kept even when the step that asked is gone; its state is not.            *)
OptionsAnswer(r) ==
    /\ r \in net /\ r.kind = "options"
    /\ net' = net \ {r}
    /\ \E state \in {"ready", "contract-pending", "error"} :
          /\ flow' = IF state = "ready" THEN [flow EXCEPT !.options = r.country]
                                        ELSE flow
          /\ ui' = IF r.live THEN [ui EXCEPT !.options = state] ELSE ui
    /\ UNCHANGED <<page, basket, check, confirming, recovery, placed, sent, acts>>

LockersShown(r) == [carrier |-> r.carrier, country |-> r.country]

LockersAnswer(r) ==
    /\ r \in net /\ r.kind = "lockers"
    /\ net' = net \ {r}
    /\ \/ ui' = [ui EXCEPT !.lockers = LockersShown(r), !.lockersState = "ready"]
       \/ ui' = [ui EXCEPT !.lockersState = "error"]
    /\ UNCHANGED <<page, basket, flow, check, confirming, recovery, placed,
                   sent, acts>>

-----------------------------------------------------------------------------
(* The payment phase.                                                       *)

(* POST /orders/ at the server: one order per key, replayed for the same    *)
(* request and refused for another one.                                     *)
ServeOrder(r) ==
    LET k == KeyOf(r.n)
        Answered(a) == net' = (net \ {r}) \cup {[r EXCEPT !.answer = a]} IN
    /\ r \in net /\ r.kind = "order" /\ r.answer = None
    /\ \/ /\ placed[k] = NoOrderYet
          /\ placed' = [placed EXCEPT ![k] = r.payload]
          /\ Answered("created")
       \/ /\ placed[k] = r.payload
          /\ Answered("created")
          /\ UNCHANGED placed
       \/ /\ Answered("failed")
          /\ UNCHANGED placed
    /\ UNCHANGED <<page, basket, flow, ui, check, confirming, recovery, sent, acts>>

(* The then and the catch of the effect; an answer may be lost on its way.  *)
(* The order goes to the context whether or not the phase is still shown.   *)
OrderCreated(r) ==
    /\ r \in net /\ r.kind = "order" /\ r.answer = "created"
    /\ net' = net \ {r}
    /\ flow' = [flow EXCEPT !.order = placed[KeyOf(r.n)]]
    /\ ui' = IF r.live THEN [ui EXCEPT !.prepare = "ready"] ELSE ui
    /\ UNCHANGED <<page, basket, check, confirming, recovery, placed, sent, acts>>

OrderFailed(r) ==
    /\ r \in net /\ r.kind = "order" /\ r.answer # None
    /\ net' = net \ {r}
    /\ \E state \in {"error", "contract-pending"} :
          ui' = IF r.live THEN [ui EXCEPT !.prepare = state, !.started = FALSE]
                          ELSE ui
    /\ UNCHANGED <<page, basket, flow, check, confirming, recovery, placed, sent, acts>>

PaymentShownEarly == Shown("payment")
PaymentShown == Shown("payment") /\ flow.order # NoOrderYet

(* The VAT field is open at all times, while its check runs too.            *)
EditVat ==
    /\ PaymentShown
    /\ Act
    /\ \E v \in (VatIds \cup {NoVat}) \ {flow.vat} :
          flow' = [flow EXCEPT !.vat = v, !.vatStatus = "idle"]
    /\ UNCHANGED <<page, basket, ui, net, check, confirming, recovery, placed,
                   sent>>

NoCheck == [phase |-> None, vat |-> NoVat, live |-> FALSE]

(* handleContinue up to its first await; the VAT id it will check is the    *)
(* one of the render the button belongs to.                                 *)
Continue ==
    /\ PaymentShown
    /\ ~ui.submitting
    /\ check = NoCheck
    /\ ui' = [ui EXCEPT !.submitting = TRUE]
    /\ check' = [phase |-> "submit", vat |-> flow.vat, live |-> TRUE]
    /\ UNCHANGED <<page, basket, flow, net, confirming, recovery, placed, sent, acts>>

(* The finally of handleContinue.                                           *)
EndCheck ==
    /\ check' = NoCheck
    /\ ui' = IF check.live THEN [ui EXCEPT !.submitting = FALSE] ELSE ui

(* The end of handleContinue: the review step, wherever the buyer is now.   *)
ToReview(f) ==
    LET g == [f EXCEPT !.step = "review"] IN
    /\ check' = NoCheck
    /\ IF f.step \in {"payment", "review"} /\ basket # Empty
       THEN /\ flow' = g
            /\ ui' = [ui EXCEPT !.submitting = FALSE]
            /\ UNCHANGED <<net, sent>>
       ELSE Show(g, basket, Unmount(net))

(* elements.submit() answers.                                               *)
FieldsRefused ==
    /\ check.phase = "submit"
    /\ EndCheck
    /\ UNCHANGED <<page, basket, flow, net, confirming, recovery, placed, sent, acts>>

FieldsAccepted ==
    /\ check.phase = "submit"
    /\ \/ /\ check.vat = NoVat
          /\ ToReview([flow EXCEPT !.vatStatus = "idle"])
       \/ /\ check.vat # NoVat
          /\ check' = [check EXCEPT !.phase = "vat"]
          /\ flow' = [flow EXCEPT !.vatStatus = "checking"]
          /\ UNCHANGED <<ui, net, sent>>
       \/ /\ check.vat # NoVat          \* vatIdFormatValid of the country
          /\ EndCheck
          /\ flow' = [flow EXCEPT !.vatStatus = "invalid"]
          /\ UNCHANGED <<net, sent>>
    /\ UNCHANGED <<page, basket, confirming, recovery, placed, acts>>

(* checkVatId after its await: valid, refused or failed, and the endpoint   *)
(* that does not exist yet, which lets the buyer pass.                      *)
StatusOf(answer) ==
    CASE answer = "valid" -> "valid"
      [] answer = "pending" -> "idle"
      [] OTHER -> "invalid"

VatAnswer ==
    /\ check.phase = "vat"
    /\ \E answer \in {"valid", "pending", "invalid"} :
          LET f == [flow EXCEPT !.vatStatus = StatusOf(answer)] IN
          /\ IF answer = "invalid"
             THEN /\ EndCheck
                  /\ flow' = f
                  /\ UNCHANGED <<net, sent>>
             ELSE ToReview(f)
    /\ UNCHANGED <<page, basket, confirming, recovery, placed, acts>>

-----------------------------------------------------------------------------
(* The review step and the stepper.                                         *)

(* A chrome that unmounts leaves its handler running.                       *)
LeaveCheck == check' = [check EXCEPT !.live = FALSE]

(* The stepper: every step before the one that is shown; the Back buttons   *)
(* are among them, and only those are disabled while the payment confirms.  *)
Index(step) == CASE step = "address" -> 1 [] step = "delivery" -> 2
                 [] step = "payment" -> 3 [] OTHER -> 4

StepBack ==
    /\ Shown(flow.step)
    /\ flow.step # "address"
    /\ Act
    /\ \E step \in Steps : Index(step) < Index(flow.step) /\ GoTo(step)
    /\ LeaveCheck
    /\ UNCHANGED <<page, basket, confirming, recovery, placed>>

AcceptTerms ==
    /\ Shown("review")
    /\ flow.order # NoOrderYet
    /\ flow' = [flow EXCEPT !.terms = ~flow.terms]
    /\ UNCHANGED <<page, basket, ui, net, check, confirming, recovery, placed,
                   sent, acts>>

(* handlePlaceOrder up to confirmPayment.                                   *)
MayPlace == flow.terms /\ ~ui.placing /\ flow.order # NoOrderYet

PlaceOrder ==
    /\ Shown("review")
    /\ MayPlace
    /\ confirming = NoOrderYet
    /\ ui' = [ui EXCEPT !.placing = TRUE]
    /\ confirming' = flow.order
    /\ UNCHANGED <<page, basket, flow, net, check, recovery, placed, sent, acts>>

(* confirmPayment fails, or the browser is redirected to the success page,  *)
(* which empties the cart and drops the snapshot.                           *)
PaymentRefused ==
    /\ confirming # NoOrderYet
    /\ confirming' = NoOrderYet
    /\ ui' = [ui EXCEPT !.placing = FALSE]
    /\ UNCHANGED <<page, basket, flow, net, check, recovery, placed, sent, acts>>

Redirected ==
    /\ confirming # NoOrderYet
    /\ page' = "success"
    /\ basket' = Empty
    /\ recovery' = NoRecovery
    /\ net' = {} /\ check' = NoCheck
    /\ UNCHANGED <<flow, ui, confirming, placed, sent, acts>>

-----------------------------------------------------------------------------
(* The cart drawer and the browser.                                         *)

(* FlowBody shows its steps only over a cart that is not empty; a change of *)
(* the items runs the effect of the payment phase again.                    *)
EditBasket ==
    /\ page = "checkout"
    /\ Act
    /\ \E items \in (Baskets \cup {Empty}) \ {basket} :
          /\ basket' = items
          /\ IF items = Empty
             THEN Show(flow, Empty, Unmount(net)) /\ LeaveCheck
             ELSE /\ UNCHANGED check
                  /\ IF basket = Empty
                     THEN Show(flow, items, net)
                     ELSE IF Prepares(flow, ui, items)
                     THEN /\ sent < MaxOrders
                          /\ sent' = sent + 1
                          /\ net' = net \cup {OrderCall(flow, items)}
                          /\ ui' = [ui EXCEPT !.started = TRUE]
                          /\ UNCHANGED flow
                     ELSE UNCHANGED <<flow, ui, net, sent>>
    /\ UNCHANGED <<page, confirming, recovery, placed>>

NewFlow(r) ==
    [step |-> "address", method |-> r.method,
     address |-> IF r = NoRecovery THEN NoAddress
                 ELSE [country |-> r.country, filled |-> FALSE],
     locker |-> NoLocker, options |-> None, vat |-> NoVat, vatStatus |-> "idle",
     terms |-> FALSE, order |-> NoOrderYet]

NothingPlaced == [n \in 1 .. MaxOrders |-> NoOrderYet]

(* A reload: a new context with a new key.  The effect restores the         *)
(* snapshot after the form has taken its first, empty, address.             *)
Reload ==
    /\ page = "checkout"
    /\ Act
    /\ flow' = NewFlow(recovery)
    /\ ui' = FreshUi("address", NewFlow(NoRecovery))
    /\ net' = {} /\ check' = NoCheck /\ confirming' = NoOrderYet
    /\ placed' = NothingPlaced /\ sent' = 0
    /\ UNCHANGED <<page, basket, recovery>>

CheckoutPageInit ==
    /\ page = "checkout"
    /\ basket \in Baskets
    /\ flow = NewFlow(NoRecovery)
    /\ ui = FreshUi("address", flow)
    /\ net = {} /\ check = NoCheck /\ confirming = NoOrderYet
    /\ recovery = NoRecovery
    /\ placed = NothingPlaced /\ sent = 0 /\ acts = 0

Answers ==
    \E r \in net : \/ OptionsAnswer(r) \/ LockersAnswer(r) \/ ServeOrder(r)
                   \/ OrderCreated(r) \/ OrderFailed(r)

CheckoutPageNext ==
    \/ EditAddress \/ SubmitAddress
    \/ \E m \in Methods : ChooseMethod(m)
    \/ ChooseLocker \/ RetryOptions \/ LeaveDelivery
    \/ Answers
    \/ EditVat \/ Continue \/ FieldsRefused \/ FieldsAccepted \/ VatAnswer
    \/ StepBack \/ AcceptTerms \/ PlaceOrder \/ PaymentRefused \/ Redirected
    \/ EditBasket \/ Reload

CheckoutPageSpec == CheckoutPageInit /\ [][CheckoutPageNext]_pageVars

-----------------------------------------------------------------------------
Flow == [step : Steps, method : Methods \cup {None},
         address : Address \cup {NoAddress}, locker : Locker \cup {NoLocker},
         options : Countries \cup {None}, vat : VatIds \cup {NoVat},
         vatStatus : {"idle", "checking", "valid", "invalid"},
         terms : BOOLEAN, order : Payload \cup {NoOrderYet}]

(* The types of the state; no more orders are asked for than the bound.     *)
CheckoutPageTypeOK ==
    /\ page \in {"checkout", "success"}
    /\ basket \in Baskets \cup {Empty}
    /\ flow \in Flow
    /\ ui.form.country \in Countries
    /\ \A r \in net : r.kind # "order" => r.country \in Countries
    /\ \A n \in 1 .. MaxOrders : placed[n] \in Payload \cup {NoOrderYet}
    /\ confirming \in Payload \cup {NoOrderYet}
    /\ sent \in 0 .. MaxOrders
    /\ acts \in 0 .. MaxActs

(* However often the payment phase mounts, fails and asks again, the server *)
(* keeps at most one order between two page loads.                          *)
OneOrderPerVisit ==
    \A n, k \in 1 .. MaxOrders :
        placed[n] # NoOrderYet /\ placed[k] # NoOrderYet => n = k

(* An order goes out only with an address that passed the schema, a method  *)
(* and, for a locker carrier, a locker of that same carrier, in whatever    *)
(* order the buyer goes back, changes and continues.                        *)
OrderIsComplete ==
    \A n \in 1 .. MaxOrders :
        LET p == placed[n] IN
        p # NoOrderYet =>
            /\ p.address.filled
            /\ NeedsLocker(p.method) => p.locker.carrier = p.method

(* The lockers on offer are those of the method and country chosen now: the *)
(* answer for a choice since dropped is not shown.                          *)
LockersFollow ==
    Shown("delivery") /\ NeedsLocker(flow.method) /\ ui.lockersState = "ready"
        => ui.lockers = [carrier |-> flow.method, country |-> CountryOf(flow)]

(* "review is unreachable without a created order" (review-step.tsx): not   *)
(* even a check that ends after the buyer left brings the page there.       *)
ReviewHasOrder == flow.step = "review" => flow.order # NoOrderYet

(* While the payment phase says it is preparing the payment, a request of   *)
(* this mount is open or the order has come.                                *)
LoadingIsPending ==
    ui.prepare = "loading" =>
        \/ flow.order # NoOrderYet
        \/ \E r \in net : r.kind = "order" /\ r.live

(* Once an order is shown for payment no later answer, of another mount of  *)
(* the phase, puts another one in its place under the card fields.          *)
OrderIsStable ==
    [][flow.order # NoOrderYet => flow'.order \in {flow.order, NoOrderYet}]_pageVars

=============================================================================
