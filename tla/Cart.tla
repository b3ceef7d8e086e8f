-------------------------------- MODULE Cart --------------------------------
(***************************************************************************)
(* The cart of one browser tab and the cart the server keeps for the       *)
(* account.  The tab holds a zustand store (stores/cart-store.ts) that     *)
(* every click changes at once; when the page believes it has a session    *)
(* the hooks of use-cart.ts also send a request, and its answer confirms   *)
(* the change or rolls it back.  Each request is several steps: it is      *)
(* sent, served (the handlers of cart_views.py add to a line by reading it *)
(* and saving it), answered, and the answer is handled.                    *)
(*                                                                         *)
(* Prices, titles and announcements are left out.  maxStock is left out:   *)
(* no caller passes it and the server does not send it.                    *)
(***************************************************************************)
EXTENDS Integers, FiniteSets

CONSTANTS
    Products,   \* listings that can be put in the cart
    Calls,      \* requests that can be open at once
    Cap,        \* MAX_LINE_QUANTITY, the most of a listing the server accepts
    MaxLines,   \* bound: lines the server creates for one listing
    MaxActs     \* bound: what the user does and the session goes through

ASSUME CartAssumption ==
    /\ Products # {}
    /\ Cap \in Nat \ {0}
    /\ MaxLines \in Nat \ {0}
    /\ MaxActs \in Nat

VARIABLES
    store,      \* the zustand store
    buttons,    \* the add-to-cart button of each listing
    cookie,     \* the session cookie is valid
    known,      \* useIsAuthenticated: the page believes in a session
    calls,      \* the open requests
    cart,       \* the ACTIVE cart of the account
    made,       \* how many lines the server created for each listing
    acts,       \* how much happened, for the bound MaxActs
    doubt       \* since the page was loaded a change was made while a request
                \* was open, or an answer was lost or kept as pending

vars == <<store, buttons, cookie, known, calls, cart, made, acts, doubt>>

-----------------------------------------------------------------------------
(* A line of the store has a quantity (0: no line) and the id of the line   *)
(* of the server, once known (0: not known).  The server caps a line at     *)
(* Cap; the store does not, so that a line of it may be one larger: the     *)
(* bound Cap + 1 on a click is enough to see what the server refuses.       *)

NoLine == [quantity |-> 0, id |-> 0]
Line == [quantity : 0..(Cap + 1), id : 0..MaxLines]
Lines == [Products -> Line]
NoLines == [p \in Products |-> NoLine]

(* previousItems of the store is null unless a change is unconfirmed.       *)
NoSnapshot == [p \in {} |-> NoLine]

Clamp(q) == IF q < 1 THEN 1 ELSE q
Capped(q) == IF q > Cap THEN Cap ELSE q
Holds(lines, p) == lines[p].quantity > 0

Change(s, lines) == [s EXCEPT !.previous = s.items, !.items = lines]

(* addItem spreads the product over the line, which has no server id then.  *)
AddItem(s, p) ==
    Change(s, [s.items EXCEPT
                  ![p] = [quantity |-> Clamp(@.quantity + 1), id |-> 0]])

RemoveItem(s, p) == Change(s, [s.items EXCEPT ![p] = NoLine])

UpdateQuantity(s, p, q) ==
    IF Holds(s.items, p)
    THEN Change(s, [s.items EXCEPT ![p].quantity = Clamp(q)])
    ELSE s

ClearCart(s) == [items |-> NoLines, previous |-> NoSnapshot, synced |-> FALSE]

(* The lines of the server win, the lines it does not have are kept.        *)
MergeServerCart(local, server) ==
    [p \in Products |-> IF Holds(server, p) THEN server[p] ELSE local[p]]

ApplyServerCart(s, server) ==
    [s EXCEPT !.items = MergeServerCart(@, server), !.synced = TRUE]

ConfirmNothing(s) == s
Confirm(s) == [s EXCEPT !.previous = NoSnapshot]

Rollback(s) ==
    IF s.previous = NoSnapshot
    THEN s
    ELSE [s EXCEPT !.items = s.previous, !.previous = NoSnapshot]

ConfirmServerLineIdOnly(s, p, id, q) ==
    IF Holds(s.items, p) THEN [s EXCEPT !.items[p].id = id] ELSE s

ConfirmServerLine(s, p, id, q) ==
    IF Holds(s.items, p)
    THEN [s EXCEPT !.items[p] = [quantity |-> q, id |-> id]]
    ELSE s

(* localStorage holds the quantities of the store, not the ids.             *)
Rehydrated(s) ==
    [ClearCart(s) EXCEPT
        !.items = [p \in Products |->
                      IF Holds(s.items, p)
                      THEN [quantity |-> Clamp(s.items[p].quantity), id |-> 0]
                      ELSE NoLine]]

-----------------------------------------------------------------------------
(* A request: what it asks for (asked), the line it names (id), and on the   *)
(* server the lines still to merge (todo), the one being merged (product,   *)
(* copy) and what is answered (got).  It is "sent", "merging" while the     *)
(* server adds to a line, "fetch" while a sync asks for the cart, then      *)
(* "answered".  button: the add-to-cart button that sent it is mounted;     *)
(* live: the page that sent it is.                                          *)

NoCall == [kind |-> "none"]

Call(kind, p, asked, id, todo) ==
    [kind |-> kind, product |-> p, asked |-> asked, id |-> id,
     stage |-> IF todo = {} THEN "fetch" ELSE "sent", todo |-> todo,
     copy |-> NoLine, got |-> NoLines, answer |-> "none",
     button |-> kind = "add", live |-> TRUE]

ItemCall(kind, p, q, id) ==
    Call(kind, p, [[r \in Products |-> 0] EXCEPT ![p] = q], id, {p})

Quantity(c) == calls[c].asked[calls[c].product]

Open(c) == calls[c].kind # "none"
At(c, stage) == Open(c) /\ calls[c].stage = stage
Others(c) == {d \in Calls \ {c} : Open(d)}

(* isContractPending: a 404 keeps the change; everything else that is not   *)
(* a success is rolled back.                                                *)
Answers == {"ok", "pending", "failed", "unauthorized"}

Send(c, call) ==
    /\ ~Open(c)
    /\ calls' = [calls EXCEPT ![c] = call]
    /\ doubt' = (doubt \/ Others(c) # {})

(* A change that nobody sends; c only says that a request is free.          *)
Keep(c) ==
    /\ ~Open(c)
    /\ doubt' = (doubt \/ Others(c) # {})
    /\ UNCHANGED calls

Act ==
    /\ acts < MaxActs
    /\ acts' = acts + 1

-----------------------------------------------------------------------------
(* useAddToCart behind the button: a click counts only when it is idle.     *)
(* A guest's line is the draft itself and is confirmed at once.             *)
ClickAdd(c, p) ==
    /\ buttons[p] = "idle"
    /\ store.items[p].quantity <= Cap
    /\ Act
    /\ IF known
       THEN /\ store' = AddItem(store, p)
            /\ buttons' = [buttons EXCEPT ![p] = "loading"]
            /\ Send(c, ItemCall("add", p, 1, 0))
       ELSE /\ store' = Confirm(AddItem(store, p))
            /\ buttons' = [buttons EXCEPT ![p] = "success"]
            /\ Keep(c)
    /\ UNCHANGED <<cookie, known, cart, made>>

(* The check mark goes after SUCCESS_MS.                                    *)
ButtonIdle(p) ==
    /\ buttons[p] = "success"
    /\ buttons' = [buttons EXCEPT ![p] = "idle"]
    /\ UNCHANGED <<store, cookie, known, calls, cart, made, acts, doubt>>

(* A change of a line that the server may know: the request is sent only    *)
(* when the page has a session and the line an id.  The line is the one     *)
(* read before the change.                                                  *)
ChangeLine(c, kind, p, q, changed) ==
    /\ Holds(store.items, p)
    /\ Act
    /\ IF known /\ store.items[p].id # 0
       THEN /\ store' = changed
            /\ Send(c, ItemCall(kind, p, q, store.items[p].id))
       ELSE /\ store' = Confirm(changed)
            /\ Keep(c)
    /\ UNCHANGED <<buttons, cookie, known, cart, made>>

(* useUpdateQuantity: the request carries the quantity asked for.           *)
AskQuantity(c, p, q) ==
    /\ q <= Cap + 1
    /\ ChangeLine(c, "update", p, q, UpdateQuantity(store, p, q))

(* useRemoveItem.                                                           *)
Remove(c, p) == ChangeLine(c, "remove", p, 0, RemoveItem(store, p))

(* The steppers of the drawer and of the cart page: minus is disabled at    *)
(* one, plus is not disabled, as no line has a maxStock.                    *)
Minus(c, p) ==
    /\ store.items[p].quantity > 1
    /\ AskQuantity(c, p, store.items[p].quantity - 1)

Plus(c, p) == AskQuantity(c, p, store.items[p].quantity + 1)

(* A navigation inside the application unmounts the buttons; the requests   *)
(* they sent go on.                                                         *)
Navigate ==
    /\ \E p \in Products : buttons[p] # "idle"
    /\ buttons' = [p \in Products |-> "idle"]
    /\ calls' = [c \in Calls |-> IF Open(c)
                                 THEN [calls[c] EXCEPT !.button = FALSE]
                                 ELSE calls[c]]
    /\ UNCHANGED <<store, cookie, known, cart, made, acts, doubt>>

-----------------------------------------------------------------------------
(* The session, as the cart sees it.                                        *)

(* A page load: the draft is read back from localStorage, the session is    *)
(* not known yet, and nobody waits for the answers of the old page.         *)
Load(s, open) ==
    /\ store' = Rehydrated(s)
    /\ buttons' = [p \in Products |-> "idle"]
    /\ known' = FALSE
    /\ calls' = [c \in Calls |-> IF c \in open
                                 THEN [calls[c] EXCEPT !.live = FALSE,
                                                       !.button = FALSE]
                                 ELSE NoCall]
    /\ doubt' = (open # {})

Reload ==
    /\ Act
    /\ Load(store, {c \in Calls : Open(c)})
    /\ UNCHANGED <<cookie, cart, made>>

(* The login form; the session query is invalidated and asks again.         *)
Login ==
    /\ ~cookie
    /\ Act
    /\ cookie' = TRUE
    /\ UNCHANGED <<store, buttons, known, calls, cart, made, doubt>>

Expire ==
    /\ cookie
    /\ Act
    /\ cookie' = FALSE
    /\ UNCHANGED <<store, buttons, known, calls, cart, made, doubt>>

(* lib/auth logout: the cookie is gone and the store is emptied; the page   *)
(* learns that it is a guest with the next probe.                           *)
Logout ==
    /\ known
    /\ Act
    /\ cookie' = FALSE
    /\ store' = ClearCart(store)
    /\ UNCHANGED <<buttons, known, calls, cart, made, doubt>>

(* syncWithServer sends what the store holds now, lines of an earlier sync  *)
(* included; with an empty store it goes straight to the GET.               *)
SyncCall ==
    Call("sync", CHOOSE p \in Products : TRUE,
         [p \in Products |-> store.items[p].quantity], 0,
         {p \in Products : Holds(store.items, p)})

(* The session query is answered (page load, window focus, invalidation).   *)
(* useCartSyncOnLogin syncs a session that appears, once: its ref is set    *)
(* exactly while the page has a session.                                    *)
Probe(c) ==
    /\ known # cookie
    /\ known' = cookie
    /\ IF cookie
       THEN Send(c, SyncCall)
       ELSE /\ ~Open(c)
            /\ UNCHANGED <<calls, doubt>>
    /\ UNCHANGED <<store, buttons, cookie, cart, made, acts>>

-----------------------------------------------------------------------------
(* The server.                                                              *)

ServerStep == UNCHANGED <<store, buttons, cookie, known, acts>>

Answered(c, answer, got) ==
    calls' = [calls EXCEPT ![c].stage = "answered", ![c].answer = answer,
                           ![c].got = got]

(* CartItemDetailView: a line of another cart, or of none, answers 404.     *)
OwnItem(c) == /\ Holds(cart, calls[c].product)
              /\ cart[calls[c].product].id = calls[c].id

PatchItem(c) ==
    /\ At(c, "sent")
    /\ calls[c].kind = "update"
    /\ cookie
    /\ IF Quantity(c) > Cap
       THEN Answered(c, "failed", NoLines) /\ UNCHANGED cart
       ELSE IF ~OwnItem(c)
       THEN Answered(c, "pending", NoLines) /\ UNCHANGED cart
       ELSE /\ cart' = [cart EXCEPT ![calls[c].product].quantity = Quantity(c)]
            /\ Answered(c, "ok", NoLines)
    /\ ServerStep
    /\ UNCHANGED <<made, doubt>>

DeleteItem(c) ==
    /\ At(c, "sent")
    /\ calls[c].kind = "remove"
    /\ cookie
    /\ IF ~OwnItem(c)
       THEN Answered(c, "pending", NoLines) /\ UNCHANGED cart
       ELSE /\ cart' = [cart EXCEPT ![calls[c].product] = NoLine]
            /\ Answered(c, "ok", NoLines)
    /\ ServerStep
    /\ UNCHANGED <<made, doubt>>

(* An addition reads the line: CartItemsView.post, and each round of the    *)
(* loop of CartSyncView.post ...                                            *)
ReadLine(c, p) ==
    /\ At(c, "sent")
    /\ calls[c].kind \in {"add", "sync"}
    /\ cookie
    /\ p \in calls[c].todo
    /\ calls[c].asked[p] <= Cap
    /\ calls' = [calls EXCEPT ![c].stage = "merging", ![c].product = p,
                              ![c].copy = cart[p]]
    /\ ServerStep
    /\ UNCHANGED <<cart, made, doubt>>

Merged(c) ==
    [calls[c].copy EXCEPT !.quantity = Capped(@ + Quantity(c))]

(* The step after a line of the push: the next one, or the answer.          *)
NextLine(c, p, got) ==
    IF calls[c].kind = "add"
    THEN Answered(c, "ok", [NoLines EXCEPT ![p] = got])
    ELSE calls' = [calls EXCEPT
                      ![c].todo = @ \ {p},
                      ![c].stage = IF calls[c].todo = {p} THEN "fetch"
                                                          ELSE "sent"]

(* ... and saves it: the new quantity over whatever is there now, or        *)
(* nothing when the line is gone.  A second line for the listing is         *)
(* refused by uniq_cart_item_listing.                                       *)
SaveLine(c) ==
    LET p == calls[c].product IN
    /\ At(c, "merging")
    /\ IF calls[c].copy # NoLine
       THEN /\ cart' = IF Holds(cart, p) /\ cart[p].id = calls[c].copy.id
                       THEN [cart EXCEPT ![p] = Merged(c)] ELSE cart
            /\ NextLine(c, p, Merged(c))
            /\ UNCHANGED made
       ELSE IF Holds(cart, p)
       THEN /\ IF calls[c].kind = "add"
               THEN Answered(c, "failed", NoLines)
               ELSE calls' = [calls EXCEPT ![c].stage = "fetch"]
            /\ UNCHANGED <<cart, made>>
       ELSE LET line == [quantity |-> Quantity(c), id |-> made[p] + 1] IN
            /\ made[p] < MaxLines
            /\ made' = [made EXCEPT ![p] = @ + 1]
            /\ cart' = [cart EXCEPT ![p] = line]
            /\ NextLine(c, p, line)
    /\ ServerStep
    /\ UNCHANGED doubt

(* A listing that is not published, or a quantity out of range: POST        *)
(* answers 404 (the button adds one), a sync skips the line.                *)
SkipLine(c, p) ==
    /\ At(c, "sent")
    /\ calls[c].kind \in {"add", "sync"}
    /\ cookie
    /\ p \in calls[c].todo
    /\ IF calls[c].kind = "add"
       THEN Answered(c, "pending", NoLines)
       ELSE NextLine(c, p, NoLine)
    /\ ServerStep
    /\ UNCHANGED <<cart, made, doubt>>

(* CartView: the GET of a sync.                                             *)
FetchCart(c) ==
    /\ At(c, "fetch")
    /\ cookie
    /\ Answered(c, "ok", cart)
    /\ ServerStep
    /\ UNCHANGED <<cart, made, doubt>>

(* No session: every route answers 401.                                     *)
Refuse(c) ==
    /\ At(c, "sent") \/ At(c, "fetch")
    /\ ~cookie
    /\ Answered(c, "unauthorized", NoLines)
    /\ ServerStep
    /\ UNCHANGED <<cart, made, doubt>>

(* A request that does not arrive, a 5xx, or an answer that does not: the   *)
(* promise rejects and the page cannot know whether it was served.  For the *)
(* push of a sync that is a toast, and the GET follows.                     *)
Lose(c) ==
    /\ Open(c)
    /\ calls[c].stage \in {"sent", "fetch", "answered"}
    /\ calls[c].answer \in {"none", "ok"}
    /\ IF calls[c].kind = "sync" /\ calls[c].stage = "sent"
       THEN calls' = [calls EXCEPT ![c].stage = "fetch"]
       ELSE Answered(c, "failed", NoLines)
    /\ doubt' = TRUE
    /\ ServerStep
    /\ UNCHANGED <<cart, made>>

(* External: the checkout turns the ACTIVE cart into an order.  The success *)
(* page empties the store; a tab that never reaches it keeps its lines.     *)
CloseCart ==
    /\ cookie
    /\ cart # NoLines
    /\ Act
    /\ cart' = NoLines
    /\ UNCHANGED <<store, buttons, cookie, known, calls, made, doubt>>

SuccessPage ==
    /\ cart = NoLines
    /\ store # ClearCart(store)
    /\ Act
    /\ store' = ClearCart(store)
    /\ UNCHANGED <<buttons, cookie, known, calls, cart, made, doubt>>

-----------------------------------------------------------------------------
(* The answers.                                                             *)

Close(c) == calls' = [calls EXCEPT ![c] = NoCall]

AnswerStep == UNCHANGED <<cookie, known, cart, made, acts>>

(* The rest of the hook: confirm, keep, or roll back.                       *)
Settled(c) ==
    LET p == calls[c].product
        got == calls[c].got[p] IN
    IF calls[c].answer = "ok" /\ calls[c].kind = "add"
    THEN Confirm(ConfirmServerLine(store, p, got.id, got.quantity))
    ELSE IF calls[c].answer \in {"ok", "pending"} THEN Confirm(store)
                                                  ELSE Rollback(store)

ButtonAfter(c) == IF calls[c].answer = "failed" THEN "idle" ELSE "success"

(* The button, if it is still there, goes on to its check mark or to idle.  *)
Settle(c) ==
    /\ At(c, "answered")
    /\ calls[c].kind # "sync"
    /\ calls[c].live
    /\ calls[c].answer # "unauthorized"
    /\ store' = Settled(c)
    /\ Close(c)
    /\ buttons' = IF ~calls[c].button THEN buttons
                  ELSE [buttons EXCEPT ![calls[c].product] =
                                  ButtonAfter(c)]
    /\ doubt' = (doubt \/ calls[c].answer = "pending")
    /\ AnswerStep

(* The end of syncWithServer: the fetched cart is merged into the store as  *)
(* it is now.                                                               *)
Apply(c) ==
    /\ At(c, "answered")
    /\ calls[c].kind = "sync"
    /\ calls[c].live
    /\ calls[c].answer # "unauthorized"
    /\ IF calls[c].answer = "ok"
       THEN store' = ApplyServerCart(store, calls[c].got)
       ELSE UNCHANGED store
    /\ Close(c)
    /\ UNCHANGED <<buttons, doubt>>
    /\ AnswerStep

(* A 401 sends the browser to the login page after the rollback.            *)
Bounce(c) ==
    /\ At(c, "answered")
    /\ calls[c].live
    /\ calls[c].answer = "unauthorized"
    /\ Load(IF calls[c].kind = "sync" THEN store ELSE Settled(c), Others(c))
    /\ UNCHANGED <<cookie, cart, made, acts>>

(* The answer to a page that is gone.                                       *)
Forget(c) ==
    /\ At(c, "answered") \/ At(c, "fetch")
    /\ ~calls[c].live
    /\ Close(c)
    /\ UNCHANGED <<store, buttons, doubt>>
    /\ AnswerStep

-----------------------------------------------------------------------------
Init ==
    /\ store = ClearCart([items |-> NoLines])
    /\ buttons = [p \in Products |-> "idle"]
    /\ cookie = FALSE
    /\ known = FALSE
    /\ calls = [c \in Calls |-> NoCall]
    /\ cart = NoLines
    /\ made = [p \in Products |-> 0]
    /\ acts = 0
    /\ doubt = FALSE

Serve(c) ==
    \/ PatchItem(c)
    \/ DeleteItem(c)
    \/ \E p \in Products : ReadLine(c, p) \/ SkipLine(c, p)
    \/ SaveLine(c)
    \/ FetchCart(c)
    \/ Refuse(c)

Handle(c) == Settle(c) \/ Apply(c) \/ Bounce(c) \/ Forget(c)

Click(c, p) == ClickAdd(c, p) \/ Minus(c, p) \/ Plus(c, p) \/ Remove(c, p)

Next ==
    \/ \E c \in Calls, p \in Products : Click(c, p)
    \/ \E c \in Calls : Probe(c) \/ Serve(c) \/ Lose(c) \/ Handle(c)
    \/ \E p \in Products : ButtonIdle(p)
    \/ Navigate \/ Reload \/ Login \/ Expire \/ Logout
    \/ CloseCart \/ SuccessPage

Spec == Init /\ [][Next]_vars

-----------------------------------------------------------------------------
CallRecord ==
    [kind : {"add", "update", "remove", "sync"}, product : Products,
     asked : [Products -> 0..(Cap + 1)], id : 0..MaxLines,
     stage : {"sent", "merging", "fetch", "answered"},
     todo : SUBSET Products, copy : Line, got : Lines,
     answer : Answers \cup {"none"}, button : BOOLEAN, live : BOOLEAN]

(* The state of the tab and of the server's cart has its type; in           *)
(* particular no line of the server is above MAX_LINE_QUANTITY.             *)
TypeOK ==
    /\ store \in [items : Lines, previous : Lines \cup {NoSnapshot},
                  synced : BOOLEAN]
    /\ buttons \in [Products -> {"idle", "loading", "success"}]
    /\ cookie \in BOOLEAN /\ known \in BOOLEAN
    /\ calls \in [Calls -> CallRecord \cup {NoCall}]
    /\ cart \in [Products -> [quantity : 0..Cap, id : 0..MaxLines]]
    /\ made \in [Products -> 0..MaxLines]
    /\ acts \in 0..MaxActs
    /\ doubt \in BOOLEAN

(* With one change at a time and no answer lost or kept as pending, the     *)
(* page shows the server's cart: once it has synced and nothing is open,    *)
(* every line of the server is in the store with its quantity and its id,   *)
(* whatever was refused, capped, or skipped.                                *)
Agreement ==
    known /\ store.synced /\ ~doubt /\ (\A c \in Calls : ~Open(c)) =>
        \A p \in Products : Holds(cart, p) => store.items[p] = cart[p]

(* There is one snapshot for all changes, and a rollback that comes late    *)
(* would bring back a cart of long ago: a snapshot is kept only while a     *)
(* request of this page is open.                                            *)
SnapshotIsPending ==
    store.previous # NoSnapshot =>
        \E c \in Calls : Open(c) /\ calls[c].live /\ calls[c].kind # "sync"

(* A button ignores clicks until its request is answered: a button that is  *)
(* loading has an open request that will bring it back, whatever was        *)
(* navigated, reloaded or logged out in between.                            *)
LoadingIsOpen ==
    \A p \in Products : buttons[p] = "loading" =>
        \E c \in Calls : /\ Open(c)
                         /\ calls[c].kind = "add" /\ calls[c].product = p
                         /\ calls[c].live /\ calls[c].button

(* The state has its types, and what the page keeps for a request is gone   *)
(* when the request is: its snapshot, and the button that waits for it.     *)
CartInv == TypeOK /\ SnapshotIsPending /\ LoadingIsOpen
=============================================================================
