----------------------------- MODULE CartProofs -----------------------------
(***************************************************************************)
(* Proofs about Cart: what the page keeps for a request goes with it, and   *)
(* with one change at a time the page shows the cart of the server, for any *)
(* listings, requests and bounds.                                           *)
(***************************************************************************)
EXTENDS Cart, TLAPS

StoreType == [items : Lines, previous : Lines \cup {NoSnapshot}, synced : BOOLEAN]
CartType == [Products -> [quantity : 0..Cap, id : 0..MaxLines]]
CallsType == [Calls -> CallRecord \cup {NoCall}]

Agrees(lines) == \A p \in Products : Holds(cart, p) => lines[p] = cart[p]

CallIsSound(c) ==
    /\ calls[c].stage # "answered" => calls[c].answer = "none"
    /\ calls[c].stage = "merging" =>
          calls[c].kind \in {"add", "sync"} /\ Quantity(c) <= Cap
    /\ calls[c].stage = "fetch" => calls[c].kind = "sync"
    /\ calls[c].kind = "add" => calls[c].todo \subseteq {calls[c].product}
CallsAreSound == \A c \in Calls : Open(c) => CallIsSound(c)

HeldHasId == \A p \in Products : Holds(cart, p) => cart[p].id # 0

Unsettled(c) ==
    LET p == calls[c].product
        answer == calls[c].answer IN
    /\ store.previous # NoSnapshot
    /\ \A r \in Products \ {p} : store.items[r] = store.previous[r]
    /\ answer \notin {"ok", "pending"} => Agrees(store.previous)
    /\ calls[c].kind = "update" =>
          store.items[p] = [store.previous[p] EXCEPT !.quantity = Quantity(c)]
    /\ calls[c].kind = "remove" => store.items[p] = NoLine
    /\ calls[c].kind = "add" => Holds(store.items, p)
    /\ answer = "ok" =>
          /\ \A r \in Products \ {p} : Holds(cart, r) => store.previous[r] = cart[r]
          /\ Holds(cart, p) =>
                cart[p] = IF calls[c].kind = "add" THEN calls[c].got[p] ELSE store.items[p]

(* What holds of the one request that is open: the line read for an         *)
(* addition is still the cart's, what a sync fetched is the cart, and a     *)
(* change is between the carts before and after it.                         *)
Fresh(c) ==
    /\ calls[c].live
    /\ calls[c].stage = "merging" /\ Holds(cart, calls[c].product) =>
          calls[c].copy = cart[calls[c].product]
    /\ calls[c].stage = "answered" /\ calls[c].kind = "sync" =>
          \/ calls[c].answer = "unauthorized"
          \/ calls[c].answer = "ok" /\ Agrees(calls[c].got)
    /\ known /\ store.synced /\ calls[c].kind # "sync" => Unsettled(c)

Undoubted ==
    ~doubt =>
        /\ \A c, d \in Calls : Open(c) /\ Open(d) => c = d
        /\ \A c \in Calls : Open(c) => Fresh(c)
        /\ known /\ store.synced /\ (\A c \in Calls : ~Open(c)) => Agrees(store.items)

IInv ==
    /\ TypeOK
    /\ CallsAreSound
    /\ SnapshotIsPending
    /\ LoadingIsOpen
    /\ HeldHasId
    /\ Undoubted

-----------------------------------------------------------------------------
(* The store.                                                               *)

LEMMA LineFacts ==
    /\ NoLine \in Line /\ NoLine.quantity = 0
    /\ NoLines \in Lines /\ \A p \in Products : NoLines[p] = NoLine
    /\ NoSnapshot \notin Lines
    /\ CartType \subseteq Lines
<1>1. NoLine \in Line
      BY CartAssumption DEF NoLine, Line
<1>2. NoLines \in Lines /\ \A p \in Products : NoLines[p] = NoLine
      BY <1>1 DEF NoLines, Lines
<1>3. NoSnapshot \notin Lines
  <2>1. DOMAIN NoSnapshot = {}
        BY DEF NoSnapshot
  <2>. QED BY <2>1, CartAssumption DEF Lines
<1>4. [quantity : 0..Cap, id : 0..MaxLines] \subseteq Line
      BY CartAssumption DEF Line
<1>5. CartType \subseteq Lines
      BY <1>4 DEF CartType, Lines
<1>. QED BY <1>1, <1>2, <1>3, <1>5 DEF NoLine

LEMMA ClearCartFacts ==
    ASSUME NEW s
    PROVE  /\ ClearCart(s) \in StoreType
           /\ ClearCart(s).previous = NoSnapshot /\ ~ClearCart(s).synced
    BY LineFacts DEF ClearCart, StoreType

LEMMA ChangeFacts ==
    ASSUME NEW s \in StoreType, NEW lines \in Lines
    PROVE  /\ Change(s, lines) \in StoreType
           /\ Change(s, lines).items = lines /\ Change(s, lines).previous = s.items
           /\ Change(s, lines).synced = s.synced
    BY DEF Change, StoreType

LEMMA AddItemFacts ==
    ASSUME NEW s \in StoreType, NEW p \in Products, s.items[p].quantity <= Cap
    PROVE  /\ AddItem(s, p) \in StoreType
           /\ AddItem(s, p).previous = s.items /\ AddItem(s, p).synced = s.synced
           /\ Holds(AddItem(s, p).items, p)
           /\ \A r \in Products \ {p} : AddItem(s, p).items[r] = s.items[r]
<1>1. s.items \in Lines /\ s.items[p] \in Line /\ s.items[p].quantity \in Nat
      BY CartAssumption DEF StoreType, Lines, Line
<1>2. PICK line : line = [quantity |-> Clamp(s.items[p].quantity + 1), id |-> 0]
      OBVIOUS
<1>3. line \in Line /\ line.quantity > 0
      BY <1>1, <1>2, CartAssumption DEF Line, Clamp
<1>4. PICK lines : lines = [s.items EXCEPT ![p] = line]
      OBVIOUS
<1>5. lines \in Lines /\ lines[p] = line /\ \A r \in Products \ {p} : lines[r] = s.items[r]
      BY <1>1, <1>3, <1>4 DEF Lines
<1>6. AddItem(s, p) = Change(s, lines)
      BY <1>2, <1>4 DEF AddItem
<1>. QED BY <1>3, <1>5, <1>6, ChangeFacts DEF Holds

LEMMA RemoveItemFacts ==
    ASSUME NEW s \in StoreType, NEW p \in Products
    PROVE  /\ RemoveItem(s, p) \in StoreType
           /\ RemoveItem(s, p).previous = s.items /\ RemoveItem(s, p).synced = s.synced
           /\ RemoveItem(s, p).items[p] = NoLine
           /\ \A r \in Products \ {p} : RemoveItem(s, p).items[r] = s.items[r]
<1>1. PICK lines : lines = [s.items EXCEPT ![p] = NoLine]
      OBVIOUS
<1>2. lines \in Lines /\ lines[p] = NoLine /\ \A r \in Products \ {p} : lines[r] = s.items[r]
      BY <1>1, LineFacts DEF StoreType, Lines
<1>3. RemoveItem(s, p) = Change(s, lines)
      BY <1>1 DEF RemoveItem
<1>. QED BY <1>2, <1>3, ChangeFacts

LEMMA UpdateQuantityFacts ==
    ASSUME NEW s \in StoreType, NEW p \in Products, Holds(s.items, p), NEW q \in 1..(Cap + 1)
    PROVE  /\ UpdateQuantity(s, p, q) \in StoreType
           /\ UpdateQuantity(s, p, q).previous = s.items
           /\ UpdateQuantity(s, p, q).synced = s.synced
           /\ UpdateQuantity(s, p, q).items[p] = [s.items[p] EXCEPT !.quantity = q]
           /\ \A r \in Products \ {p} : UpdateQuantity(s, p, q).items[r] = s.items[r]
<1>1. s.items \in Lines /\ s.items[p] \in Line
      BY DEF StoreType, Lines
<1>2. PICK line : line = [s.items[p] EXCEPT !.quantity = q]
      OBVIOUS
<1>3. line \in Line
      BY <1>1, <1>2, CartAssumption DEF Line
<1>4. PICK lines : lines = [s.items EXCEPT ![p] = line]
      OBVIOUS
<1>5. lines \in Lines /\ lines[p] = line /\ \A r \in Products \ {p} : lines[r] = s.items[r]
      BY <1>1, <1>3, <1>4 DEF Lines
<1>6. Clamp(q) = q
      BY CartAssumption DEF Clamp
<1>7. UpdateQuantity(s, p, q) = Change(s, lines)
      BY <1>2, <1>4, <1>6 DEF UpdateQuantity
<1>. QED BY <1>2, <1>5, <1>7, ChangeFacts

LEMMA ConfirmFacts ==
    ASSUME NEW s \in StoreType
    PROVE  /\ Confirm(s) \in StoreType
           /\ Confirm(s).items = s.items /\ Confirm(s).synced = s.synced
           /\ Confirm(s).previous = NoSnapshot
    BY DEF Confirm, StoreType

LEMMA RollbackFacts ==
    ASSUME NEW s \in StoreType
    PROVE  /\ Rollback(s) \in StoreType
           /\ Rollback(s).previous = NoSnapshot /\ Rollback(s).synced = s.synced
           /\ s.previous # NoSnapshot => Rollback(s).items = s.previous
<1>1. CASE s.previous = NoSnapshot
      BY <1>1 DEF Rollback
<1>2. CASE s.previous # NoSnapshot
  <2>1. s.previous \in Lines
        BY <1>2 DEF StoreType
  <2>. QED BY <1>2, <2>1 DEF Rollback, StoreType
<1>. QED BY <1>1, <1>2

LEMMA ApplyServerCartFacts ==
    ASSUME NEW s \in StoreType, NEW server \in Lines
    PROVE  /\ ApplyServerCart(s, server) \in StoreType
           /\ ApplyServerCart(s, server).previous = s.previous
           /\ \A p \in Products : Holds(server, p) =>
                 ApplyServerCart(s, server).items[p] = server[p]
<1>1. PICK lines : lines = MergeServerCart(s.items, server)
      OBVIOUS
<1>2. lines \in Lines /\ \A p \in Products : Holds(server, p) => lines[p] = server[p]
      BY <1>1 DEF MergeServerCart, StoreType, Lines
<1>3. ApplyServerCart(s, server) = [s EXCEPT !.items = lines, !.synced = TRUE]
      BY <1>1 DEF ApplyServerCart
<1>. QED BY <1>2, <1>3 DEF StoreType

LEMMA RehydratedFacts ==
    ASSUME NEW s \in StoreType
    PROVE  Rehydrated(s) \in StoreType /\ Rehydrated(s).previous = NoSnapshot
<1>1. PICK lines : lines = [p \in Products |->
                      IF Holds(s.items, p)
                      THEN [quantity |-> Clamp(s.items[p].quantity), id |-> 0]
                      ELSE NoLine]
      OBVIOUS
<1>2. lines \in Lines
  <2>. SUFFICES ASSUME NEW p \in Products
                PROVE  (IF Holds(s.items, p)
                        THEN [quantity |-> Clamp(s.items[p].quantity), id |-> 0]
                        ELSE NoLine) \in Line
       BY <1>1 DEF Lines
  <2>1. s.items[p] \in Line
        BY DEF StoreType, Lines
  <2>2. Clamp(s.items[p].quantity) \in 0..(Cap + 1)
        BY <2>1, CartAssumption DEF Line, Clamp
  <2>. QED BY <2>2, LineFacts, CartAssumption DEF Line
<1>3. Rehydrated(s) = [ClearCart(s) EXCEPT !.items = lines]
      BY <1>1 DEF Rehydrated
<1>. QED BY <1>2, <1>3, ClearCartFacts DEF StoreType

LEMMA ConfirmServerLineFacts ==
    ASSUME NEW s \in StoreType, NEW p \in Products, NEW line \in Line
    PROVE  LET t == ConfirmServerLine(s, p, line.id, line.quantity)
           IN  /\ t \in StoreType
               /\ t.synced = s.synced
               /\ \A r \in Products \ {p} : t.items[r] = s.items[r]
               /\ Holds(s.items, p) => t.items[p] = line
<1>1. CASE Holds(s.items, p)
  <2>1. line = [quantity |-> line.quantity, id |-> line.id]
        BY DEF Line
  <2>2. PICK lines : lines = [s.items EXCEPT ![p] = line]
        OBVIOUS
  <2>3. lines \in Lines /\ lines[p] = line /\ \A r \in Products \ {p} : lines[r] = s.items[r]
        BY <2>2 DEF StoreType, Lines
  <2>4. ConfirmServerLine(s, p, line.id, line.quantity) = [s EXCEPT !.items = lines]
        BY <1>1, <2>1, <2>2 DEF ConfirmServerLine
  <2>. QED BY <2>3, <2>4 DEF StoreType
<1>2. CASE ~Holds(s.items, p)
      BY <1>2 DEF ConfirmServerLine
<1>. QED BY <1>1, <1>2

-----------------------------------------------------------------------------
(* Requests.                                                                *)

LEMMA OpenFacts ==
    ASSUME TypeOK, NEW c \in Calls, Open(c)
    PROVE  calls[c] \in CallRecord
    BY DEF TypeOK, Open, NoCall

LEMMA CallFacts ==
    ASSUME NEW kind \in {"add", "update", "remove", "sync"}, NEW p \in Products,
           NEW asked \in [Products -> 0..(Cap + 1)], NEW id \in 0..MaxLines,
           NEW todo \in SUBSET Products
    PROVE  LET call == Call(kind, p, asked, id, todo)
           IN  /\ call \in CallRecord
               /\ call.kind = kind /\ call.product = p /\ call.asked = asked
               /\ call.todo = todo /\ call.answer = "none" /\ call.live
               /\ call.stage = IF todo = {} THEN "fetch" ELSE "sent"
               /\ call.button <=> kind = "add"
<1>1. PICK b \in BOOLEAN : b = (kind = "add")
      OBVIOUS
<1>2. PICK stage \in {"sent", "fetch"} : stage = IF todo = {} THEN "fetch" ELSE "sent"
      OBVIOUS
<1>3. PICK call : call =
        [kind |-> kind, product |-> p, asked |-> asked, id |-> id,
         stage |-> stage, todo |-> todo, copy |-> NoLine, got |-> NoLines,
         answer |-> "none", button |-> b, live |-> TRUE]
      OBVIOUS
<1>4. Call(kind, p, asked, id, todo) = call
      BY <1>1, <1>2, <1>3 DEF Call
<1>5. call \in CallRecord
      BY <1>3, LineFacts DEF CallRecord
<1>6. /\ call.kind = kind /\ call.product = p /\ call.asked = asked
      /\ call.todo = todo /\ call.answer = "none" /\ call.live = TRUE
      /\ call.stage = stage /\ call.button = b
      BY <1>3
<1>. QED BY <1>1, <1>2, <1>4, <1>5, <1>6

LEMMA ItemCallFacts ==
    ASSUME NEW kind \in {"add", "update", "remove"}, NEW p \in Products,
           NEW q \in 0..(Cap + 1), NEW id \in 0..MaxLines
    PROVE  LET call == ItemCall(kind, p, q, id)
           IN  /\ call \in CallRecord
               /\ call.kind = kind /\ call.product = p /\ call.asked[p] = q
               /\ call.todo = {p} /\ call.answer = "none" /\ call.live
               /\ call.stage = "sent"
               /\ call.button <=> kind = "add"
<1>1. PICK asked : asked = [[r \in Products |-> 0] EXCEPT ![p] = q]
      OBVIOUS
<1>2. asked \in [Products -> 0..(Cap + 1)] /\ asked[p] = q
      BY <1>1, CartAssumption
<1>3. ItemCall(kind, p, q, id) = Call(kind, p, asked, id, {p})
      BY <1>1 DEF ItemCall
<1>4. {p} \in SUBSET Products
      OBVIOUS
<1>. QED BY <1>2, <1>3, <1>4, CallFacts

LEMMA SendFacts ==
    ASSUME TypeOK, NEW c \in Calls, NEW call \in CallRecord, Send(c, call)
    PROVE  /\ calls' \in CallsType /\ calls'[c] = call
           /\ \A d \in Calls \ {c} : calls'[d] = calls[d]
           /\ ~Open(c) /\ doubt' \in BOOLEAN
           /\ ~doubt' => ~doubt /\ \A d \in Calls : ~Open(d)
<1>1. calls' = [calls EXCEPT ![c] = call] /\ ~Open(c)
      BY DEF Send
<1>2. doubt' = (doubt \/ Others(c) # {})
      BY DEF Send
<1>3. ~doubt' => ~doubt /\ Others(c) = {}
      BY <1>2, Zenon
<1>4. Others(c) = {} => \A d \in Calls : ~Open(d)
      BY <1>1 DEF Others
<1>. QED BY <1>1, <1>2, <1>3, <1>4 DEF TypeOK, CallsType

LEMMA KeepFacts ==
    ASSUME TypeOK, NEW c \in Calls, Keep(c)
    PROVE  /\ UNCHANGED calls /\ doubt' \in BOOLEAN
           /\ ~doubt' => ~doubt /\ \A d \in Calls : ~Open(d)
<1>1. UNCHANGED calls /\ ~Open(c)
      BY DEF Keep
<1>2. doubt' = (doubt \/ Others(c) # {})
      BY DEF Keep
<1>3. ~doubt' => ~doubt /\ Others(c) = {}
      BY <1>2, Zenon
<1>4. Others(c) = {} => \A d \in Calls : ~Open(d)
      BY <1>1 DEF Others
<1>. QED BY <1>1, <1>2, <1>3, <1>4 DEF TypeOK

LEMMA ActFacts ==
    ASSUME TypeOK, Act
    PROVE  acts' \in 0..MaxActs
    BY CartAssumption DEF TypeOK, Act

-----------------------------------------------------------------------------
(* Steps of the page.                                                       *)

(* A change of the page that nobody sends: of a guest, or of a line the     *)
(* server does not have.                                                    *)
LEMMA KeptStep ==
    ASSUME IInv, NEW c \in Calls, Keep(c), UNCHANGED <<cookie, known, cart, made>>,
           acts' \in 0..MaxActs,
           store' \in StoreType, store'.previous = NoSnapshot, store'.synced = store.synced,
           buttons' \in [Products -> {"idle", "loading", "success"}],
           \A p \in Products : buttons'[p] = "loading" => buttons[p] = "loading",
           known /\ store.synced /\ Agrees(store.items) => Agrees(store'.items)
    PROVE  IInv'
<1>1. /\ UNCHANGED calls /\ doubt' \in BOOLEAN
      /\ ~doubt' => ~doubt /\ \A d \in Calls : ~Open(d)
      BY KeepFacts DEF IInv
<1>2. TypeOK'
      BY <1>1 DEF IInv, TypeOK, StoreType
<1>3. CallsAreSound'
      BY <1>1 DEF IInv, CallsAreSound, CallIsSound, Open, Quantity
<1>4. SnapshotIsPending'
      BY DEF SnapshotIsPending
<1>5. LoadingIsOpen'
      BY <1>1 DEF IInv, LoadingIsOpen, Open
<1>6. HeldHasId'
      BY DEF IInv, HeldHasId
<1>7. Undoubted'
  <2>. SUFFICES ASSUME ~doubt'
                PROVE  /\ \A d \in Calls : ~Open(d)'
                       /\ known' /\ store'.synced => Agrees(store.items)'
       BY DEF Undoubted
  <2>1. \A d \in Calls : ~Open(d) /\ ~Open(d)'
        BY <1>1 DEF Open
  <2>2. known /\ store.synced => Agrees(store.items)
        BY <1>1, <2>1 DEF IInv, Undoubted
  <2>. QED BY <2>1, <2>2 DEF Agrees
<1>. QED BY <1>2, <1>3, <1>4, <1>5, <1>6, <1>7 DEF IInv

(* A change that is sent: the snapshot is the store before it.              *)
LEMMA SentStep ==
    ASSUME IInv, NEW c \in Calls, NEW p \in Products, NEW call \in CallRecord,
           Send(c, call), UNCHANGED <<cookie, known, cart, made>>, acts' \in 0..MaxActs,
           call.kind # "sync", call.product = p, call.answer = "none", call.live,
           call.stage = "sent", call.todo = {p},
           call.button <=> call.kind = "add",
           store' \in StoreType, store'.previous = store.items, store'.synced = store.synced,
           \A r \in Products \ {p} : store'.items[r] = store.items[r],
           call.kind = "update" =>
               store'.items[p] = [store.items[p] EXCEPT !.quantity = call.asked[p]],
           call.kind = "remove" => store'.items[p] = NoLine,
           call.kind = "add" => Holds(store'.items, p),
           buttons' \in [Products -> {"idle", "loading", "success"}],
           \A r \in Products : buttons'[r] = "loading" =>
               buttons[r] = "loading" \/ (r = p /\ call.kind = "add")
    PROVE  IInv'
<1>1. /\ calls' \in CallsType /\ calls'[c] = call
      /\ \A d \in Calls \ {c} : calls'[d] = calls[d]
      /\ ~Open(c) /\ doubt' \in BOOLEAN
      /\ ~doubt' => ~doubt /\ \A d \in Calls : ~Open(d)
      BY SendFacts DEF IInv
<1>2. TypeOK'
      BY <1>1 DEF IInv, TypeOK, StoreType, CallsType
<1>3. Open(c)' /\ \A d \in Calls \ {c} : Open(d)' <=> Open(d)
      BY <1>1 DEF Open, CallRecord
<1>4. CallsAreSound'
  <2>1. CallIsSound(c)'
        BY <1>1 DEF CallIsSound
  <2>2. ASSUME NEW d \in Calls \ {c}, Open(d)' PROVE CallIsSound(d)'
        BY <1>1, <1>3, <2>2 DEF IInv, CallsAreSound, CallIsSound, Quantity
  <2>. QED BY <2>1, <2>2 DEF CallsAreSound
<1>5. SnapshotIsPending'
      BY <1>1, <1>3 DEF SnapshotIsPending
<1>6. LoadingIsOpen'
  <2>. SUFFICES ASSUME NEW r \in Products, buttons'[r] = "loading"
                PROVE  \E d \in Calls : /\ Open(d)' /\ calls'[d].kind = "add"
                                        /\ calls'[d].product = r
                                        /\ calls'[d].live /\ calls'[d].button
       BY DEF LoadingIsOpen
  <2>1. CASE buttons[r] = "loading"
    <3>1. PICK d \in Calls : /\ Open(d) /\ calls[d].kind = "add" /\ calls[d].product = r
                             /\ calls[d].live /\ calls[d].button
          BY <2>1 DEF IInv, LoadingIsOpen
    <3>2. d # c
          BY <1>1, <3>1
    <3>. QED BY <1>1, <1>3, <3>1, <3>2
  <2>2. CASE r = p /\ call.kind = "add"
        BY <1>1, <1>3, <2>2
  <2>. QED BY <2>1, <2>2
<1>7. HeldHasId'
      BY DEF IInv, HeldHasId
<1>8. Undoubted'
  <2>. SUFFICES ASSUME ~doubt'
                PROVE  (\A d \in Calls : Open(d)' => d = c) /\ Fresh(c)'
       BY <1>3 DEF Undoubted
  <2>1. /\ ~doubt /\ \A d \in Calls : ~Open(d)
        /\ \A d \in Calls : Open(d)' => d = c
        BY <1>1, <1>3
  <2>2. known /\ store.synced => Agrees(store.items)
        BY <2>1 DEF IInv, Undoubted
  <2>3. ASSUME known', store'.synced PROVE Unsettled(c)'
    <3>1. Agrees(store.previous)'
          BY <2>2, <2>3 DEF Agrees
    <3>2. store'.previous # NoSnapshot
          BY LineFacts DEF IInv, TypeOK
    <3>. QED BY <1>1, <3>1, <3>2 DEF Unsettled, Quantity
  <2>. QED BY <1>1, <2>1, <2>3 DEF Fresh
<1>. QED BY <1>2, <1>4, <1>5, <1>6, <1>7, <1>8 DEF IInv

(* A step of the server, or of the network: one request goes on.            *)
LEMMA CallStep ==
    ASSUME IInv, NEW c \in Calls, Open(c), NEW q \in CallRecord,
           calls' = [calls EXCEPT ![c] = q], UNCHANGED <<store, buttons, cookie, known, acts>>,
           q.kind = calls[c].kind, q.live = calls[c].live, q.button = calls[c].button,
           q.kind = "add" => q.product = calls[c].product,
           CallIsSound(c)', HeldHasId',
           made' \in [Products -> 0..MaxLines], cart' \in CartType, doubt' \in BOOLEAN,
           ~doubt' => ~doubt /\ Fresh(c)'
    PROVE  IInv'
<1>1. /\ calls' \in CallsType /\ calls'[c] = q
      /\ \A d \in Calls \ {c} : calls'[d] = calls[d]
      BY DEF IInv, TypeOK, CallsType
<1>2. \A d \in Calls : Open(d)' <=> Open(d)
      BY <1>1 DEF Open
<1>3. TypeOK'
      BY <1>1 DEF IInv, TypeOK, CallsType, CartType
<1>4. CallsAreSound'
  <2>1. ASSUME NEW d \in Calls \ {c}, Open(d)' PROVE CallIsSound(d)'
        BY <1>1, <1>2, <2>1 DEF IInv, CallsAreSound, CallIsSound, Quantity
  <2>. QED BY <2>1 DEF CallsAreSound
<1>5. SnapshotIsPending'
  <2>. SUFFICES ASSUME store.previous # NoSnapshot
                PROVE  \E d \in Calls : Open(d)' /\ calls'[d].live /\ calls'[d].kind # "sync"
       BY DEF SnapshotIsPending
  <2>1. PICK d \in Calls : Open(d) /\ calls[d].live /\ calls[d].kind # "sync"
        BY DEF IInv, SnapshotIsPending
  <2>. QED BY <1>1, <1>2, <2>1
<1>6. LoadingIsOpen'
  <2>. SUFFICES ASSUME NEW r \in Products, buttons[r] = "loading"
                PROVE  \E d \in Calls : /\ Open(d)' /\ calls'[d].kind = "add"
                                        /\ calls'[d].product = r
                                        /\ calls'[d].live /\ calls'[d].button
       BY DEF LoadingIsOpen
  <2>1. PICK d \in Calls : /\ Open(d) /\ calls[d].kind = "add" /\ calls[d].product = r
                           /\ calls[d].live /\ calls[d].button
        BY DEF IInv, LoadingIsOpen
  <2>. QED BY <1>1, <1>2, <2>1
<1>7. Undoubted'
  <2>. SUFFICES ASSUME ~doubt'
                PROVE  (\A d \in Calls : Open(d)' => d = c) /\ Open(c)' /\ Fresh(c)'
       BY DEF Undoubted
  <2>. QED BY <1>2 DEF IInv, Undoubted
<1>. QED BY <1>3, <1>4, <1>5, <1>6, <1>7 DEF IInv

(* The end of a request.                                                    *)
LEMMA CloseStep ==
    ASSUME IInv, NEW c \in Calls, Open(c), Close(c), UNCHANGED <<cookie, known, cart, made, acts>>,
           store' \in StoreType, doubt' \in BOOLEAN,
           buttons' \in [Products -> {"idle", "loading", "success"}],
           \/ store'.previous = NoSnapshot
           \/ store'.previous = store.previous /\ (calls[c].kind = "sync" \/ ~calls[c].live),
           \A r \in Products : buttons'[r] = "loading" =>
               /\ buttons[r] = "loading"
               /\ ~(calls[c].kind = "add" /\ calls[c].product = r
                       /\ calls[c].live /\ calls[c].button),
           ~doubt' => /\ ~doubt
                      /\ Fresh(c) /\ known /\ store'.synced => Agrees(store'.items)
    PROVE  IInv'
<1>1. /\ calls' \in CallsType /\ calls'[c] = NoCall
      /\ \A d \in Calls \ {c} : calls'[d] = calls[d]
      BY DEF IInv, TypeOK, CallsType, Close
<1>2. ~Open(c)' /\ \A d \in Calls \ {c} : Open(d)' <=> Open(d)
      BY <1>1 DEF Open, NoCall
<1>3. TypeOK'
      BY <1>1 DEF IInv, TypeOK, CallsType, StoreType
<1>4. CallsAreSound'
  <2>1. ASSUME NEW d \in Calls \ {c}, Open(d)' PROVE CallIsSound(d)'
        BY <1>1, <1>2, <2>1 DEF IInv, CallsAreSound, CallIsSound, Quantity
  <2>. QED BY <1>2, <2>1 DEF CallsAreSound
<1>5. SnapshotIsPending'
  <2>. SUFFICES ASSUME store'.previous # NoSnapshot
                PROVE  \E d \in Calls : Open(d)' /\ calls'[d].live /\ calls'[d].kind # "sync"
       BY DEF SnapshotIsPending
  <2>1. PICK d \in Calls : Open(d) /\ calls[d].live /\ calls[d].kind # "sync"
        BY DEF IInv, SnapshotIsPending
  <2>. QED BY <1>1, <1>2, <2>1
<1>6. LoadingIsOpen'
  <2>. SUFFICES ASSUME NEW r \in Products, buttons'[r] = "loading"
                PROVE  \E d \in Calls : /\ Open(d)' /\ calls'[d].kind = "add"
                                        /\ calls'[d].product = r
                                        /\ calls'[d].live /\ calls'[d].button
       BY DEF LoadingIsOpen
  <2>1. PICK d \in Calls : /\ Open(d) /\ calls[d].kind = "add" /\ calls[d].product = r
                           /\ calls[d].live /\ calls[d].button
        BY DEF IInv, LoadingIsOpen
  <2>. QED BY <1>1, <1>2, <2>1
<1>7. HeldHasId'
      BY DEF IInv, HeldHasId
<1>8. Undoubted'
  <2>. SUFFICES ASSUME ~doubt'
                PROVE  /\ \A d \in Calls : ~Open(d)'
                       /\ known' /\ store'.synced => Agrees(store.items)'
       BY DEF Undoubted
  <2>1. Fresh(c) /\ \A d \in Calls : Open(d) => d = c
        BY DEF IInv, Undoubted
  <2>2. \A d \in Calls : ~Open(d)'
        BY <1>2, <2>1
  <2>. QED BY <2>1, <2>2 DEF Agrees
<1>. QED BY <1>3, <1>4, <1>5, <1>6, <1>7, <1>8 DEF IInv

(* A page load: nothing of the old page is left but requests without an     *)
(* owner.                                                                   *)
LEMMA LoadStep ==
    ASSUME IInv, NEW s \in StoreType, NEW open \in SUBSET {c \in Calls : Open(c)}, Load(s, open),
           UNCHANGED <<cookie, cart, made>>, acts' \in 0..MaxActs
    PROVE  IInv'
<1>1. /\ store' = Rehydrated(s) /\ buttons' = [p \in Products |-> "idle"] /\ known' = FALSE
      /\ doubt' = (open # {})
      /\ calls' = [c \in Calls |-> IF c \in open
                                   THEN [calls[c] EXCEPT !.live = FALSE, !.button = FALSE]
                                   ELSE NoCall]
      BY DEF Load
<1>2. store' \in StoreType /\ store'.previous = NoSnapshot
      BY <1>1, RehydratedFacts
<1>3. ASSUME NEW c \in open
      PROVE  /\ calls'[c] \in CallRecord /\ Open(c)
             /\ calls'[c].stage = calls[c].stage /\ calls'[c].answer = calls[c].answer
             /\ calls'[c].kind = calls[c].kind /\ calls'[c].product = calls[c].product
             /\ calls'[c].asked = calls[c].asked /\ calls'[c].todo = calls[c].todo
  <2>1. Open(c) /\ c \in Calls
        OBVIOUS
  <2>2. calls[c] \in CallRecord
        BY <2>1, OpenFacts DEF IInv
  <2>3. calls'[c] = [calls[c] EXCEPT !.live = FALSE, !.button = FALSE]
        BY <1>1, <2>1
  <2>. QED BY <2>1, <2>2, <2>3 DEF CallRecord
<1>4. \A c \in Calls \ open : calls'[c] = NoCall /\ ~Open(c)'
      BY <1>1 DEF Open, NoCall
<1>5. TypeOK'
  <2>1. calls' \in CallsType
        BY <1>1, <1>3, <1>4 DEF CallsType
  <2>2. doubt' \in BOOLEAN /\ known' \in BOOLEAN
        BY <1>1
  <2>3. buttons' \in [Products -> {"idle", "loading", "success"}]
        BY <1>1
  <2>. QED BY <1>2, <2>1, <2>2, <2>3 DEF IInv, TypeOK, CallsType, StoreType
<1>6. CallsAreSound'
  <2>1. ASSUME NEW c \in open PROVE CallIsSound(c)'
        BY <1>3 DEF IInv, CallsAreSound, CallIsSound, Quantity
  <2>. QED BY <1>4, <2>1 DEF CallsAreSound
<1>7. SnapshotIsPending' /\ LoadingIsOpen' /\ HeldHasId'
  <2>1. \A p \in Products : buttons'[p] # "loading"
        BY <1>1
  <2>. QED BY <1>2, <2>1 DEF SnapshotIsPending, LoadingIsOpen, IInv, HeldHasId
<1>8. Undoubted'
  <2>1. ~doubt' => open = {}
        BY <1>1, Zenon
  <2>2. ~doubt' => \A c \in Calls : ~Open(c)'
        BY <1>4, <2>1
  <2>. QED BY <1>1, <2>2 DEF Undoubted
<1>. QED BY <1>5, <1>6, <1>7, <1>8 DEF IInv

LEMMA ClickAddStep ==
    ASSUME IInv, NEW c \in Calls, NEW p \in Products, ClickAdd(c, p)
    PROVE  IInv'
<1>1. /\ store \in StoreType /\ UNCHANGED <<cookie, known, cart, made>>
      /\ acts' \in 0..MaxActs /\ buttons \in [Products -> {"idle", "loading", "success"}]
      BY ActFacts DEF ClickAdd, IInv, TypeOK, StoreType
<1>2. PICK added : added = AddItem(store, p)
      OBVIOUS
<1>3. /\ added \in StoreType /\ added.previous = store.items /\ added.synced = store.synced
      /\ Holds(added.items, p) /\ \A r \in Products \ {p} : added.items[r] = store.items[r]
      BY <1>1, <1>2, AddItemFacts DEF ClickAdd
<1>4. CASE /\ known
           /\ store' = added
           /\ buttons' = [buttons EXCEPT ![p] = "loading"]
           /\ Send(c, ItemCall("add", p, 1, 0))
  <2>1. PICK call : call = ItemCall("add", p, 1, 0)
        OBVIOUS
  <2>2. 1 \in 0..(Cap + 1) /\ 0 \in 0..MaxLines
        BY CartAssumption
  <2>3. /\ call \in CallRecord
        /\ call.kind = "add" /\ call.product = p
        /\ call.todo = {p} /\ call.answer = "none" /\ call.live
        /\ call.stage = "sent" /\ call.button
        BY <2>1, <2>2, ItemCallFacts
  <2>4. /\ buttons' \in [Products -> {"idle", "loading", "success"}]
        /\ \A r \in Products : buttons'[r] = "loading" => buttons[r] = "loading" \/ r = p
        BY <1>1, <1>4
  <2>5. Send(c, call)
        BY <1>4, <2>1
  <2>6. /\ call.kind # "sync" /\ call.kind # "update" /\ call.kind # "remove"
        /\ call.button <=> call.kind = "add"
        /\ Holds(store'.items, p)
        /\ \A r \in Products \ {p} : store'.items[r] = store.items[r]
        BY <1>3, <1>4, <2>3
  <2>7. /\ store' \in StoreType /\ store'.previous = store.items
        /\ store'.synced = store.synced
        BY <1>3, <1>4
  <2>. QED BY <1>1, <2>3, <2>4, <2>5, <2>6, <2>7, SentStep
<1>5. CASE /\ ~known
           /\ store' = Confirm(added)
           /\ buttons' = [buttons EXCEPT ![p] = "success"]
           /\ Keep(c)
  <2>1. store' \in StoreType /\ store'.previous = NoSnapshot /\ store'.synced = store.synced
        BY <1>3, <1>5, ConfirmFacts
  <2>2. /\ buttons' \in [Products -> {"idle", "loading", "success"}]
        /\ \A r \in Products : buttons'[r] = "loading" => buttons[r] = "loading"
        BY <1>1, <1>5
  <2>. QED BY <1>1, <1>5, <2>1, <2>2, KeptStep
<1>. QED BY <1>2, <1>4, <1>5 DEF ClickAdd

(* A line without an id is not in the server's cart: nobody has to be told. *)
LEMMA ChangeLineStep ==
    ASSUME IInv, NEW c \in Calls, NEW kind \in {"update", "remove"}, NEW p \in Products,
           NEW q \in 0..(Cap + 1), NEW changed \in StoreType, ChangeLine(c, kind, p, q, changed),
           changed.previous = store.items, changed.synced = store.synced,
           \A r \in Products \ {p} : changed.items[r] = store.items[r],
           kind = "update" => changed.items[p] = [store.items[p] EXCEPT !.quantity = q],
           kind = "remove" => changed.items[p] = NoLine
    PROVE  IInv'
<1>1. /\ store \in StoreType /\ UNCHANGED <<buttons, cookie, known, cart, made>>
      /\ acts' \in 0..MaxActs /\ buttons \in [Products -> {"idle", "loading", "success"}]
      BY ActFacts DEF ChangeLine, IInv, TypeOK, StoreType
<1>2. CASE /\ known /\ store.items[p].id # 0
           /\ store' = changed
           /\ Send(c, ItemCall(kind, p, q, store.items[p].id))
  <2>1. PICK call : call = ItemCall(kind, p, q, store.items[p].id)
        OBVIOUS
  <2>2. store.items[p].id \in 0..MaxLines
        BY <1>1 DEF StoreType, Lines, Line
  <2>3. /\ call \in CallRecord
        /\ call.kind = kind /\ call.product = p /\ call.asked[p] = q
        /\ call.todo = {p} /\ call.answer = "none" /\ call.live
        /\ call.stage = "sent" /\ (call.button <=> kind = "add")
        BY <2>1, <2>2, ItemCallFacts
  <2>4. Send(c, call)
        BY <1>2, <2>1
  <2>. QED BY <1>1, <1>2, <2>3, <2>4, SentStep
<1>3. CASE /\ ~(known /\ store.items[p].id # 0)
           /\ store' = Confirm(changed)
           /\ Keep(c)
  <2>1. /\ store' \in StoreType /\ store'.previous = NoSnapshot /\ store'.synced = store.synced
        /\ store'.items = changed.items
        BY <1>3, ConfirmFacts
  <2>2. ASSUME known, Agrees(store.items) PROVE Agrees(store'.items)
    <3>1. ~Holds(cart, p)
          BY <1>3, <2>2 DEF IInv, HeldHasId, Agrees
    <3>. QED BY <2>1, <2>2, <3>1 DEF Agrees
  <2>. QED BY <1>1, <1>3, <2>1, <2>2, KeptStep
<1>. QED BY <1>2, <1>3 DEF ChangeLine

LEMMA ClickStep ==
    ASSUME IInv, NEW c \in Calls, NEW p \in Products, Click(c, p)
    PROVE  IInv'
<1>0. store \in StoreType /\ store.items[p].quantity \in Nat
      BY CartAssumption DEF IInv, TypeOK, StoreType, Lines, Line
<1>1. CASE ClickAdd(c, p)
      BY <1>1, ClickAddStep
<1>2. CASE Remove(c, p)
  <2>1. PICK changed : changed = RemoveItem(store, p)
        OBVIOUS
  <2>2. ChangeLine(c, "remove", p, 0, changed) /\ 0 \in 0..(Cap + 1)
        BY <1>2, <2>1, CartAssumption DEF Remove
  <2>3. /\ changed \in StoreType
        /\ changed.previous = store.items /\ changed.synced = store.synced
        /\ changed.items[p] = NoLine
        /\ \A r \in Products \ {p} : changed.items[r] = store.items[r]
        BY <1>0, <2>1, RemoveItemFacts
  <2>. QED BY <2>2, <2>3, ChangeLineStep
<1>3. ASSUME NEW q \in 1..(Cap + 1), AskQuantity(c, p, q) PROVE IInv'
  <2>1. PICK changed : changed = UpdateQuantity(store, p, q)
        OBVIOUS
  <2>2. ChangeLine(c, "update", p, q, changed) /\ Holds(store.items, p)
        BY <1>3, <2>1 DEF AskQuantity, ChangeLine
  <2>3. /\ changed \in StoreType
        /\ changed.previous = store.items /\ changed.synced = store.synced
        /\ changed.items[p] = [store.items[p] EXCEPT !.quantity = q]
        /\ \A r \in Products \ {p} : changed.items[r] = store.items[r]
        BY <1>0, <2>1, <2>2, UpdateQuantityFacts
  <2>4. q \in 0..(Cap + 1)
        BY CartAssumption
  <2>. QED BY <2>2, <2>3, <2>4, ChangeLineStep
<1>4. CASE Minus(c, p)
  <2>1. PICK q : q = store.items[p].quantity - 1
        OBVIOUS
  <2>2. AskQuantity(c, p, q) /\ q \in 1..(Cap + 1)
        BY <1>0, <1>4, <2>1, CartAssumption DEF Minus, AskQuantity
  <2>. QED BY <1>3, <2>2
<1>5. CASE Plus(c, p)
  <2>1. PICK q : q = store.items[p].quantity + 1
        OBVIOUS
  <2>2. AskQuantity(c, p, q) /\ q \in 1..(Cap + 1)
        BY <1>0, <1>5, <2>1, CartAssumption DEF Plus, AskQuantity
  <2>. QED BY <1>3, <2>2
<1>. QED BY <1>1, <1>2, <1>4, <1>5 DEF Click

-----------------------------------------------------------------------------
(* Steps of the server.                                                     *)

LEMMA UndoubtedFacts ==
    ASSUME IInv, ~doubt, NEW c \in Calls, Open(c)
    PROVE  Fresh(c) /\ CallIsSound(c) /\ \A d \in Calls : Open(d) => d = c
    BY DEF IInv, Undoubted, CallsAreSound

LEMMA AnsweredFacts ==
    ASSUME IInv, NEW c \in Calls, Open(c), NEW answer \in Answers, NEW got \in Lines,
           Answered(c, answer, got)
    PROVE  \E q \in CallRecord :
              /\ calls' = [calls EXCEPT ![c] = q] /\ calls'[c] = q
              /\ q.kind = calls[c].kind /\ q.live = calls[c].live /\ q.button = calls[c].button
              /\ q.product = calls[c].product /\ q.asked = calls[c].asked
              /\ q.stage = "answered" /\ q.answer = answer /\ q.got = got
              /\ CallIsSound(c)'
<1>1. calls[c] \in CallRecord /\ calls \in CallsType /\ CallIsSound(c)
      BY OpenFacts DEF IInv, TypeOK, CallsType, CallsAreSound
<1>2. PICK q : q = [calls[c] EXCEPT !.stage = "answered", !.answer = answer, !.got = got]
      OBVIOUS
<1>3. /\ q \in CallRecord
      /\ q.kind = calls[c].kind /\ q.live = calls[c].live /\ q.button = calls[c].button
      /\ q.product = calls[c].product /\ q.asked = calls[c].asked /\ q.todo = calls[c].todo
      /\ q.stage = "answered" /\ q.answer = answer /\ q.got = got
      BY <1>1, <1>2 DEF CallRecord
<1>4. calls' = [calls EXCEPT ![c] = q] /\ calls'[c] = q
      BY <1>1, <1>2 DEF Answered, CallsType
<1>5. CallIsSound(c)'
      BY <1>1, <1>3, <1>4 DEF CallIsSound
<1>. QED BY <1>3, <1>4, <1>5

(* An answer that changes nothing on the server.                            *)
LEMMA RefusedStep ==
    ASSUME IInv, NEW c \in Calls, Open(c), calls[c].stage # "answered",
           NEW answer \in {"failed", "pending", "unauthorized"},
           calls[c].kind = "sync" => answer = "unauthorized",
           Answered(c, answer, NoLines), ServerStep, UNCHANGED <<cart, made, doubt>>
    PROVE  IInv'
<1>0. UNCHANGED <<store, buttons, cookie, known, acts>>
      BY DEF ServerStep
<1>1. PICK q \in CallRecord :
          /\ calls' = [calls EXCEPT ![c] = q] /\ calls'[c] = q
          /\ q.kind = calls[c].kind /\ q.live = calls[c].live /\ q.button = calls[c].button
          /\ q.product = calls[c].product /\ q.asked = calls[c].asked
          /\ q.stage = "answered" /\ q.answer = answer
          /\ CallIsSound(c)'
  <2>1. answer \in Answers /\ NoLines \in Lines
        BY LineFacts DEF Answers
  <2>. QED BY <2>1, AnsweredFacts
<1>2. ASSUME ~doubt PROVE Fresh(c)'
  <2>1. Fresh(c) /\ CallIsSound(c)
        BY <1>2, UndoubtedFacts
  <2>2. ASSUME known, store.synced, calls[c].kind # "sync" PROVE Unsettled(c)'
    <3>1. Unsettled(c) /\ calls[c].answer = "none"
          BY <2>1, <2>2 DEF Fresh, CallIsSound
    <3>. QED BY <1>0, <1>1, <3>1 DEF Unsettled, Agrees, Quantity
  <2>. QED BY <1>0, <1>1, <2>1, <2>2 DEF Fresh
<1>3. HeldHasId' /\ made' \in [Products -> 0..MaxLines] /\ cart' \in CartType /\ doubt' \in BOOLEAN
      BY DEF IInv, HeldHasId, TypeOK, CartType
<1>. QED BY <1>0, <1>1, <1>2, <1>3, CallStep

(* The cart changes for the line of the request and its answer says so.     *)
LEMMA ServedStep ==
    ASSUME IInv, NEW c \in Calls, Open(c), calls[c].stage # "answered", calls[c].kind # "sync",
           NEW got \in Lines, Answered(c, "ok", got), ServerStep, UNCHANGED doubt,
           made' \in [Products -> 0..MaxLines], cart' \in CartType, HeldHasId',
           \A r \in Products \ {calls[c].product} : cart'[r] = cart[r],
           Holds(cart', calls[c].product) /\ ~doubt =>
               IF calls[c].kind = "add" THEN cart'[calls[c].product] = got[calls[c].product]
               ELSE known /\ store.synced /\ Unsettled(c) =>
                        cart'[calls[c].product] = store.items[calls[c].product]
    PROVE  IInv'
<1>0. UNCHANGED <<store, buttons, cookie, known, acts>>
      BY DEF ServerStep
<1>1. PICK q \in CallRecord :
          /\ calls' = [calls EXCEPT ![c] = q] /\ calls'[c] = q
          /\ q.kind = calls[c].kind /\ q.live = calls[c].live /\ q.button = calls[c].button
          /\ q.product = calls[c].product /\ q.asked = calls[c].asked
          /\ q.stage = "answered" /\ q.answer = "ok" /\ q.got = got
          /\ CallIsSound(c)'
      BY AnsweredFacts DEF Answers
<1>2. ASSUME ~doubt PROVE Fresh(c)'
  <2>1. Fresh(c) /\ CallIsSound(c)
        BY <1>2, UndoubtedFacts
  <2>2. ASSUME known, store.synced PROVE Unsettled(c)'
    <3>1. Unsettled(c) /\ calls[c].answer = "none"
          BY <2>1, <2>2 DEF Fresh, CallIsSound
    <3>2. Agrees(store.previous)
          BY <3>1 DEF Unsettled
    <3>3. /\ \A r \in Products \ {calls[c].product} :
                Holds(cart', r) => store.previous[r] = cart'[r]
          /\ Holds(cart', calls[c].product) =>
                cart'[calls[c].product] = IF calls[c].kind = "add" THEN got[calls[c].product]
                                          ELSE store.items[calls[c].product]
          BY <1>2, <2>2, <3>1, <3>2 DEF Agrees, Holds
    <3>. QED BY <1>0, <1>1, <3>1, <3>3 DEF Unsettled, Quantity, Holds
  <2>. QED BY <1>0, <1>1, <2>1, <2>2 DEF Fresh
<1>3. doubt' \in BOOLEAN
      BY DEF IInv, TypeOK
<1>. QED BY <1>0, <1>1, <1>2, <1>3, CallStep

LEMMA PatchItemStep ==
    ASSUME IInv, NEW c \in Calls, PatchItem(c)
    PROVE  IInv'
<1>1. /\ Open(c) /\ calls[c].stage = "sent" /\ calls[c].kind = "update"
      /\ ServerStep /\ UNCHANGED <<made, doubt>>
      BY DEF PatchItem, At
<1>2. calls[c] \in CallRecord
      BY <1>1, OpenFacts DEF IInv
<1>3. CASE Answered(c, "failed", NoLines) /\ UNCHANGED cart
      BY <1>1, <1>3, RefusedStep
<1>4. CASE Answered(c, "pending", NoLines) /\ UNCHANGED cart
      BY <1>1, <1>4, RefusedStep
<1>5. CASE /\ ~(Quantity(c) > Cap) /\ OwnItem(c)
           /\ cart' = [cart EXCEPT ![calls[c].product].quantity = Quantity(c)]
           /\ Answered(c, "ok", NoLines)
  <2>1. PICK p \in Products : p = calls[c].product
        BY <1>2 DEF CallRecord
  <2>2. cart \in CartType /\ Holds(cart, p)
        BY <1>5, <2>1 DEF IInv, TypeOK, CartType, OwnItem
  <2>3. Quantity(c) \in 0..Cap
        BY <1>2, <1>5, <2>1, CartAssumption DEF Quantity, CallRecord
  <2>4. PICK line : line = [cart[p] EXCEPT !.quantity = Quantity(c)]
        OBVIOUS
  <2>5. /\ line \in [quantity : 0..Cap, id : 0..MaxLines] /\ line.id = cart[p].id
        BY <2>2, <2>3, <2>4 DEF CartType
  <2>6. cart' = [cart EXCEPT ![p] = line]
        BY <1>5, <2>1, <2>4
  <2>7. /\ cart' \in CartType /\ cart'[p] = line
        /\ \A r \in Products \ {p} : cart'[r] = cart[r]
        BY <2>2, <2>5, <2>6 DEF CartType
  <2>8. HeldHasId'
        BY <2>2, <2>5, <2>7 DEF IInv, HeldHasId, Holds
  <2>9. ASSUME known, store.synced, Unsettled(c), ~doubt PROVE cart'[p] = store.items[p]
    <3>1. CallIsSound(c)
          BY <1>1, <2>9, UndoubtedFacts
    <3>2. /\ store.previous[p] = cart[p]
          /\ store.items[p] = [store.previous[p] EXCEPT !.quantity = Quantity(c)]
          BY <1>1, <2>1, <2>2, <2>9, <3>1 DEF CallIsSound, Unsettled, Agrees
    <3>. QED BY <2>4, <2>7, <3>2
  <2>10. made' \in [Products -> 0..MaxLines] /\ NoLines \in Lines
         BY <1>1, LineFacts DEF IInv, TypeOK
  <2>. QED BY <1>1, <1>5, <2>1, <2>7, <2>8, <2>9, <2>10, ServedStep
<1>. QED BY <1>3, <1>4, <1>5 DEF PatchItem

LEMMA DeleteItemStep ==
    ASSUME IInv, NEW c \in Calls, DeleteItem(c)
    PROVE  IInv'
<1>1. /\ Open(c) /\ calls[c].stage = "sent" /\ calls[c].kind = "remove"
      /\ ServerStep /\ UNCHANGED <<made, doubt>>
      BY DEF DeleteItem, At
<1>2. calls[c] \in CallRecord
      BY <1>1, OpenFacts DEF IInv
<1>3. CASE Answered(c, "pending", NoLines) /\ UNCHANGED cart
      BY <1>1, <1>3, RefusedStep
<1>4. CASE /\ cart' = [cart EXCEPT ![calls[c].product] = NoLine]
           /\ Answered(c, "ok", NoLines)
  <2>1. PICK p \in Products : p = calls[c].product
        BY <1>2 DEF CallRecord
  <2>2. cart \in CartType /\ NoLine \in [quantity : 0..Cap, id : 0..MaxLines]
        BY CartAssumption DEF IInv, TypeOK, CartType, NoLine
  <2>3. /\ cart' \in CartType /\ cart'[p] = NoLine
        /\ \A r \in Products \ {p} : cart'[r] = cart[r]
        BY <1>4, <2>1, <2>2 DEF CartType
  <2>4. ~Holds(cart', p)
        BY <2>3, LineFacts DEF Holds
  <2>5. HeldHasId'
        BY <2>3, <2>4 DEF IInv, HeldHasId, Holds
  <2>6. made' \in [Products -> 0..MaxLines] /\ NoLines \in Lines
        BY <1>1, LineFacts DEF IInv, TypeOK
  <2>. QED BY <1>1, <1>4, <2>1, <2>3, <2>4, <2>5, <2>6, ServedStep
<1>. QED BY <1>3, <1>4 DEF DeleteItem

(* The push of a sync goes on to its next line, or to the GET.              *)
LEMMA SyncGoesOn ==
    ASSUME IInv, NEW c \in Calls, Open(c), calls[c].stage # "answered", calls[c].kind = "sync",
           NEW stage \in {"sent", "fetch"}, NEW todo \in SUBSET Products,
           calls' = [calls EXCEPT ![c] = [calls[c] EXCEPT !.stage = stage, !.todo = todo]],
           UNCHANGED <<store, buttons, cookie, known, acts>>,
           made' \in [Products -> 0..MaxLines], cart' \in CartType, HeldHasId',
           doubt' \in BOOLEAN, ~doubt' => ~doubt
    PROVE  IInv'
<1>1. calls[c] \in CallRecord /\ calls \in CallsType /\ CallIsSound(c)
      BY OpenFacts DEF IInv, TypeOK, CallsType, CallsAreSound
<1>2. PICK q : q = [calls[c] EXCEPT !.stage = stage, !.todo = todo]
      OBVIOUS
<1>3. /\ q \in CallRecord
      /\ q.kind = calls[c].kind /\ q.live = calls[c].live /\ q.button = calls[c].button
      /\ q.product = calls[c].product /\ q.stage = stage /\ q.answer = calls[c].answer
      BY <1>1, <1>2 DEF CallRecord
<1>4. calls' = [calls EXCEPT ![c] = q] /\ calls'[c] = q
      BY <1>1, <1>2 DEF CallsType
<1>5. CallIsSound(c)'
      BY <1>1, <1>3, <1>4 DEF CallIsSound
<1>6. ~doubt' => ~doubt /\ Fresh(c)'
      BY <1>3, <1>4, UndoubtedFacts DEF Fresh
<1>. QED BY <1>3, <1>4, <1>5, <1>6, CallStep

LEMMA ReadLineStep ==
    ASSUME IInv, NEW c \in Calls, NEW p \in Products, ReadLine(c, p)
    PROVE  IInv'
<1>1. /\ Open(c) /\ calls[c].stage = "sent" /\ calls[c].kind \in {"add", "sync"}
      /\ UNCHANGED <<store, buttons, cookie, known, acts, cart, made, doubt>>
      /\ p \in calls[c].todo /\ calls[c].asked[p] <= Cap
      /\ calls' = [calls EXCEPT ![c].stage = "merging", ![c].product = p, ![c].copy = cart[p]]
      BY DEF ReadLine, At, ServerStep
<1>2. calls[c] \in CallRecord /\ calls \in CallsType /\ CallIsSound(c)
      BY <1>1, OpenFacts DEF IInv, TypeOK, CallsType, CallsAreSound
<1>3. cart[p] \in Line
      BY LineFacts DEF IInv, TypeOK, CartType, Lines
<1>4. PICK q : q = [calls[c] EXCEPT !.stage = "merging", !.product = p, !.copy = cart[p]]
      OBVIOUS
<1>5. /\ q \in CallRecord
      /\ q.kind = calls[c].kind /\ q.live = calls[c].live /\ q.button = calls[c].button
      /\ q.product = p /\ q.asked = calls[c].asked /\ q.todo = calls[c].todo
      /\ q.stage = "merging" /\ q.answer = calls[c].answer /\ q.copy = cart[p]
      BY <1>2, <1>3, <1>4 DEF CallRecord
<1>6. calls' = [calls EXCEPT ![c] = q] /\ calls'[c] = q
      BY <1>1, <1>2, <1>4 DEF CallsType
<1>7. CallIsSound(c)' /\ (q.kind = "add" => q.product = calls[c].product)
      BY <1>1, <1>2, <1>5, <1>6 DEF CallIsSound, Quantity
<1>8. ASSUME ~doubt PROVE Fresh(c)'
  <2>1. Fresh(c)
        BY <1>1, <1>8, UndoubtedFacts
  <2>2. ASSUME known, store.synced, calls[c].kind # "sync" PROVE Unsettled(c)'
    <3>1. Unsettled(c) /\ calls[c].answer = "none"
          BY <1>1, <1>2, <2>1, <2>2 DEF Fresh, CallIsSound
    <3>. QED BY <1>1, <1>5, <1>6, <1>7, <2>2, <3>1 DEF Unsettled, Agrees, Quantity
  <2>. QED BY <1>1, <1>5, <1>6, <2>1, <2>2 DEF Fresh
<1>9. HeldHasId' /\ made' \in [Products -> 0..MaxLines] /\ cart' \in CartType /\ doubt' \in BOOLEAN
      BY <1>1 DEF IInv, HeldHasId, TypeOK, CartType
<1>. QED BY <1>1, <1>5, <1>6, <1>7, <1>8, <1>9, CallStep

LEMMA NextLineStep ==
    ASSUME IInv, NEW c \in Calls, Open(c), calls[c].stage # "answered",
           calls[c].kind \in {"add", "sync"},
           NEW p \in Products, p = calls[c].product, NEW got \in Line, NextLine(c, p, got),
           ServerStep, UNCHANGED doubt,
           made' \in [Products -> 0..MaxLines], cart' \in CartType, HeldHasId',
           \A r \in Products \ {p} : cart'[r] = cart[r],
           Holds(cart', p) /\ ~doubt => cart'[p] = got
    PROVE  IInv'
<1>1. CASE calls[c].kind = "add"
  <2>1. PICK lines : lines = [NoLines EXCEPT ![p] = got]
        OBVIOUS
  <2>2. lines \in Lines /\ lines[p] = got
        BY <2>1, LineFacts DEF Lines
  <2>3. Answered(c, "ok", lines)
        BY <1>1, <2>1 DEF NextLine
  <2>. QED BY <1>1, <2>2, <2>3, ServedStep
<1>2. CASE calls[c].kind = "sync"
  <2>1. calls[c] \in CallRecord
        BY OpenFacts DEF IInv
  <2>2. PICK todo : todo = calls[c].todo \ {p}
        OBVIOUS
  <2>3. PICK stage : stage = IF calls[c].todo = {p} THEN "fetch" ELSE "sent"
        OBVIOUS
  <2>4. todo \in SUBSET Products /\ stage \in {"sent", "fetch"}
        BY <2>1, <2>2, <2>3 DEF CallRecord
  <2>5. calls' = [calls EXCEPT ![c] = [calls[c] EXCEPT !.stage = stage, !.todo = todo]]
    <3>1. PICK q : q = [calls[c] EXCEPT !.todo = todo, !.stage = stage]
          OBVIOUS
    <3>2. calls' = [calls EXCEPT ![c] = q]
          BY <1>2, <2>2, <2>3, <3>1 DEF NextLine, IInv, TypeOK
    <3>3. q = [calls[c] EXCEPT !.stage = stage, !.todo = todo]
          BY <2>1, <3>1 DEF CallRecord
    <3>. QED BY <3>2, <3>3
  <2>6. doubt' \in BOOLEAN /\ UNCHANGED <<store, buttons, cookie, known, acts>>
        BY DEF IInv, TypeOK, ServerStep
  <2>. QED BY <1>2, <2>4, <2>5, <2>6, SyncGoesOn
<1>. QED BY <1>1, <1>2

(* The line is saved over whatever is there now.                            *)
LEMMA SaveLineStep ==
    ASSUME IInv, NEW c \in Calls, SaveLine(c)
    PROVE  IInv'
<1>1. /\ Open(c) /\ calls[c].stage = "merging" /\ ServerStep /\ UNCHANGED doubt
      BY DEF SaveLine, At
<1>2. calls[c] \in CallRecord /\ CallIsSound(c)
      BY <1>1, OpenFacts DEF IInv, CallsAreSound
<1>3. calls[c].kind \in {"add", "sync"} /\ calls[c].stage # "answered"
      BY <1>1, <1>2 DEF CallIsSound
<1>4. PICK p \in Products : p = calls[c].product
      BY <1>2 DEF CallRecord
<1>5. cart \in CartType /\ made \in [Products -> 0..MaxLines]
      BY DEF IInv, TypeOK, CartType
<1>6. Quantity(c) \in 0..Cap
      BY <1>1, <1>2, <1>4, CartAssumption DEF CallIsSound, Quantity, CallRecord
<1>7. CASE /\ calls[c].copy # NoLine
           /\ cart' = IF Holds(cart, p) /\ cart[p].id = calls[c].copy.id
                      THEN [cart EXCEPT ![p] = Merged(c)] ELSE cart
           /\ NextLine(c, p, Merged(c))
           /\ UNCHANGED made
  <2>1. PICK line : line = Merged(c)
        OBVIOUS
  <2>2. calls[c].copy \in Line
        BY <1>2 DEF CallRecord
  <2>3. line = [calls[c].copy EXCEPT !.quantity = Capped(calls[c].copy.quantity + Quantity(c))]
        BY <2>1 DEF Merged
  <2>4. Capped(calls[c].copy.quantity + Quantity(c)) \in 0..Cap
        BY <1>6, <2>2, CartAssumption DEF Capped, Line
  <2>5. line \in [quantity : 0..Cap, id : 0..MaxLines] /\ line.id = calls[c].copy.id
        BY <2>2, <2>3, <2>4 DEF Line
  <2>6. line \in Line
        BY <2>5, CartAssumption DEF Line
  <2>7. cart' = cart \/ (Holds(cart, p) /\ cart[p].id = line.id /\ cart' = [cart EXCEPT ![p] = line])
        BY <1>7, <2>1, <2>5
  <2>8. /\ cart' \in CartType /\ \A r \in Products \ {p} : cart'[r] = cart[r]
        /\ cart' = cart \/ (Holds(cart, p) /\ cart[p].id = line.id /\ cart'[p] = line)
        BY <1>5, <2>5, <2>7 DEF CartType
  <2>9. HeldHasId'
        BY <2>8 DEF IInv, HeldHasId, Holds
  <2>10. ASSUME Holds(cart', p), ~doubt PROVE cart'[p] = line
    <3>1. CASE cart' = cart
      <4>1. Fresh(c)
            BY <1>1, <2>10, UndoubtedFacts
      <4>2. Holds(cart, p) /\ cart[p].id = line.id
            BY <1>1, <1>4, <2>5, <2>10, <3>1, <4>1 DEF Fresh
      <4>3. cart' = [cart EXCEPT ![p] = line]
            BY <1>7, <2>1, <2>5, <4>2
      <4>. QED BY <1>5, <4>3 DEF CartType
    <3>2. CASE cart' # cart
          BY <2>8, <3>2
    <3>. QED BY <3>1, <3>2
  <2>11. made' \in [Products -> 0..MaxLines] /\ NextLine(c, p, line)
         BY <1>5, <1>7, <2>1
  <2>. QED BY <1>1, <1>3, <1>4, <2>6, <2>8, <2>9, <2>10, <2>11, NextLineStep
<1>8. CASE Answered(c, "failed", NoLines) /\ calls[c].kind = "add" /\ UNCHANGED <<cart, made>>
      BY <1>1, <1>3, <1>8, RefusedStep
<1>9. CASE calls' = [calls EXCEPT ![c].stage = "fetch"] /\ calls[c].kind # "add"
           /\ UNCHANGED <<cart, made>>
  <2>1. PICK todo \in SUBSET Products : todo = calls[c].todo
        BY <1>2 DEF CallRecord
  <2>2. [calls[c] EXCEPT !.stage = "fetch"] = [calls[c] EXCEPT !.stage = "fetch", !.todo = todo]
        BY <1>2, <2>1 DEF CallRecord
  <2>3. calls' = [calls EXCEPT ![c] = [calls[c] EXCEPT !.stage = "fetch", !.todo = todo]]
        BY <1>9, <2>2
  <2>4. /\ made' \in [Products -> 0..MaxLines] /\ cart' \in CartType /\ HeldHasId'
        /\ doubt' \in BOOLEAN /\ UNCHANGED <<store, buttons, cookie, known, acts>>
        BY <1>1, <1>5, <1>9 DEF IInv, TypeOK, HeldHasId, ServerStep
  <2>. QED BY <1>1, <1>3, <1>9, <2>3, <2>4, SyncGoesOn
<1>10. CASE LET line == [quantity |-> Quantity(c), id |-> made[p] + 1] IN
              /\ made[p] < MaxLines
              /\ made' = [made EXCEPT ![p] = @ + 1]
              /\ cart' = [cart EXCEPT ![p] = line]
              /\ NextLine(c, p, line)
  <2>1. PICK line : line = [quantity |-> Quantity(c), id |-> made[p] + 1]
        OBVIOUS
  <2>2. PICK n \in 1..MaxLines : n = made[p] + 1
        BY <1>5, <1>10, CartAssumption
  <2>3. /\ line \in [quantity : 0..Cap, id : 0..MaxLines] /\ line \in Line
        /\ line.id # 0
        BY <1>6, <2>1, <2>2, CartAssumption DEF Line
  <2>4. made' = [made EXCEPT ![p] = n] /\ cart' = [cart EXCEPT ![p] = line] /\ NextLine(c, p, line)
        BY <1>10, <2>1, <2>2
  <2>5. /\ made' \in [Products -> 0..MaxLines] /\ cart' \in CartType /\ cart'[p] = line
        /\ \A r \in Products \ {p} : cart'[r] = cart[r]
        BY <1>5, <2>2, <2>3, <2>4, CartAssumption DEF CartType
  <2>6. HeldHasId'
        BY <2>3, <2>5 DEF IInv, HeldHasId, Holds
  <2>. QED BY <1>1, <1>3, <1>4, <2>3, <2>4, <2>5, <2>6, NextLineStep
<1>11. \/ /\ calls[c].copy # NoLine
          /\ cart' = IF Holds(cart, p) /\ cart[p].id = calls[c].copy.id
                     THEN [cart EXCEPT ![p] = Merged(c)] ELSE cart
          /\ NextLine(c, p, Merged(c))
          /\ UNCHANGED made
       \/ Answered(c, "failed", NoLines) /\ calls[c].kind = "add" /\ UNCHANGED <<cart, made>>
       \/ /\ calls' = [calls EXCEPT ![c].stage = "fetch"] /\ calls[c].kind # "add"
          /\ UNCHANGED <<cart, made>>
       \/ LET line == [quantity |-> Quantity(c), id |-> made[p] + 1] IN
              /\ made[p] < MaxLines
              /\ made' = [made EXCEPT ![p] = @ + 1]
              /\ cart' = [cart EXCEPT ![p] = line]
              /\ NextLine(c, p, line)
       BY <1>4 DEF SaveLine
<1>. QED BY <1>7, <1>8, <1>9, <1>10, <1>11

LEMMA SkipLineStep ==
    ASSUME IInv, NEW c \in Calls, NEW p \in Products, SkipLine(c, p)
    PROVE  IInv'
<1>1. /\ Open(c) /\ calls[c].stage = "sent" /\ calls[c].kind \in {"add", "sync"}
      /\ ServerStep /\ UNCHANGED <<cart, made, doubt>>
      BY DEF SkipLine, At
<1>2. CASE calls[c].kind = "add" /\ Answered(c, "pending", NoLines)
      BY <1>1, <1>2, RefusedStep
<1>3. CASE calls[c].kind = "sync" /\ NextLine(c, p, NoLine)
  <2>1. calls[c] \in CallRecord /\ calls \in CallsType
        BY <1>1, OpenFacts DEF IInv, TypeOK, CallsType
  <2>2. PICK todo : todo = calls[c].todo \ {p}
        OBVIOUS
  <2>3. PICK stage : stage = IF calls[c].todo = {p} THEN "fetch" ELSE "sent"
        OBVIOUS
  <2>4. todo \in SUBSET Products /\ stage \in {"sent", "fetch"}
        BY <2>1, <2>2, <2>3 DEF CallRecord
  <2>5. PICK q : q = [calls[c] EXCEPT !.todo = todo, !.stage = stage]
        OBVIOUS
  <2>6. calls' = [calls EXCEPT ![c] = q]
        BY <1>3, <2>1, <2>2, <2>3, <2>5 DEF NextLine, CallsType
  <2>7. q = [calls[c] EXCEPT !.stage = stage, !.todo = todo]
        BY <2>1, <2>5 DEF CallRecord
  <2>8. /\ made' \in [Products -> 0..MaxLines] /\ cart' \in CartType /\ HeldHasId'
        /\ doubt' \in BOOLEAN /\ UNCHANGED <<store, buttons, cookie, known, acts>>
        BY <1>1 DEF IInv, TypeOK, CartType, HeldHasId, ServerStep
  <2>. QED BY <1>1, <1>3, <2>4, <2>6, <2>7, <2>8, SyncGoesOn
<1>. QED BY <1>1, <1>2, <1>3 DEF SkipLine

LEMMA FetchCartStep ==
    ASSUME IInv, NEW c \in Calls, FetchCart(c)
    PROVE  IInv'
<1>1. /\ Open(c) /\ calls[c].stage = "fetch" /\ Answered(c, "ok", cart)
      /\ UNCHANGED <<store, buttons, cookie, known, acts, cart, made, doubt>>
      BY DEF FetchCart, At, ServerStep
<1>2. calls[c].kind = "sync"
      BY <1>1 DEF IInv, CallsAreSound, CallIsSound
<1>3. cart \in Lines /\ "ok" \in Answers
      BY LineFacts DEF IInv, TypeOK, CartType, Answers
<1>4. PICK q \in CallRecord :
          /\ calls' = [calls EXCEPT ![c] = q] /\ calls'[c] = q
          /\ q.kind = calls[c].kind /\ q.live = calls[c].live /\ q.button = calls[c].button
          /\ q.product = calls[c].product
          /\ q.stage = "answered" /\ q.answer = "ok" /\ q.got = cart
          /\ CallIsSound(c)'
      BY <1>1, <1>3, AnsweredFacts
<1>5. ASSUME ~doubt PROVE Fresh(c)'
  <2>1. Fresh(c)
        BY <1>1, <1>5, UndoubtedFacts
  <2>2. Agrees(cart)'
        BY <1>1 DEF Agrees
  <2>. QED BY <1>1, <1>2, <1>4, <2>1, <2>2 DEF Fresh, Agrees
<1>6. HeldHasId' /\ made' \in [Products -> 0..MaxLines] /\ cart' \in CartType /\ doubt' \in BOOLEAN
      BY <1>1 DEF IInv, HeldHasId, TypeOK, CartType
<1>. QED BY <1>1, <1>4, <1>5, <1>6, CallStep

LEMMA RefuseStep ==
    ASSUME IInv, NEW c \in Calls, Refuse(c)
    PROVE  IInv'
<1>1. /\ Open(c) /\ calls[c].stage # "answered" /\ Answered(c, "unauthorized", NoLines)
      /\ ServerStep /\ UNCHANGED <<cart, made, doubt>>
      BY DEF Refuse, At
<1>. QED BY <1>1, RefusedStep

LEMMA LoseStep ==
    ASSUME IInv, NEW c \in Calls, Lose(c)
    PROVE  IInv'
<1>1. /\ Open(c) /\ doubt' = TRUE
      /\ UNCHANGED <<store, buttons, cookie, known, acts, cart, made>>
      BY DEF Lose, ServerStep
<1>2. calls[c] \in CallRecord
      BY <1>1, OpenFacts DEF IInv
<1>3. /\ made' \in [Products -> 0..MaxLines] /\ cart' \in CartType /\ HeldHasId'
      /\ doubt' \in BOOLEAN
      BY <1>1 DEF IInv, TypeOK, CartType, HeldHasId
<1>4. CASE /\ calls[c].kind = "sync" /\ calls[c].stage = "sent"
           /\ calls' = [calls EXCEPT ![c].stage = "fetch"]
  <2>1. PICK todo \in SUBSET Products : todo = calls[c].todo
        BY <1>2 DEF CallRecord
  <2>2. [calls[c] EXCEPT !.stage = "fetch"] = [calls[c] EXCEPT !.stage = "fetch", !.todo = todo]
        BY <1>2, <2>1 DEF CallRecord
  <2>3. calls' = [calls EXCEPT ![c] = [calls[c] EXCEPT !.stage = "fetch", !.todo = todo]]
        BY <1>4, <2>2
  <2>. QED BY <1>1, <1>3, <1>4, <2>3, SyncGoesOn
<1>5. CASE Answered(c, "failed", NoLines)
  <2>1. "failed" \in Answers /\ NoLines \in Lines
        BY LineFacts DEF Answers
  <2>2. PICK q \in CallRecord :
            /\ calls' = [calls EXCEPT ![c] = q]
            /\ q.kind = calls[c].kind /\ q.live = calls[c].live /\ q.button = calls[c].button
            /\ q.product = calls[c].product
            /\ CallIsSound(c)'
        BY <1>1, <1>5, <2>1, AnsweredFacts
  <2>. QED BY <1>1, <1>3, <2>2, CallStep
<1>. QED BY <1>4, <1>5 DEF Lose

-----------------------------------------------------------------------------
(* The answers.                                                             *)

LEMMA SettledFacts ==
    ASSUME IInv, NEW c \in Calls, Open(c)
    PROVE  /\ Settled(c) \in StoreType
           /\ Settled(c).previous = NoSnapshot /\ Settled(c).synced = store.synced
           /\ Unsettled(c) /\ calls[c].kind # "sync" /\ calls[c].answer # "pending" =>
                 Agrees(Settled(c).items)
<1>1. store \in StoreType /\ calls[c] \in CallRecord
      BY OpenFacts DEF IInv, TypeOK, StoreType
<1>2. PICK p \in Products : p = calls[c].product
      BY <1>1 DEF CallRecord
<1>3. CASE calls[c].answer = "ok" /\ calls[c].kind = "add"
  <2>1. PICK line \in Line : line = calls[c].got[p]
        BY <1>1 DEF CallRecord, Lines
  <2>2. PICK t : t = ConfirmServerLine(store, p, line.id, line.quantity)
        OBVIOUS
  <2>3. /\ t \in StoreType /\ t.synced = store.synced
        /\ \A r \in Products \ {p} : t.items[r] = store.items[r]
        /\ Holds(store.items, p) => t.items[p] = line
        BY <1>1, <2>2, ConfirmServerLineFacts
  <2>4. Settled(c) = Confirm(t)
        BY <1>2, <1>3, <2>1, <2>2 DEF Settled
  <2>5. /\ Settled(c) \in StoreType /\ Settled(c).previous = NoSnapshot
        /\ Settled(c).synced = store.synced /\ Settled(c).items = t.items
        BY <2>3, <2>4, ConfirmFacts
  <2>6. ASSUME Unsettled(c) PROVE Agrees(t.items)
    <3>1. /\ \A r \in Products \ {p} : Holds(cart, r) => store.items[r] = cart[r]
          /\ Holds(cart, p) => cart[p] = line
          /\ Holds(store.items, p)
          BY <1>2, <1>3, <2>1, <2>6 DEF Unsettled
    <3>. QED BY <2>3, <3>1 DEF Agrees
  <2>. QED BY <2>5, <2>6
<1>4. CASE calls[c].answer \in {"ok", "pending"} /\ ~(calls[c].answer = "ok" /\ calls[c].kind = "add")
  <2>1. Settled(c) = Confirm(store)
        BY <1>4 DEF Settled
  <2>2. /\ Settled(c) \in StoreType /\ Settled(c).previous = NoSnapshot
        /\ Settled(c).synced = store.synced /\ Settled(c).items = store.items
        BY <1>1, <2>1, ConfirmFacts
  <2>3. ASSUME Unsettled(c), calls[c].answer = "ok" PROVE Agrees(store.items)
    <3>1. /\ \A r \in Products \ {p} : Holds(cart, r) => store.items[r] = cart[r]
          /\ Holds(cart, p) => cart[p] = store.items[p]
          BY <1>2, <1>4, <2>3 DEF Unsettled
    <3>. QED BY <3>1 DEF Agrees
  <2>. QED BY <1>4, <2>2, <2>3
<1>5. CASE calls[c].answer \notin {"ok", "pending"}
  <2>1. Settled(c) = Rollback(store)
        BY <1>5 DEF Settled
  <2>2. /\ Settled(c) \in StoreType /\ Settled(c).previous = NoSnapshot
        /\ Settled(c).synced = store.synced
        /\ store.previous # NoSnapshot => Settled(c).items = store.previous
        BY <1>1, <2>1, RollbackFacts
  <2>3. Unsettled(c) => store.previous # NoSnapshot /\ Agrees(store.previous)
        BY <1>5 DEF Unsettled
  <2>. QED BY <2>2, <2>3
<1>. QED BY <1>3, <1>4, <1>5

LEMMA SettleStep ==
    ASSUME IInv, NEW c \in Calls, Settle(c)
    PROVE  IInv'
<1>1. /\ Open(c) /\ calls[c].kind # "sync" /\ Close(c) /\ store' = Settled(c)
      /\ UNCHANGED <<cookie, known, cart, made, acts>>
      /\ doubt' = (doubt \/ calls[c].answer = "pending")
      /\ buttons' = IF ~calls[c].button THEN buttons
                    ELSE [buttons EXCEPT ![calls[c].product] = ButtonAfter(c)]
      BY DEF Settle, At, AnswerStep
<1>2. /\ store' \in StoreType /\ store'.previous = NoSnapshot /\ store'.synced = store.synced
      /\ Unsettled(c) /\ calls[c].answer # "pending" => Agrees(store'.items)
      BY <1>1, SettledFacts
<1>3. doubt' \in BOOLEAN
      BY <1>1
<1>4. ~doubt' => ~doubt /\ calls[c].answer # "pending"
      BY <1>1, Zenon
<1>5. buttons \in [Products -> {"idle", "loading", "success"}] /\ calls[c] \in CallRecord
      BY <1>1, OpenFacts DEF IInv, TypeOK
<1>6. /\ buttons' \in [Products -> {"idle", "loading", "success"}]
      /\ \A r \in Products : buttons'[r] = "loading" =>
            /\ buttons[r] = "loading"
            /\ ~(calls[c].kind = "add" /\ calls[c].product = r /\ calls[c].live /\ calls[c].button)
      BY <1>1, <1>5 DEF ButtonAfter, CallRecord
<1>7. Fresh(c) /\ known /\ store'.synced => Unsettled(c)
      BY <1>1, <1>2 DEF Fresh
<1>. QED BY <1>1, <1>2, <1>3, <1>4, <1>6, <1>7, CloseStep

LEMMA ApplyStep ==
    ASSUME IInv, NEW c \in Calls, Apply(c)
    PROVE  IInv'
<1>1. /\ Open(c) /\ calls[c].kind = "sync" /\ calls[c].stage = "answered" /\ Close(c)
      /\ calls[c].answer # "unauthorized"
      /\ UNCHANGED <<cookie, known, cart, made, acts, buttons, doubt>>
      /\ IF calls[c].answer = "ok" THEN store' = ApplyServerCart(store, calls[c].got)
         ELSE UNCHANGED store
      BY DEF Apply, At, AnswerStep
<1>2. store \in StoreType /\ calls[c].got \in Lines
      BY <1>1, OpenFacts DEF IInv, TypeOK, StoreType, CallRecord
<1>3. PICK got \in Lines : got = calls[c].got
      BY <1>2
<1>4. /\ store' \in StoreType /\ store'.previous = store.previous
      /\ calls[c].answer = "ok" => \A p \in Products : Holds(got, p) => store'.items[p] = got[p]
      BY <1>1, <1>2, <1>3, ApplyServerCartFacts
<1>5. ASSUME Fresh(c) PROVE Agrees(store'.items)
  <2>1. calls[c].answer = "ok" /\ Agrees(got)
        BY <1>1, <1>3, <1>5 DEF Fresh
  <2>. QED BY <1>4, <2>1 DEF Agrees, Holds
<1>6. /\ doubt' \in BOOLEAN /\ buttons' \in [Products -> {"idle", "loading", "success"}]
      /\ (~doubt' => ~doubt)
      /\ \A r \in Products : buttons'[r] = "loading" => buttons[r] = "loading"
      BY <1>1 DEF IInv, TypeOK
<1>. QED BY <1>1, <1>4, <1>5, <1>6, CloseStep

LEMMA BounceStep ==
    ASSUME IInv, NEW c \in Calls, Bounce(c)
    PROVE  IInv'
<1>1. /\ Open(c) /\ UNCHANGED <<cookie, cart, made, acts>>
      /\ Load(IF calls[c].kind = "sync" THEN store ELSE Settled(c), Others(c))
      BY DEF Bounce, At
<1>2. PICK s : s = IF calls[c].kind = "sync" THEN store ELSE Settled(c)
      OBVIOUS
<1>3. s \in StoreType
      BY <1>1, <1>2, SettledFacts DEF IInv, TypeOK, StoreType
<1>4. PICK open : open = Others(c)
      OBVIOUS
<1>5. open \in SUBSET {d \in Calls : Open(d)} /\ acts' \in 0..MaxActs
      BY <1>1, <1>4 DEF Others, IInv, TypeOK
<1>6. Load(s, open)
      BY <1>1, <1>2, <1>4
<1>. QED BY <1>1, <1>3, <1>5, <1>6, LoadStep

LEMMA ForgetStep ==
    ASSUME IInv, NEW c \in Calls, Forget(c)
    PROVE  IInv'
<1>1. /\ Open(c) /\ ~calls[c].live /\ Close(c)
      /\ UNCHANGED <<cookie, known, cart, made, acts, store, buttons, doubt>>
      BY DEF Forget, At, AnswerStep
<1>2. /\ store' \in StoreType /\ store'.previous = store.previous
      /\ doubt' \in BOOLEAN /\ buttons' \in [Products -> {"idle", "loading", "success"}]
      /\ \A r \in Products : buttons'[r] = "loading" => buttons[r] = "loading"
      BY <1>1 DEF IInv, TypeOK, StoreType
<1>3. ~Fresh(c) /\ (~doubt' => ~doubt)
      BY <1>1 DEF Fresh
<1>. QED BY <1>1, <1>2, <1>3, CloseStep

-----------------------------------------------------------------------------
(* The session, navigation and the checkout.                                *)

LEMMA ReloadStep ==
    ASSUME IInv, Reload
    PROVE  IInv'
<1>1. PICK open : open = {c \in Calls : Open(c)}
      OBVIOUS
<1>2. /\ Load(store, open) /\ UNCHANGED <<cookie, cart, made>> /\ acts' \in 0..MaxActs
      /\ store \in StoreType /\ open \in SUBSET {c \in Calls : Open(c)}
      BY <1>1, ActFacts DEF Reload, IInv, TypeOK, StoreType
<1>. QED BY <1>2, LoadStep

(* The buttons go; the requests they sent stay.                             *)
LEMMA NavigateStep ==
    ASSUME IInv, Navigate
    PROVE  IInv'
<1>1. /\ buttons' = [p \in Products |-> "idle"]
      /\ calls' = [c \in Calls |-> IF Open(c) THEN [calls[c] EXCEPT !.button = FALSE]
                                              ELSE calls[c]]
      /\ UNCHANGED <<store, cookie, known, cart, made, acts, doubt>>
      BY DEF Navigate
<1>2. ASSUME NEW c \in Calls, Open(c)
      PROVE  /\ calls'[c] \in CallRecord /\ Open(c)'
             /\ calls'[c].stage = calls[c].stage /\ calls'[c].answer = calls[c].answer
             /\ calls'[c].kind = calls[c].kind /\ calls'[c].product = calls[c].product
             /\ calls'[c].asked = calls[c].asked /\ calls'[c].todo = calls[c].todo
             /\ calls'[c].copy = calls[c].copy /\ calls'[c].got = calls[c].got
             /\ calls'[c].live = calls[c].live
  <2>1. calls[c] \in CallRecord
        BY <1>2, OpenFacts DEF IInv
  <2>2. calls'[c] = [calls[c] EXCEPT !.button = FALSE]
        BY <1>1, <1>2
  <2>3. calls'[c] \in CallRecord /\ calls'[c].kind = calls[c].kind
        BY <2>1, <2>2 DEF CallRecord
  <2>. QED BY <1>2, <2>1, <2>2, <2>3 DEF CallRecord, Open
<1>3. ASSUME NEW c \in Calls, ~Open(c) PROVE calls'[c] = calls[c] /\ ~Open(c)'
      BY <1>1, <1>3 DEF Open
<1>4. \A c \in Calls : Open(c)' <=> Open(c)
      BY <1>2, <1>3
<1>5. TypeOK'
  <2>1. \A c \in Calls : calls'[c] \in CallRecord \cup {NoCall}
        BY <1>2, <1>3 DEF IInv, TypeOK
  <2>2. calls' \in CallsType
        BY <1>1, <2>1 DEF CallsType
  <2>. QED BY <1>1, <2>2 DEF IInv, TypeOK, CallsType
<1>6. CallsAreSound'
  <2>. SUFFICES ASSUME NEW c \in Calls, Open(c) PROVE CallIsSound(c)'
       BY <1>4 DEF CallsAreSound
  <2>. QED BY <1>2 DEF IInv, CallsAreSound, CallIsSound, Quantity
<1>7. SnapshotIsPending'
  <2>. SUFFICES ASSUME store.previous # NoSnapshot
                PROVE  \E d \in Calls : Open(d)' /\ calls'[d].live /\ calls'[d].kind # "sync"
       BY <1>1 DEF SnapshotIsPending
  <2>1. PICK d \in Calls : Open(d) /\ calls[d].live /\ calls[d].kind # "sync"
        BY DEF IInv, SnapshotIsPending
  <2>. QED BY <1>2, <2>1
<1>8. LoadingIsOpen' /\ HeldHasId'
  <2>1. \A p \in Products : buttons'[p] # "loading"
        BY <1>1
  <2>. QED BY <1>1, <2>1 DEF LoadingIsOpen, IInv, HeldHasId
<1>9. Undoubted'
  <2>. SUFFICES ASSUME ~doubt
                PROVE  /\ \A c, d \in Calls : Open(c) /\ Open(d) => c = d
                       /\ \A c \in Calls : Open(c) => Fresh(c)'
                       /\ known /\ store.synced /\ (\A c \in Calls : ~Open(c)) =>
                             Agrees(store.items)'
       BY <1>1, <1>4 DEF Undoubted
  <2>1. ASSUME NEW c \in Calls, Open(c) PROVE Fresh(c)'
    <3>1. Fresh(c)
          BY <2>1 DEF IInv, Undoubted
    <3>2. Unsettled(c) => Unsettled(c)'
          BY <1>1, <1>2, <2>1 DEF Unsettled, Agrees, Quantity
    <3>. QED BY <1>1, <1>2, <2>1, <3>1, <3>2 DEF Fresh, Agrees
  <2>2. Agrees(store.items) => Agrees(store.items)'
        BY <1>1 DEF Agrees
  <2>. QED BY <2>1, <2>2 DEF IInv, Undoubted
<1>. QED BY <1>5, <1>6, <1>7, <1>8, <1>9 DEF IInv

(* A step outside the requests: the store or the cart of the server may be  *)
(* emptied, nothing else of them changes.                                   *)
LEMMA OutsideStep ==
    ASSUME IInv, UNCHANGED <<calls, made, doubt>>, known' \in BOOLEAN, known' => known,
           cookie' \in BOOLEAN, acts' \in 0..MaxActs,
           store' = store \/ store' = ClearCart(store),
           cart' = cart \/ cart' = NoLines,
           buttons' \in [Products -> {"idle", "loading", "success"}],
           \A p \in Products : buttons'[p] = "loading" => buttons[p] = "loading"
    PROVE  IInv'
<1>1. /\ store \in StoreType /\ store' \in StoreType
      /\ store' = store \/ (store'.previous = NoSnapshot /\ ~store'.synced)
      BY ClearCartFacts DEF IInv, TypeOK, StoreType
<1>2. cart \in CartType /\ cart' \in CartType
  <2>1. NoLines \in CartType
        BY CartAssumption DEF NoLines, NoLine, CartType
  <2>. QED BY <2>1 DEF IInv, TypeOK, CartType
<1>3. \A p \in Products : Holds(cart', p) => Holds(cart, p) /\ cart'[p] = cart[p]
      BY LineFacts DEF Holds
<1>4. TypeOK'
      BY <1>1, <1>2 DEF IInv, TypeOK, StoreType, CartType
<1>5. CallsAreSound'
      BY DEF IInv, CallsAreSound, CallIsSound, Open, Quantity
<1>6. SnapshotIsPending'
      BY <1>1 DEF IInv, SnapshotIsPending, Open
<1>7. LoadingIsOpen'
      BY DEF IInv, LoadingIsOpen, Open
<1>8. HeldHasId'
      BY <1>3 DEF IInv, HeldHasId, Holds
<1>9. \A lines : Agrees(lines) => \A p \in Products : Holds(cart', p) => lines[p] = cart'[p]
      BY <1>3 DEF Agrees
<1>10. Undoubted'
  <2>. SUFFICES ASSUME ~doubt
                PROVE  /\ \A c, d \in Calls : Open(c) /\ Open(d) => c = d
                       /\ \A c \in Calls : Open(c) => Fresh(c)'
                       /\ known' /\ store'.synced /\ (\A c \in Calls : ~Open(c)) =>
                             Agrees(store.items)'
       BY DEF Undoubted, Open
  <2>1. ASSUME NEW c \in Calls, Open(c) PROVE Fresh(c)'
    <3>1. Fresh(c)
          BY <2>1 DEF IInv, Undoubted
    <3>2. ASSUME store' = store, Unsettled(c) PROVE Unsettled(c)'
      <4>1. PICK lines : lines = store.previous
            OBVIOUS
      <4>2. calls[c].answer \notin {"ok", "pending"} => Agrees(lines) /\ Agrees(lines)'
        <5>1. Agrees(lines) => Agrees(lines)'
              BY <1>9 DEF Agrees, Holds
        <5>. QED BY <3>2, <4>1, <5>1 DEF Unsettled
      <4>3. calls[c].product \in Products
            BY <2>1, OpenFacts DEF IInv, CallRecord
      <4>4. ASSUME calls[c].answer = "ok"
            PROVE  /\ \A r \in Products \ {calls[c].product} :
                          Holds(cart', r) => store.previous[r] = cart'[r]
                   /\ Holds(cart', calls[c].product) =>
                          cart'[calls[c].product] =
                             IF calls[c].kind = "add" THEN calls[c].got[calls[c].product]
                             ELSE store.items[calls[c].product]
            BY <1>3, <3>2, <4>3, <4>4 DEF Unsettled
      <4>5. /\ store.previous # NoSnapshot
            /\ \A r \in Products \ {calls[c].product} : store.items[r] = store.previous[r]
            /\ calls[c].kind = "update" =>
                  store.items[calls[c].product] =
                     [store.previous[calls[c].product] EXCEPT !.quantity = Quantity(c)]
            /\ calls[c].kind = "remove" => store.items[calls[c].product] = NoLine
            /\ calls[c].kind = "add" => Holds(store.items, calls[c].product)
            BY <3>2 DEF Unsettled
      <4>6. Agrees(store.previous)' \/ calls[c].answer \in {"ok", "pending"}
            BY <3>2, <4>1, <4>2 DEF Agrees
      <4>. QED BY <3>2, <4>4, <4>5, <4>6 DEF Unsettled, Quantity, Holds
    <3>3. Agrees(calls[c].got) => Agrees(calls[c].got)'
          BY <1>9 DEF Agrees, Holds
    <3>4. /\ calls[c].stage = "merging" /\ Holds(cart', calls[c].product) =>
                  calls[c].copy = cart'[calls[c].product]
      <4>1. calls[c].product \in Products
            BY <2>1, OpenFacts DEF IInv, CallRecord
      <4>. QED BY <1>3, <3>1, <4>1 DEF Fresh
    <3>. QED BY <1>1, <3>1, <3>2, <3>3, <3>4 DEF Fresh, Holds
  <2>2. ASSUME known', store'.synced, \A c \in Calls : ~Open(c) PROVE Agrees(store.items)'
    <3>1. Agrees(store.items) /\ store' = store
          BY <1>1, <2>2 DEF IInv, Undoubted
    <3>. QED BY <1>9, <3>1 DEF Agrees, Holds
  <2>. QED BY <2>1, <2>2 DEF IInv, Undoubted
<1>. QED BY <1>4, <1>5, <1>6, <1>7, <1>8, <1>10 DEF IInv

LEMMA ProbeStep ==
    ASSUME IInv, NEW c \in Calls, Probe(c)
    PROVE  IInv'
<1>1. /\ UNCHANGED <<store, buttons, cookie, cart, made, acts>> /\ known' = cookie
      /\ cookie \in BOOLEAN
      BY DEF Probe, IInv, TypeOK
<1>2. CASE ~cookie /\ UNCHANGED <<calls, doubt>>
      BY <1>1, <1>2, OutsideStep DEF IInv, TypeOK
<1>3. CASE cookie /\ Send(c, SyncCall)
  <2>1. PICK call : call = SyncCall
        OBVIOUS
  <2>2. /\ call \in CallRecord /\ call.kind = "sync" /\ call.answer = "none" /\ call.live
        /\ call.stage \in {"sent", "fetch"}
    <3>1. PICK p : p = CHOOSE r \in Products : TRUE
          OBVIOUS
    <3>2. p \in Products
          BY <3>1, CartAssumption
    <3>3. PICK asked : asked = [r \in Products |-> store.items[r].quantity]
          OBVIOUS
    <3>4. asked \in [Products -> 0..(Cap + 1)]
          BY <3>3 DEF IInv, TypeOK, Lines, Line
    <3>5. PICK todo : todo = {r \in Products : Holds(store.items, r)}
          OBVIOUS
    <3>6. todo \in SUBSET Products /\ 0 \in 0..MaxLines
          BY <3>5, CartAssumption
    <3>7. call = Call("sync", p, asked, 0, todo)
          BY <2>1, <3>1, <3>3, <3>5 DEF SyncCall
    <3>. QED BY <3>2, <3>4, <3>6, <3>7, CallFacts
  <2>3. /\ calls' \in CallsType /\ calls'[c] = call
        /\ \A d \in Calls \ {c} : calls'[d] = calls[d]
        /\ ~Open(c) /\ doubt' \in BOOLEAN
        /\ ~doubt' => ~doubt /\ \A d \in Calls : ~Open(d)
        BY <1>3, <2>1, <2>2, SendFacts DEF IInv
  <2>4. Open(c)' /\ \A d \in Calls \ {c} : Open(d)' <=> Open(d)
        BY <2>2, <2>3 DEF Open
  <2>5. TypeOK'
        BY <1>1, <2>3 DEF IInv, TypeOK, CallsType
  <2>6. CallsAreSound'
    <3>1. CallIsSound(c)'
          BY <2>2, <2>3 DEF CallIsSound
    <3>2. ASSUME NEW d \in Calls \ {c}, Open(d)' PROVE CallIsSound(d)'
          BY <2>3, <2>4, <3>2 DEF IInv, CallsAreSound, CallIsSound, Quantity
    <3>. QED BY <3>1, <3>2 DEF CallsAreSound
  <2>7. SnapshotIsPending'
    <3>. SUFFICES ASSUME store.previous # NoSnapshot
                  PROVE  \E d \in Calls : Open(d)' /\ calls'[d].live /\ calls'[d].kind # "sync"
         BY <1>1 DEF SnapshotIsPending
    <3>1. PICK d \in Calls : Open(d) /\ calls[d].live /\ calls[d].kind # "sync"
          BY DEF IInv, SnapshotIsPending
    <3>. QED BY <2>3, <2>4, <3>1
  <2>8. LoadingIsOpen'
    <3>. SUFFICES ASSUME NEW r \in Products, buttons[r] = "loading"
                  PROVE  \E d \in Calls : /\ Open(d)' /\ calls'[d].kind = "add"
                                          /\ calls'[d].product = r
                                          /\ calls'[d].live /\ calls'[d].button
         BY <1>1 DEF LoadingIsOpen
    <3>1. PICK d \in Calls : /\ Open(d) /\ calls[d].kind = "add" /\ calls[d].product = r
                             /\ calls[d].live /\ calls[d].button
          BY DEF IInv, LoadingIsOpen
    <3>. QED BY <2>3, <2>4, <3>1
  <2>9. HeldHasId'
        BY <1>1 DEF IInv, HeldHasId
  <2>10. Undoubted'
    <3>. SUFFICES ASSUME ~doubt'
                  PROVE  (\A d \in Calls : Open(d)' => d = c) /\ Fresh(c)'
         BY <2>4 DEF Undoubted
    <3>. QED BY <2>2, <2>3, <2>4 DEF Fresh
  <2>. QED BY <2>5, <2>6, <2>7, <2>8, <2>9, <2>10 DEF IInv
<1>. QED BY <1>2, <1>3 DEF Probe

-----------------------------------------------------------------------------
LEMMA InitInv == Init => IInv
<1>. SUFFICES ASSUME Init PROVE IInv
     OBVIOUS
<1>1. /\ store \in StoreType /\ store.previous = NoSnapshot /\ ~store.synced
      /\ buttons = [p \in Products |-> "idle"] /\ cookie = FALSE /\ known = FALSE
      /\ calls = [c \in Calls |-> NoCall] /\ cart = NoLines /\ made = [p \in Products |-> 0]
      /\ acts = 0 /\ doubt = FALSE
      BY ClearCartFacts DEF Init
<1>2. NoLines \in CartType
      BY CartAssumption DEF NoLines, NoLine, CartType
<1>3. \A c \in Calls : ~Open(c)
      BY <1>1 DEF Open, NoCall
<1>4. TypeOK
  <2>1. store \in [items : Lines, previous : Lines \cup {NoSnapshot}, synced : BOOLEAN]
        BY <1>1 DEF StoreType
  <2>2. /\ buttons \in [Products -> {"idle", "loading", "success"}]
        /\ cookie \in BOOLEAN /\ known \in BOOLEAN /\ doubt \in BOOLEAN
        BY <1>1
  <2>3. calls \in [Calls -> CallRecord \cup {NoCall}]
        BY <1>1
  <2>4. cart \in [Products -> [quantity : 0..Cap, id : 0..MaxLines]]
        BY <1>1, <1>2 DEF CartType
  <2>5. made \in [Products -> 0..MaxLines] /\ acts \in 0..MaxActs
        BY <1>1, CartAssumption
  <2>. QED BY <2>1, <2>2, <2>3, <2>4, <2>5 DEF TypeOK
<1>5. HeldHasId
  <2>1. \A p \in Products : ~Holds(cart, p)
        BY <1>1, LineFacts DEF Holds
  <2>. QED BY <2>1 DEF HeldHasId
<1>. QED BY <1>1, <1>3, <1>4, <1>5
         DEF IInv, CallsAreSound, SnapshotIsPending, LoadingIsOpen, Undoubted

LEMMA NextInv == IInv /\ [Next]_vars => IInv'
<1>. SUFFICES ASSUME IInv, [Next]_vars PROVE IInv'
     OBVIOUS
<1>1. ASSUME NEW c \in Calls, NEW p \in Products, Click(c, p) PROVE IInv'
      BY <1>1, ClickStep
<1>2. ASSUME NEW c \in Calls, Probe(c) \/ Lose(c) PROVE IInv'
      BY <1>2, ProbeStep, LoseStep
<1>3. ASSUME NEW c \in Calls, Serve(c) PROVE IInv'
      BY <1>3, PatchItemStep, DeleteItemStep, ReadLineStep, SkipLineStep, SaveLineStep,
         FetchCartStep, RefuseStep DEF Serve
<1>4. ASSUME NEW c \in Calls, Handle(c) PROVE IInv'
      BY <1>4, SettleStep, ApplyStep, BounceStep, ForgetStep DEF Handle
<1>5. CASE Navigate
      BY <1>5, NavigateStep
<1>6. CASE Reload
      BY <1>6, ReloadStep
<1>7. TypeOK
      BY DEF IInv
<1>8. ASSUME NEW p \in Products, ButtonIdle(p) PROVE IInv'
  <2>1. /\ buttons' = [buttons EXCEPT ![p] = "idle"]
        /\ UNCHANGED <<store, cookie, known, calls, cart, made, acts, doubt>>
        BY <1>8 DEF ButtonIdle
  <2>2. /\ buttons' \in [Products -> {"idle", "loading", "success"}]
        /\ \A r \in Products : buttons'[r] = "loading" => buttons[r] = "loading"
        BY <1>7, <2>1 DEF TypeOK
  <2>. QED BY <1>7, <2>1, <2>2, OutsideStep DEF TypeOK
<1>9. CASE Login \/ Expire \/ Logout \/ CloseCart \/ SuccessPage
  <2>1. Act /\ UNCHANGED <<buttons, known, calls, made, doubt>>
        BY <1>9 DEF Login, Expire, Logout, CloseCart, SuccessPage
  <2>2. /\ cookie' \in BOOLEAN
        /\ store' = store \/ store' = ClearCart(store)
        /\ cart' = cart \/ cart' = NoLines
        BY <1>7, <1>9 DEF TypeOK, Login, Expire, Logout, CloseCart, SuccessPage
  <2>3. acts' \in 0..MaxActs
        BY <1>7, <2>1, ActFacts
  <2>. QED BY <1>7, <2>1, <2>2, <2>3, OutsideStep DEF TypeOK
<1>10. CASE UNCHANGED vars
  <2>1. UNCHANGED <<store, buttons, cookie, known, calls, cart, made, acts, doubt>>
        BY <1>10 DEF vars
  <2>. QED BY <1>7, <2>1, OutsideStep DEF TypeOK
<1>. QED BY <1>1, <1>2, <1>3, <1>4, <1>5, <1>6, <1>8, <1>9, <1>10 DEF Next

LEMMA SpecInv == Spec => []IInv
<1>. QED BY InitInv, NextInv, PTL DEF Spec

-----------------------------------------------------------------------------
(* The page's cart and the server's keep their types, no line of the server *)
(* is above MAX_LINE_QUANTITY, and what the page keeps for a request is     *)
(* gone when the request is, for any listings, requests and bounds.         *)
THEOREM CartIsSound == Spec => []CartInv
<1>1. IInv => CartInv
      BY DEF IInv, CartInv
<1>. QED BY SpecInv, <1>1, PTL

(* With one change at a time and no answer lost or kept as pending, the     *)
(* page that has synced shows the server's cart, whatever was refused,      *)
(* capped or skipped.                                                       *)
THEOREM PageAgrees == Spec => []Agreement
<1>1. IInv => Agreement
  <2>. SUFFICES ASSUME IInv, known, store.synced, ~doubt, \A c \in Calls : ~Open(c)
                PROVE  \A p \in Products : Holds(cart, p) => store.items[p] = cart[p]
       BY DEF Agreement
  <2>. QED BY DEF IInv, Undoubted, Agrees
<1>. QED BY SpecInv, <1>1, PTL
=============================================================================
