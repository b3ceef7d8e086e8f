--------------------------- MODULE PrivacyProofs ----------------------------
(***************************************************************************)
(* What consent and the data-subject forms of the browser keep, and what   *)
(* the erasure and retention of the server do, for any tabs, categories,   *)
(* policy versions, users, requests, orders and workers.                   *)
(***************************************************************************)
EXTENDS Consent, Erasure, FiniteSetTheorems, TLAPS

(* Consent and the data-subject forms.                                     *)
Owners == {"view", "page", "nobody"}
RequestType == [tab : Tabs, kind : Kinds, owner : Owners, choices : SUBSET Categories,
                timestamp : Nat, version : Versions]
PageType == [open : BOOLEAN, version : Versions, view : Views, script : BOOLEAN]

ConsentTypes ==
    /\ TypeOK
    /\ net \subseteq RequestType
    /\ \A r \in net : r.kind \in {"push", "save"} => r.timestamp \in 1 .. MaxStamp

\* What a store, or the payload, holds under version v was granted, and
\* decided, under v.
Backed(s, v) ==
    /\ Analytics \in s.choices => v \in granted
    /\ s.timestamp # Never => v \in settled

StoresBacked ==
    \A t \in Tabs : /\ Backed(store[t], page[t].version)
                    /\ store[t].decided => store[t].timestamp # Never
                    /\ page[t].script => page[t].version \in granted
                    /\ vitals[t].listening \/ vitals[t].queue > 0 => Gate(store[t])

\* The save whose answer can still stamp the store was a decision of this page.
SavesBacked ==
    \A r \in net : r.kind = "save" /\ r.owner # "nobody" =>
        r.version = page[r.tab].version /\ r.version \in settled

ConsentInv == StoresBacked /\ Backed(storage, storage.version) /\ SavesBacked

-----------------------------------------------------------------------------
(* Types *)

LEMMA NoStoreTyped ==
    /\ Undecided \in StoreType /\ Silent \in [listening : BOOLEAN, queue : 0 .. MaxBatch - 1]
    /\ NoPayload \in PayloadType /\ ClosedPage \in PageType
  BY ConsentAssumption
     DEF Undecided, StoreType, Silent, NoPayload, PayloadType, ClosedPage, PageType,
         Never, Stamps, Views

LEMMA MergeTyped ==
    ASSUME NEW p \in PayloadType, NEW v \in Versions
    PROVE  /\ Merge(p, v) \in StoreType
           /\ Merge(p, v).decided => Merge(p, v).timestamp # Never
           /\ Merge(p, v) = Undecided
                \/ /\ p.version = v /\ Merge(p, v).choices = p.choices
                   /\ Merge(p, v).timestamp = p.timestamp
<1>1. CASE p.version # v \/ p.timestamp = Never
  BY <1>1, NoStoreTyped DEF Merge, Undecided
<1>2. CASE ~(p.version # v \/ p.timestamp = Never)
  BY <1>2 DEF Merge, StoreType, PayloadType
<1>. QED
  BY <1>1, <1>2

LEMMA GateTyped == \A s \in StoreType : Gate(s) \in BOOLEAN
  BY DEF Gate, StoreType

LEMMA RequestTyped ==
    ASSUME ConsentTypes, NEW t \in Tabs, NEW kind \in Kinds, NEW s,
           s.choices \subseteq Categories, s.timestamp \in Nat
    PROVE  Request(t, kind, s) \in RequestType
  BY DEF Request, RequestType, Owners, ConsentTypes, TypeOK, PageType

\* Whoever owned a request, it stays the request it was.
LEMMA Disowned ==
    ASSUME ConsentTypes, NEW t \in Tabs, NEW owner \in {"page", "nobody"},
           NEW q \in Disown(t, owner)
    PROVE  /\ q \in RequestType
           /\ \E r \in net :
                /\ q.tab = r.tab /\ q.kind = r.kind /\ q.version = r.version
                /\ q.timestamp = r.timestamp /\ q.choices = r.choices
                /\ q.owner = r.owner \/ (q.owner = owner /\ r.tab = t)
                /\ r.tab = t => /\ owner = "nobody" => q.owner = "nobody"
                                /\ q.owner = "view" => r.kind = "push"
                /\ r.owner = "nobody" => q.owner = "nobody"
                /\ r.tab # t => q = r
<1>1. PICK r \in net :
         q = IF r.tab = t /\ r.owner # "nobody" /\ (owner = "nobody" \/ r.kind # "push")
             THEN [r EXCEPT !.owner = owner] ELSE r
  BY DEF Disown
<1>2. r \in RequestType
  BY DEF ConsentTypes
<1>3. CASE r.tab = t /\ r.owner # "nobody" /\ (owner = "nobody" \/ r.kind # "push")
  <2>1. q = [r EXCEPT !.owner = owner]
    BY <1>1, <1>3
  <2>2. /\ q \in RequestType /\ q.owner = owner
        /\ q.tab = r.tab /\ q.kind = r.kind /\ q.version = r.version
        /\ q.timestamp = r.timestamp /\ q.choices = r.choices
    BY <1>2, <2>1 DEF RequestType, Owners
  <2>. QED
    BY <1>3, <2>2
<1>4. CASE ~(r.tab = t /\ r.owner # "nobody" /\ (owner = "nobody" \/ r.kind # "push"))
  BY <1>1, <1>2, <1>4 DEF RequestType, Owners
<1>. QED
  BY <1>3, <1>4

-----------------------------------------------------------------------------
(* The pieces of a step *)

\* A change of one tab's store that is backed by a decision keeps all that the
\* stores, the payload and the pages say backed.
LEMMA SetStoreKeeps ==
    ASSUME ConsentTypes, ConsentInv, NEW t \in Tabs, NEW s \in StoreType, SetStore(t, s),
           s.decided => s.timestamp # Never,
           s.timestamp # Never => page[t].version \in settled',
           settled \subseteq settled'
    PROVE  /\ store' \in [Tabs -> StoreType] /\ storage' \in PayloadType
           /\ page' \in [Tabs -> PageType]
           /\ vitals' \in [Tabs -> [listening : BOOLEAN, queue : 0 .. MaxBatch - 1]]
           /\ granted' \subseteq Versions
           /\ \A u \in Tabs : /\ page'[u].version = page[u].version
                              /\ page'[u].view = page[u].view
                              /\ page'[u].open = page[u].open
           /\ StoresBacked' /\ Backed(storage, storage.version)'
<1>1. /\ store' = [store EXCEPT ![t] = s]
      /\ storage' = Payload(s, t)
      /\ page' = [page EXCEPT ![t].script = @ \/ Gate(s)]
      /\ vitals' = [vitals EXCEPT ![t] = VitalsUnder(t, s)]
      /\ granted' = granted \cup (IF Analytics \in s.choices \ store[t].choices
                                  THEN {page[t].version} ELSE {})
  BY DEF SetStore
<1>2. /\ store \in [Tabs -> StoreType] /\ page \in [Tabs -> PageType]
      /\ vitals \in [Tabs -> [listening : BOOLEAN, queue : 0 .. MaxBatch - 1]]
      /\ granted \subseteq Versions
  BY DEF ConsentTypes, TypeOK, PageType
<1>3. Gate(s) \in BOOLEAN
  BY GateTyped
<1>4. page' \in [Tabs -> PageType]
  BY <1>1, <1>2, <1>3 DEF PageType
<1>5. /\ \A u \in Tabs : /\ page'[u].version = page[u].version
                         /\ page'[u].view = page[u].view
                         /\ page'[u].open = page[u].open
      /\ \A u \in Tabs \ {t} : page'[u] = page[u]
      /\ page'[t].script = (page[t].script \/ Gate(s))
  BY <1>1, <1>2 DEF PageType
<1>6. VitalsUnder(t, s) \in [listening : BOOLEAN, queue : 0 .. MaxBatch - 1]
  BY <1>2, NoStoreTyped DEF VitalsUnder
<1>7. granted \subseteq granted' /\ granted' \subseteq Versions
  BY <1>1, <1>2 DEF PageType
<1>8. /\ \A u \in Tabs : store'[u] = IF u = t THEN s ELSE store[u]
      /\ \A u \in Tabs : vitals'[u] = IF u = t THEN VitalsUnder(t, s) ELSE vitals[u]
  BY <1>1, <1>2
<1>9. Analytics \in s.choices => page[t].version \in granted'
  BY <1>1 DEF ConsentInv, StoresBacked, Backed
<1>10. /\ storage' \in PayloadType /\ storage'.choices = s.choices
       /\ storage'.timestamp = s.timestamp /\ storage'.version = page[t].version
  BY <1>1, <1>2 DEF Payload, PayloadType, StoreType, PageType
<1>11. Backed(storage, storage.version)'
  BY <1>9, <1>10 DEF Backed
<1>12. ASSUME NEW u \in Tabs
       PROVE  /\ Backed(store[u], page[u].version)'
              /\ store'[u].decided => store'[u].timestamp # Never
              /\ page'[u].script => page'[u].version \in granted'
              /\ vitals'[u].listening \/ vitals'[u].queue > 0 => Gate(store'[u])
  <2>1. CASE u = t
    <3>1. store'[u] = s /\ vitals'[u] = VitalsUnder(t, s)
      BY <1>8, <2>1
    <3>2. Backed(store[u], page[u].version)'
      BY <1>5, <1>9, <2>1, <3>1 DEF Backed
    <3>3. page'[u].script => page'[u].version \in granted'
      BY <1>5, <1>7, <1>9, <2>1 DEF ConsentInv, StoresBacked, Gate
    <3>4. vitals'[u].listening \/ vitals'[u].queue > 0 => Gate(s)
      BY <3>1 DEF VitalsUnder, Silent
    <3>. QED
      BY <3>1, <3>2, <3>3, <3>4
  <2>2. CASE u # t
    <3>1. store'[u] = store[u] /\ vitals'[u] = vitals[u] /\ page'[u] = page[u]
      BY <1>5, <1>8, <2>2
    <3>. QED
      BY <1>7, <3>1 DEF ConsentInv, StoresBacked, Backed
  <2>. QED
    BY <2>1, <2>2
<1>13. StoresBacked'
  BY <1>12 DEF StoresBacked
<1>14. /\ store' \in [Tabs -> StoreType]
       /\ vitals' \in [Tabs -> [listening : BOOLEAN, queue : 0 .. MaxBatch - 1]]
  BY <1>1, <1>2, <1>6
<1>. QED
  BY <1>4, <1>5, <1>7, <1>10, <1>11, <1>13, <1>14

\* What is on its way after a step: former ones, and new ones that are backed.
LEMMA SavesKeep ==
    ASSUME ConsentTypes, ConsentInv, settled \subseteq settled',
           \A u \in Tabs : page'[u].version = page[u].version,
           \A q \in net' : q \in net
              \/ (q.kind = "save" =>
                     q.version = page'[q.tab].version /\ q.version \in settled')
    PROVE  SavesBacked'
<1> SUFFICES ASSUME NEW q \in net', q.kind = "save", q.owner # "nobody"
             PROVE  q.version = page'[q.tab].version /\ q.version \in settled'
  BY DEF SavesBacked
<1>1. CASE q \in net
  BY <1>1 DEF ConsentTypes, RequestType, ConsentInv, SavesBacked
<1>. QED
  BY <1>1

\* A step that leaves the stores, the pages and the payload as they are.
LEMMA StoresKeep ==
    ASSUME ConsentInv, UNCHANGED <<store, page, vitals, storage>>,
           settled \subseteq settled', granted \subseteq granted'
    PROVE  StoresBacked' /\ Backed(storage, storage.version)'
  BY DEF ConsentInv, StoresBacked, Backed

LEMMA NewNetTyped ==
    ASSUME ConsentTypes, NEW r \in RequestType,
           r.kind \in {"push", "save"} => r.timestamp \in 1 .. MaxStamp,
           net' = net \cup {r}
    PROVE  /\ net' \subseteq RequestType
           /\ \A q \in net' : q.kind \in {"push", "save"} => q.timestamp \in 1 .. MaxStamp
  BY DEF ConsentTypes

LEMMA NetType ==
    ASSUME NEW n, n \subseteq RequestType
    PROVE  \A r \in n : /\ r.tab \in Tabs /\ r.kind \in Kinds
                        /\ r.owner \in {"view", "page", "nobody"}
                        /\ r.version \in Versions
  BY DEF RequestType, Owners

LEMMA DisownedNet ==
    ASSUME ConsentTypes, NEW t \in Tabs, NEW owner \in {"page", "nobody"}
    PROVE  /\ Disown(t, owner) \subseteq RequestType
           /\ \A q \in Disown(t, owner) :
                 q.kind \in {"push", "save"} => q.timestamp \in 1 .. MaxStamp
<1> SUFFICES ASSUME NEW q \in Disown(t, owner)
             PROVE  /\ q \in RequestType
                    /\ q.kind \in {"push", "save"} => q.timestamp \in 1 .. MaxStamp
  OBVIOUS
<1>. QED
  BY Disowned DEF ConsentTypes

LEMMA ConsentInit == Init => ConsentTypes /\ ConsentInv
<1> SUFFICES ASSUME Init PROVE ConsentTypes /\ ConsentInv
  OBVIOUS
<1>1. TypeOK
  BY NoStoreTyped, ConsentAssumption
     DEF Init, TypeOK, PageType, NoManager, EmptyForm, FormStates, Stamps
<1>2. ConsentTypes
  BY <1>1 DEF ConsentTypes, Init
<1>3. ConsentInv
  BY DEF Init, ConsentInv, StoresBacked, SavesBacked, Backed, Undecided, NoPayload,
         ClosedPage, Silent, Never
<1>. QED
  BY <1>2, <1>3

-----------------------------------------------------------------------------
(* The steps *)

LEMMA LoadStep ==
    ASSUME ConsentTypes, ConsentInv, NEW t \in Tabs, Load(t)
    PROVE  ConsentTypes' /\ ConsentInv'
<1> DEFINE s == Merge(storage, deployed)
           p == [open |-> TRUE, version |-> deployed, view |-> "shop", script |-> Gate(s)]
<1>1. /\ store' = [store EXCEPT ![t] = s] /\ page' = [page EXCEPT ![t] = p]
      /\ vitals' = [vitals EXCEPT ![t] = Silent]
      /\ manager' = [manager EXCEPT ![t] = NoManager]
      /\ form' = [form EXCEPT ![t] = EmptyForm]
      /\ net' = Disown(t, "nobody")
      /\ UNCHANGED <<deployed, storage, server, words, clock>>
      /\ acts < MaxActs /\ acts' = acts + 1
  BY DEF Load, Act
<1>2. storage \in PayloadType /\ deployed \in Versions
  BY DEF ConsentTypes, TypeOK
<1>3. s \in StoreType /\ (s.decided => s.timestamp # Never)
  BY <1>2, MergeTyped
<1>4. s = Undecided \/ /\ storage.version = deployed
                       /\ s.choices = storage.choices /\ s.timestamp = storage.timestamp
  BY <1>2, MergeTyped
<1>5. p \in PageType /\ p.version = deployed /\ p.script = Gate(s)
  BY <1>2, <1>3, GateTyped DEF PageType, Views
<1>6. /\ Analytics \in s.choices => deployed \in granted'
      /\ s.timestamp # Never => deployed \in settled'
  BY <1>1, <1>4 DEF Backed, ConsentInv, Undecided, Never, words
<1> HIDE DEF s, p
<1>7. /\ store' \in [Tabs -> StoreType] /\ page' \in [Tabs -> PageType]
      /\ vitals' \in [Tabs -> [listening : BOOLEAN, queue : 0 .. MaxBatch - 1]]
  BY <1>1, <1>3, <1>5, NoStoreTyped DEF ConsentTypes, TypeOK, PageType
<1>8. /\ manager' \in [Tabs -> [saving : BOOLEAN,
                                history : {"none", "loading", "shown", "pending"}]]
      /\ form' \in [Tabs -> [state : FormStates, typed : BOOLEAN]]
  BY <1>1 DEF ConsentTypes, TypeOK, NoManager, EmptyForm, FormStates
<1>9. /\ net' \subseteq RequestType
      /\ \A q \in net' : q.kind \in {"push", "save"} => q.timestamp \in 1 .. MaxStamp
  BY <1>1, DisownedNet
<1>10. acts' \in 0 .. MaxActs
  BY <1>1, ConsentAssumption DEF ConsentTypes, TypeOK
<1>11. ConsentTypes'
  BY <1>1, <1>7, <1>8, <1>9, <1>10, NetType
     DEF ConsentTypes, TypeOK, PageType, server, words
<1>12. /\ \A u \in Tabs \ {t} : store'[u] = store[u] /\ page'[u] = page[u]
                                /\ vitals'[u] = vitals[u]
       /\ store'[t] = s /\ page'[t] = p /\ vitals'[t] = Silent
  BY <1>1 DEF ConsentTypes, TypeOK
<1>13. StoresBacked'
  <2> SUFFICES ASSUME NEW u \in Tabs
               PROVE  /\ Backed(store[u], page[u].version)'
                      /\ store'[u].decided => store'[u].timestamp # Never
                      /\ page'[u].script => page'[u].version \in granted'
                      /\ vitals'[u].listening \/ vitals'[u].queue > 0 => Gate(store'[u])
    BY DEF StoresBacked
  <2>1. CASE u = t
    <3>1. store'[u] = s /\ page'[u] = p /\ vitals'[u] = Silent
      BY <1>12, <2>1
    <3>2. Backed(store[u], page[u].version)'
      BY <1>5, <1>6, <3>1 DEF Backed
    <3>3. page'[u].script => page'[u].version \in granted'
      BY <1>5, <1>6, <3>1 DEF Gate
    <3>4. ~vitals'[u].listening /\ ~(vitals'[u].queue > 0)
      BY <3>1 DEF Silent
    <3>. QED
      BY <1>3, <3>1, <3>2, <3>3, <3>4
  <2>2. CASE u # t
    BY <1>1, <1>12, <2>2 DEF ConsentInv, StoresBacked, Backed, words
  <2>. QED
    BY <2>1, <2>2
<1>14. SavesBacked'
  <2> SUFFICES ASSUME NEW q \in net', q.kind = "save", q.owner # "nobody"
               PROVE  q.version = page'[q.tab].version /\ q.version \in settled'
    BY DEF SavesBacked
  <2>1. PICK r \in net : /\ q.tab = r.tab /\ q.kind = r.kind /\ q.version = r.version
                         /\ r.owner = "nobody" => q.owner = "nobody"
                         /\ r.tab = t => q.owner = "nobody"
    BY <1>1, Disowned
  <2>2. r.tab \in Tabs \ {t} /\ r.owner # "nobody" /\ r.kind = "save"
    BY <2>1 DEF ConsentTypes, RequestType
  <2>. QED
    BY <1>1, <1>12, <2>1, <2>2 DEF ConsentInv, SavesBacked, words
<1>15. Backed(storage, storage.version)'
  BY <1>1 DEF ConsentInv, Backed, words
<1>. QED
  BY <1>11, <1>13, <1>14, <1>15 DEF ConsentInv

LEMMA NavigateStep ==
    ASSUME ConsentTypes, ConsentInv, NEW t \in Tabs, NEW v \in Views, Navigate(t, v)
    PROVE  ConsentTypes' /\ ConsentInv'
<1> DEFINE asked == IF v = "consent" THEN {Request(t, "history", Undecided)} ELSE {}
<1>1. /\ page' = [page EXCEPT ![t].view = v]
      /\ manager' = [manager EXCEPT ![t] =
            [saving |-> FALSE, history |-> IF v = "consent" THEN "loading" ELSE "none"]]
      /\ form' = [form EXCEPT ![t] = EmptyForm]
      /\ net' = Disown(t, "page") \cup asked
      /\ UNCHANGED <<deployed, storage, store, vitals, server, words, clock>>
      /\ acts < MaxActs /\ acts' = acts + 1
  BY DEF Navigate, Act
<1>2. asked \subseteq RequestType /\ \A q \in asked : q.kind = "history"
  <2>1. Undecided.choices \subseteq Categories /\ Undecided.timestamp \in Nat
        /\ "history" \in Kinds
    BY DEF Undecided, Never, Kinds
  <2>2. Request(t, "history", Undecided) \in RequestType
    BY <2>1, RequestTyped
  <2>3. Request(t, "history", Undecided).kind = "history"
    BY DEF Request
  <2>. QED
    BY <2>2, <2>3
<1> HIDE DEF asked
<1>3. /\ page' \in [Tabs -> PageType]
      /\ \A u \in Tabs : page'[u].version = page[u].version
                         /\ page'[u].script = page[u].script
  BY <1>1 DEF ConsentTypes, TypeOK, PageType
<1>4. /\ manager' \in [Tabs -> [saving : BOOLEAN,
                                history : {"none", "loading", "shown", "pending"}]]
      /\ form' \in [Tabs -> [state : FormStates, typed : BOOLEAN]]
  BY <1>1 DEF ConsentTypes, TypeOK, EmptyForm, FormStates
<1>5. /\ net' \subseteq RequestType
      /\ \A q \in net' : q.kind \in {"push", "save"} => q.timestamp \in 1 .. MaxStamp
  BY <1>1, <1>2, DisownedNet
<1>6. acts' \in 0 .. MaxActs
  BY <1>1, ConsentAssumption DEF ConsentTypes, TypeOK
<1>7. ConsentTypes'
  BY <1>1, <1>3, <1>4, <1>5, <1>6, NetType
     DEF ConsentTypes, TypeOK, PageType, server, words
<1>8. StoresBacked' /\ Backed(storage, storage.version)'
  BY <1>1, <1>3 DEF ConsentInv, StoresBacked, Backed, words
<1>9. SavesBacked'
  <2> SUFFICES ASSUME NEW q \in net', q.kind = "save", q.owner # "nobody"
               PROVE  q.version = page'[q.tab].version /\ q.version \in settled'
    BY DEF SavesBacked
  <2>0. q \in Disown(t, "page")
    BY <1>1, <1>2
  <2>1. PICK r \in net : /\ q.tab = r.tab /\ q.kind = r.kind /\ q.version = r.version
                         /\ r.owner = "nobody" => q.owner = "nobody"
    BY <2>0, Disowned
  <2>2. r.tab \in Tabs /\ r.owner # "nobody" /\ r.kind = "save"
    BY <2>1 DEF ConsentTypes, RequestType
  <2>. QED
    BY <1>1, <1>3, <2>1, <2>2 DEF ConsentInv, SavesBacked, words
<1>. QED
  BY <1>7, <1>8, <1>9 DEF ConsentInv

\* A change of the store of an open page that leaves the requests alone, or
\* sends one that is backed.
LEMMA StoreStep ==
    ASSUME ConsentTypes, ConsentInv, NEW t \in Tabs, NEW s \in StoreType, SetStore(t, s),
           s.decided => s.timestamp # Never,
           s.timestamp # Never => page[t].version \in settled',
           settled \subseteq settled', settled' \subseteq Versions,
           acts' \in 0 .. MaxActs, clock' \in Stamps,
           net' = net \/ \E r \in RequestType :
              /\ net' = net \cup {r} /\ r.kind = "push" /\ r.timestamp \in 1 .. MaxStamp,
           UNCHANGED <<deployed, manager, form, server>>
    PROVE  ConsentTypes' /\ ConsentInv'
<1>1. /\ store' \in [Tabs -> StoreType] /\ storage' \in PayloadType
      /\ page' \in [Tabs -> PageType]
      /\ vitals' \in [Tabs -> [listening : BOOLEAN, queue : 0 .. MaxBatch - 1]]
      /\ granted' \subseteq Versions
      /\ \A u \in Tabs : page'[u].version = page[u].version
      /\ StoresBacked' /\ Backed(storage, storage.version)'
  BY SetStoreKeeps
<1>2. /\ net' \subseteq RequestType
      /\ \A q \in net' : q.kind \in {"push", "save"} => q.timestamp \in 1 .. MaxStamp
      /\ \A q \in net' : q \in net \/ q.kind = "push"
  BY DEF ConsentTypes
<1>3. ConsentTypes'
  BY <1>1, <1>2, NetType DEF ConsentTypes, TypeOK, PageType, server
<1>4. SavesBacked'
  BY <1>1, <1>2, SavesKeep
<1>. QED
  BY <1>1, <1>3, <1>4 DEF ConsentInv

LEMMA DecisionStep ==
    ASSUME ConsentTypes, ConsentInv, NEW t \in Tabs,
           \/ \E c \in Categories : SetCategory(t, c)
           \/ BannerDecision(t)
           \/ Reset(t)
    PROVE  ConsentTypes' /\ ConsentInv'
<1>0. /\ store[t] \in StoreType /\ page[t].version \in Versions
      /\ acts \in 0 .. MaxActs /\ clock \in Stamps /\ settled \subseteq Versions
  BY DEF ConsentTypes, TypeOK
<1>1. ASSUME NEW c \in Categories, SetCategory(t, c) PROVE ConsentTypes' /\ ConsentInv'
  <2> DEFINE s == [store[t] EXCEPT !.choices = IF c \in @ THEN @ \ {c} ELSE @ \cup {c}]
  <2>1. /\ s \in StoreType /\ s.decided = store[t].decided
        /\ s.timestamp = store[t].timestamp
    BY <1>0 DEF StoreType
  <2>2. /\ SetStore(t, s) /\ acts < MaxActs /\ acts' = acts + 1
        /\ UNCHANGED <<deployed, manager, form, net, server, settled, clock>>
    BY <1>1 DEF SetCategory, Act
  <2>3. acts' \in 0 .. MaxActs
    BY <1>0, <2>2, ConsentAssumption
  <2>4. /\ s.decided => s.timestamp # Never
        /\ s.timestamp # Never => page[t].version \in settled'
    BY <2>1, <2>2 DEF ConsentInv, StoresBacked, Backed
  <2> HIDE DEF s
  <2>. QED
    BY <1>0, <2>1, <2>2, <2>3, <2>4, StoreStep
<1>2. ASSUME NEW choices \in SUBSET Categories, Decide(t, choices)
      PROVE  ConsentTypes' /\ ConsentInv'
  <2> DEFINE s == [choices |-> choices, timestamp |-> clock + 1, decided |-> TRUE]
             r == Request(t, "push", s)
  <2>1. /\ SetStore(t, s) /\ clock < MaxStamp /\ clock' = clock + 1
        /\ net' = net \cup {r} /\ settled' = settled \cup {page[t].version}
        /\ UNCHANGED <<deployed, manager, form, server, acts>>
    BY <1>2 DEF Decide
  <2>2. clock' \in 1 .. MaxStamp /\ clock' \in Stamps /\ clock' \in Nat /\ clock' # Never
    BY <1>0, <2>1, ConsentAssumption DEF Stamps, Never
  <2>3. s \in StoreType /\ s.decided /\ s.timestamp = clock'
    BY <2>1, <2>2 DEF StoreType
  <2>4. r \in RequestType /\ r.kind = "push" /\ r.timestamp = clock'
    <3>1. "push" \in Kinds /\ s.choices \subseteq Categories /\ s.timestamp \in Nat
      BY <2>1, <2>2 DEF Kinds
    <3>2. Request(t, "push", s) \in RequestType
      BY <3>1, RequestTyped
    <3>3. r.kind = "push" /\ r.timestamp = clock'
      BY <2>1 DEF Request
    <3>. QED
      BY <3>2, <3>3
  <2> HIDE DEF s, r
  <2>. QED
    BY <1>0, <2>1, <2>2, <2>3, <2>4, StoreStep
<1>3. CASE Reset(t)
  <2>1. /\ SetStore(t, Undecided) /\ acts < MaxActs /\ acts' = acts + 1
        /\ UNCHANGED <<deployed, manager, form, net, server, settled, clock>>
    BY <1>3 DEF Reset, Act
  <2>2. acts' \in 0 .. MaxActs
    BY <1>0, <2>1, ConsentAssumption
  <2>3. Undecided.timestamp = Never /\ ~Undecided.decided
    BY DEF Undecided
  <2>. QED
    BY <1>0, <2>1, <2>2, <2>3, NoStoreTyped, StoreStep
<1>. QED
  <2>1. store[t].choices \subseteq Categories
    BY <1>0 DEF StoreType
  <2>. QED
    BY <1>1, <1>2, <1>3, <2>1 DEF BannerDecision

LEMMA SaveStep ==
    ASSUME ConsentTypes, ConsentInv, NEW t \in Tabs, Save(t)
    PROVE  ConsentTypes' /\ ConsentInv'
<1> DEFINE s == [store[t] EXCEPT !.timestamp = clock + 1]
           r == Request(t, "save", s)
<1>1. /\ clock < MaxStamp /\ clock' = clock + 1
      /\ manager' = [manager EXCEPT ![t].saving = TRUE]
      /\ net' = net \cup {r}
      /\ settled' = settled \cup {page[t].version}
      /\ UNCHANGED <<deployed, storage, store, page, vitals, form, server, granted, acts>>
  BY DEF Save
<1>2. clock' \in 1 .. MaxStamp /\ clock' \in Stamps
  BY <1>1, ConsentAssumption DEF Stamps, ConsentTypes, TypeOK
<1>3. /\ r \in RequestType /\ r.kind = "save" /\ r.tab = t /\ r.timestamp = clock'
      /\ r.version = page[t].version
  <2>1. store[t] \in StoreType
    BY DEF ConsentTypes, TypeOK
  <2>2. s.choices \subseteq Categories /\ s.timestamp \in Nat /\ s.timestamp = clock'
        /\ "save" \in Kinds
    BY <1>1, <1>2, <2>1 DEF StoreType, Kinds
  <2>3. Request(t, "save", s) \in RequestType
    BY <2>2, RequestTyped
  <2>4. /\ r.kind = "save" /\ r.tab = t /\ r.timestamp = clock'
        /\ r.version = page[t].version
    BY <2>2 DEF Request
  <2>. QED
    BY <2>3, <2>4
<1> HIDE DEF s, r
<1>4. /\ net' \subseteq RequestType
      /\ \A q \in net' : q.kind \in {"push", "save"} => q.timestamp \in 1 .. MaxStamp
  BY <1>1, <1>2, <1>3, NewNetTyped
<1>5. manager' \in [Tabs -> [saving : BOOLEAN,
                             history : {"none", "loading", "shown", "pending"}]]
  BY <1>1 DEF ConsentTypes, TypeOK
<1>6. settled' \subseteq Versions
  BY <1>1 DEF ConsentTypes, TypeOK
<1>7. ConsentTypes'
  BY <1>1, <1>2, <1>4, <1>5, <1>6, NetType DEF ConsentTypes, TypeOK, PageType, server
<1>8. \A q \in net' : q \in net
         \/ (q.kind = "save" => q.version = page'[q.tab].version /\ q.version \in settled')
  BY <1>1, <1>3
<1>9. SavesBacked'
  BY <1>1, <1>8, SavesKeep
<1>10. StoresBacked' /\ Backed(storage, storage.version)'
  BY <1>1, StoresKeep
<1>. QED
  BY <1>7, <1>9, <1>10 DEF ConsentInv

LEMMA VitalsStep ==
    ASSUME ConsentTypes, ConsentInv, NEW t \in Tabs, Listen(t) \/ Sample(t) \/ Flush(t)
    PROVE  ConsentTypes' /\ ConsentInv'
<1>1. UNCHANGED <<deployed, storage, store, page, manager, form, net, server, words,
                  clock, acts>>
  BY DEF Listen, Sample, Flush
<1>2. /\ vitals \in [Tabs -> [listening : BOOLEAN, queue : 0 .. MaxBatch - 1]]
      /\ \A u \in Tabs : vitals[u].listening \/ vitals[u].queue > 0 => Gate(store[u])
  BY DEF ConsentTypes, TypeOK, ConsentInv, StoresBacked
<1>3. /\ vitals' \in [Tabs -> [listening : BOOLEAN, queue : 0 .. MaxBatch - 1]]
      /\ \A u \in Tabs : vitals'[u].listening \/ vitals'[u].queue > 0 => Gate(store[u])
  <2>1. CASE Listen(t)
    BY <1>2, <2>1 DEF Listen
  <2>2. CASE Sample(t)
    <3> DEFINE n == IF vitals[t].queue + 1 >= MaxBatch THEN 0 ELSE vitals[t].queue + 1
    <3>1. vitals' = [vitals EXCEPT ![t].queue = n] /\ vitals[t].listening
      BY <2>2 DEF Sample, Enqueue
    <3>2. n \in 0 .. MaxBatch - 1
      BY <1>2, ConsentAssumption
    <3> HIDE DEF n
    <3>. QED
      BY <1>2, <3>1, <3>2
  <2>3. CASE Flush(t)
    BY <1>2, <2>3, ConsentAssumption DEF Flush
  <2>. QED
    BY <2>1, <2>2, <2>3
<1>4. ConsentTypes'
  BY <1>1, <1>3 DEF ConsentTypes, TypeOK, server, words
<1>5. StoresBacked' /\ Backed(storage, storage.version)'
  BY <1>1, <1>3 DEF ConsentInv, StoresBacked, Backed, Gate, words
<1>6. SavesBacked'
  BY <1>1, SavesKeep DEF words
<1>. QED
  BY <1>4, <1>5, <1>6 DEF ConsentInv

LEMMA FormStep ==
    ASSUME ConsentTypes, ConsentInv, NEW t \in Tabs, Type(t) \/ Ask(t)
    PROVE  ConsentTypes' /\ ConsentInv'
<1>1. /\ acts < MaxActs /\ acts' = acts + 1
      /\ UNCHANGED <<deployed, storage, store, page, vitals, manager, server, words, clock>>
  BY DEF Type, Ask, Act
<1>2. acts' \in 0 .. MaxActs /\ acts \in Nat
  BY <1>1, ConsentAssumption DEF ConsentTypes, TypeOK
<1>3. /\ form' \in [Tabs -> [state : FormStates, typed : BOOLEAN]]
      /\ net' \subseteq RequestType
      /\ \A q \in net' : q.kind \in {"push", "save"} => q.timestamp \in 1 .. MaxStamp
      /\ \A q \in net' : q \in net \/ q.kind # "save"
  <2>1. CASE Type(t)
    BY <2>1 DEF Type, ConsentTypes, TypeOK
  <2>2. CASE Ask(t)
    <3> DEFINE s == [Undecided EXCEPT !.timestamp = acts]
               r == Request(t, page[t].view, s)
    <3>1. net' = net \cup {r} /\ page[t].view \in Forms
          /\ form' = [form EXCEPT ![t].state = "requesting"]
      BY <2>2 DEF Ask
    <3>2. s.choices \subseteq Categories /\ s.timestamp \in Nat /\ page[t].view \in Kinds
      BY <1>2, <3>1 DEF Undecided, Kinds
    <3>3. r \in RequestType
      BY <3>2, RequestTyped
    <3>4. r.kind \in Forms /\ r.kind \notin {"push", "save"}
      BY <3>1 DEF Request, Forms
    <3> HIDE DEF s, r
    <3>5. form' \in [Tabs -> [state : FormStates, typed : BOOLEAN]]
      BY <3>1 DEF ConsentTypes, TypeOK, FormStates
    <3>. QED
      BY <3>1, <3>3, <3>4, <3>5, NewNetTyped
  <2>. QED
    BY <2>1, <2>2
<1>4. ConsentTypes'
  BY <1>1, <1>2, <1>3, NetType DEF ConsentTypes, TypeOK, PageType, server, words
<1>5. SavesBacked'
  BY <1>1, <1>3, SavesKeep DEF words
<1>6. StoresBacked' /\ Backed(storage, storage.version)'
  BY <1>1, StoresKeep DEF words
<1>. QED
  BY <1>4, <1>5, <1>6 DEF ConsentInv

LEMMA AnswerStep ==
    ASSUME ConsentTypes, ConsentInv, NEW r \in net, NEW outcome \in Outcomes, Answer(r, outcome)
    PROVE  ConsentTypes' /\ ConsentInv'
<1>1. /\ net' = net \ {r} /\ ViewAnswer(r, outcome)
      /\ UNCHANGED <<deployed, settled, clock, acts>>
      /\ \E recorded \in BOOLEAN : Takes(r, recorded)
  BY DEF Answer
<1>2. r \in RequestType /\ r.tab \in Tabs
      /\ (r.kind \in {"push", "save"} => r.timestamp \in 1 .. MaxStamp)
  BY DEF ConsentTypes, RequestType
<1>3. records' \subseteq PayloadType /\ received' \subseteq Forms
  <2> DEFINE p == [choices |-> r.choices, timestamp |-> r.timestamp, version |-> r.version]
  <2>1. r.kind \in {"push", "save"} => p \in PayloadType
    BY <1>2, ConsentAssumption DEF RequestType, PayloadType, Stamps
  <2>2. records' \subseteq records \cup {p} /\ (records' = records \/ r.kind \in {"push", "save"})
    BY <1>1 DEF Takes
  <2>3. received' \subseteq Forms
    BY <1>1 DEF Takes, ConsentTypes, TypeOK
  <2> HIDE DEF p
  <2>. QED
    BY <2>1, <2>2, <2>3 DEF ConsentTypes, TypeOK
<1>4. /\ manager' \in [Tabs -> [saving : BOOLEAN,
                                history : {"none", "loading", "shown", "pending"}]]
      /\ form' \in [Tabs -> [state : FormStates, typed : BOOLEAN]]
  <2>1. /\ HistoryAfter(outcome) \in {"none", "loading", "shown", "pending"}
        /\ StateAfter(outcome) \in FormStates
    BY DEF HistoryAfter, StateAfter, FormStates, Outcomes
  <2>2. \/ manager' = [manager EXCEPT ![r.tab].saving = FALSE]
        \/ manager' = [manager EXCEPT ![r.tab].history = HistoryAfter(outcome)]
        \/ manager' = manager
    BY <1>1 DEF ViewAnswer, SavingAfter
  <2>3. form' = form \/ form' = [form EXCEPT ![r.tab].state = StateAfter(outcome)]
    BY <1>1 DEF ViewAnswer
  <2>4. /\ manager \in [Tabs -> [saving : BOOLEAN,
                                 history : {"none", "loading", "shown", "pending"}]]
        /\ form \in [Tabs -> [state : FormStates, typed : BOOLEAN]]
    BY DEF ConsentTypes, TypeOK
  <2> DEFINE h == HistoryAfter(outcome)
             f == StateAfter(outcome)
  <2>5. h \in {"none", "loading", "shown", "pending"} /\ f \in FormStates
    BY <2>1
  <2> HIDE DEF h, f
  <2>6. ASSUME manager' = [manager EXCEPT ![r.tab].history = h]
        PROVE  manager' \in [Tabs -> [saving : BOOLEAN,
                                     history : {"none", "loading", "shown", "pending"}]]
    BY <2>4, <2>5, <2>6
  <2>7. form' \in [Tabs -> [state : FormStates, typed : BOOLEAN]]
    BY <2>3, <2>4, <2>5 DEF f
  <2>8. ASSUME manager' = [manager EXCEPT ![r.tab].saving = FALSE]
        PROVE  manager' \in [Tabs -> [saving : BOOLEAN,
                                     history : {"none", "loading", "shown", "pending"}]]
    BY <2>4, <2>8
  <2>. QED
    BY <2>2, <2>4, <2>6, <2>7, <2>8 DEF h
<1>5. /\ net' \subseteq RequestType
      /\ \A q \in net' : q.kind \in {"push", "save"} => q.timestamp \in 1 .. MaxStamp
      /\ \A q \in net' : q \in net
  BY <1>1 DEF ConsentTypes
<1>6. CASE r.kind = "save" /\ r.owner # "nobody" /\ Effective(outcome)
  <2> DEFINE t == r.tab
             s == [store[t] EXCEPT !.decided = TRUE, !.timestamp = r.timestamp]
  <2>1. SetStore(t, s)
    BY <1>6 DEF Answer, SaveAnswer
  <2>2. /\ s \in StoreType /\ s.timestamp # Never
        /\ page[t].version \in settled'
    <3>1. r.timestamp \in Stamps /\ r.timestamp # Never
      BY <1>2, <1>6, ConsentAssumption DEF Stamps, Never
    <3>2. s \in StoreType /\ s.timestamp = r.timestamp
      <4>1. store[t] \in StoreType
        BY <1>2 DEF ConsentTypes, TypeOK
      <4>. QED
        BY <3>1, <4>1 DEF StoreType
    <3>3. page[t].version \in settled'
      BY <1>1, <1>6 DEF ConsentInv, SavesBacked
    <3>. QED
      BY <3>1, <3>2, <3>3
  <2> HIDE DEF s
  <2>3. /\ store' \in [Tabs -> StoreType] /\ storage' \in PayloadType
        /\ page' \in [Tabs -> PageType]
        /\ vitals' \in [Tabs -> [listening : BOOLEAN, queue : 0 .. MaxBatch - 1]]
        /\ granted' \subseteq Versions
        /\ \A u \in Tabs : page'[u].version = page[u].version
        /\ StoresBacked' /\ Backed(storage, storage.version)'
    BY <1>1, <1>2, <2>1, <2>2, SetStoreKeeps
  <2>4. ConsentTypes'
    BY <1>1, <1>3, <1>4, <1>5, <2>3, NetType DEF ConsentTypes, TypeOK, PageType
  <2>5. SavesBacked'
    BY <1>1, <1>5, <2>3, SavesKeep
  <2>. QED
    BY <2>3, <2>4, <2>5 DEF ConsentInv
<1>7. CASE UNCHANGED <<storage, store, page, vitals, granted>>
  <2>1. ConsentTypes'
    BY <1>1, <1>3, <1>4, <1>5, <1>7, NetType DEF ConsentTypes, TypeOK, PageType
  <2>2. SavesBacked'
    BY <1>1, <1>5, <1>7, SavesKeep
  <2>3. StoresBacked' /\ Backed(storage, storage.version)'
    BY <1>1, <1>7, StoresKeep
  <2>. QED
    BY <2>1, <2>2, <2>3 DEF ConsentInv
<1>. QED
  BY <1>6, <1>7 DEF Answer, SaveAnswer

LEMMA ConsentStep == ConsentTypes /\ ConsentInv /\ [Next]_vars => ConsentTypes' /\ ConsentInv'
<1> SUFFICES ASSUME ConsentTypes, ConsentInv, [Next]_vars PROVE ConsentTypes' /\ ConsentInv'
  OBVIOUS
<1>1. CASE Deploy
  <2>1. /\ deployed' \in Versions
        /\ UNCHANGED <<storage, store, page, vitals, manager, form, net, server, words,
                       clock, acts>>
    BY <1>1 DEF Deploy
  <2>2. ConsentTypes'
    BY <2>1 DEF ConsentTypes, TypeOK, server, words
  <2>3. StoresBacked' /\ Backed(storage, storage.version)'
    BY <2>1, StoresKeep DEF words
  <2>4. SavesBacked'
    BY <2>1, SavesKeep DEF words
  <2>. QED
    BY <2>2, <2>3, <2>4 DEF ConsentInv
<1>2. CASE AnswerSome
  BY <1>2, AnswerStep DEF AnswerSome
<1>3. ASSUME NEW t \in Tabs, Load(t) PROVE ConsentTypes' /\ ConsentInv'
  BY <1>3, LoadStep
<1>4. ASSUME NEW t \in Tabs, NEW v \in Views, Navigate(t, v) PROVE ConsentTypes' /\ ConsentInv'
  BY <1>4, NavigateStep
<1>5. ASSUME NEW t \in Tabs,
             (\E c \in Categories : SetCategory(t, c)) \/ BannerDecision(t) \/ Reset(t)
      PROVE  ConsentTypes' /\ ConsentInv'
  BY <1>5, DecisionStep
<1>6. ASSUME NEW t \in Tabs, Save(t) PROVE ConsentTypes' /\ ConsentInv'
  BY <1>6, SaveStep
<1>7. ASSUME NEW t \in Tabs, Listen(t) \/ Sample(t) \/ Flush(t)
      PROVE  ConsentTypes' /\ ConsentInv'
  BY <1>7, VitalsStep
<1>8. ASSUME NEW t \in Tabs, Type(t) \/ Ask(t) PROVE ConsentTypes' /\ ConsentInv'
  BY <1>8, FormStep
<1>9. CASE UNCHANGED vars
  <2>1. ConsentTypes'
    BY <1>9 DEF ConsentTypes, TypeOK, vars, server, words
  <2>2. StoresBacked' /\ Backed(storage, storage.version)'
    BY <1>9, StoresKeep DEF vars, words
  <2>3. SavesBacked'
    BY <1>9, SavesKeep DEF vars, words
  <2>. QED
    BY <2>1, <2>2, <2>3 DEF ConsentInv
<1>. QED
  BY <1>1, <1>2, <1>3, <1>4, <1>5, <1>6, <1>7, <1>8, <1>9 DEF Next

LEMMA ConsentHolds == Spec => [](ConsentTypes /\ ConsentInv)
  BY ConsentInit, ConsentStep, PTL DEF Spec

-----------------------------------------------------------------------------
(* The properties *)

\* Every reachable state is well typed; the batch of vitals stays under its limit.
THEOREM ConsentTyped == Spec => []TypeOK
<1>1. ConsentTypes => TypeOK
  BY DEF ConsentTypes
<1>. QED
  BY ConsentHolds, <1>1, PTL

\* Whatever tabs, reloads, policy versions and late answers do, analytics runs
\* only in a page whose policy version the visitor granted it under.
THEOREM NoTrackingUnasked == Spec => []TrackingIsConsented
<1>1. ConsentInv => TrackingIsConsented
  BY DEF ConsentInv, StoresBacked, Backed, Gate, TrackingIsConsented
<1>. QED
  BY ConsentHolds, <1>1, PTL

\* A store that hides the banner comes from a decision under that version.
THEOREM VisitorDecides == Spec => []DecidedByVisitor
<1>1. ConsentInv => DecidedByVisitor
  BY DEF ConsentInv, StoresBacked, Backed, DecidedByVisitor
<1>. QED
  BY ConsentHolds, <1>1, PTL

\* No sample of the vitals is taken or kept once the consent is withdrawn.
THEOREM SamplesEndWithConsent == Spec => []NoSampleOutlivesConsent
<1>1. ConsentInv => NoSampleOutlivesConsent
  BY DEF ConsentInv, StoresBacked, NoSampleOutlivesConsent
<1>. QED
  BY ConsentHolds, <1>1, PTL

-----------------------------------------------------------------------------
(* The forms *)

IsAsk(r) == r.kind \in Forms /\ r.owner = "view"
Asks == {r \in net : IsAsk(r)}

\* What a form waits for is on its way, and of the page that shows the form.
FormInv ==
    /\ \A r \in Asks : page[r.tab].view = r.kind /\ form[r.tab].state = "requesting"
    /\ \A r, q \in Asks : r.tab = q.tab => r = q
    /\ \A t \in Tabs : form[t].state = "requesting" => \E r \in Asks : r.tab = t
    /\ SubmittedWasReceived

LEMMA FormsKeep ==
    ASSUME ConsentTypes, FormInv, Asks' = Asks, received \subseteq received',
           \A u \in Tabs : form'[u].state = form[u].state /\ page'[u].view = page[u].view
    PROVE  FormInv'
<1>1. \A r \in Asks : r.tab \in Tabs
  BY DEF Asks, ConsentTypes, RequestType
<1>2. \A r \in Asks' : page'[r.tab].view = r.kind /\ form'[r.tab].state = "requesting"
  BY <1>1 DEF FormInv
<1>3. SubmittedWasReceived'
  BY DEF FormInv, SubmittedWasReceived
<1>. QED
  BY <1>2, <1>3 DEF FormInv

\* A page that is left, or loaded again, forgets its form.
LEMMA FormsForget ==
    ASSUME ConsentTypes, FormInv, NEW t \in Tabs, NEW owner \in {"page", "nobody"},
           NEW new, net' = Disown(t, owner) \cup new, \A q \in new : ~IsAsk(q),
           form' = [form EXCEPT ![t] = EmptyForm], UNCHANGED received,
           \A u \in Tabs \ {t} : page'[u] = page[u]
    PROVE  FormInv'
<1>1. Asks' = {r \in Asks : r.tab # t}
  <2>1. ASSUME NEW q \in Asks' PROVE q \in Asks /\ q.tab # t
    <3>1. q \in Disown(t, owner) /\ IsAsk(q)
      BY <2>1 DEF Asks
    <3>2. PICK r \in net : /\ q.tab = r.tab /\ q.kind = r.kind
                           /\ r.tab = t /\ q.owner = "view" => r.kind = "push"
                           /\ r.tab # t => q = r
      BY <3>1, Disowned
    <3>3. q.tab # t
      BY <3>1, <3>2 DEF IsAsk, Forms
    <3>. QED
      BY <3>1, <3>2, <3>3 DEF Asks
  <2>2. ASSUME NEW q \in Asks, q.tab # t PROVE q \in Asks'
    <3>1. q \in Disown(t, owner)
      BY <2>2 DEF Asks, Disown
    <3>. QED
      BY <3>1 DEF Asks
  <2>. QED
    BY <2>1, <2>2
<1>2. /\ \A u \in Tabs \ {t} : form'[u] = form[u]
      /\ form'[t].state = "idle"
  BY DEF ConsentTypes, TypeOK, EmptyForm
<1>3. \A r \in Asks : r.tab \in Tabs
  BY DEF Asks, ConsentTypes, RequestType
<1>4. \A r \in Asks' : page'[r.tab].view = r.kind /\ form'[r.tab].state = "requesting"
  BY <1>1, <1>2, <1>3 DEF FormInv
<1>5. \A u \in Tabs : form'[u].state = "requesting" => \E r \in Asks' : r.tab = u
  BY <1>1, <1>2 DEF FormInv
<1>6. SubmittedWasReceived'
  BY <1>2 DEF FormInv, SubmittedWasReceived
<1>. QED
  BY <1>1, <1>4, <1>5, <1>6 DEF FormInv

LEMMA AskStep ==
    ASSUME ConsentTypes, FormInv, NEW t \in Tabs, Ask(t)
    PROVE  FormInv'
<1> DEFINE s == [Undecided EXCEPT !.timestamp = acts]
           r == Request(t, page[t].view, s)
<1>1. /\ net' = net \cup {r} /\ page[t].view \in Forms
      /\ form' = [form EXCEPT ![t].state = "requesting"]
      /\ form[t].state \notin {"requesting", "submitted"}
      /\ UNCHANGED <<page, server>>
  BY DEF Ask, MayRequest
<1>2. r.tab = t /\ r.kind = page[t].view /\ r.owner = "view"
  BY DEF Request
<1> HIDE DEF s, r
<1>3. /\ \A u \in Tabs \ {t} : form'[u] = form[u]
      /\ form'[t].state = "requesting"
  BY <1>1 DEF ConsentTypes, TypeOK
<1>4. Asks' = Asks \cup {r}
  BY <1>1, <1>2 DEF Asks, IsAsk
<1>5. \A q \in Asks : q.tab \in Tabs \ {t}
  BY <1>1 DEF Asks, FormInv, ConsentTypes, RequestType
<1>6. \A q \in Asks' : page'[q.tab].view = q.kind /\ form'[q.tab].state = "requesting"
  BY <1>1, <1>2, <1>3, <1>4, <1>5 DEF FormInv
<1>7. \A q, p \in Asks' : q.tab = p.tab => q = p
  BY <1>2, <1>4, <1>5 DEF FormInv
<1>8. \A u \in Tabs : form'[u].state = "requesting" => \E q \in Asks' : q.tab = u
  BY <1>2, <1>3, <1>4 DEF FormInv
<1>9. SubmittedWasReceived'
  BY <1>1, <1>3 DEF FormInv, SubmittedWasReceived, server
<1>. QED
  BY <1>6, <1>7, <1>8, <1>9 DEF FormInv

LEMMA FormAnswerStep ==
    ASSUME ConsentTypes, FormInv, NEW r \in net, NEW outcome \in Outcomes, Answer(r, outcome)
    PROVE  FormInv'
<1>1. /\ net' = net \ {r}
      /\ form' = IF IsAsk(r) THEN [form EXCEPT ![r.tab].state = StateAfter(outcome)]
                 ELSE form
  BY DEF Answer, ViewAnswer, IsAsk
<1>2. r.tab \in Tabs
  BY DEF ConsentTypes, RequestType
<1>3. received \subseteq received' /\ (outcome = "ok" /\ IsAsk(r) => r.kind \in received')
  BY DEF Answer, Takes, IsAsk
<1>4. \A u \in Tabs : page'[u].view = page[u].view
  <2>1. page' = page \/ \E b : page' = [page EXCEPT ![r.tab].script = b]
    BY DEF Answer, SaveAnswer, SetStore
  <2>2. page \in [Tabs -> PageType]
    BY DEF ConsentTypes, TypeOK, PageType
  <2>3. ASSUME NEW b, page' = [page EXCEPT ![r.tab].script = b], NEW u \in Tabs
        PROVE  page'[u].view = page[u].view
    <3>1. CASE u = r.tab
      <4>1. page'[u] = [page[u] EXCEPT !.script = b]
        BY <2>2, <2>3, <3>1
      <4>. QED
        BY <2>2, <4>1 DEF PageType
    <3>2. CASE u # r.tab
      BY <2>2, <2>3, <3>2
    <3>. QED
      BY <3>1, <3>2
  <2>. QED
    BY <2>1, <2>3
<1>5. CASE ~IsAsk(r)
  <2>1. Asks' = Asks
    BY <1>1, <1>5 DEF Asks
  <2>. QED
    BY <1>1, <1>3, <1>4, <1>5, <2>1, FormsKeep
<1>6. CASE IsAsk(r)
  <2>1. r \in Asks /\ Asks' = Asks \ {r}
    BY <1>1, <1>6 DEF Asks
  <2>2. /\ \A u \in Tabs \ {r.tab} : form'[u] = form[u]
        /\ form'[r.tab].state = StateAfter(outcome)
    BY <1>1, <1>2, <1>6 DEF ConsentTypes, TypeOK
  <2>3. StateAfter(outcome) # "requesting"
        /\ (StateAfter(outcome) = "submitted" => outcome = "ok")
    BY DEF StateAfter, Outcomes
  <2>4. \A q \in Asks' : q.tab \in Tabs \ {r.tab}
    BY <2>1 DEF Asks, FormInv, ConsentTypes, RequestType
  <2>5. \A q \in Asks' : page'[q.tab].view = q.kind /\ form'[q.tab].state = "requesting"
    BY <1>4, <2>1, <2>2, <2>4 DEF FormInv
  <2>6. \A u \in Tabs : form'[u].state = "requesting" => \E q \in Asks' : q.tab = u
    BY <1>2, <2>1, <2>2, <2>3 DEF FormInv
  <2>7. SubmittedWasReceived'
    <3>1. page[r.tab].view = r.kind
      BY <2>1 DEF FormInv
    <3>. QED
      BY <1>2, <1>3, <1>4, <1>6, <2>2, <2>3, <3>1 DEF FormInv, SubmittedWasReceived
  <2>. QED
    BY <2>1, <2>5, <2>6, <2>7 DEF FormInv
<1>. QED
  BY <1>5, <1>6

LEMMA FormsStep == ConsentTypes /\ FormInv /\ [Next]_vars => FormInv'
<1> SUFFICES ASSUME ConsentTypes, FormInv, [Next]_vars PROVE FormInv'
  OBVIOUS
<1>1. CASE AnswerSome
  BY <1>1, FormAnswerStep DEF AnswerSome
<1>2. ASSUME NEW t \in Tabs, Load(t) PROVE FormInv'
  <2> DEFINE new == {}
  <2>1. \A u \in Tabs \ {t} : page'[u] = page[u]
    BY <1>2 DEF Load, ConsentTypes, TypeOK
  <2>2. /\ net' = Disown(t, "nobody") \cup new
        /\ form' = [form EXCEPT ![t] = EmptyForm] /\ received' = received
    BY <1>2 DEF Load, server
  <2>3. \A q \in new : ~IsAsk(q)
    OBVIOUS
  <2> HIDE DEF new
  <2>. QED
    BY <2>1, <2>2, <2>3, FormsForget
<1>3. ASSUME NEW t \in Tabs, NEW v \in Views, Navigate(t, v) PROVE FormInv'
  <2> DEFINE new == IF v = "consent" THEN {Request(t, "history", Undecided)} ELSE {}
  <2>1. \A u \in Tabs \ {t} : page'[u] = page[u]
    BY <1>3 DEF Navigate, ConsentTypes, TypeOK
  <2>2. /\ net' = Disown(t, "page") \cup new
        /\ form' = [form EXCEPT ![t] = EmptyForm] /\ received' = received
    BY <1>3 DEF Navigate, server
  <2>3. \A q \in new : ~IsAsk(q)
    BY DEF Request, IsAsk, Forms
  <2> HIDE DEF new
  <2>. QED
    BY <2>1, <2>2, <2>3, FormsForget
<1>4. ASSUME NEW t \in Tabs, NEW s, SetStore(t, s), UNCHANGED <<form, received>>,
             net' = net \/ \E r : net' = net \cup {r} /\ ~IsAsk(r)
      PROVE  FormInv'
  <2>1. \A u \in Tabs : page'[u].view = page[u].view
    BY <1>4 DEF SetStore, ConsentTypes, TypeOK
  <2>2. Asks' = Asks
    BY <1>4 DEF Asks
  <2>. QED
    BY <1>4, <2>1, <2>2, FormsKeep
<1>5. ASSUME NEW t \in Tabs, (\E c \in Categories : SetCategory(t, c)) \/ Reset(t)
      PROVE  FormInv'
  BY <1>4, <1>5 DEF SetCategory, Reset, server
<1>6. ASSUME NEW t \in Tabs, BannerDecision(t) PROVE FormInv'
  <2>1. \A s : ~IsAsk(Request(t, "push", s))
    BY DEF Request, IsAsk, Forms
  <2>2. \E s : SetStore(t, s) /\ net' = net \cup {Request(t, "push", s)}
               /\ UNCHANGED <<form, received>>
    BY <1>6 DEF BannerDecision, Decide, server
  <2>. QED
    BY <1>4, <2>1, <2>2
<1>7. ASSUME NEW t \in Tabs, Save(t) PROVE FormInv'
  <2>1. \A s : ~IsAsk(Request(t, "save", s))
    BY DEF Request, IsAsk, Forms
  <2>2. (\E s : net' = net \cup {Request(t, "save", s)})
        /\ UNCHANGED <<page, form, received>>
    BY <1>7 DEF Save, server
  <2>3. Asks' = Asks
    BY <2>1, <2>2 DEF Asks
  <2>. QED
    BY <2>2, <2>3, FormsKeep
<1>8. ASSUME NEW t \in Tabs, Ask(t) PROVE FormInv'
  BY <1>8, AskStep
<1>9. ASSUME NEW t \in Tabs, Type(t) PROVE FormInv'
  <2>1. \A u \in Tabs : form'[u].state = form[u].state
    BY <1>9 DEF Type, ConsentTypes, TypeOK
  <2>2. Asks' = Asks /\ page' = page /\ received' = received
    BY <1>9 DEF Type, Asks, server
  <2>. QED
    BY <2>1, <2>2, FormsKeep
<1>10. ASSUME UNCHANGED <<form, net, page, received>> PROVE FormInv'
  BY <1>10 DEF FormInv, Asks, SubmittedWasReceived
<1>11. CASE Deploy \/ (\E t \in Tabs : Listen(t) \/ Sample(t) \/ Flush(t)) \/ UNCHANGED vars
  BY <1>10, <1>11 DEF Deploy, Listen, Sample, Flush, vars, server
<1>. QED
  BY <1>1, <1>2, <1>3, <1>5, <1>6, <1>7, <1>8, <1>9, <1>11 DEF Next

LEMMA FormsHold == Spec => [](ConsentTypes /\ FormInv)
<1>1. Init => FormInv
  BY DEF Init, FormInv, Asks, EmptyForm, SubmittedWasReceived
<1>. QED
  BY <1>1, FormsStep, ConsentHolds, PTL DEF Spec

\* A page that calls an erasure or an export submitted is right: the server has it.
THEOREM SubmittedIsTrue == Spec => []SubmittedWasReceived
<1>1. FormInv => SubmittedWasReceived
  BY DEF FormInv
<1>. QED
  BY FormsHold, <1>1, PTL

\* No second erasure or export leaves a page while the first is unanswered.
THEOREM FormsAskOnce == Spec => []OneRequestPerForm
<1>1. ASSUME ConsentTypes, FormInv, NEW t \in Tabs
      PROVE  Cardinality({r \in net : r.tab = t /\ r.kind \in Forms /\ r.owner = "view"})
               = IF form[t].state = "requesting" THEN 1 ELSE 0
  <2> DEFINE mine == {r \in net : r.tab = t /\ r.kind \in Forms /\ r.owner = "view"}
  <2>1. mine \subseteq Asks /\ \A r \in Asks : r.tab = t => r \in mine
    BY DEF Asks, IsAsk
  <2>2. CASE form[t].state = "requesting"
    <3>1. PICK r \in mine : mine = {r}
      BY <1>1, <2>1, <2>2 DEF FormInv
    <3>2. Cardinality(mine) = 1
      BY <3>1, FS_Singleton, Zenon
    <3>. QED
      BY <2>2, <3>2
  <2>3. CASE form[t].state # "requesting"
    <3>1. \A r \in mine : r \in Asks /\ r.tab = t
      BY <2>1
    <3>2. mine = {}
      BY <1>1, <2>3, <3>1 DEF FormInv
    <3>3. Cardinality(mine) = 0
      BY <3>2, FS_EmptySet, Zenon
    <3>. QED
      BY <2>3, <3>3
  <2>. QED
    BY <2>2, <2>3
<1>2. ConsentTypes /\ FormInv => OneRequestPerForm
  BY <1>1 DEF OneRequestPerForm
<1>. QED
  BY FormsHold, <1>2, PTL

-----------------------------------------------------------------------------
(* Erasure and retention.                                                  *)
USE ErasureAssumption

-----------------------------------------------------------------------------
(* Types.                                                                   *)
Parts == {"consents", "profile", "contact"}

(* A worker that is at a stage holds a message.                             *)
LEMMA AtIsBusy ==
    ASSUME ErasureTypeOK, NEW w \in Executors, ~At(w, "free")
    PROVE  /\ executor[w] \in Busy
           /\ executor[w].of \in Requests
           /\ RequestUser[executor[w].of] \in Users
BY DEF ErasureTypeOK, At, Busy, Free

LEMMA ErasureTypeInit == ErasureInit => ErasureTypeOK
BY DEF ErasureInit, ErasureTypeOK, Unstored, Whole, Free, Busy, Statuses

LEMMA ErasureTypeStep == ErasureTypeOK /\ [ErasureNext]_erasure => ErasureTypeOK'
<1> SUFFICES ASSUME ErasureTypeOK, [ErasureNext]_erasure PROVE ErasureTypeOK'
    OBVIOUS
<1> USE DEF ErasureTypeOK
<1>1. ASSUME NEW r \in Requests, RequestErasure(r) PROVE ErasureTypeOK'
    BY <1>1 DEF RequestErasure, subject, alarm, Statuses
<1>2. ASSUME NEW r \in Requests, EnqueueFanout(r) PROVE ErasureTypeOK'
    <2>1. queue' \in [Requests -> [0 .. MaxRetries -> Nat]]
        BY <1>2 DEF EnqueueFanout, Enqueued
    <2> QED BY <1>2, <2>1 DEF EnqueueFanout, subject, alarm
<1>3. ASSUME NEW r \in Requests, LoseCaller(r) PROVE ErasureTypeOK'
    BY <1>3 DEF LoseCaller, subject, alarm
<1>4. ASSUME NEW r \in Requests, Approach(r) PROVE ErasureTypeOK'
    BY <1>4 DEF Approach, subject
<1>5. ASSUME NEW w \in Executors, NEW r \in Requests, NEW n \in 0 .. MaxRetries,
             StartFanout(w, r, n)
      PROVE  ErasureTypeOK'
    <2>1. queue' \in [Requests -> [0 .. MaxRetries -> Nat]]
        BY <1>5 DEF StartFanout
    <2>2. [at |-> "start", of |-> r, tries |-> n,
           stamped |-> request[r].stamped, failed |-> FALSE] \in Busy
        BY DEF Busy, Stages
    <2>3. executor' \in [Executors -> Busy \cup {Free}]
        BY <1>5, <2>2 DEF StartFanout
    <2> QED BY <1>5, <2>1, <2>3 DEF StartFanout, subject, alarm
<1>6. ASSUME NEW w \in Executors, MarkInProgress(w) PROVE ErasureTypeOK'
    <2>1. executor[w] \in Busy /\ executor[w].of \in Requests
        BY <1>6, AtIsBusy DEF MarkInProgress, At
    <2>2. executor' \in [Executors -> Busy \cup {Free}]
        BY <1>6, <2>1 DEF MarkInProgress, Go, Busy, Stages
    <2> QED BY <1>6, <2>1, <2>2 DEF MarkInProgress, subject, alarm, Statuses
<1>7. ASSUME NEW w \in Executors, NEW part \in Parts, Erase(w, part)
      PROVE  ErasureTypeOK'
    <2>1. executor[w] \in Busy /\ RequestUser[executor[w].of] \in Users
        BY <1>7, AtIsBusy DEF Erase, At, Parts
    <2>2. After(part) \in Stages
        BY DEF After, Parts, Stages
    <2>3. executor' \in [Executors -> Busy \cup {Free}]
        BY <1>7, <2>1, <2>2 DEF Erase, Go, Busy
    <2>4. account' \in [Users -> [consents : BOOLEAN, profile : BOOLEAN,
                                  contact : BOOLEAN]]
        BY <1>7, <2>1 DEF Erase, Parts
    <2> QED BY <1>7, <2>3, <2>4 DEF Erase, alarm
<1>8. ASSUME NEW w \in Executors, HandlerFails(w) PROVE ErasureTypeOK'
    <2>1. executor[w] \in Busy
        BY <1>8, AtIsBusy DEF HandlerFails, At
    <2>2. executor' \in [Executors -> Busy \cup {Free}]
        BY <1>8, <2>1 DEF HandlerFails, Busy, Stages
    <2> QED BY <1>8, <2>2 DEF HandlerFails, subject, alarm
<1>9. ASSUME NEW w \in Executors, SaveOutcome(w) PROVE ErasureTypeOK'
    <2>1. executor[w] \in Busy /\ executor[w].of \in Requests
        BY <1>9, AtIsBusy DEF SaveOutcome, At
    <2>2. executor' \in [Executors -> Busy \cup {Free}]
        BY <1>9, <2>1 DEF SaveOutcome, Go, Busy, Stages
    <2>3. Outcome(executor[w]) \in [status : Statuses \cup {"none"}, stamped : BOOLEAN]
        BY <2>1 DEF Outcome, Busy, Statuses
    <2> QED BY <1>9, <2>1, <2>2, <2>3 DEF SaveOutcome, subject, alarm
<1>10. ASSUME NEW w \in Executors, FinishFanout(w) PROVE ErasureTypeOK'
    BY <1>10 DEF FinishFanout, Leave, subject, alarm
<1>11. ASSUME NEW w \in Executors, RetryFanout(w) PROVE ErasureTypeOK'
    <2>1. executor[w] \in Busy /\ executor[w].of \in Requests
        BY <1>11, AtIsBusy DEF RetryFanout, At
    <2>2. executor' \in [Executors -> Busy \cup {Free}]
        BY <1>11, <2>1 DEF RetryFanout, Go, Busy, Stages
    <2>3. queue' \in [Requests -> [0 .. MaxRetries -> Nat]]
        BY <1>11, <2>1 DEF RetryFanout, Enqueued, MayRetry, Busy
    <2> QED BY <1>11, <2>2, <2>3 DEF RetryFanout, subject, alarm
<1>12. ASSUME NEW w \in Executors, Acknowledge(w) PROVE ErasureTypeOK'
    BY <1>12 DEF Acknowledge, Leave, subject, alarm
<1>13. ASSUME NEW w \in Executors, FailFanout(w) PROVE ErasureTypeOK'
    <2>1. executor[w].of \in Requests
        BY <1>13, AtIsBusy DEF FailFanout, At
    <2> QED BY <1>13, <2>1 DEF FailFanout, Leave, subject, alarm
<1>14. ASSUME NEW w \in Executors, LoseExecutor(w) PROVE ErasureTypeOK'
    <2>1. executor[w] \in Busy /\ executor[w].of \in Requests
        BY <1>14, AtIsBusy DEF LoseExecutor
    <2>2. queue' \in [Requests -> [0 .. MaxRetries -> Nat]]
        BY <1>14, <2>1 DEF LoseExecutor, Enqueued, Busy
    <2> QED BY <1>14, <2>2 DEF LoseExecutor, Leave, subject, alarm
<1>15. ASSUME CheckErasureSla PROVE ErasureTypeOK'
    BY <1>15 DEF CheckErasureSla, AtRisk, subject
<1>16. ASSUME NEW o \in Orders, OrderAges(o) PROVE ErasureTypeOK'
    BY <1>16 DEF OrderAges, alarm
<1>17. ASSUME OpenRetentionSweep PROVE ErasureTypeOK'
    BY <1>17 DEF OpenRetentionSweep, Swept, alarm
<1>18. ASSUME LoseSweep PROVE ErasureTypeOK'
    BY <1>18 DEF LoseSweep, alarm
<1>19. ASSUME NEW r \in Requests, AnonymizeHistory(r) PROVE ErasureTypeOK'
    BY <1>19 DEF AnonymizeHistory, alarm
<1>20. CASE UNCHANGED erasure
    BY <1>20 DEF erasure
<1> QED
    BY <1>1, <1>2, <1>3, <1>4, <1>5, <1>6, <1>7, <1>8, <1>9, <1>10, <1>11, <1>12,
       <1>13, <1>14, <1>15, <1>16, <1>17, <1>18, <1>19, <1>20
       DEF ErasureNext, Works, Parts

(* The rows, the messages and the workers keep their types.                 *)
THEOREM ErasureTyped == ErasureSpec => []ErasureTypeOK
BY ErasureTypeInit, ErasureTypeStep, PTL DEF ErasureSpec

-----------------------------------------------------------------------------
(* Completed requests.  A worker that has come past a statement of the      *)
(* handler left that part of the user's data erased, and nothing brings any *)
(* of it back: the outcome may be trusted although the row is saved from an *)
(* old copy.                                                                *)
Behind(stage) ==
    CASE stage = "profile" -> {"consents"}
      [] stage = "contact" -> {"consents", "profile"}
      [] stage = "save" -> Parts
      [] OTHER -> {}

RunsAreTrue ==
    \A w \in Executors : ~At(w, "free") /\ ~executor[w].failed =>
        \A part \in Behind(executor[w].at) : ~account[RequestUser[executor[w].of]][part]

(* The requests the sweep holds were completed when it read them.           *)
SweepIsTrue == \A r \in cursor : Erased(RequestUser[r])

ErasureInv ==
    ErasureTypeOK /\ RunsAreTrue /\ CompletedIsErased /\ SweepIsTrue /\ AnonymizedIsErased

(* A step only ever takes from a user's data.                               *)
LEMMA DataOnlyGoes ==
    ASSUME ErasureTypeOK, [ErasureNext]_erasure
    PROVE  \A u \in Users, part \in Parts : account'[u][part] => account[u][part]
<1>1. ASSUME NEW w \in Executors, NEW part \in Parts, Erase(w, part)
      PROVE  \A u \in Users, p \in Parts : account'[u][p] => account[u][p]
    BY <1>1 DEF Erase, ErasureTypeOK, Parts
<1>2. CASE UNCHANGED account
    BY <1>2
<1> QED
    BY <1>1, <1>2 DEF ErasureNext, Works, Parts, erasure, subject, RequestErasure,
       EnqueueFanout, LoseCaller, Approach, StartFanout, MarkInProgress, HandlerFails,
       SaveOutcome, FinishFanout, RetryFanout, Acknowledge, FailFanout, LoseExecutor,
       CheckErasureSla, OrderAges, OpenRetentionSweep, LoseSweep, AnonymizeHistory

LEMMA ErasedIsParts ==
    ASSUME ErasureTypeOK, NEW u \in Users
    PROVE  Erased(u) <=> \A part \in Parts : ~account[u][part]
BY DEF ErasureTypeOK, Erased, Gone, Parts

LEMMA ErasedStays ==
    ASSUME ErasureTypeOK, [ErasureNext]_erasure, NEW u \in Users, Erased(u)
    PROVE  Erased(u)'
<1>1. ErasureTypeOK'
    BY ErasureTypeStep
<1>2. \A part \in Parts : ~account'[u][part]
    BY DataOnlyGoes, ErasedIsParts
<1> QED
    BY <1>1, <1>2 DEF ErasureTypeOK, Erased, Gone, Parts

LEMMA ErasureInvInit == ErasureInit => ErasureInv
<1> SUFFICES ASSUME ErasureInit PROVE ErasureInv
    OBVIOUS
<1>1. ErasureTypeOK
    BY ErasureTypeInit
<1>2. RunsAreTrue
    BY DEF ErasureInit, RunsAreTrue, At, Free
<1>3. CompletedIsErased
    BY DEF ErasureInit, CompletedIsErased, Unstored
<1>4. SweepIsTrue /\ AnonymizedIsErased
    BY DEF ErasureInit, SweepIsTrue, AnonymizedIsErased
<1> QED
    BY <1>1, <1>2, <1>3, <1>4 DEF ErasureInv

(* A step that leaves a worker where it was keeps what its run has done.    *)
LEMMA RunStays ==
    ASSUME ErasureInv, [ErasureNext]_erasure, NEW w \in Executors,
           ~At(w, "free"), ~executor[w].failed, executor'[w] = executor[w]
    PROVE  \A part \in Behind(executor'[w].at) :
               ~account'[RequestUser[executor'[w].of]][part]
<1>1. ErasureTypeOK /\ RequestUser[executor[w].of] \in Users
    BY AtIsBusy DEF ErasureInv
<1>2. Behind(executor[w].at) \subseteq Parts
    BY DEF Behind, Parts
<1> QED
    BY <1>1, <1>2, DataOnlyGoes DEF ErasureInv, RunsAreTrue

LEMMA RunsStep == ErasureInv /\ [ErasureNext]_erasure => RunsAreTrue'
<1> SUFFICES ASSUME ErasureInv, [ErasureNext]_erasure, NEW w \in Executors,
                    ~(At(w, "free")'), ~executor'[w].failed,
                    NEW part \in Behind(executor'[w].at)
             PROVE  ~account'[RequestUser[executor'[w].of]][part]
    BY DEF RunsAreTrue
<1>t. ErasureTypeOK
    BY DEF ErasureInv
<1>0. CASE executor'[w] = executor[w]
    BY <1>0, RunStays DEF At
<1>1. ASSUME NEW r \in Requests, NEW n \in 0 .. MaxRetries, StartFanout(w, r, n)
      PROVE  executor'[w] = executor[w] \/ executor'[w].at = "start"
    BY <1>1, <1>t DEF StartFanout, ErasureTypeOK
<1>2. ASSUME MarkInProgress(w) PROVE executor'[w].at = "consents"
    BY <1>2, <1>t, AtIsBusy DEF MarkInProgress, Go, At, ErasureTypeOK, Busy
<1>3. ASSUME NEW p \in Parts, Erase(w, p)
      PROVE  ~account'[RequestUser[executor'[w].of]][part]
    <2>1. executor[w] \in Busy /\ RequestUser[executor[w].of] \in Users
        BY <1>3, <1>t, AtIsBusy DEF Erase, At, Parts
    <2>2. /\ executor'[w].at = After(p) /\ executor'[w].of = executor[w].of
          /\ executor'[w].failed = executor[w].failed
        BY <1>3, <1>t, <2>1 DEF Erase, Go, ErasureTypeOK, Busy
    <2>3. part \in Behind(executor[w].at) \cup {p}
        BY <1>3, <2>2 DEF Erase, At, After, Behind, Parts
    <2>4. ~account'[RequestUser[executor[w].of]][p]
        BY <1>3, <1>t, <2>1 DEF Erase, ErasureTypeOK, Parts
    <2>5. CASE part \in Behind(executor[w].at)
        <3>1. ~At(w, "free") /\ ~executor[w].failed
            BY <1>3, <2>2 DEF Erase, At, Parts
        <3>2. ~account[RequestUser[executor[w].of]][part]
            BY <2>5, <3>1 DEF ErasureInv, RunsAreTrue
        <3>3. part \in Parts
            BY <2>5 DEF Behind, Parts
        <3> QED BY <1>t, <2>1, <2>2, <3>2, <3>3, DataOnlyGoes
    <2> QED BY <2>2, <2>3, <2>4, <2>5
<1>4. ASSUME HandlerFails(w) PROVE FALSE
    <2>1. executor'[w].failed
        BY <1>4, <1>t, AtIsBusy DEF HandlerFails, At, ErasureTypeOK, Busy
    <2> QED BY <2>1
<1>5. ASSUME SaveOutcome(w) PROVE executor'[w].at = "finish"
    BY <1>5, <1>t, AtIsBusy DEF SaveOutcome, Go, At, ErasureTypeOK, Busy
<1>6. ASSUME RetryFanout(w) PROVE executor'[w].at = "ack"
    BY <1>6, <1>t, AtIsBusy DEF RetryFanout, Go, At, ErasureTypeOK, Busy
<1>7. ASSUME FinishFanout(w) \/ Acknowledge(w) \/ FailFanout(w) \/ LoseExecutor(w)
      PROVE  FALSE
    <2>1. executor'[w] = Free
        BY <1>7, <1>t DEF FinishFanout, Acknowledge, FailFanout, LoseExecutor, Leave,
           ErasureTypeOK
    <2> QED BY <2>1 DEF At, Free
<1>8. ASSUME executor'[w].at \in {"start", "consents", "finish", "ack"} PROVE FALSE
    BY <1>8 DEF Behind
<1>9. ASSUME NEW v \in Executors, v # w, Works(v) \/ LoseExecutor(v)
      PROVE  executor'[w] = executor[w]
    BY <1>9, <1>t DEF Works, LoseExecutor, StartFanout, MarkInProgress, Erase,
       HandlerFails, SaveOutcome, FinishFanout, RetryFanout, Acknowledge, FailFanout,
       Go, Leave, ErasureTypeOK
<1>10. CASE UNCHANGED executor
    BY <1>0, <1>10
<1>11. CASE Works(w) \/ LoseExecutor(w)
    BY <1>0, <1>1, <1>2, <1>3, <1>4, <1>5, <1>6, <1>7, <1>8, <1>11 DEF Works, Parts
<1> QED
    BY <1>0, <1>9, <1>10, <1>11 DEF ErasureNext, erasure, RequestErasure, EnqueueFanout,
       LoseCaller, Approach, CheckErasureSla, OrderAges, OpenRetentionSweep, LoseSweep,
       AnonymizeHistory

(* A request becomes completed only by a worker that has a whole run behind *)
(* it.                                                                      *)
LEMMA CompletedStep == ErasureInv /\ [ErasureNext]_erasure => CompletedIsErased'
<1> SUFFICES ASSUME ErasureInv, [ErasureNext]_erasure, NEW r \in Requests,
                    request'[r].status = "completed"
             PROVE  Erased(RequestUser[r])'
    BY DEF CompletedIsErased
<1>t. ErasureTypeOK /\ RequestUser[r] \in Users
    BY DEF ErasureInv
<1>1. CASE request[r].status = "completed"
    BY <1>1, <1>t, ErasedStays DEF ErasureInv, CompletedIsErased
<1>2. ASSUME NEW w \in Executors, SaveOutcome(w), request[r].status # "completed"
      PROVE  Erased(RequestUser[r])'
    <2>1. executor[w] \in Busy /\ executor[w].of \in Requests /\ ~At(w, "free")
        BY <1>2, <1>t, AtIsBusy DEF SaveOutcome, At
    <2>2. executor[w].of = r /\ ~executor[w].failed
        BY <1>2, <1>t, <2>1 DEF SaveOutcome, Outcome, ErasureTypeOK
    <2>3. Behind(executor[w].at) = Parts
        BY <1>2 DEF SaveOutcome, At, Behind
    <2>4. \A part \in Parts : ~account[RequestUser[r]][part]
        BY <2>1, <2>2, <2>3 DEF ErasureInv, RunsAreTrue
    <2> QED BY <1>t, <2>4, ErasedIsParts, ErasedStays
<1>3. ASSUME NEW w \in Executors, MarkInProgress(w)
      PROVE  request[r].status = "completed"
    <2>1. executor[w].of \in Requests
        BY <1>3, <1>t, AtIsBusy DEF MarkInProgress, At
    <2> QED BY <1>3, <1>t, <2>1 DEF MarkInProgress, ErasureTypeOK
<1>4. ASSUME NEW q \in Requests, RequestErasure(q) PROVE request[r].status = "completed"
    BY <1>4, <1>t DEF RequestErasure, ErasureTypeOK
<1>5. CASE UNCHANGED request
    BY <1>1, <1>5
<1> QED
    BY <1>1, <1>2, <1>3, <1>4, <1>5 DEF ErasureNext, Works, erasure, EnqueueFanout,
       LoseCaller, Approach, StartFanout, Erase, HandlerFails, FinishFanout, RetryFanout,
       Acknowledge, FailFanout, LoseExecutor, CheckErasureSla, OrderAges,
       OpenRetentionSweep, LoseSweep, AnonymizeHistory

LEMMA SweepStep == ErasureInv /\ [ErasureNext]_erasure => SweepIsTrue'
<1> SUFFICES ASSUME ErasureInv, [ErasureNext]_erasure, NEW r \in cursor'
             PROVE  Erased(RequestUser[r])'
    BY DEF SweepIsTrue
<1>t. ErasureTypeOK
    BY DEF ErasureInv
<1>1. CASE r \in cursor
    BY <1>1, <1>t, ErasedStays DEF ErasureInv, SweepIsTrue, ErasureTypeOK
<1>2. CASE OpenRetentionSweep
    BY <1>2, <1>t, ErasedStays DEF OpenRetentionSweep, Swept, ErasureInv, CompletedIsErased
<1> QED
    BY <1>1, <1>2 DEF ErasureNext, Works, erasure, subject, RequestErasure,
       EnqueueFanout, LoseCaller, Approach, StartFanout, MarkInProgress, Erase,
       HandlerFails, SaveOutcome, FinishFanout, RetryFanout, Acknowledge, FailFanout,
       LoseExecutor, CheckErasureSla, OrderAges, LoseSweep, AnonymizeHistory

LEMMA AnonymizedStep == ErasureInv /\ [ErasureNext]_erasure => AnonymizedIsErased'
<1> SUFFICES ASSUME ErasureInv, [ErasureNext]_erasure, NEW o \in Orders, o \notin linked'
             PROVE  o \in old' /\ Erased(OrderBuyer[o])'
    BY DEF AnonymizedIsErased
<1>t. ErasureTypeOK /\ OrderBuyer[o] \in Users
    BY DEF ErasureInv
<1>1. old \subseteq old'
    BY DEF ErasureNext, Works, erasure, subject, RequestErasure, EnqueueFanout, LoseCaller,
       Approach, StartFanout, MarkInProgress, Erase, HandlerFails, SaveOutcome,
       FinishFanout, RetryFanout, Acknowledge, FailFanout, LoseExecutor, CheckErasureSla,
       OrderAges, OpenRetentionSweep, LoseSweep, AnonymizeHistory
<1>2. CASE o \notin linked
    BY <1>1, <1>2, <1>t, ErasedStays DEF ErasureInv, AnonymizedIsErased
<1>3. ASSUME NEW r \in Requests, AnonymizeHistory(r), o \in linked
      PROVE  o \in old /\ Erased(OrderBuyer[o])
    BY <1>3 DEF AnonymizeHistory, BoughtBy, ErasureInv, SweepIsTrue
<1>4. CASE UNCHANGED linked
    BY <1>2, <1>4
<1> QED
    BY <1>1, <1>2, <1>3, <1>4, <1>t, ErasedStays DEF ErasureNext, Works, erasure, subject,
       RequestErasure, EnqueueFanout, LoseCaller, Approach, StartFanout, MarkInProgress,
       Erase, HandlerFails, SaveOutcome, FinishFanout, RetryFanout, Acknowledge,
       FailFanout, LoseExecutor, CheckErasureSla, OrderAges, OpenRetentionSweep, LoseSweep

LEMMA ErasureInvStep == ErasureInv /\ [ErasureNext]_erasure => ErasureInv'
BY ErasureTypeStep, RunsStep, CompletedStep, SweepStep, AnonymizedStep DEF ErasureInv

LEMMA ErasureInvHolds == ErasureSpec => []ErasureInv
BY ErasureInvInit, ErasureInvStep, PTL DEF ErasureSpec

(* A request is called completed only when nothing of the user is left,     *)
(* whatever failed, ran twice or ran beside it (execute_erasure).           *)
THEOREM CompletedMeansErased == ErasureSpec => []CompletedIsErased
<1>1. ErasureInv => CompletedIsErased
    BY DEF ErasureInv
<1> QED BY <1>1, ErasureInvHolds, PTL

(* The retention sweep takes the buyer only from old orders of users whose  *)
(* data has been erased (nightly_retention_sweep, anonymize_order_history). *)
THEOREM AnonymizedMeansErased == ErasureSpec => []AnonymizedIsErased
<1>1. ErasureInv => AnonymizedIsErased
    BY DEF ErasureInv
<1> QED BY <1>1, ErasureInvHolds, PTL

-----------------------------------------------------------------------------
(* Requests in hand.  The invariant needs only the types beside itself.     *)
InHand(r) ==
    \/ r \in asking \/ r \in dropped
    \/ \E n \in 0 .. MaxRetries : queue[r][n] > 0
    \/ \E w \in Executors : Holds(w, r)

LEMMA InHandInit == ErasureInit => OpenIsInHand
BY DEF ErasureInit, OpenIsInHand, Open, Stored, Unstored

LEMMA InHandStep == ErasureTypeOK /\ OpenIsInHand /\ [ErasureNext]_erasure => OpenIsInHand'
<1> SUFFICES ASSUME ErasureTypeOK, OpenIsInHand, [ErasureNext]_erasure,
                    NEW r \in Requests, Open(r)'
             PROVE  InHand(r)'
    BY DEF OpenIsInHand, InHand
<1>0. Open(r) => InHand(r)
    BY DEF OpenIsInHand, InHand
<1>1. ASSUME NEW q \in Requests, RequestErasure(q) PROVE InHand(r)'
    <2>1. CASE q = r
        BY <1>1, <2>1 DEF RequestErasure, InHand
    <2>2. CASE q # r
        <3>1. InHand(r)
            BY <1>0, <1>1, <2>2 DEF RequestErasure, Open, Stored, ErasureTypeOK
        <3> QED BY <1>1, <3>1 DEF RequestErasure, InHand, Holds, At
    <2> QED BY <2>1, <2>2
<1>2. ASSUME NEW q \in Requests, EnqueueFanout(q) PROVE InHand(r)'
    <2>1. InHand(r)
        BY <1>0, <1>2 DEF EnqueueFanout, Open, Stored
    <2>2. \A x \in Requests, n \in 0 .. MaxRetries : queue'[x][n] >= queue[x][n]
        BY <1>2 DEF EnqueueFanout, Enqueued, ErasureTypeOK
    <2>3. queue'[q][0] > 0
        BY <1>2 DEF EnqueueFanout, Enqueued, ErasureTypeOK
    <2>4. queue \in [Requests -> [0 .. MaxRetries -> Nat]]
          /\ queue' \in [Requests -> [0 .. MaxRetries -> Nat]]
        BY ErasureTypeStep DEF ErasureTypeOK
    <2>5. CASE r = q
        BY <2>3, <2>5 DEF InHand
    <2>6. CASE r # q
        BY <1>2, <2>1, <2>2, <2>4, <2>6 DEF EnqueueFanout, InHand, Holds, At
    <2> QED BY <2>5, <2>6
<1>3. ASSUME NEW q \in Requests, LoseCaller(q) PROVE InHand(r)'
    <2>1. InHand(r)
        BY <1>0, <1>3 DEF LoseCaller, Open, Stored
    <2> QED BY <1>3, <2>1 DEF LoseCaller, InHand, Holds, At
<1>4. ASSUME NEW w \in Executors, NEW q \in Requests, NEW n \in 0 .. MaxRetries,
             StartFanout(w, q, n)
      PROVE  InHand(r)'
    <2>1. Open(r) /\ InHand(r)
        BY <1>0, <1>4 DEF StartFanout, Open, Stored
    <2>2. CASE q = r
        <3>1. executor'[w] = [at |-> "start", of |-> r, tries |-> n,
                              stamped |-> request[r].stamped, failed |-> FALSE]
            BY <1>4, <2>1, <2>2 DEF StartFanout, Open, Done, ErasureTypeOK
        <3> QED BY <3>1 DEF InHand, Holds, At
    <2>3. CASE q # r
        <3>1. queue'[r] = queue[r]
            BY <1>4, <2>3 DEF StartFanout, ErasureTypeOK
        <3>2. \A v \in Executors : Holds(v, r) => Holds(v, r)'
            BY <1>4 DEF StartFanout, Holds, At, ErasureTypeOK
        <3> QED BY <1>4, <2>1, <3>1, <3>2 DEF StartFanout, InHand
    <2> QED BY <2>2, <2>3
(* A worker that goes on with its own run keeps hold of its request, and    *)
(* the others keep theirs.                                                  *)
<1>5. ASSUME NEW w \in Executors, ~At(w, "free"), ~(At(w, "free")'),
             executor'[w].of = executor[w].of, Holds(w, r) => Holds(w, r)',
             \A v \in Executors \ {w} : executor'[v] = executor[v],
             UNCHANGED <<asking, dropped, queue>>, InHand(r)
      PROVE  InHand(r)'
    <2>1. \A v \in Executors : Holds(v, r) => Holds(v, r)'
        BY <1>5 DEF Holds, At
    <2> QED BY <1>5, <2>1 DEF InHand
<1>6. ASSUME NEW w \in Executors, MarkInProgress(w) PROVE InHand(r)'
    <2>1. executor[w] \in Busy /\ executor[w].of \in Requests
        BY <1>6, AtIsBusy DEF MarkInProgress, At
    <2>2. /\ executor'[w] = [executor[w] EXCEPT !.at = "consents"]
          /\ \A v \in Executors \ {w} : executor'[v] = executor[v]
        BY <1>6 DEF MarkInProgress, Go, ErasureTypeOK
    <2>3. CASE executor[w].of = r
        BY <2>1, <2>2, <2>3 DEF InHand, Holds, At, Busy
    <2>4. CASE executor[w].of # r
        <3>1. InHand(r)
            BY <1>0, <1>6, <2>1, <2>4 DEF MarkInProgress, Open, Stored, ErasureTypeOK
        <3>2. \A v \in Executors : Holds(v, r) => Holds(v, r)'
            BY <2>2, <2>4 DEF Holds, At
        <3> QED BY <1>6, <3>1, <3>2 DEF MarkInProgress, InHand
    <2> QED BY <2>3, <2>4
<1>7. ASSUME NEW w \in Executors, NEW p \in Parts, Erase(w, p) PROVE InHand(r)'
    <2>1. executor[w] \in Busy
        BY <1>7, AtIsBusy DEF Erase, At, Parts
    <2>2. /\ executor'[w] = [executor[w] EXCEPT !.at = After(p)]
          /\ \A v \in Executors \ {w} : executor'[v] = executor[v]
        BY <1>7 DEF Erase, Go, ErasureTypeOK
    <2>3. InHand(r)
        BY <1>0, <1>7 DEF Erase, Open, Stored
    <2>4. After(p) \in {"profile", "contact", "save"}
        BY DEF After, Parts
    <2>5. ~At(w, "free") /\ ~(At(w, "free")') /\ executor'[w].of = executor[w].of
        BY <1>7, <2>1, <2>2, <2>4 DEF Erase, At, Parts, Busy
    <2>6. Holds(w, r) => Holds(w, r)'
        BY <2>1, <2>2, <2>4, <2>5 DEF Holds, At, Busy
    <2> QED BY <1>5, <1>7, <2>2, <2>3, <2>5, <2>6 DEF Erase
<1>8. ASSUME NEW w \in Executors, HandlerFails(w) PROVE InHand(r)'
    <2>1. executor[w] \in Busy
        BY <1>8, AtIsBusy DEF HandlerFails, At
    <2>2. /\ executor'[w] = [executor[w] EXCEPT !.at = "save", !.failed = TRUE]
          /\ \A v \in Executors \ {w} : executor'[v] = executor[v]
        BY <1>8 DEF HandlerFails, ErasureTypeOK
    <2>3. InHand(r)
        BY <1>0, <1>8 DEF HandlerFails, Open, Stored
    <2>4. executor'[w].at = "save" /\ executor'[w].of = executor[w].of
        BY <2>1, <2>2 DEF Busy
    <2>5. ~At(w, "free") /\ ~(At(w, "free")') /\ executor'[w].of = executor[w].of
        BY <1>8, <2>4 DEF HandlerFails, At
    <2>6. Holds(w, r) => Holds(w, r)'
        BY <2>4, <2>5 DEF Holds, At
    <2> QED BY <1>5, <1>8, <2>2, <2>3, <2>5, <2>6 DEF HandlerFails
<1>9. ASSUME NEW w \in Executors, SaveOutcome(w) PROVE InHand(r)'
    <2>1. executor[w] \in Busy /\ executor[w].of \in Requests
        BY <1>9, AtIsBusy DEF SaveOutcome, At
    <2>2. /\ executor'[w] = [executor[w] EXCEPT !.at = "finish"]
          /\ \A v \in Executors \ {w} : executor'[v] = executor[v]
        BY <1>9 DEF SaveOutcome, Go, ErasureTypeOK
    <2>3. CASE executor[w].of = r
        <3>1. executor[w].failed
            BY <1>9, <2>1, <2>3 DEF SaveOutcome, Outcome, Open, ErasureTypeOK
        <3> QED BY <2>1, <2>2, <2>3, <3>1 DEF InHand, Holds, At, Busy
    <2>4. CASE executor[w].of # r
        <3>1. InHand(r)
            BY <1>0, <1>9, <2>1, <2>4 DEF SaveOutcome, Open, Stored, ErasureTypeOK
        <3>2. \A v \in Executors : Holds(v, r) => Holds(v, r)'
            BY <2>2, <2>4 DEF Holds, At
        <3> QED BY <1>9, <3>1, <3>2 DEF SaveOutcome, InHand
    <2> QED BY <2>3, <2>4
(* A worker that lets go of a request has put it somewhere, or did not hold *)
(* it any more.                                                             *)
<1>10. ASSUME NEW w \in Executors, FinishFanout(w) \/ Acknowledge(w) PROVE InHand(r)'
    <2>1. InHand(r)
        BY <1>0, <1>10 DEF FinishFanout, Acknowledge, Open, Stored
    <2>2. ~Holds(w, r)
        BY <1>10 DEF FinishFanout, Acknowledge, Holds, At
    <2>3. \A v \in Executors \ {w} : executor'[v] = executor[v]
        BY <1>10 DEF FinishFanout, Acknowledge, Leave, ErasureTypeOK
    <2>4. \A v \in Executors : Holds(v, r) => Holds(v, r)'
        BY <2>2, <2>3 DEF Holds, At
    <2> QED BY <1>10, <2>1, <2>4 DEF FinishFanout, Acknowledge, InHand
<1>11. ASSUME NEW w \in Executors, RetryFanout(w) \/ LoseExecutor(w) PROVE InHand(r)'
    <2>1. InHand(r)
        BY <1>0, <1>11 DEF RetryFanout, LoseExecutor, Open, Stored
    <2>2. executor[w] \in Busy
        BY <1>11, AtIsBusy DEF RetryFanout, LoseExecutor, At
    <2>3. PICK n \in 0 .. MaxRetries : queue' = Enqueued(executor[w].of, n)
        BY <1>11, <2>2 DEF RetryFanout, LoseExecutor, MayRetry, Busy
    <2>4. \A v \in Executors \ {w} : executor'[v] = executor[v]
        BY <1>11 DEF RetryFanout, LoseExecutor, Go, Leave, ErasureTypeOK
    <2>5. UNCHANGED <<asking, dropped>>
        BY <1>11 DEF RetryFanout, LoseExecutor
    <2>6. executor[w].of \in Requests
        BY <2>2 DEF Busy
    <2>7. CASE executor[w].of = r
        <3>1. queue'[r][n] = queue[r][n] + 1
            BY <2>3, <2>7 DEF Enqueued, ErasureTypeOK
        <3>2. queue[r][n] \in Nat
            BY DEF ErasureTypeOK
        <3>3. queue'[r][n] > 0
            BY <3>1, <3>2
        <3> QED BY <3>3 DEF InHand
    <2>8. CASE executor[w].of # r
        <3>1. queue'[r] = queue[r]
            BY <2>3, <2>8 DEF Enqueued, ErasureTypeOK
        <3>2. \A v \in Executors : Holds(v, r) => Holds(v, r)'
            BY <2>4, <2>8 DEF Holds, At
        <3> QED BY <2>1, <2>5, <3>1, <3>2 DEF InHand
    <2> QED BY <2>7, <2>8
<1>12. ASSUME NEW w \in Executors, FailFanout(w) PROVE InHand(r)'
    <2>1. InHand(r)
        BY <1>0, <1>12 DEF FailFanout, Open, Stored
    <2>2. \A v \in Executors \ {w} : executor'[v] = executor[v]
        BY <1>12 DEF FailFanout, Leave, ErasureTypeOK
    <2>3. \A v \in Executors : Holds(v, r) => Holds(v, r)' \/ executor[v].of \in dropped'
        BY <1>12, <2>2 DEF FailFanout, Holds, At
    <2>4. \A v \in Executors : Holds(v, r) => executor[v].of = r
        BY DEF Holds
    <2> QED BY <1>12, <2>1, <2>3, <2>4 DEF FailFanout, InHand
<1>13. CASE UNCHANGED <<request, asking, queue, executor, dropped>>
    <2>1. InHand(r)
        BY <1>0, <1>13 DEF Open, Stored
    <2> QED BY <1>13, <2>1 DEF InHand, Holds, At
<1>14. ASSUME NEW w \in Executors, Works(w) \/ LoseExecutor(w) PROVE InHand(r)'
    BY <1>4, <1>6, <1>7, <1>8, <1>9, <1>10, <1>11, <1>12, <1>14 DEF Works, Parts
<1>15. CASE \/ \E q \in Requests : Approach(q) \/ AnonymizeHistory(q)
            \/ \E o \in Orders : OrderAges(o)
            \/ CheckErasureSla \/ OpenRetentionSweep \/ LoseSweep
            \/ UNCHANGED erasure
    BY <1>13, <1>15 DEF erasure, Approach, CheckErasureSla, OrderAges,
       OpenRetentionSweep, LoseSweep, AnonymizeHistory
<1> QED
    BY <1>1, <1>2, <1>3, <1>14, <1>15 DEF ErasureNext

(* No open request is forgotten but by an error nothing retries: the retry  *)
(* is in the queue before the task that asked for it is acknowledged, and   *)
(* an outcome saved from an old copy reopens only what it holds itself.     *)
THEOREM OpenStaysInHand == ErasureSpec => []OpenIsInHand
<1>1. ErasureInit => ErasureTypeOK /\ OpenIsInHand
    BY ErasureTypeInit, InHandInit
<1>2. ErasureTypeOK /\ OpenIsInHand /\ [ErasureNext]_erasure
        => (ErasureTypeOK /\ OpenIsInHand)'
    BY ErasureTypeStep, InHandStep
<1> QED BY <1>1, <1>2, PTL DEF ErasureSpec
=============================================================================
