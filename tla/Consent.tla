------------------------------- MODULE Consent -------------------------------
(***************************************************************************)
(* Cookie consent in the browser, and the data-subject requests of the      *)
(* account pages.  Each tab keeps its own store; all tabs write one payload *)
(* of the local storage, which a tab reads only while it loads.  Toggles    *)
(* act at once, the banner and the consent page stamp a decision, and every *)
(* stamped decision is sent as an audit record.  Optional code runs behind  *)
(* the store: the analytics script and the web vitals.                      *)
(*                                                                          *)
(* The compliance API is not part of the repository: it records a request,  *)
(* refuses it or does not exist yet, and its answers may be lost.           *)
(***************************************************************************)
EXTENDS Integers, FiniteSets

CONSTANTS
    Tabs,           \* browser tabs of one visitor
    Categories,     \* the optional categories
    Versions,       \* policy versions, deployed in order
    MaxBatch,       \* MAX_BATCH of the vitals
    MaxStamp,       \* bound: decisions taken
    MaxActs         \* bound: toggles, resets, navigation, forms

Analytics == "analytics"

ASSUME ConsentAssumption ==
    /\ Analytics \in Categories
    /\ Versions \subseteq Nat \ {0}
    /\ 1 \in Versions
    /\ MaxBatch \in Nat \ {0}
    /\ MaxStamp \in Nat
    /\ MaxActs \in Nat

VARIABLES
    deployed,   \* CONSENT_VERSION of the bundle now served
    storage,    \* the payload under jol_consent_v1
    store,      \* per tab: choices, timestamp, decided
    page,       \* per tab: whether open, bundle version, view, script loaded
    vitals,     \* per tab: whether listening, and the samples queued
    manager,    \* per tab: whether a save runs, and the state of the history
    form,       \* per tab: the erasure or export form, and the word typed
    net,        \* requests on their way
    records,    \* the audit records the server took
    received,   \* the data-subject requests it took
    granted,    \* versions under which the visitor turned analytics on
    settled,    \* versions under which the visitor took a decision
    clock,      \* the last stamp
    acts        \* for the bound MaxActs

vars == <<deployed, storage, store, page, vitals, manager, form, net, records,
          received, granted, settled, clock, acts>>

server == <<records, received>>
words == <<granted, settled>>

-----------------------------------------------------------------------------
(* Views with their requests.                                               *)
Views == {"shop", "consent", "export", "erasure"}
Forms == {"export", "erasure"}
Kinds == {"push", "save", "history"} \cup Forms
FormStates == {"idle", "requesting", "submitted", "pending", "error"}

Stamps == 0 .. MaxStamp
Never == 0
NoPayload == [choices |-> {}, timestamp |-> Never, version |-> 1]

Undecided == [choices |-> {}, timestamp |-> Never, decided |-> FALSE]
ClosedPage == [open |-> FALSE, version |-> 1, view |-> "shop", script |-> FALSE]
Silent == [listening |-> FALSE, queue |-> 0]
NoManager == [saving |-> FALSE, history |-> "none"]
EmptyForm == [state |-> "idle", typed |-> FALSE]

(* What persist writes beside every change of the store.                    *)
Payload(s, t) ==
    [choices |-> s.choices, timestamp |-> s.timestamp, version |-> page[t].version]

(* The merge on load: an older policy, or toggles never decided on, count   *)
(* as no decision.                                                          *)
MergeAnyVersion(p, v) ==
    IF p.timestamp = Never THEN Undecided
    ELSE [choices |-> p.choices, timestamp |-> p.timestamp, decided |-> TRUE]
MergeUnstamped(p, v) ==
    IF p.version # v THEN Undecided
    ELSE [choices |-> p.choices, timestamp |-> p.timestamp, decided |-> TRUE]
Merge(p, v) ==
    IF p.version # v \/ p.timestamp = Never THEN Undecided
    ELSE [choices |-> p.choices, timestamp |-> p.timestamp, decided |-> TRUE]

(* ConsentGate.                                                             *)
Gate(s) == s.decided /\ Analytics \in s.choices

(* The script stays until the page goes; the vitals stop with the consent,  *)
(* and what was queued under it is sent.                                    *)
VitalsUnder(t, s) == IF Gate(s) THEN vitals[t] ELSE Silent

(* A change of one tab's store, and all that follows from it at once.       *)
SetStore(t, s) ==
    /\ store' = [store EXCEPT ![t] = s]
    /\ storage' = Payload(s, t)
    /\ page' = [page EXCEPT ![t].script = @ \/ Gate(s)]
    /\ vitals' = [vitals EXCEPT ![t] = VitalsUnder(t, s)]
    /\ granted' = granted \cup (IF Analytics \in s.choices \ store[t].choices
                                THEN {page[t].version} ELSE {})

(* Owner of an answer: the view that asked, the page once the view is left, *)
(* nobody once the page is gone.                                            *)
Request(t, kind, s) ==
    [tab |-> t, kind |-> kind, owner |-> "view", choices |-> s.choices,
     timestamp |-> s.timestamp, version |-> page[t].version]

Owns(r, t, kind) == r.tab = t /\ r.kind = kind /\ r.owner = "view"
Disown(t, owner) ==
    {IF r.tab = t /\ r.owner # "nobody" /\ (owner = "nobody" \/ r.kind # "push")
     THEN [r EXCEPT !.owner = owner] ELSE r : r \in net}

Act == acts < MaxActs /\ acts' = acts + 1
BannerShown(t) == page[t].open /\ ~store[t].decided

-----------------------------------------------------------------------------
(* Page loads.                                                              *)

(* A tab is opened or reloaded: the bundle now served reads the payload.    *)
Load(t) ==
    /\ Act
    /\ LET s == Merge(storage, deployed)
       IN /\ store' = [store EXCEPT ![t] = s]
          /\ page' = [page EXCEPT ![t] = [open |-> TRUE, version |-> deployed,
                                          view |-> "shop", script |-> Gate(s)]]
    /\ vitals' = [vitals EXCEPT ![t] = Silent]
    /\ manager' = [manager EXCEPT ![t] = NoManager]
    /\ form' = [form EXCEPT ![t] = EmptyForm]
    /\ net' = Disown(t, "nobody")
    /\ UNCHANGED <<deployed, storage, server, words, clock>>

(* The next policy is deployed; open pages keep their bundle.               *)
Deploy ==
    /\ deployed + 1 \in Versions
    /\ deployed' = deployed + 1
    /\ UNCHANGED <<storage, store, page, vitals, manager, form, net, server,
                   words, clock, acts>>

(* Another page of the account: its island mounts, the former one goes.     *)
Navigate(t, v) ==
    /\ Act
    /\ page[t].open
    /\ v # page[t].view
    /\ page' = [page EXCEPT ![t].view = v]
    /\ manager' = [manager EXCEPT ![t] =
           [saving |-> FALSE, history |-> IF v = "consent" THEN "loading" ELSE "none"]]
    /\ form' = [form EXCEPT ![t] = EmptyForm]
    /\ net' = Disown(t, "page") \cup
           (IF v = "consent" THEN {Request(t, "history", Undecided)} ELSE {})
    /\ UNCHANGED <<deployed, storage, store, vitals, server, words, clock>>

-----------------------------------------------------------------------------
(* Decisions.                                                               *)

(* A checkbox of the banner, or of the consent page: it acts at once.       *)
SetCategory(t, c) ==
    /\ Act
    /\ BannerShown(t) \/ (page[t].open /\ page[t].view = "consent")
    /\ SetStore(t, [store[t] EXCEPT !.choices =
           IF c \in @ THEN @ \ {c} ELSE @ \cup {c}])
    /\ UNCHANGED <<deployed, manager, form, net, server, settled, clock>>

(* handleAcceptAll, handleRejectAll and handleSave of the banner.           *)
Decide(t, choices) ==
    /\ clock < MaxStamp
    /\ BannerShown(t)
    /\ clock' = clock + 1
    /\ LET s == [choices |-> choices, timestamp |-> clock', decided |-> TRUE]
       IN /\ SetStore(t, s)
          /\ net' = net \cup {Request(t, "push", s)}
    /\ settled' = settled \cup {page[t].version}
    /\ UNCHANGED <<deployed, manager, form, server, acts>>

BannerDecision(t) ==
    \E choices \in {Categories, {}, store[t].choices} : Decide(t, choices)

(* handleSave of the consent page: the choices of now are sent, and are     *)
(* decided on when the answer comes.                                        *)
Save(t) ==
    /\ clock < MaxStamp
    /\ page[t].open /\ page[t].view = "consent"
    /\ ~manager[t].saving
    /\ clock' = clock + 1
    /\ manager' = [manager EXCEPT ![t].saving = TRUE]
    /\ net' = net \cup {Request(t, "save", [store[t] EXCEPT !.timestamp = clock'])}
    /\ settled' = settled \cup {page[t].version}
    /\ UNCHANGED <<deployed, storage, store, page, vitals, form, server, granted, acts>>

(* handleReset.                                                             *)
Reset(t) ==
    /\ Act
    /\ page[t].open /\ page[t].view = "consent"
    /\ SetStore(t, Undecided)
    /\ UNCHANGED <<deployed, manager, form, net, server, settled, clock>>

-----------------------------------------------------------------------------
(* Web vitals.                                                              *)

(* The library has loaded, and the consent still stands.                    *)
Listen(t) ==
    /\ page[t].open /\ Gate(store[t])
    /\ ~vitals[t].listening
    /\ vitals' = [vitals EXCEPT ![t].listening = TRUE]
    /\ UNCHANGED <<deployed, storage, store, page, manager, form, net, server,
                   words, clock, acts>>

(* enqueue, and flush when the batch is full.                               *)
Enqueue(t) ==
    [vitals EXCEPT ![t].queue = IF @ + 1 >= MaxBatch THEN 0 ELSE @ + 1]

Sample(t) ==
    /\ vitals[t].listening
    /\ vitals[t].queue <= MaxBatch
    /\ vitals' = Enqueue(t)
    /\ UNCHANGED <<deployed, storage, store, page, manager, form, net, server,
                   words, clock, acts>>

(* The tab is hidden or closed.                                             *)
Flush(t) ==
    /\ vitals[t].queue > 0
    /\ vitals' = [vitals EXCEPT ![t].queue = 0]
    /\ UNCHANGED <<deployed, storage, store, page, manager, form, net, server,
                   words, clock, acts>>

-----------------------------------------------------------------------------
(* Data-subject requests.                                                   *)

Type(t) ==
    /\ Act
    /\ page[t].open /\ page[t].view = "erasure"
    /\ form[t].state # "submitted"
    /\ form' = [form EXCEPT ![t].typed = ~@]
    /\ UNCHANGED <<deployed, storage, store, page, vitals, manager, net, server,
                   words, clock>>

(* The buttons.  An erasure needs the word, an export stops at a success.   *)
MayRequest(t) ==
    /\ form[t].state \notin {"requesting", "submitted"}
    /\ page[t].view = "erasure" => form[t].typed

(* handleRequest.                                                           *)
Ask(t) ==
    /\ Act
    /\ page[t].open /\ page[t].view \in Forms
    /\ MayRequest(t)
    /\ form' = [form EXCEPT ![t].state = "requesting"]
    /\ net' = net \cup {Request(t, page[t].view, [Undecided EXCEPT !.timestamp = acts])}
    /\ UNCHANGED <<deployed, storage, store, page, vitals, manager, server, words, clock>>

-----------------------------------------------------------------------------
(* Answers.                                                                 *)

(* "ok" is recorded, "pending" an endpoint that is not there yet, "error"   *)
(* a refusal, "lost" an answer that does not come: recorded or not.         *)
Outcomes == {"ok", "pending", "error", "lost"}

Takes(r, recorded) ==
    /\ records' = records \cup
           (IF recorded /\ r.kind \in {"push", "save"}
            THEN {[choices |-> r.choices, timestamp |-> r.timestamp,
                   version |-> r.version]} ELSE {})
    /\ received' = received \cup (IF recorded /\ r.kind \in Forms THEN {r.kind} ELSE {})

(* After recordConsent in handleSave: a pending endpoint leaves the local   *)
(* decision effective.  The store is there even when its page was left.     *)
Effective(outcome) == outcome \in {"ok", "pending"}

SaveAnswer(r, outcome) ==
    IF Effective(outcome)
    THEN SetStore(r.tab, [store[r.tab] EXCEPT !.decided = TRUE,
                                              !.timestamp = r.timestamp])
    ELSE UNCHANGED <<storage, store, page, vitals, granted>>

StateAfter(outcome) ==
    CASE outcome = "ok" -> "submitted"
      [] outcome = "pending" -> "pending"
      [] OTHER -> "error"

HistoryAfter(outcome) ==
    CASE outcome = "ok" -> "shown"
      [] outcome = "pending" -> "pending"
      [] OTHER -> "loading"

(* finally { setSaving(false) }.                                            *)
SavingAfter(t, outcome) ==
    [manager EXCEPT ![t].saving = FALSE]

ViewAnswer(r, outcome) ==
    /\ manager' =
           CASE Owns(r, r.tab, "save") -> SavingAfter(r.tab, outcome)
             [] Owns(r, r.tab, "history") ->
                    [manager EXCEPT ![r.tab].history = HistoryAfter(outcome)]
             [] OTHER -> manager
    /\ form' = IF r.kind \in Forms /\ r.owner = "view"
               THEN [form EXCEPT ![r.tab].state = StateAfter(outcome)] ELSE form

Answer(r, outcome) ==
    /\ net' = net \ {r}
    /\ \/ outcome = "ok" /\ Takes(r, TRUE)
       \/ outcome \in {"pending", "error"} /\ Takes(r, FALSE)
       \/ outcome = "lost" /\ \E recorded \in BOOLEAN : Takes(r, recorded)
    /\ IF r.kind = "save" /\ r.owner # "nobody"
       THEN SaveAnswer(r, outcome)
       ELSE UNCHANGED <<storage, store, page, vitals, granted>>
    /\ ViewAnswer(r, outcome)
    /\ UNCHANGED <<deployed, settled, clock, acts>>

-----------------------------------------------------------------------------
Init ==
    /\ deployed = 1
    /\ storage = NoPayload
    /\ store = [t \in Tabs |-> Undecided]
    /\ page = [t \in Tabs |-> ClosedPage]
    /\ vitals = [t \in Tabs |-> Silent]
    /\ manager = [t \in Tabs |-> NoManager]
    /\ form = [t \in Tabs |-> EmptyForm]
    /\ net = {}
    /\ records = {}
    /\ received = {}
    /\ granted = {}
    /\ settled = {}
    /\ clock = 0
    /\ acts = 0

AnswerSome == \E r \in net, outcome \in Outcomes : Answer(r, outcome)

Next ==
    \/ Deploy
    \/ AnswerSome
    \/ \E t \in Tabs :
        \/ Load(t)
        \/ \E v \in Views : Navigate(t, v)
        \/ \E c \in Categories : SetCategory(t, c)
        \/ BannerDecision(t)
        \/ Save(t)
        \/ Reset(t)
        \/ Listen(t)
        \/ Sample(t)
        \/ Flush(t)
        \/ Type(t)
        \/ Ask(t)

Spec == Init /\ [][Next]_vars

-----------------------------------------------------------------------------
StoreType == [choices : SUBSET Categories, timestamp : Stamps, decided : BOOLEAN]
PayloadType == [choices : SUBSET Categories, timestamp : Stamps, version : Versions]

(* Every variable has its type; the batch of vitals stays under MAX_BATCH.  *)
TypeOK ==
    /\ deployed \in Versions
    /\ storage \in PayloadType
    /\ store \in [Tabs -> StoreType]
    /\ page \in [Tabs -> [open : BOOLEAN, version : Versions, view : Views,
                          script : BOOLEAN]]
    /\ vitals \in [Tabs -> [listening : BOOLEAN, queue : 0 .. MaxBatch - 1]]
    /\ manager \in [Tabs -> [saving : BOOLEAN,
                             history : {"none", "loading", "shown", "pending"}]]
    /\ form \in [Tabs -> [state : FormStates, typed : BOOLEAN]]
    /\ \A r \in net : /\ r.tab \in Tabs /\ r.kind \in Kinds
                      /\ r.owner \in {"view", "page", "nobody"}
                      /\ r.version \in Versions
    /\ records \subseteq PayloadType
    /\ received \subseteq Forms
    /\ granted \subseteq Versions
    /\ settled \subseteq Versions
    /\ clock \in Stamps
    /\ acts \in 0 .. MaxActs

(* The analytics script, and every sample of the vitals, runs in a page     *)
(* whose policy version the visitor has granted analytics under: stale      *)
(* consent is not consent, whichever tab wrote the payload.                 *)
TrackingIsConsented ==
    \A t \in Tabs :
        page[t].script \/ vitals[t].listening => page[t].version \in granted

(* A store that counts as decided, and so hides the banner, comes from a    *)
(* decision the visitor took under that policy version; toggles alone, left *)
(* in the payload by a visitor who went away, never become one.             *)
DecidedByVisitor ==
    \A t \in Tabs : store[t].decided =>
        /\ page[t].version \in settled
        /\ store[t].timestamp # Never

(* No sample is kept or taken once analytics is withdrawn in the tab: the   *)
(* queue of the vitals never outlives the consent it was filled under.      *)
NoSampleOutlivesConsent ==
    \A t \in Tabs :
        vitals[t].listening \/ vitals[t].queue > 0 => Gate(store[t])

(* A form that asks has exactly its one request on the way: no second       *)
(* erasure or export leaves a page while the first is unanswered.           *)
OneRequestPerForm ==
    \A t \in Tabs :
        Cardinality({r \in net : r.tab = t /\ r.kind \in Forms /\ r.owner = "view"})
          = IF form[t].state = "requesting" THEN 1 ELSE 0

(* A page that says the request was submitted is right: the server has it.  *)
SubmittedWasReceived ==
    \A t \in Tabs : form[t].state = "submitted" => page[t].view \in received

=============================================================================
