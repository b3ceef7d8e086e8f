----------------------------- MODULE Moderation ------------------------------
(***************************************************************************)
(* The admin's pages: the seller queue, one seller's file, the listing      *)
(* queue, the compliance queue, and the cards with the counts.  The first   *)
(* four load rows, open a dialog on some of them and run a decision over    *)
(* them, one request after the other, each followed by an audit event.  The *)
(* rows load without cancellation, and the dialog may be left while its     *)
(* decision runs.  The cards reload on a timer.                             *)
(*                                                                          *)
(* The server behind /admin/ is not part of the repository: it takes a      *)
(* decision or refuses it, and its answers may be lost.                     *)
(***************************************************************************)
EXTENDS Integers, FiniteSets

CONSTANTS
    Targets,    \* sellers, listings or requests
    MaxActs     \* bound: what the admins do

ASSUME ModerationAssumption == Targets # {} /\ MaxActs \in Nat

VARIABLES
    page,       \* which of the five is open
    filter,     \* the status filter of the seller queue
    view,       \* the rows shown, and the state of their loading
    selected,   \* the selection the bulk toolbar knows of
    dialog,     \* the ConfirmDialog, or none
    editing,    \* the target of the corrections overlay, or None
    runs,       \* decisions being run
    busy,       \* disables the buttons that confirm
    toast,      \* the last word to the admin
    net,        \* open loads
    status,     \* the server's status of each target
    decided,    \* the decisions the server took from this page
    audited,    \* the audit events it took
    claimed,    \* the decisions the page called recorded
    sent,       \* the decisions sent, and whether a reason or word was given
    acts        \* for the bound MaxActs

vars == <<page, filter, view, selected, dialog, editing, runs, busy, toast, net,
          status, decided, audited, claimed, sent, acts>>

server == <<status, decided, audited>>
words == <<toast, claimed, sent>>

-----------------------------------------------------------------------------
None == "none"
Pages == {"sellers", "seller", "listings", "compliance", "stats"}
Filters == {"all", "pending"}
States == {"loading", "gap", "error", "ready"}

(* The buttons of a row, and of the bulk toolbar.                           *)
DecisionsOf(p) ==
    CASE p = "sellers" -> {"approve", "reject", "more_info"}
      [] p = "seller" -> {"approve", "hold", "reject"}
      [] p = "listings" -> {"approve", "reject", "escalate"}
      [] p = "compliance" -> {"fulfill", "erase"}
      [] OTHER -> {}
BulkDecisions == {"approve", "reject"}
Decisions == UNION {DecisionsOf(p) : p \in Pages}

NoDialog == [decision |-> None, ids |-> {}, given |-> FALSE]

(* ConfirmDialog: reasonRequired, and the word to type for an erasure.      *)
NeedsReason(decision) == decision = "reject"
NeedsWord(decision) == decision = "erase"
Destructive(decision) == NeedsReason(decision) \/ NeedsWord(decision)

BlockedByWord(d) == NeedsWord(d.decision) /\ ~d.given
Blocked(d) == Destructive(d.decision) /\ ~d.given

(* The two dialogs of the compliance queue are two components; any other    *)
(* page has one, which keeps what was typed as long as it stays open.       *)
SameDialog(one, other) == NeedsWord(one) = NeedsWord(other)

(* What a page lists.  The status of the filter is put beside "params",     *)
(* where openapi-fetch does not look for a query: the server is not told.   *)
Rows(p) ==
    CASE p = "seller" -> {CHOOSE t \in Targets : TRUE}
      [] p = "stats" -> {}
      [] OTHER -> Targets

Act == acts < MaxActs /\ acts' = acts + 1

Load(f, mine) ==
    net' = net \cup {[n |-> acts, filter |-> f, mine |-> mine]}

-----------------------------------------------------------------------------
(* The table.                                                               *)

(* setFilter, and the effect that loads for it.  Only the table that is     *)
(* shown tells the page of its selection.                                   *)
ChooseFilter ==
    /\ page = "sellers"
    /\ Act
    /\ \E f \in Filters \ {filter} : filter' = f /\ Load(f, FALSE)
    /\ view' = [view EXCEPT !.state = "loading"]
    /\ UNCHANGED <<page, selected, dialog, editing, runs, busy, server, words>>

(* Checkboxes of the DataTable.                                             *)
Select ==
    /\ page = "sellers"
    /\ view.state = "ready"
    /\ Act
    /\ \E t \in view.rows :
          selected' = IF t \in selected THEN selected \ {t} ELSE selected \cup {t}
    /\ UNCHANGED <<page, filter, view, dialog, editing, runs, busy, net, server,
                   words>>

(* The timer of the cards.                                                  *)
Refresh ==
    /\ page = "stats"
    /\ Act
    /\ Load(filter, FALSE)
    /\ UNCHANGED <<page, filter, view, selected, dialog, editing, runs, busy,
                   server, words>>

(* What a failed load shows: the cards keep the last good values.           *)
Failed(s) ==
    IF page = "stats" /\ view.state = "ready" /\ s = "error" THEN "ready" ELSE s

(* The end of load().  No answer is ignored; the one of a run ends it.      *)
Applies(c) == TRUE

LoadAnswer(c) ==
    /\ c \in net
    /\ net' = net \ {c}
    /\ IF ~Applies(c) THEN UNCHANGED <<view, selected>>
       ELSE \/ /\ view' = [state |-> "ready", rows |-> Rows(page)]
               /\ selected' = IF view.state = "ready" THEN selected ELSE {}
            \/ /\ \E s \in {"gap", "error"} :
                     view' = [view EXCEPT !.state = Failed(s)]
               /\ UNCHANGED selected
    /\ busy' = (busy /\ ~c.mine)
    /\ runs' = IF c.mine THEN {} ELSE runs
    /\ UNCHANGED <<page, filter, dialog, editing, server, words, acts>>

-----------------------------------------------------------------------------
(* The dialogs.                                                             *)

(* A button of a row or of the toolbar, which stays while the rows load.    *)
(* The dialog is modal to the mouse, not to the keyboard.                   *)
OpenDialog ==
    /\ Act
    /\ \E d \in DecisionsOf(page), ids \in {{t} : t \in view.rows} \cup {selected} :
          /\ ids # {}
          /\ \/ view.state = "ready" /\ Cardinality(ids) = 1 /\ ids \subseteq view.rows
             \/ ids = selected /\ d \in BulkDecisions
          /\ NeedsWord(d) => \A t \in ids : status[t] # "fulfill"
          /\ dialog' = [decision |-> d, ids |-> ids,
                        given |-> dialog # NoDialog /\ dialog.given
                                     /\ SameDialog(d, dialog.decision)]
    /\ UNCHANGED <<page, filter, view, selected, editing, runs, busy, net,
                   server, words>>

(* Typing the reason, or the word.                                          *)
Type ==
    /\ dialog # NoDialog
    /\ Act
    /\ dialog' = [dialog EXCEPT !.given = ~dialog.given]
    /\ UNCHANGED <<page, filter, view, selected, editing, runs, busy, net,
                   server, words>>

(* Escape and the backdrop close it while it is busy too.                   *)
Dismiss ==
    /\ dialog # NoDialog \/ editing # None
    /\ Act
    /\ dialog' = NoDialog
    /\ editing' = None
    /\ UNCHANGED <<page, filter, view, selected, runs, busy, net, server, words>>

Edit ==
    /\ page = "listings"
    /\ view.state = "ready"
    /\ Act
    /\ \E t \in view.rows : editing' = t
    /\ UNCHANGED <<page, filter, view, selected, dialog, runs, busy, net, server,
                   words>>

-----------------------------------------------------------------------------
(* runAction, runDecision, runFulfill and runCorrection.                    *)

Run(decision, ids, given) ==
    [decision |-> decision, left |-> ids, all |-> ids, given |-> given,
     at |-> None, filter |-> filter, phase |-> "decide"]

Start(r) ==
    /\ runs' = runs \cup {r}
    /\ busy' = TRUE

MayConfirm == dialog # NoDialog /\ ~Blocked(dialog) /\ ~busy

Confirm ==
    /\ MayConfirm
    /\ Act
    /\ Start(Run(dialog.decision, dialog.ids, dialog.given))
    /\ UNCHANGED <<page, filter, view, selected, dialog, editing, net, server,
                   toast, claimed, sent>>

MayCorrect == editing # None /\ ~busy

Correct ==
    /\ MayCorrect
    /\ Act
    /\ Start(Run("correct", {editing}, FALSE))
    /\ UNCHANGED <<page, filter, view, selected, dialog, editing, net, server,
                   toast, claimed, sent>>

Replaced(r, s) == runs' = (runs \ {r}) \cup {s}

(* The catch and the finally of a run.                                      *)
BusyAfter(r) == FALSE

Fails(r) ==
    /\ toast' = "failed"
    /\ runs' = runs \ {r}
    /\ busy' = BusyAfter(r)
    /\ UNCHANGED <<view, selected, dialog, editing, net, claimed>>

(* The end of the try: the dialog that is open is closed, whichever it is,  *)
(* and the rows are loaded for the filter of the click.                     *)
Claims(r) == {<<t, r.decision>> : t \in r.all}

Succeeds(r) ==
    /\ toast' = "recorded"
    /\ claimed' = claimed \cup Claims(r)
    /\ Replaced(r, [r EXCEPT !.phase = "load", !.at = None])
    /\ view' = [view EXCEPT !.state = "loading"]
    /\ Load(r.filter, TRUE)
    /\ selected' = IF page = "sellers" THEN {} ELSE selected
    /\ IF r.decision = "correct" THEN editing' = None /\ UNCHANGED dialog
       ELSE dialog' = NoDialog /\ UNCHANGED editing
    /\ UNCHANGED busy

Continues(r, left) ==
    IF left = {} THEN Succeeds(r)
    ELSE /\ Replaced(r, [r EXCEPT !.phase = "decide", !.at = None, !.left = left])
         /\ UNCHANGED <<view, selected, dialog, editing, busy, toast, net, claimed>>

(* The next request of the loop: the server takes it, refuses it, or takes  *)
(* it and its answer is lost.                                               *)
Takes(r, t) ==
    /\ status' = [status EXCEPT ![t] = r.decision]
    /\ decided' = decided \cup {<<t, r.decision>>}

(* The decision of a target that fails ends the loop.                       *)
RefusedSkipped(r, t) == Continues(r, r.left \ {t})
Refused(r, t) == Fails(r)

Decide(r) ==
    /\ r \in runs /\ r.phase = "decide"
    /\ \E t \in r.left :
          /\ sent' = sent \cup {[id |-> t, decision |-> r.decision,
                                 given |-> r.given]}
          /\ \/ /\ Takes(r, t)
                /\ Replaced(r, [r EXCEPT !.left = @ \ {t}, !.at = t,
                                         !.phase = "audit"])
                /\ UNCHANGED <<view, selected, dialog, editing, busy, toast, net,
                               claimed>>
             \/ /\ Takes(r, t) \/ UNCHANGED <<status, decided>>
                /\ Refused(r, t)
    /\ UNCHANGED <<page, filter, audited, acts>>

(* logAdminAction: a refusal is logged and the loop goes on; a request that *)
(* does not get through throws, like the decision itself.                   *)
Events(r) == {<<r.at, r.decision>>}

Audit(r) ==
    /\ r \in runs /\ r.phase = "audit"
    /\ \/ audited' = audited \cup Events(r) /\ Continues(r, r.left)
       \/ UNCHANGED audited /\ Continues(r, r.left)
       \/ /\ audited' \in {audited, audited \cup Events(r)}
          /\ Fails(r)
    /\ UNCHANGED <<page, filter, status, decided, sent, acts>>

(* Another admin, or the server itself, decides on a target.                *)
DecidedElsewhere ==
    /\ Act
    /\ \E t \in Targets :
          /\ status[t] = "pending"
          /\ status' = [status EXCEPT ![t] = "elsewhere"]
    /\ UNCHANGED <<page, filter, view, selected, dialog, editing, runs, busy, net,
                   decided, audited, words>>

-----------------------------------------------------------------------------
Init ==
    /\ page \in Pages
    /\ filter = IF page = "sellers" THEN "pending" ELSE "all"
    /\ view = [state |-> "loading", rows |-> {}]
    /\ selected = {} /\ dialog = NoDialog /\ editing = None
    /\ runs = {} /\ busy = FALSE
    /\ toast = None /\ claimed = {} /\ sent = {}
    /\ net = {[n |-> 0, filter |-> filter, mine |-> FALSE]}
    /\ status = [t \in Targets |-> "pending"] /\ decided = {} /\ audited = {}
    /\ acts = 0

Next ==
    \/ ChooseFilter \/ Select \/ Refresh \/ \E c \in net : LoadAnswer(c)
    \/ OpenDialog \/ Type \/ Dismiss \/ Edit
    \/ Confirm \/ Correct
    \/ \E r \in runs : Decide(r) \/ Audit(r)
    \/ DecidedElsewhere

Spec == Init /\ [][Next]_vars

-----------------------------------------------------------------------------
(* The types of the state.                                                  *)
TypeOK ==
    /\ page \in Pages /\ filter \in Filters
    /\ view \in [state : States, rows : SUBSET Targets]
    /\ selected \subseteq Targets
    /\ dialog.decision \in Decisions \cup {None} /\ dialog.ids \subseteq Targets
    /\ editing \in Targets \cup {None}
    /\ busy \in BOOLEAN /\ toast \in {None, "recorded", "failed"}
    /\ status \in [Targets -> Decisions \cup {"pending", "elsewhere", "correct"}]
    /\ \A s \in {decided, audited, claimed} :
          s \subseteq Targets \X (Decisions \cup {"correct"})

(* Nothing is written into the audit trail that the server did not do: the  *)
(* event follows the decision and is of the same target.                    *)
AuditedWereDecided == audited \subseteq decided

(* "Recorded" is said of a bulk action only when the server took every      *)
(* decision of it.                                                          *)
ClaimsAreTrue == claimed \subseteq decided

(* "destructive actions always require a reason/confirmation" (lib/admin):  *)
(* through dialogs left, reopened and switched, no rejection goes out       *)
(* without a reason and no erasure without the word.                        *)
DestructiveIsGiven == \A s \in sent : Destructive(s.decision) => s.given

(* A dialog that is left while its decision runs does not let another       *)
(* decision start beside it.                                                *)
OneRunAtATime == Cardinality(runs) <= 1

(* The confirm buttons are disabled exactly while a decision runs.          *)
BusyIsRunning == busy = (runs # {})

(* While the page says it loads, an answer that ends that is awaited,       *)
(* whichever filter was chosen in between.                                  *)
LoadingIsPending == view.state = "loading" => net # {}

(* "Refresh failures keep the last good values rather than blanking the     *)
(* cards" (stats-cards), in whatever order the answers come.                *)
GoodValuesStay ==
    [][page = "stats" /\ view.state = "ready" => view'.state # "error"]_vars

=============================================================================
