------------------------------ MODULE Funeral ------------------------------
(***************************************************************************)
(* The directory of funeral homes and its two consultation forms: one that  *)
(* the cards open for their home, and a general one behind the "ask for     *)
(* help" link.  Both forms belong to the page and live as long as it does:  *)
(* closing one only hides it, and neither its draft nor its request ends.   *)
(***************************************************************************)
EXTENDS Integers, FiniteSets

CONSTANTS
    Homes,      \* funeral homes
    MaxActs     \* bound: pages opened, requests made, catalog changes

ASSUME FuneralAssumption == MaxActs \in Nat

VARIABLES
    directory,  \* what the directory shows, or that it is not open
    forms,      \* the consultation forms
    calls,      \* requests of the page on their way
    received,   \* the forms of which the backend has received a request
    acts        \* for the bound MaxActs

funeral == <<directory, forms, calls, received>>

-----------------------------------------------------------------------------
None == "none"
NoHome == "no home"             \* a consultation with no provider

FormNames == {"card", "general"}
NewForm == [for |-> None, outcome |-> "idle"]

IsOpen(f) == forms[f].for # None

Act == acts < MaxActs /\ acts' = acts + 1

(* Requests are told apart by when they were sent; "of" a form, or the load *)
(* of the list; "now" until the form is closed.                             *)
Call(of) == [n |-> acts, of |-> of, now |-> TRUE]

-----------------------------------------------------------------------------
(* The page.                                                                *)

EnterDirectory ==
    /\ directory' = "loading"
    /\ forms' = [f \in FormNames |-> NewForm]
    /\ calls' = {Call("list")}
    /\ received' = {}

LeaveDirectory ==
    /\ directory' = "away"
    /\ forms' = [f \in FormNames |-> NewForm]
    /\ calls' = {}
    /\ received' = {}

(* The filters are applied on submit; put beside "params", they are not     *)
(* sent, and every load asks for the same list.                             *)
SearchHomes ==
    /\ Act
    /\ directory' = "loading"
    /\ calls' = calls \cup {Call("list")}
    /\ UNCHANGED <<forms, received>>

(* No load is cancelled: the last answer is shown, not the last question's. *)
ListStates == {"ready", "gap", "error"}

ListAnswer(c) ==
    /\ c.of = "list"
    /\ calls' = calls \ {c}
    /\ directory' \in ListStates
    /\ UNCHANGED <<forms, received, acts>>

-----------------------------------------------------------------------------
(* The forms.                                                               *)

(* A card is there with the list, the link where there is none.             *)
OffersFor(f) ==
    CASE f = "card" -> IF directory = "ready" THEN Homes ELSE {}
      [] f = "general" -> IF directory \in {"gap", "error"} THEN {NoHome} ELSE {}

(* Opening forgets the outcome, not the draft.  The dialog is modal to the  *)
(* mouse only: by keyboard a card gives an open form another home, and that *)
(* resets nothing.                                                          *)
Reopened(f) == IF IsOpen(f) THEN forms[f].outcome ELSE "idle"

OpenForm(f) ==
    /\ \E h \in OffersFor(f) \ {forms[f].for} :
        forms' = [forms EXCEPT ![f].for = h, ![f].outcome = Reopened(f)]
    /\ UNCHANGED <<directory, calls, received, acts>>

Hidden(f) == forms' = [forms EXCEPT ![f].for = None]
Disowned(f) == calls' = {IF c.of = f THEN [c EXCEPT !.now = FALSE] ELSE c : c \in calls}

(* Cancel, the cross, the backdrop or Escape.                               *)
CloseForm(f) ==
    /\ IsOpen(f)
    /\ Hidden(f) /\ Disowned(f)
    /\ UNCHANGED <<directory, received, acts>>

(* Five seconds after a success.                                            *)
AutoClose(f) ==
    /\ IsOpen(f) /\ forms[f].outcome = "success"
    /\ Hidden(f) /\ Disowned(f)
    /\ UNCHANGED <<directory, received, acts>>

(* A draft that the schema refuses is not sent, and changes nothing here.   *)
MaySubmit(f) == IsOpen(f) /\ forms[f].outcome \notin {"submitting", "success"}

Submit(f) ==
    /\ MaySubmit(f) /\ Act
    /\ forms' = [forms EXCEPT ![f].outcome = "submitting"]
    /\ calls' = calls \cup {Call(f)}
    /\ UNCHANGED <<directory, received>>

OutcomeAnyway(ok, known) == IF known THEN "success" ELSE "portal-pending"
Outcome(ok, known) ==
    IF ok THEN "success" ELSE IF known THEN "error" ELSE "portal-pending"

(* The answer reaches the form it was sent from, whatever became of it in   *)
(* between.  A request that fails may have been received; not so one to an  *)
(* endpoint that does not exist.                                            *)
FormAnswer(c, got, ok, known) ==
    /\ c.of \in FormNames
    /\ ok => got
    /\ ~known => ~got
    /\ calls' = calls \ {c}
    /\ forms' = [forms EXCEPT ![c.of].outcome = Outcome(ok, known)]
    /\ received' = IF got THEN received \cup {c.of} ELSE received
    /\ UNCHANGED <<directory, acts>>

-----------------------------------------------------------------------------
FuneralInit ==
    /\ directory = "away"
    /\ forms = [f \in FormNames |-> NewForm]
    /\ calls = {}
    /\ received = {}

FuneralAnswers ==
    \E c \in calls :
        \/ ListAnswer(c)
        \/ \E got, ok, known \in BOOLEAN : FormAnswer(c, got, ok, known)

(* What happens on the page while it is open.                               *)
FuneralNext ==
    \/ SearchHomes
    \/ \E f \in FormNames :
        OpenForm(f) \/ CloseForm(f) \/ Submit(f) \/ AutoClose(f)
    \/ FuneralAnswers

-----------------------------------------------------------------------------
(* Properties.                                                              *)

FuneralTypeOK ==
    /\ directory \in {"away", "loading", "gap", "error", "ready"}
    /\ forms \in [FormNames -> [for : Homes \cup {None, NoHome},
                                outcome : {"idle", "submitting", "success",
                                           "portal-pending", "error"}]]
    /\ calls \subseteq [n : 0..MaxActs, of : FormNames \cup {"list"}, now : BOOLEAN]
    /\ received \subseteq FormNames

(* A form thanks the visitor only if the backend received a request of it,  *)
(* through closings, lost answers, and answers that come after a reopening. *)
ThanksWereEarned ==
    \A f \in FormNames : forms[f].outcome = "success" => f \in received

(* A form that says it is sending has a request on its way that was sent    *)
(* since it was opened, and a directory that says it loads has one too: the *)
(* button and the list do not stay disabled for good.                       *)
SendingIsPending ==
    /\ \A f \in FormNames :
        IsOpen(f) /\ forms[f].outcome = "submitting"
            => \E c \in calls : c.of = f /\ c.now
    /\ directory = "loading" => \E c \in calls : c.of = "list"
=============================================================================
