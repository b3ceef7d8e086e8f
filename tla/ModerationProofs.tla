-------------------------- MODULE ModerationProofs ---------------------------
(* What the admin's pages keep, for any number of targets and acts.         *)
EXTENDS Moderation, TLAPS, FiniteSetTheorems

Given == Decisions \cup {"correct"}

Dialogs == [decision : Decisions, ids : SUBSET Targets, given : BOOLEAN]

RunRecords == [decision : Given, left : SUBSET Targets, all : SUBSET Targets,
               given : BOOLEAN, at : Targets \cup {None}, filter : Filters,
               phase : {"decide", "audit", "load"}]

\* TypeOK with the records it leaves open.
TypeInv ==
    /\ page \in Pages /\ filter \in Filters
    /\ view \in [state : States, rows : SUBSET Targets]
    /\ selected \subseteq Targets
    /\ dialog \in Dialogs \cup {NoDialog}
    /\ editing \in Targets \cup {None}
    /\ runs \subseteq RunRecords
    /\ busy \in BOOLEAN /\ toast \in {None, "recorded", "failed"}
    /\ net \subseteq [n : Nat, filter : Filters, mine : BOOLEAN]
    /\ status \in [Targets -> Decisions \cup {"pending", "elsewhere", "correct"}]
    /\ decided \subseteq Targets \X Given
    /\ audited \subseteq Targets \X Given
    /\ claimed \subseteq Targets \X Given
    /\ acts \in Nat

\* What a run knows: all that is not left was decided, and so was the target
\* whose audit event it is about to send.
RunKnows(r) ==
    /\ \A t \in r.all \ r.left : <<t, r.decision>> \in decided
    /\ r.phase = "audit" => <<r.at, r.decision>> \in decided /\ r.at \in Targets
    /\ Destructive(r.decision) => r.given

RunInv ==
    /\ \A r, s \in runs : r = s
    /\ BusyIsRunning
    /\ \A r \in runs : RunKnows(r)
    /\ AuditedWereDecided
    /\ ClaimsAreTrue
    /\ DestructiveIsGiven

-----------------------------------------------------------------------------
(* The pieces of a step *)

LEMMA DecisionsListed ==
    Decisions = {"approve", "reject", "more_info", "hold", "escalate", "fulfill", "erase"}
<1>1. \A p \in Pages : DecisionsOf(p) \subseteq
         {"approve", "reject", "more_info", "hold", "escalate", "fulfill", "erase"}
  BY DEF Pages, DecisionsOf
<1>2. {"approve", "reject", "more_info"} = DecisionsOf("sellers")
  BY DEF DecisionsOf
<1>3. "hold" \in DecisionsOf("seller") /\ "escalate" \in DecisionsOf("listings")
      /\ {"fulfill", "erase"} = DecisionsOf("compliance")
  BY DEF DecisionsOf
<1>4. {"sellers", "seller", "listings", "compliance"} \subseteq Pages
  BY DEF Pages
<1>. QED
  BY <1>1, <1>2, <1>3, <1>4 DEF Decisions

LEMMA PageDecisions == \A p \in Pages : DecisionsOf(p) \subseteq Decisions
  BY DEF Decisions

LEMMA RowsTyped == ASSUME NEW p PROVE Rows(p) \subseteq Targets
  BY ModerationAssumption DEF Rows

\* A run that goes on is the only one, and knows of its targets what it knew.
LEMMA GoesOn ==
    ASSUME TypeInv, RunInv, NEW r \in runs, r.phase = "audit",
           decided' = decided, status' = status, sent' = sent,
           page' = page, filter' = filter, acts' = acts,
           audited' \in {audited, audited \cup Events(r)},
           Continues(r, r.left)
    PROVE  TypeInv' /\ RunInv'
<1>1. r \in RunRecords /\ RunKnows(r) /\ runs = {r} /\ busy = TRUE
  BY DEF TypeInv, RunInv, BusyIsRunning
<1>2. audited' \subseteq decided' /\ audited' \subseteq Targets \X Given
  <2>1. Events(r) \subseteq decided /\ Events(r) \subseteq Targets \X Given
    BY <1>1 DEF Events, RunKnows, RunRecords
  <2>. QED
    BY <2>1 DEF TypeInv, RunInv, AuditedWereDecided
<1>3. CASE r.left = {}
  <2> DEFINE s == [r EXCEPT !.phase = "load", !.at = None]
  <2>1. runs' = {s} /\ Succeeds(r)
    BY <1>1, <1>3 DEF Continues, Succeeds, Replaced
  <2>2. /\ s \in RunRecords /\ s.decision = r.decision /\ s.given = r.given
        /\ s.all = r.all /\ s.left = r.left /\ s.phase = "load"
    BY <1>1 DEF RunRecords
  <2>3. claimed' = claimed \cup Claims(r) /\ Claims(r) \subseteq decided
        /\ Claims(r) \subseteq Targets \X Given
    BY <1>1, <1>3, <2>1 DEF Succeeds, Claims, RunKnows, RunRecords
  <2>4. TypeInv'
    <3>1. net' \subseteq [n : Nat, filter : Filters, mine : BOOLEAN]
      <4>1. [n |-> acts, filter |-> r.filter, mine |-> TRUE]
               \in [n : Nat, filter : Filters, mine : BOOLEAN]
        BY <1>1 DEF TypeInv, RunRecords
      <4>2. net' = net \cup {[n |-> acts, filter |-> r.filter, mine |-> TRUE]}
        BY <2>1 DEF Succeeds, Load
      <4>. QED
        BY <4>1, <4>2 DEF TypeInv
    <3>2. view' \in [state : States, rows : SUBSET Targets]
      BY <2>1 DEF Succeeds, TypeInv, States
    <3>3. dialog' \in Dialogs \cup {NoDialog} /\ editing' \in Targets \cup {None}
      BY <2>1 DEF Succeeds, TypeInv
    <3>4. selected' \subseteq Targets /\ toast' \in {None, "recorded", "failed"} /\ busy' = busy
      BY <2>1 DEF Succeeds, TypeInv
    <3>. QED
      BY <1>2, <2>1, <2>2, <2>3, <3>1, <3>2, <3>3, <3>4 DEF TypeInv
  <2>5. RunKnows(s)'
    BY <1>1, <2>2 DEF RunKnows
  <2>6. busy' = TRUE
    BY <1>1, <2>1 DEF Succeeds
  <2>7. /\ \A q, s1 \in runs' : q = s1
        /\ BusyIsRunning'
        /\ \A q \in runs' : RunKnows(q)'
    BY <2>1, <2>5, <2>6 DEF BusyIsRunning
  <2>8. AuditedWereDecided' /\ ClaimsAreTrue' /\ DestructiveIsGiven'
    BY <1>2, <2>3 DEF RunInv, AuditedWereDecided, ClaimsAreTrue, DestructiveIsGiven
  <2>. QED
    BY <2>4, <2>7, <2>8 DEF RunInv
<1>4. CASE r.left # {}
  <2> DEFINE s == [r EXCEPT !.phase = "decide", !.at = None, !.left = r.left]
  <2>1. /\ runs' = {s}
        /\ UNCHANGED <<view, selected, dialog, editing, busy, toast, net, claimed>>
    BY <1>1, <1>4 DEF Continues, Replaced
  <2>2. /\ s \in RunRecords /\ s.decision = r.decision /\ s.given = r.given
        /\ s.all = r.all /\ s.left = r.left /\ s.phase = "decide"
    BY <1>1 DEF RunRecords
  <2>3. TypeInv'
    BY <1>2, <2>1, <2>2 DEF TypeInv
  <2>4. RunKnows(s)'
    BY <1>1, <2>2 DEF RunKnows
  <2>5. /\ \A q, s1 \in runs' : q = s1
        /\ BusyIsRunning'
        /\ \A q \in runs' : RunKnows(q)'
    BY <1>1, <2>1, <2>4 DEF BusyIsRunning
  <2>6. AuditedWereDecided' /\ ClaimsAreTrue' /\ DestructiveIsGiven'
    BY <1>2, <2>1 DEF RunInv, AuditedWereDecided, ClaimsAreTrue, DestructiveIsGiven
  <2>. QED
    BY <2>3, <2>5, <2>6 DEF RunInv
<1>. QED
  BY <1>3, <1>4

\* A run that fails leaves none behind, and nothing it did is undone.
LEMMA GivesUp ==
    ASSUME TypeInv, RunInv, NEW r \in runs, Fails(r),
           decided \subseteq decided', decided' \subseteq Targets \X Given,
           status' \in [Targets -> Decisions \cup {"pending", "elsewhere", "correct"}],
           audited' \subseteq decided', DestructiveIsGiven',
           page' = page, filter' = filter, acts' = acts
    PROVE  TypeInv' /\ RunInv'
<1>1. runs' = {} /\ busy' = FALSE
  BY DEF RunInv, Fails, BusyAfter
<1>2. /\ toast' = "failed"
      /\ UNCHANGED <<view, selected, dialog, editing, net, claimed>>
  BY DEF Fails
<1>3. TypeInv'
  BY <1>1, <1>2 DEF TypeInv
<1>4. RunInv'
  BY <1>1, <1>2 DEF RunInv, BusyIsRunning, AuditedWereDecided, ClaimsAreTrue
<1>. QED
  BY <1>3, <1>4

\* A step that leaves the runs, and what the server was told, as they are.
LEMMA Undisturbed ==
    ASSUME RunInv, UNCHANGED <<runs, busy, decided, audited, claimed, sent>>
    PROVE  RunInv'
  BY DEF RunInv, BusyIsRunning, RunKnows, AuditedWereDecided, ClaimsAreTrue,
         DestructiveIsGiven

\* A step that starts a run, on a page where none runs.
LEMMA StartsOne ==
    ASSUME TypeInv, RunInv, ~busy, NEW d \in Given, NEW ids \in SUBSET Targets,
           NEW given \in BOOLEAN, Destructive(d) => given, Start(Run(d, ids, given)),
           acts' \in Nat,
           UNCHANGED <<page, filter, view, selected, dialog, editing, net, server,
                       toast, claimed, sent>>
    PROVE  TypeInv' /\ RunInv'
<1> DEFINE r == Run(d, ids, given)
<1>1. runs' = {r} /\ busy' = TRUE
  BY DEF RunInv, BusyIsRunning, Start
<1>2. r \in RunRecords
  BY DEF Run, RunRecords, TypeInv
<1>3. TypeInv'
  BY <1>1, <1>2 DEF TypeInv, server
<1>4. \A q \in runs' : RunKnows(q)'
  BY <1>1 DEF RunKnows, Run
<1>5. (\A q, s \in runs' : q = s) /\ BusyIsRunning'
  BY <1>1 DEF BusyIsRunning
<1>6. AuditedWereDecided' /\ ClaimsAreTrue' /\ DestructiveIsGiven'
  BY DEF RunInv, AuditedWereDecided, ClaimsAreTrue, DestructiveIsGiven, server
<1>. QED
  BY <1>3, <1>4, <1>5, <1>6 DEF RunInv

LEMMA ModerationInit == Init => TypeInv /\ RunInv
<1> SUFFICES ASSUME Init PROVE TypeInv /\ RunInv
  OBVIOUS
<1>1. TypeInv
  <2>1. /\ net \subseteq [n : Nat, filter : Filters, mine : BOOLEAN]
        /\ filter \in Filters
    BY DEF Init, Filters
  <2>2. view \in [state : States, rows : SUBSET Targets]
    BY DEF Init, States
  <2>3. status \in [Targets -> Decisions \cup {"pending", "elsewhere", "correct"}]
    BY DEF Init
  <2>. QED
    BY <2>1, <2>2, <2>3 DEF Init, TypeInv
<1>2. RunInv
  BY DEF Init, RunInv, BusyIsRunning, AuditedWereDecided, ClaimsAreTrue,
         DestructiveIsGiven
<1>. QED
  BY <1>1, <1>2

LEMMA ModerationStep == TypeInv /\ RunInv /\ [Next]_vars => TypeInv' /\ RunInv'
<1> SUFFICES ASSUME TypeInv, RunInv, [Next]_vars PROVE TypeInv' /\ RunInv'
  OBVIOUS
<1>0. ASSUME Act PROVE acts' \in Nat
  BY <1>0 DEF Act, TypeInv
<1>1. CASE ChooseFilter
  <2>1. PICK f \in Filters : filter' = f /\ Load(f, FALSE)
    BY <1>1 DEF ChooseFilter
  <2>2. [n |-> acts, filter |-> f, mine |-> FALSE]
           \in [n : Nat, filter : Filters, mine : BOOLEAN]
    BY DEF TypeInv
  <2>3. view' \in [state : States, rows : SUBSET Targets]
    BY <1>1 DEF ChooseFilter, TypeInv, States
  <2>4. TypeInv'
    BY <1>0, <1>1, <2>1, <2>2, <2>3 DEF ChooseFilter, Load, TypeInv, server, words
  <2>. QED
    BY <1>1, <2>4, Undisturbed DEF ChooseFilter, server, words
<1>2. CASE Select
  <2>1. selected' \subseteq Targets
    BY <1>2 DEF Select, TypeInv
  <2>2. TypeInv'
    BY <1>0, <1>2, <2>1 DEF Select, TypeInv, server, words
  <2>. QED
    BY <1>2, <2>2, Undisturbed DEF Select, server, words
<1>3. CASE Refresh
  <2>1. [n |-> acts, filter |-> filter, mine |-> FALSE]
           \in [n : Nat, filter : Filters, mine : BOOLEAN]
    BY DEF TypeInv
  <2>2. TypeInv'
    BY <1>0, <1>3, <2>1 DEF Refresh, Load, TypeInv, server, words
  <2>. QED
    BY <1>3, <2>2, Undisturbed DEF Refresh, server, words
<1>4. ASSUME NEW c \in net, LoadAnswer(c) PROVE TypeInv' /\ RunInv'
  <2>1. view' \in [state : States, rows : SUBSET Targets]
    <3>1. CASE view' = [state |-> "ready", rows |-> Rows(page)]
      BY <3>1, RowsTyped DEF States
    <3>2. CASE \E s \in {"gap", "error"} : view' = [view EXCEPT !.state = Failed(s)]
      BY <3>2 DEF TypeInv, States, Failed
    <3>. QED
      BY <1>4, <3>1, <3>2 DEF LoadAnswer, Applies
  <2>2. selected' \subseteq Targets
    BY <1>4 DEF LoadAnswer, Applies, TypeInv
  <2>3. c.mine \in BOOLEAN
    BY DEF TypeInv
  <2>4. /\ busy' = (busy /\ ~c.mine)
        /\ runs' = IF c.mine THEN {} ELSE runs
        /\ net' = net \ {c}
        /\ UNCHANGED <<page, filter, dialog, editing, server, words, acts>>
    BY <1>4 DEF LoadAnswer
  <2>5. TypeInv'
    BY <2>1, <2>2, <2>3, <2>4 DEF TypeInv, server, words
  <2>6. BusyIsRunning'
    <3>1. CASE c.mine
      BY <2>4, <3>1 DEF BusyIsRunning
    <3>2. CASE ~c.mine
      BY <2>3, <2>4, <3>2 DEF BusyIsRunning, RunInv, TypeInv
    <3>. QED
      BY <3>1, <3>2
  <2>7. RunInv'
    BY <2>4, <2>6 DEF RunInv, RunKnows, AuditedWereDecided, ClaimsAreTrue,
       DestructiveIsGiven, server, words
  <2>. QED
    BY <2>5, <2>7
<1>5. CASE OpenDialog
  <2>1. PICK d \in DecisionsOf(page), ids \in {{t} : t \in view.rows} \cup {selected} :
           dialog' = [decision |-> d, ids |-> ids,
                      given |-> dialog # NoDialog /\ dialog.given
                                   /\ SameDialog(d, dialog.decision)]
    BY <1>5 DEF OpenDialog
  <2>2. d \in Decisions /\ ids \subseteq Targets
    BY PageDecisions DEF TypeInv
  <2>3. dialog' \in Dialogs
    BY <2>1, <2>2 DEF Dialogs
  <2>4. TypeInv'
    BY <1>0, <1>5, <2>3 DEF OpenDialog, TypeInv, server, words
  <2>. QED
    BY <1>5, <2>4, Undisturbed DEF OpenDialog, server, words
<1>6. CASE Type
  <2>1. dialog' \in Dialogs
    BY <1>6 DEF Type, TypeInv, Dialogs
  <2>2. TypeInv'
    BY <1>0, <1>6, <2>1 DEF Type, TypeInv, server, words
  <2>. QED
    BY <1>6, <2>2, Undisturbed DEF Type, server, words
<1>7. CASE Dismiss
  <2>1. TypeInv'
    BY <1>0, <1>7 DEF Dismiss, TypeInv, server, words
  <2>. QED
    BY <1>7, <2>1, Undisturbed DEF Dismiss, server, words
<1>8. CASE Edit
  <2>1. TypeInv'
    BY <1>0, <1>8 DEF Edit, TypeInv, server, words
  <2>. QED
    BY <1>8, <2>1, Undisturbed DEF Edit, server, words
<1>9. CASE Confirm
  <2>1. dialog \in Dialogs /\ (Destructive(dialog.decision) => dialog.given) /\ ~busy
    BY <1>9 DEF Confirm, MayConfirm, Blocked, TypeInv
  <2>2. dialog.decision \in Given /\ dialog.ids \in SUBSET Targets /\ dialog.given \in BOOLEAN
    BY <2>1 DEF Dialogs, Given
  <2>. QED
    BY <1>0, <1>9, <2>1, <2>2, StartsOne DEF Confirm
<1>10. CASE Correct
  <2>1. editing \in Targets /\ ~busy
    BY <1>10 DEF Correct, MayCorrect, TypeInv
  <2>2. "correct" \in Given /\ ~Destructive("correct")
    BY DEF Given, Destructive, NeedsReason, NeedsWord
  <2>. QED
    BY <1>0, <1>10, <2>1, <2>2, StartsOne DEF Correct
<1>11. ASSUME NEW r \in runs, Decide(r) PROVE TypeInv' /\ RunInv'
  <2>1. r \in RunRecords /\ RunKnows(r) /\ runs = {r} /\ busy = TRUE
    BY DEF TypeInv, RunInv, BusyIsRunning
  <2>2. PICK t \in r.left :
          /\ sent' = sent \cup {[id |-> t, decision |-> r.decision, given |-> r.given]}
          /\ \/ /\ Takes(r, t)
                /\ Replaced(r, [r EXCEPT !.left = @ \ {t}, !.at = t, !.phase = "audit"])
                /\ UNCHANGED <<view, selected, dialog, editing, busy, toast, net, claimed>>
             \/ /\ Takes(r, t) \/ UNCHANGED <<status, decided>>
                /\ Refused(r, t)
    BY <1>11 DEF Decide
  <2>3. DestructiveIsGiven'
    BY <2>1, <2>2 DEF RunInv, DestructiveIsGiven, RunKnows
  <2>4. /\ decided \subseteq decided' /\ decided' \subseteq Targets \X Given
        /\ status' \in [Targets -> Decisions \cup {"pending", "elsewhere", "correct"}]
    <3>1. t \in Targets /\ r.decision \in Given
      BY <2>1, <2>2 DEF RunRecords
    <3>2. CASE Takes(r, t)
      <4>1. <<t, r.decision>> \in Targets \X Given
        BY <3>1
      <4>. QED
        BY <3>1, <3>2, <4>1 DEF Takes, TypeInv, Given
    <3>3. CASE UNCHANGED <<status, decided>>
      BY <3>3 DEF TypeInv
    <3>. QED
      BY <2>2, <3>2, <3>3
  <2>5. UNCHANGED <<page, filter, audited, acts>>
    BY <1>11 DEF Decide
  <2>6. CASE Refused(r, t)
    BY <2>3, <2>4, <2>5, <2>6, GivesUp DEF Refused, RunInv, AuditedWereDecided
  <2>7. CASE /\ Takes(r, t)
             /\ Replaced(r, [r EXCEPT !.left = @ \ {t}, !.at = t, !.phase = "audit"])
             /\ UNCHANGED <<view, selected, dialog, editing, busy, toast, net, claimed>>
    <3> DEFINE s == [r EXCEPT !.left = @ \ {t}, !.at = t, !.phase = "audit"]
    <3>1. runs' = {s}
      BY <2>1, <2>7 DEF Replaced
    <3>2. /\ s \in RunRecords /\ s.decision = r.decision /\ s.given = r.given
          /\ s.all = r.all /\ s.left = r.left \ {t} /\ s.at = t
      BY <2>1 DEF RunRecords
    <3>3. TypeInv'
      BY <2>4, <2>5, <2>7, <3>1, <3>2 DEF TypeInv
    <3>4. decided' = decided \cup {<<t, r.decision>>}
      BY <2>7 DEF Takes
    <3>5. RunKnows(s)'
      BY <2>1, <3>2, <3>4 DEF RunKnows, RunRecords
    <3>6. /\ \A q, s1 \in runs' : q = s1
          /\ BusyIsRunning'
          /\ \A q \in runs' : RunKnows(q)'
      BY <2>1, <2>7, <3>1, <3>5 DEF BusyIsRunning
    <3>7. AuditedWereDecided' /\ ClaimsAreTrue'
      BY <2>4, <2>5, <2>7 DEF RunInv, AuditedWereDecided, ClaimsAreTrue
    <3>. QED
      BY <2>3, <3>3, <3>6, <3>7 DEF RunInv
  <2>. QED
    BY <2>2, <2>6, <2>7
<1>12. ASSUME NEW r \in runs, Audit(r) PROVE TypeInv' /\ RunInv'
  <2>1. r.phase = "audit" /\ UNCHANGED <<page, filter, status, decided, sent, acts>>
    BY <1>12 DEF Audit
  <2>2. CASE Continues(r, r.left) /\ audited' \in {audited, audited \cup Events(r)}
    BY <2>1, <2>2, GoesOn
  <2>3. CASE Fails(r) /\ audited' \in {audited, audited \cup Events(r)}
    <3>1. audited' \subseteq decided'
      BY <2>1, <2>3 DEF RunInv, RunKnows, AuditedWereDecided, Events
    <3>2. DestructiveIsGiven'
      BY <2>1 DEF RunInv, DestructiveIsGiven
    <3>. QED
      BY <2>1, <2>3, <3>1, <3>2, GivesUp DEF TypeInv
  <2>. QED
    BY <1>12, <2>2, <2>3 DEF Audit
<1>13. CASE DecidedElsewhere
  <2>1. TypeInv'
    BY <1>0, <1>13 DEF DecidedElsewhere, TypeInv, words
  <2>. QED
    BY <1>13, <2>1, Undisturbed DEF DecidedElsewhere, words
<1>14. CASE UNCHANGED vars
  <2>1. TypeInv'
    BY <1>14 DEF TypeInv, vars
  <2>. QED
    BY <1>14, <2>1, Undisturbed DEF vars
<1>. QED
  BY <1>1, <1>2, <1>3, <1>4, <1>5, <1>6, <1>7, <1>8, <1>9, <1>10, <1>11, <1>12,
     <1>13, <1>14 DEF Next

LEMMA RunsHold == Spec => [](TypeInv /\ RunInv)
  BY ModerationInit, ModerationStep, PTL DEF Spec

-----------------------------------------------------------------------------
(* The properties *)

\* Every reachable state of the admin's pages is well typed.
THEOREM ModerationTyped == Spec => []TypeOK
<1>1. TypeInv => TypeOK
  BY DEF TypeInv, TypeOK, Dialogs, NoDialog, Given
<1>. QED
  BY RunsHold, <1>1, PTL

\* The audit trail holds only decisions the server took, whatever fails in the
\* middle of a run.
THEOREM NothingIsInvented == Spec => []AuditedWereDecided
<1>1. RunInv => AuditedWereDecided
  BY DEF RunInv
<1>. QED
  BY RunsHold, <1>1, PTL

\* The page calls recorded only what the server took, all of it.
THEOREM RecordedIsTrue == Spec => []ClaimsAreTrue
<1>1. RunInv => ClaimsAreTrue
  BY DEF RunInv
<1>. QED
  BY RunsHold, <1>1, PTL

\* However dialogs are left, reopened and switched, no rejection goes out
\* without its reason and no erasure without its word.
THEOREM NothingIsDestroyedUnasked == Spec => []DestructiveIsGiven
<1>1. RunInv => DestructiveIsGiven
  BY DEF RunInv
<1>. QED
  BY RunsHold, <1>1, PTL

\* At most one decision runs at a time, through dialogs left and reopened.
THEOREM RunsAlone == Spec => []OneRunAtATime
<1>1. ASSUME RunInv PROVE OneRunAtATime
  <2>1. CASE runs = {}
    BY <2>1, FS_EmptySet DEF OneRunAtATime
  <2>2. CASE runs # {}
    <3>1. PICK r \in runs : TRUE
      BY <2>2
    <3>2. runs = {r}
      BY <1>1, <3>1 DEF RunInv
    <3>3. Cardinality(runs) = 1
      BY <3>2, FS_Singleton, Zenon
    <3>. QED
      BY <3>3 DEF OneRunAtATime
  <2>. QED
    BY <2>1, <2>2
<1>2. RunInv => OneRunAtATime
  BY <1>1
<1>. QED
  BY RunsHold, <1>2, PTL

\* The buttons that confirm are disabled exactly while a decision runs.
THEOREM ButtonsFollowRuns == Spec => []BusyIsRunning
<1>1. RunInv => BusyIsRunning
  BY DEF RunInv
<1>. QED
  BY RunsHold, <1>1, PTL

LEMMA FailedState ==
    ASSUME TypeInv, NEW s \in {"gap", "error"}, view' = [view EXCEPT !.state = Failed(s)]
    PROVE  /\ view'.state # "loading"
           /\ page = "stats" /\ view.state = "ready" => view'.state # "error"
<1>1. view'.state = Failed(s)
  BY DEF TypeInv
<1>. QED
  BY <1>1 DEF Failed

LEMMA LoadingStep == LoadingIsPending /\ TypeInv /\ [Next]_vars => LoadingIsPending'
<1> SUFFICES ASSUME LoadingIsPending, TypeInv, [Next]_vars PROVE LoadingIsPending'
  OBVIOUS
<1>1. CASE ChooseFilter
  BY <1>1 DEF ChooseFilter, Load, LoadingIsPending
<1>2. ASSUME NEW c \in net, LoadAnswer(c) PROVE LoadingIsPending'
  <2>1. CASE view' = [state |-> "ready", rows |-> Rows(page)]
    BY <2>1 DEF LoadingIsPending
  <2>2. ASSUME NEW s \in {"gap", "error"}, view' = [view EXCEPT !.state = Failed(s)]
        PROVE  view'.state # "loading"
    BY <2>2, FailedState
  <2>. QED
    BY <1>2, <2>1, <2>2 DEF LoadAnswer, Applies, LoadingIsPending
<1>3. ASSUME NEW r, Succeeds(r) PROVE LoadingIsPending'
  BY <1>3 DEF Succeeds, Load, LoadingIsPending
<1>4. ASSUME NEW r, NEW left, Continues(r, left) PROVE LoadingIsPending'
  BY <1>3, <1>4 DEF Continues, LoadingIsPending
<1>5. ASSUME NEW r, Fails(r) PROVE LoadingIsPending'
  BY <1>5 DEF Fails, LoadingIsPending
<1>6. ASSUME NEW r \in runs, Decide(r) PROVE LoadingIsPending'
  <2>1. PICK t \in r.left :
          UNCHANGED <<view, selected, dialog, editing, busy, toast, net, claimed>>
            \/ Refused(r, t)
    BY <1>6 DEF Decide
  <2>. QED
    BY <1>5, <2>1 DEF Refused, LoadingIsPending
<1>7. ASSUME NEW r \in runs, Audit(r) PROVE LoadingIsPending'
  BY <1>4, <1>5, <1>7 DEF Audit
<1>8. CASE Refresh
  BY <1>8 DEF Refresh, Load, LoadingIsPending
<1>9. CASE Select \/ OpenDialog \/ Type \/ Dismiss \/ Edit \/ Confirm \/ Correct
           \/ DecidedElsewhere \/ UNCHANGED vars
  BY <1>9 DEF Select, OpenDialog, Type, Dismiss, Edit, Confirm, Correct,
     DecidedElsewhere, vars, LoadingIsPending
<1>. QED
  BY <1>1, <1>2, <1>6, <1>7, <1>8, <1>9 DEF Next

\* A page that says it loads awaits an answer that ends that.
THEOREM LoadingEnds == Spec => []LoadingIsPending
<1>1. Init => LoadingIsPending
  BY DEF Init, LoadingIsPending
<1>. QED
  BY <1>1, LoadingStep, RunsHold, PTL DEF Spec

\* No refresh of the cards that fails takes away the values they show.
THEOREM CardsKeepValues == Spec => GoodValuesStay
<1> DEFINE Keeps == page = "stats" /\ view.state = "ready" => view'.state # "error"
<1>1. ASSUME TypeInv, [Next]_vars PROVE [Keeps]_vars
  <2> SUFFICES ASSUME page = "stats", view.state = "ready" PROVE view'.state # "error"
    OBVIOUS
  <2>1. ASSUME NEW c \in net, LoadAnswer(c) PROVE view'.state # "error"
    <3>1. CASE view' = [state |-> "ready", rows |-> Rows(page)]
      BY <3>1
    <3>2. CASE \E s \in {"gap", "error"} : view' = [view EXCEPT !.state = Failed(s)]
      BY <1>1, <3>2, FailedState
    <3>. QED
      BY <2>1, <3>1, <3>2 DEF LoadAnswer, Applies
  <2>2. ASSUME NEW r, Continues(r, r.left) \/ Fails(r) PROVE view'.state # "error"
    <3>1. view' = [view EXCEPT !.state = "loading"] \/ view' = view
      BY <2>2 DEF Continues, Succeeds, Fails
    <3>. QED
      BY <1>1, <3>1 DEF TypeInv
  <2>3. ASSUME NEW r \in runs, Decide(r) PROVE view'.state # "error"
    <3>1. view' = view \/ Fails(r)
      BY <2>3 DEF Decide, Refused
    <3>. QED
      BY <2>2, <3>1
  <2>4. ASSUME NEW r \in runs, Audit(r) PROVE view'.state # "error"
    BY <2>2, <2>4 DEF Audit
  <2>5. CASE Select \/ Refresh \/ OpenDialog \/ Type \/ Dismiss \/ Edit \/ Confirm
             \/ Correct \/ DecidedElsewhere \/ UNCHANGED vars
    BY <2>5 DEF Select, Refresh, OpenDialog, Type, Dismiss, Edit, Confirm, Correct,
       DecidedElsewhere, vars
  <2>6. ~ChooseFilter
    BY DEF ChooseFilter
  <2>. QED
    BY <1>1, <2>1, <2>3, <2>4, <2>5, <2>6 DEF Next
<1>2. TypeInv /\ [Next]_vars => [Keeps]_vars
  BY <1>1
<1>. QED
  BY <1>2, RunsHold, PTL DEF Spec, GoodValuesStay
=============================================================================
