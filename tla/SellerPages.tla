----------------------------- MODULE SellerPages -----------------------------
(***************************************************************************)
(* The seller's pages of one browser tab: the onboarding wizard, the       *)
(* listing form and the dashboard.  Each is a component whose state starts  *)
(* anew when its page opens; a request it sent may be answered after the    *)
(* seller has gone to another step or another page.                         *)
(*                                                                          *)
(* A file is the number of its choice; a form is what its checks tell       *)
(* apart.  Names, images and wording are left out.  The server's side of    *)
(* these endpoints is not part of the repository: it takes a request or     *)
(* refuses it, and answers 404 where it does not exist yet.                 *)
(***************************************************************************)
EXTENDS Integers, FiniteSets, SequencesExt

CONSTANTS
    Countries,  \* SELLER_COUNTRIES
    MaxImages,  \* MAX_LISTING_IMAGES
    MaxFiles,   \* bound: files chosen
    MaxPosts,   \* bound: forms submitted
    MaxPages,   \* bound: pages of orders
    MaxActs     \* bound: edits, steps and navigations of the seller

ASSUME SellerPagesAssumption ==
    /\ Countries # {}
    /\ MaxImages \in Nat /\ MaxFiles \in Nat /\ MaxPosts \in Nat
    /\ MaxPages \in Nat \ {0} /\ MaxActs \in Nat

VARIABLES
    route,      \* the page that is open
    wizard,     \* OnboardingProvider and the step it shows
    listing,    \* ListingForm
    dash,       \* SellerDashboard
    net,        \* open requests and conversions
    files,      \* files chosen so far
    held,       \* the documents the server has stored
    posted,     \* what the server was sent, in order
    acts        \* for the bound MaxActs

sellerVars == <<route, wizard, listing, dash, net, files, held, posted, acts>>

-----------------------------------------------------------------------------
None == "none"
Routes == {"onboarding", "dashboard", "listing"}
Steps == {"business", "identity", "payout", "review"}
Kinds == {"identity", "proof_of_address"}
Docs == {"empty", "uploading", "uploaded", "portal-pending", "error"}
Outcomes == {"ok", "pending", "error"}

(* A registration number is the country whose pattern it matches.           *)
Form == [country : Countries, number : Countries, filled : BOOLEAN]
NoForm == [country |-> None, number |-> None, filled |-> FALSE]

(* businessInfoSchema, registrationNumberValid and vatIdFormatValid.        *)
SchemaPasses(f) == f.filled
FormPasses(f) == f.filled /\ f.number = f.country

NoDoc == [file |-> 0, preview |-> FALSE, status |-> "empty"]

FreshWizard ==
    [step |-> "business", form |-> NoForm, info |-> NoForm, logo |-> 0,
     docs |-> [k \in Kinds |-> NoDoc], connect |-> "idle",
     converting |-> FALSE, portalPending |-> FALSE, submitting |-> FALSE,
     outcome |-> "ok"]

Options == {"categories", "profiles"}
FreshListing ==
    [filled |-> FALSE, category |-> FALSE, profile |-> FALSE, images |-> <<>>,
     options |-> [o \in Options |-> "loading"], submitting |-> FALSE,
     outcome |-> "ok"]

Panels == {"stats", "payouts"}
FreshDash ==
    [panels |-> [p \in Panels |-> "loading"], page |-> 1, pages |-> 1,
     rows |-> 0, orders |-> "loading"]

(* A page opens: its effects ask for what it shows.  What the page before   *)
(* asked for has no effect any more, but for the forms being sent and the   *)
(* start of Stripe's onboarding, whose handlers go on to another page.      *)
Loads(r) ==
    CASE r = "dashboard" -> {[kind |-> "panel", of |-> p] : p \in Panels}
                                \cup {[kind |-> "orders", page |-> 1]}
      [] r = "listing" -> {[kind |-> "options", of |-> o] : o \in Options}
      [] OTHER -> {}

Orphans(calls) ==
    {[c EXCEPT !.live = FALSE]
        : c \in {d \in calls : d.kind \in {"post", "connect"}}}

Open(r, calls) ==
    /\ route' = r
    /\ wizard' = FreshWizard
    /\ listing' = FreshListing
    /\ dash' = FreshDash
    /\ net' = Orphans(calls) \cup Loads(r)

Act == acts < MaxActs /\ acts' = acts + 1

ChooseFile == files < MaxFiles /\ files' = files + 1

(* The links of the header and of the dashboard.                            *)
Navigate ==
    /\ Act
    /\ \E r \in Routes \ {route} : Open(r, net)
    /\ UNCHANGED <<files, held, posted>>

-----------------------------------------------------------------------------
(* The wizard.  Every step of the Stepper is a button, so is Back; the step *)
(* that opens starts from the context.                                      *)

AtStep(step) == route = "onboarding" /\ wizard.step = step

ToStep(w, step) ==
    [w EXCEPT !.step = step, !.form = w.info, !.converting = FALSE,
              !.portalPending = FALSE, !.submitting = FALSE, !.outcome = "ok"]

Unbind(c) ==
    CASE c.kind = "post" -> [c EXCEPT !.live = FALSE]
      [] c.kind = "connect" -> [c EXCEPT !.here = FALSE]
      [] OTHER -> c
UnboundAborting(calls) == {Unbind(c) : c \in {d \in calls : d.kind # "upload"}}
Unbound(calls) == {Unbind(c) : c \in calls}

GoToStep ==
    /\ route = "onboarding"
    /\ Act
    /\ \E step \in Steps \ {wizard.step} : wizard' = ToStep(wizard, step)
    /\ net' = Unbound(net)
    /\ UNCHANGED <<route, listing, dash, files, held, posted>>

EditForm ==
    /\ AtStep("business")
    /\ Act
    /\ \E f \in Form : f # wizard.form /\ wizard' = [wizard EXCEPT !.form = f]
    /\ UNCHANGED <<route, listing, dash, net, files, held, posted>>

(* handleSubmit of the business form.                                       *)
SubmitForm ==
    /\ AtStep("business")
    /\ FormPasses(wizard.form)
    /\ wizard' = ToStep([wizard EXCEPT !.info = wizard.form], "identity")
    /\ UNCHANGED <<route, listing, dash, net, files, held, posted, acts>>

(* handleLogo: the conversion ends in the context, whatever step is shown.  *)
ChooseLogo ==
    /\ AtStep("business")
    /\ ~wizard.converting
    /\ ChooseFile
    /\ wizard' = [wizard EXCEPT !.converting = TRUE]
    /\ net' = net \cup {[kind |-> "logo", file |-> files']}
    /\ UNCHANGED <<route, listing, dash, held, posted, acts>>

LogoConverted(c) ==
    /\ c \in net /\ c.kind = "logo"
    /\ net' = net \ {c}
    /\ \E ok \in BOOLEAN :
          wizard' = [wizard EXCEPT !.converting = FALSE,
                                   !.logo = IF ok THEN c.file ELSE wizard.logo]
    /\ UNCHANGED <<route, listing, dash, files, held, posted, acts>>

RemoveLogo ==
    /\ AtStep("business")
    /\ wizard.logo # 0
    /\ Act
    /\ wizard' = [wizard EXCEPT !.logo = 0]
    /\ UNCHANGED <<route, listing, dash, net, files, held, posted>>

SetDoc(k, doc) == wizard' = [wizard EXCEPT !.docs[k] = doc]

(* handleFiles up to its await.  The zone takes a file at all times, while  *)
(* another is on its way too.                                               *)
DropDocument(k) ==
    /\ AtStep("identity")
    /\ ChooseFile
    /\ \/ /\ SetDoc(k, [file |-> files', preview |-> FALSE, status |-> "error"])
          /\ UNCHANGED net                      \* isKycFile
       \/ \E image \in BOOLEAN :
             /\ SetDoc(k, [file |-> files', preview |-> image,
                           status |-> "uploading"])
             /\ net' = net \cup {[kind |-> "upload", of |-> k, file |-> files',
                                  preview |-> image, answer |-> None]}
    /\ UNCHANGED <<route, listing, dash, held, posted, acts>>

ServeUpload(c) ==
    /\ c \in net /\ c.kind = "upload" /\ c.answer = None
    /\ \E a \in Outcomes :
          /\ net' = (net \ {c}) \cup {[c EXCEPT !.answer = a]}
          /\ held' = IF a = "ok" THEN held \cup {c.file} ELSE held
    /\ UNCHANGED <<route, wizard, listing, dash, files, posted, acts>>

(* What handleFiles makes of the answer: a portal that does not exist is    *)
(* not a success.                                                           *)
DocStatusOptimist(answer) == IF answer = "error" THEN "error" ELSE "uploaded"
DocStatus(answer) ==
    CASE answer = "ok" -> "uploaded"
      [] answer = "pending" -> "portal-pending"
      [] OTHER -> "error"

(* The answer, or its loss.                                                 *)
UploadAnswer(c) ==
    /\ c \in net /\ c.kind = "upload" /\ c.answer # None
    /\ net' = net \ {c}
    /\ \E a \in {c.answer, "error"} :
          SetDoc(c.of, [file |-> c.file, preview |-> c.preview,
                        status |-> DocStatus(a)])
    /\ UNCHANGED <<route, listing, dash, files, held, posted, acts>>

(* Remove is there unless the document is on its way.                       *)
MayRemove(doc) == doc.file # 0 /\ doc.status \notin {"uploading", "empty"}

RemoveDocument(k) ==
    /\ AtStep("identity")
    /\ MayRemove(wizard.docs[k])
    /\ Act
    /\ SetDoc(k, NoDoc)
    /\ UNCHANGED <<route, listing, dash, net, files, held, posted>>

(* startConnect: on success the browser leaves for Stripe, and comes back   *)
(* to the dashboard: all that the wizard held is gone.                      *)
StartConnect ==
    /\ AtStep("payout")
    /\ wizard.connect # "redirecting" /\ ~wizard.portalPending
    /\ wizard' = [wizard EXCEPT !.connect = "redirecting"]
    /\ net' = net \cup {[kind |-> "connect", live |-> TRUE, here |-> TRUE]}
    /\ Act
    /\ UNCHANGED <<route, listing, dash, files, held, posted>>

ConnectAnswer(c) ==
    /\ c \in net /\ c.kind = "connect"
    /\ \/ Open("dashboard", {})
       \/ /\ net' = net \ {c}
          /\ \E status \in {"idle", "error"} :
                wizard' = IF ~c.live THEN wizard
                          ELSE [wizard EXCEPT !.connect = status,
                                              !.portalPending = @ \/ (status = "idle"
                                                                       /\ c.here)]
          /\ UNCHANGED <<route, listing, dash>>
    /\ UNCHANGED <<files, held, posted, acts>>

(* A form is sent.                                                          *)
Post(page, body) ==
    /\ Len(posted) < MaxPosts
    /\ posted' = Append(posted, body)
    /\ net' = net \cup {[kind |-> "post", of |-> page, n |-> Len(posted) + 1,
                         live |-> TRUE]}

(* handleSubmit of the review step: without the info there is no button.    *)
SubmitWizard ==
    /\ AtStep("review")
    /\ wizard.info # NoForm
    /\ ~wizard.submitting
    /\ Post("onboarding", [page |-> "onboarding", info |-> wizard.info])
    /\ wizard' = [wizard EXCEPT !.submitting = TRUE, !.outcome = "ok"]
    /\ UNCHANGED <<route, listing, dash, files, held, acts>>

(* The answer: router.push("/seller/dashboard"), from wherever the seller   *)
(* is by then, or the outcome on the page if it is still there.             *)
SubmittingAfter(c) == ~c.live

PostAnswer(c) ==
    /\ c \in net /\ c.kind = "post"
    /\ \/ IF route = "dashboard"
          THEN net' = net \ {c} /\ UNCHANGED <<route, wizard, listing, dash>>
          ELSE Open("dashboard", net \ {c})
       \/ \E outcome \in {"pending", "error"} :
             /\ net' = net \ {c}
             /\ wizard' = IF c.of = "onboarding" /\ c.live
                          THEN [wizard EXCEPT !.outcome = outcome,
                                              !.submitting = SubmittingAfter(c)]
                          ELSE wizard
             /\ listing' = IF c.of = "listing" /\ c.live
                           THEN [listing EXCEPT !.outcome = outcome,
                                                !.submitting = SubmittingAfter(c)]
                           ELSE listing
             /\ UNCHANGED <<route, dash>>
    /\ UNCHANGED <<files, held, posted, acts>>

-----------------------------------------------------------------------------
(* The listing form.                                                        *)

AtListing == route = "listing"

(* useOptions: an error, like a missing endpoint, is shown as a gap.        *)
OptionsAnswer(c) ==
    /\ c \in net /\ c.kind = "options"
    /\ net' = net \ {c}
    /\ \E state \in {"ready", "gap"} : listing' = [listing EXCEPT !.options[c.of] = state]
    /\ UNCHANGED <<route, wizard, dash, files, held, posted, acts>>

(* Titles, price, stock and description; the two selects are disabled until *)
(* their options are there.                                                 *)
Offered(of) == listing.options[of] = "ready"

EditListing ==
    /\ AtListing
    /\ Act
    /\ \/ listing' = [listing EXCEPT !.filled = ~listing.filled]
       \/ Offered("categories") /\ listing' = [listing EXCEPT !.category = TRUE]
       \/ Offered("profiles") /\ listing' = [listing EXCEPT !.profile = TRUE]
    /\ UNCHANGED <<route, wizard, dash, net, files, held, posted>>

(* Array.slice(0, room), where a negative room counts from the end.         *)
Slice(s, room) ==
    SubSeq(s, 1, IF room >= 0 THEN (IF room < Len(s) THEN room ELSE Len(s))
                 ELSE Len(s) + room)

(* addFiles up to its first await: the room is of the images shown now, not *)
(* of those other batches are still converting.                             *)
AddFiles ==
    /\ AtListing
    /\ \E k \in 1 .. MaxFiles - files :
          LET batch == Slice([i \in 1 .. k |-> files + i],
                             MaxImages - Len(listing.images)) IN
          /\ files' = files + k
          /\ net' = IF batch = <<>> THEN net
                    ELSE net \cup {[kind |-> "convert", batch |-> batch]}
    /\ UNCHANGED <<route, wizard, listing, dash, held, posted, acts>>

(* One file of a batch is converted and appended; a failure ends the batch. *)
Converted(c) ==
    /\ c \in net /\ c.kind = "convert"
    /\ \/ /\ listing' = [listing EXCEPT !.images = Append(@, Head(c.batch))]
          /\ net' = (net \ {c}) \cup
                    (IF Len(c.batch) = 1 THEN {}
                     ELSE {[c EXCEPT !.batch = Tail(c.batch)]})
       \/ net' = net \ {c} /\ UNCHANGED listing
    /\ UNCHANGED <<route, wizard, dash, files, held, posted, acts>>

(* moveImage: the two splices.  Moved to the end of the list, an image has  *)
(* no place after the last.                                                 *)
Moved(s, from, to) == InsertAt(RemoveAt(s, from), to, s[from])

MoveImage ==
    /\ AtListing
    /\ Act
    /\ \E from, to \in 1 .. Len(listing.images) :
          /\ from # to
          /\ listing' = [listing EXCEPT !.images = Moved(@, from, to)]
    /\ UNCHANGED <<route, wizard, dash, net, files, held, posted>>

RemoveImage ==
    /\ AtListing
    /\ Act
    /\ \E i \in 1 .. Len(listing.images) :
          listing' = [listing EXCEPT !.images = RemoveAt(@, i)]
    /\ UNCHANGED <<route, wizard, dash, net, files, held, posted>>

(* handleSubmit, with listingSchema; what is sent are the images of now.    *)
SubmitListing ==
    /\ AtListing
    /\ ~listing.submitting
    /\ \A o \in Options : listing.options[o] # "loading"
    /\ listing.filled /\ listing.category /\ listing.profile
    /\ Post("listing", [page |-> "listing", images |-> listing.images,
                        offered |-> {listing.options[o] : o \in Options}])
    /\ listing' = [listing EXCEPT !.submitting = TRUE, !.outcome = "ok"]
    /\ UNCHANGED <<route, wizard, dash, files, held, acts>>

-----------------------------------------------------------------------------
(* The dashboard.                                                           *)

PanelAnswer(c) ==
    /\ c \in net /\ c.kind = "panel"
    /\ net' = net \ {c}
    /\ \E s \in {"ready", "gap", "error"} :
          dash' = [dash EXCEPT !.panels[c.of] = s]
    /\ UNCHANGED <<route, wizard, listing, files, held, posted, acts>>

(* The pager, clamped to the pages there are, and the effect of             *)
(* RecentOrders.  No request is open while the pager shows, so there is     *)
(* none for the cleanup to cancel.                                          *)
Turns(page, pages) == {page - 1, page + 1} \cap (1 .. pages)

TurnPage ==
    /\ route = "dashboard"
    /\ dash.orders = "ready"
    /\ Act
    /\ \E p \in Turns(dash.page, dash.pages) :
          /\ dash' = [dash EXCEPT !.page = p, !.orders = "loading"]
          /\ net' = net \cup {[kind |-> "orders", page |-> p]}
    /\ UNCHANGED <<route, wizard, listing, files, held, posted>>

(* The number of the page is put beside "params", where openapi-fetch does  *)
(* not look for a query: the server is not told, and serves its first.      *)
Served(page) == 1

OrdersAnswer(c) ==
    /\ c \in net /\ c.kind = "orders"
    /\ net' = net \ {c}
    /\ \/ \E n \in 1 .. MaxPages :
             dash' = [dash EXCEPT !.rows = Served(c.page), !.pages = n,
                                  !.orders = "ready"]
       \/ \E s \in {"gap", "error"} : dash' = [dash EXCEPT !.orders = s]
    /\ UNCHANGED <<route, wizard, listing, files, held, posted, acts>>

-----------------------------------------------------------------------------
SellerInit ==
    /\ route \in Routes
    /\ wizard = FreshWizard /\ listing = FreshListing /\ dash = FreshDash
    /\ net = Loads(route)
    /\ files = 0 /\ held = {} /\ posted = <<>> /\ acts = 0

Answers ==
    \E c \in net : \/ LogoConverted(c) \/ ServeUpload(c) \/ UploadAnswer(c)
                   \/ ConnectAnswer(c) \/ PostAnswer(c) \/ OptionsAnswer(c)
                   \/ Converted(c) \/ PanelAnswer(c) \/ OrdersAnswer(c)

SellerNext ==
    \/ Navigate \/ GoToStep \/ EditForm \/ SubmitForm \/ ChooseLogo \/ RemoveLogo
    \/ \E k \in Kinds : DropDocument(k) \/ RemoveDocument(k)
    \/ StartConnect \/ SubmitWizard
    \/ EditListing \/ AddFiles \/ MoveImage \/ RemoveImage \/ SubmitListing
    \/ TurnPage
    \/ Answers

SellerSpec == SellerInit /\ [][SellerNext]_sellerVars

-----------------------------------------------------------------------------
(* The types of the state.                                                  *)
SellerTypeOK ==
    /\ route \in Routes
    /\ wizard.step \in Steps
    /\ wizard.form \in Form \cup {NoForm} /\ wizard.info \in Form \cup {NoForm}
    /\ \A k \in Kinds : wizard.docs[k] \in
          [file : 0 .. MaxFiles, preview : BOOLEAN, status : Docs]
    /\ wizard.logo \in 0 .. MaxFiles
    /\ \A i \in 1 .. Len(listing.images) : listing.images[i] \in 1 .. MaxFiles
    /\ dash.page \in 1 .. MaxPages /\ dash.rows \in 0 .. MaxPages
    /\ held \subseteq 1 .. MaxFiles
    /\ Len(posted) <= MaxPosts

(* A document shown as uploaded is one the server stored: "we never claim a *)
(* KYC document was received" (kyc-upload.tsx), in whatever order the       *)
(* answers of several files of one zone arrive.                             *)
UploadedIsHeld ==
    \A k \in Kinds : wizard.docs[k].status = "uploaded" =>
                        wizard.docs[k].file \in held

(* A document shown as on its way is: no step back, removal or answer of    *)
(* another file leaves a zone waiting for nothing.                          *)
UploadingIsPending ==
    \A k \in Kinds : wizard.docs[k].status = "uploading" =>
        \E c \in net : c.kind = "upload" /\ c.file = wizard.docs[k].file

(* A submit button is disabled only while its own request is open.          *)
SubmittingIsOpen ==
    \A page \in {"onboarding", "listing"} :
        (IF page = "listing" THEN listing.submitting ELSE wizard.submitting) =>
            \E c \in net : c.kind = "post" /\ c.of = page /\ c.live

(* No image of the list is lost or doubled by reordering while batches      *)
(* still append: they are different files.                                  *)
ImagesAreDistinct == IsInjective(listing.images)

(* What is sent passed the checks of its form.  Whatever path through the   *)
(* free stepper led to the review step, the business data is complete and   *)
(* its number fits its country.  A listing has different images, and its    *)
(* choices are from options that did load: "we never show invented          *)
(* categories/profiles" (listing-form.tsx).                                 *)
SubmittedIsValid ==
    \A n \in 1 .. Len(posted) :
        \/ /\ posted[n].page = "onboarding"
           /\ posted[n].info.filled
           /\ posted[n].info.number = posted[n].info.country
        \/ /\ posted[n].page = "listing"
           /\ posted[n].offered = {"ready"}
           /\ IsInjective(posted[n].images)

(* The state has its types, nothing waits for a request that is not open,   *)
(* and the images are different.                                            *)
SellerPagesInv ==
    SellerTypeOK /\ UploadingIsPending /\ SubmittingIsOpen /\ ImagesAreDistinct
=============================================================================
