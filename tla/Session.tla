------------------------------- MODULE Session -------------------------------
(***************************************************************************)
(* Sign-in and sign-out in the browser: the gate in front of the protected  *)
(* pages, the login and registration forms, the menu with the cached        *)
(* session, the order history, and the client's answer to a 401.  The tabs  *)
(* share the session cookie; each keeps its own cache of who is signed in,  *)
(* refreshed by a probe on load, on focus and after a sign-in or sign-out.  *)
(*                                                                          *)
(* The backend serves a request in one step and its answer arrives in a     *)
(* later one, or never.                                                     *)
(***************************************************************************)
EXTENDS Integers, FiniteSets

CONSTANTS
    Tabs,       \* browser tabs of one visitor
    Users,      \* accounts the visitor has
    Keys,       \* bound: session keys of an account that are told apart
    MaxActs     \* bound: what the visitor does

ASSUME SessionAssumption ==
    /\ MaxActs \in Nat
    /\ Users \cap {"nobody", "unknown", "unserved", "ok", "refused", "unauthorized"} = {}

VARIABLES
    jar,        \* the session cookie
    alive,      \* the sessions the server holds
    page,       \* per tab: the page shown
    cached,     \* per tab: the cached answer of the session query
    form,       \* per tab: pending and locked of the form shown
    orders,     \* per tab: the order history shown
    net,        \* requests on their way
    round,      \* per tab: a bit that flips when the session query starts anew
    seen,       \* per tab: who was signed in since then, or that a session ended
    kept,       \* per tab: the last probe failed and the cache was kept
    failed,     \* per tab: an attempt failed less than LOCK_MS ago
    visited,    \* per tab: a form or a protected page was used since it opened
    acts        \* for the bound MaxActs

server == <<jar, alive>>
vars == <<jar, alive, page, cached, form, orders, net, round, seen, kept,
          failed, visited, acts>>

-----------------------------------------------------------------------------
Nobody == "nobody"
Unknown == "unknown"
Identities == Users \cup {Nobody}

Sessions == [user : Users, key : Keys]
NoCookie == [user |-> Nobody, key |-> 0]
Cookies == Sessions \cup {NoCookie}

Protected == {"account"}
OpenPages == {"home", "login", "register"} \cup Protected
Kinds == {"probe", "login", "confirm", "logout", "orders", "register"}

(* What an answer says; "unserved" while the backend has not read it.       *)
Bodies == {"unserved", "ok", "refused", "unauthorized"} \cup Identities

NewForm == [pending |-> FALSE, locked |-> FALSE]

(* A request carries the cookie of its time.  Its owner is the view that    *)
(* asked, the page once the view is left, nobody once the page is gone.     *)
(* The flows that await a probe are in "then"; a probe they joined rather   *)
(* than started may have been served before them.                           *)
Request(t, kind, user) ==
    [tab |-> t, kind |-> kind, cookie |-> jar, user |-> user, then |-> {},
     joined |-> FALSE, body |-> "unserved", owner |-> "view"]
Probe(t) == Request(t, "probe", Nobody)
Probing(t) == {r \in net : r.tab = t /\ r.kind = "probe"}

(* Whose session a cookie names, as the server sees it now.                 *)
Owner(cookie) == IF cookie \in alive THEN cookie.user ELSE Nobody
Identity == Owner(jar)

(* A session of u that no cookie, no request and not the server names yet.  *)
NewSessions(u) ==
    {s \in Sessions : s.user = u} \ (alive \cup {jar} \cup {r.cookie : r \in net})
NewSession(u) == CHOOSE s \in NewSessions(u) : TRUE

Act == acts < MaxActs /\ acts' = acts + 1

Owns(r, t) == r.tab = t /\ r.owner = "view"

(* A page is left: its flows go on, without their view.                     *)
Leave(t, pending) ==
    {IF Owns(r, t) /\ r.kind # "probe" THEN [r EXCEPT !.owner = "page"] ELSE r
        : r \in pending}

(* The page is unloaded: only what the server may do for it is left.        *)
Unload(t, pending) ==
    {IF r.tab = t THEN [r EXCEPT !.owner = "nobody"] ELSE r
        : r \in {q \in pending : q.tab # t \/ q.kind \in {"login", "logout"}}}

-----------------------------------------------------------------------------
(* Loads and navigation.                                                    *)

(* The gate of the middleware: the cookie's presence, not its validity.     *)
Gated(p) == IF p \in Protected /\ jar = NoCookie THEN "login" ELSE p

OrdersFor(t, p) ==
    IF p = "account" THEN {Request(t, "orders", Nobody)} ELSE {}

(* A full load of a page: everything in the tab starts anew.                *)
FullLoad(t, p, pending) ==
    /\ page' = [page EXCEPT ![t] = p]
    /\ cached' = [cached EXCEPT ![t] = Unknown]
    /\ form' = [form EXCEPT ![t] = NewForm]
    /\ orders' = [orders EXCEPT ![t] = Nobody]
    /\ net' = Unload(t, pending) \cup OrdersFor(t, p)
                  \cup {Probe(t)}
    /\ round' = [round EXCEPT ![t] = ~@]
    /\ kept' = [kept EXCEPT ![t] = FALSE]

(* A navigation by the router: the cache of the session stays.              *)
Push(t, p, pending) ==
    /\ page' = [page EXCEPT ![t] = p]
    /\ form' = [form EXCEPT ![t] = NewForm]
    /\ orders' = [orders EXCEPT ![t] = Nobody]
    /\ net' = pending \cup OrdersFor(t, p)

Open(t, p) ==
    /\ Act
    /\ FullLoad(t, Gated(p), net)
    /\ visited' = [visited EXCEPT ![t] = p \in Protected]
    /\ UNCHANGED <<server, failed>>

Go(t, p) ==
    /\ Act
    /\ page[t] \in OpenPages \ {p}
    /\ Push(t, Gated(p), Leave(t, net))
    /\ visited' = [visited EXCEPT ![t] = @ \/ p # "home"]
    /\ UNCHANGED <<server, cached, round, kept, failed>>

(* The window regains focus: the session is probed, unless it is already.   *)
Focus(t) ==
    /\ Act
    /\ page[t] \in OpenPages
    /\ Probing(t) = {}
    /\ net' = net \cup {Probe(t)}
    /\ UNCHANGED <<server, page, cached, form, orders, round, kept, failed, visited>>

-----------------------------------------------------------------------------
(* The forms and the menu.                                                  *)

(* handleSubmit of the login form.                                          *)
Submit(t, u) ==
    /\ Act
    /\ page[t] = "login"
    /\ ~form[t].pending /\ ~form[t].locked
    /\ form' = [form EXCEPT ![t].pending = TRUE]
    /\ net' = net \cup {Request(t, "login", u)}
    /\ visited' = [visited EXCEPT ![t] = TRUE]
    /\ UNCHANGED <<server, page, cached, orders, round, kept, failed>>

(* handleSubmit of the registration form.                                   *)
Register(t) ==
    /\ Act
    /\ page[t] = "register"
    /\ ~form[t].pending
    /\ form' = [form EXCEPT ![t].pending = TRUE]
    /\ net' = net \cup {Request(t, "register", Nobody)}
    /\ visited' = [visited EXCEPT ![t] = TRUE]
    /\ UNCHANGED <<server, page, cached, orders, round, kept, failed>>

(* handleLogout, offered while the menu shows a user.                       *)
Logout(t) ==
    /\ Act
    /\ page[t] \in OpenPages
    /\ cached[t] \in Users
    /\ net' = net \cup {Request(t, "logout", Nobody)}
    /\ visited' = [visited EXCEPT ![t] = TRUE]
    /\ UNCHANGED <<server, page, cached, form, orders, round, kept, failed>>

(* LOCK_MS after a failed attempt.                                          *)
Unlock(t) ==
    /\ failed[t]
    /\ failed' = [failed EXCEPT ![t] = FALSE]
    /\ form' = [form EXCEPT ![t].locked = FALSE]
    /\ UNCHANGED <<server, page, cached, orders, net, round, kept, visited, acts>>

-----------------------------------------------------------------------------
(* The backend.                                                             *)

Served(r, body) == net' = (net \ {r}) \cup {[r EXCEPT !.body = body]}

(* A sign-in ends the session it came with and answers with a new one.      *)
SignedIn(r) ==
    /\ NewSessions(r.user) # {}
    /\ net' = (net \ {r}) \cup {[r EXCEPT !.body = "ok", !.cookie = NewSession(r.user)]}
    /\ alive' = (alive \ {r.cookie}) \cup {NewSession(r.user)}

(* Only the session of the request decides.                                 *)
Serve(r) ==
    /\ r.body = "unserved"
    /\ \/ /\ r.kind \in {"probe", "confirm"}
          /\ Served(r, Owner(r.cookie))
          /\ alive' = alive
       \/ /\ r.kind = "orders"
          /\ Served(r, IF r.cookie \in alive THEN r.cookie.user ELSE "unauthorized")
          /\ alive' = alive
       \/ /\ r.kind = "login"
          /\ \/ SignedIn(r)
             \/ Served(r, "unauthorized") /\ alive' = alive
       \/ /\ r.kind = "logout"
          /\ Served(r, "ok") /\ alive' = alive \ {r.cookie}
       \/ /\ r.kind = "register"
          /\ Served(r, "ok") /\ alive' = alive
       \/ Served(r, "refused") /\ alive' = alive
    /\ UNCHANGED <<jar, page, cached, form, orders, round, kept, failed,
                   visited, acts>>

Expire(s) ==
    /\ Act
    /\ s \in alive
    /\ alive' = alive \ {s}
    /\ UNCHANGED <<jar, page, cached, form, orders, net, round, kept, failed, visited>>

-----------------------------------------------------------------------------
(* Answers.                                                                 *)

(* invalidateQueries: a fetch under way is given up for a new one, unless   *)
(* it is the first, which is joined.  A flow that awaited the old fetch     *)
(* awaits the new one.                                                      *)
ConvergeJoining(t, flow, pending, cookie) ==
    LET old == {r \in pending : r.tab = t /\ r.kind = "probe"}
    IN IF old # {}
       THEN (pending \ old) \cup {[r EXCEPT !.then = @ \cup {flow}] : r \in old}
       ELSE pending \cup {[Probe(t) EXCEPT !.then = {flow}, !.cookie = cookie]}
Converge(t, flow, pending, cookie) ==
    LET old == {r \in pending : r.tab = t /\ r.kind = "probe"}
    IN IF old # {} /\ cached[t] = Unknown
       THEN (pending \ old) \cup
            {[r EXCEPT !.then = @ \cup {flow}, !.joined = TRUE] : r \in old}
       ELSE (pending \ old) \cup
            {[Probe(t) EXCEPT !.then = {flow} \cup UNION {r.then : r \in old},
                              !.cookie = cookie]}

(* The client middleware: a 401 loads the login page afresh, but for the    *)
(* session's own address, where it is an answer.                            *)
ExemptNone == {}
Exempt == {"probe", "confirm"}
Bounced(r, says) == says = "unauthorized" \/ (says = Nobody /\ r.kind \notin Exempt)

RedirectToLogin(r) ==
    /\ FullLoad(r.tab, "login", net \ {r})
    /\ failed' = [failed EXCEPT ![r.tab] = @ \/ r.kind = "login"]
    /\ UNCHANGED <<server, visited>>

(* The catch of handleSubmit: an error is shown and the form is locked.     *)
FormAfterErrorPending(r) ==
    IF r.owner = "view" THEN [form EXCEPT ![r.tab].locked = TRUE] ELSE form
FormAfterError(r) ==
    IF r.owner = "view"
    THEN [form EXCEPT ![r.tab] = [pending |-> FALSE, locked |-> r.kind # "register"]]
    ELSE form

AttemptFails(r) ==
    /\ form' = FormAfterError(r)
    /\ failed' = [failed EXCEPT ![r.tab] = @ \/ (r.owner = "view" /\ r.kind # "register")]
    /\ net' = net \ {r}
    /\ UNCHANGED <<server, page, cached, orders, round, kept, visited>>

(* login: the cookie is set, and the session is fetched with it.            *)
LoginAnswer(r, says) ==
    \/ /\ says = "ok"
       /\ jar' = r.cookie
       /\ net' = (net \ {r}) \cup
              {[Request(r.tab, "confirm", r.user) EXCEPT !.cookie = r.cookie,
                                                         !.owner = r.owner]}
       /\ UNCHANGED <<alive, page, cached, form, orders, round, kept, failed, visited>>
    \/ says = "refused" /\ AttemptFails(r)

ConfirmAnswer(r, says) ==
    \/ /\ says \in Users
       /\ net' = Converge(r.tab, "login", net \ {r}, jar)
       /\ round' = [round EXCEPT ![r.tab] = ~@]
       /\ UNCHANGED <<server, page, cached, form, orders, kept, failed, visited>>
    \/ says \notin Users /\ AttemptFails(r)

(* Whether it worked or not, the session is fetched anew.                   *)
LogoutAnswer(r, says) ==
    /\ jar' = IF says = "ok" THEN NoCookie ELSE jar
    /\ net' = Converge(r.tab, "logout", net \ {r}, jar')
    /\ round' = [round EXCEPT ![r.tab] = ~@]
    /\ UNCHANGED <<alive, page, cached, form, orders, kept, failed, visited>>

(* The flows that awaited the probe go on: a sign-in to the protected page, *)
(* a sign-out with a refresh, which passes the gate again.                  *)
Refreshed(t) == Gated(page[t])

ProbeAnswer(r, says) ==
    /\ cached' = IF says \in Identities THEN [cached EXCEPT ![r.tab] = says] ELSE cached
    /\ kept' = [kept EXCEPT ![r.tab] = says \notin Identities \/ r.joined]
    /\ CASE "login" \in r.then -> Push(r.tab, Gated("account"), Leave(r.tab, net \ {r}))
         [] r.then = {"logout"} /\ Refreshed(r.tab) # page[r.tab] ->
                Push(r.tab, Refreshed(r.tab), Leave(r.tab, net \ {r}))
         [] OTHER -> net' = net \ {r} /\ UNCHANGED <<page, form, orders>>
    /\ UNCHANGED <<server, round, failed, visited>>

OrdersAnswer(r, says) ==
    \/ /\ says \in Users
       /\ orders' = IF r.owner = "view" THEN [orders EXCEPT ![r.tab] = says] ELSE orders
       /\ net' = net \ {r}
       /\ UNCHANGED <<server, page, cached, form, round, kept, failed, visited>>
    \/ /\ says = "refused"
       /\ net' = net \ {r}
       /\ UNCHANGED <<server, page, cached, form, orders, round, kept, failed, visited>>

RegisterAnswer(r, says) ==
    \/ /\ says = "ok"
       /\ Push(r.tab, "login", Leave(r.tab, net \ {r}))
       /\ UNCHANGED <<server, cached, round, kept, failed, visited>>
    \/ says = "refused" /\ AttemptFails(r)

(* The answer arrives, or is lost on its way there or back.                 *)
Arrive(r) ==
    \E says \in {r.body, "refused"} \ {"unserved"} :
        /\ IF r.owner = "nobody"
           THEN /\ net' = net \ {r}
                /\ UNCHANGED <<server, page, cached, form, orders, round, kept,
                               failed, visited>>
           ELSE IF Bounced(r, says) THEN RedirectToLogin(r)
           ELSE \/ r.kind = "login" /\ LoginAnswer(r, says)
                \/ r.kind = "confirm" /\ ConfirmAnswer(r, says)
                \/ r.kind = "logout" /\ LogoutAnswer(r, says)
                \/ r.kind = "probe" /\ ProbeAnswer(r, says)
                \/ r.kind = "orders" /\ OrdersAnswer(r, says)
                \/ r.kind = "register" /\ RegisterAnswer(r, says)
        /\ UNCHANGED acts

-----------------------------------------------------------------------------
Init ==
    /\ jar = NoCookie
    /\ alive = {}
    /\ page = [t \in Tabs |-> "closed"]
    /\ cached = [t \in Tabs |-> Unknown]
    /\ form = [t \in Tabs |-> NewForm]
    /\ orders = [t \in Tabs |-> Nobody]
    /\ net = {}
    /\ round = [t \in Tabs |-> FALSE]
    /\ seen = [t \in Tabs |-> {Nobody}]
    /\ kept = [t \in Tabs |-> FALSE]
    /\ failed = [t \in Tabs |-> FALSE]
    /\ visited = [t \in Tabs |-> FALSE]
    /\ acts = 0

ServeSome == \E r \in net : Serve(r)
ArriveSome == \E r \in net : Arrive(r)

(* Who is signed in is noted for every tab, from its last new round on;     *)
(* and nobody is, for the cookies of a session that ended.                  *)
Observe ==
    seen' = [t \in Tabs |->
                {Identity'} \cup {Nobody : s \in alive \ alive'}
                    \cup (IF round'[t] = round[t] THEN seen[t] ELSE {})]

Next ==
    \/ ServeSome /\ Observe
    \/ ArriveSome /\ Observe
    \/ \E s \in Sessions : Expire(s) /\ Observe
    \/ \E t \in Tabs :
        \/ \E p \in OpenPages : Open(t, p) /\ Observe
        \/ \E p \in OpenPages : Go(t, p) /\ Observe
        \/ Focus(t) /\ Observe
        \/ \E u \in Users : Submit(t, u) /\ Observe
        \/ Register(t) /\ Observe
        \/ Logout(t) /\ Observe
        \/ Unlock(t) /\ Observe

Spec == Init /\ [][Next]_vars

(* The backend serves what reaches it, fetch settles, and the timer fires.  *)
FairSpec ==
    /\ Spec
    /\ WF_vars(ServeSome /\ Observe)
    /\ \A t \in Tabs : WF_vars((\E r \in net : r.tab = t /\ Arrive(r)) /\ Observe)

-----------------------------------------------------------------------------
Flow(r) == r.kind \in {"login", "confirm", "register"}

(* Every variable has its type; a tab has at most one probe under way.      *)
TypeOK ==
    /\ jar \in Cookies
    /\ alive \subseteq Sessions
    /\ page \in [Tabs -> OpenPages \cup {"closed"}]
    /\ cached \in [Tabs -> Identities \cup {Unknown}]
    /\ form \in [Tabs -> [pending : BOOLEAN, locked : BOOLEAN]]
    /\ orders \in [Tabs -> Identities]
    /\ \A r \in net : /\ r.tab \in Tabs /\ r.kind \in Kinds /\ r.body \in Bodies
                      /\ r.cookie \in Cookies /\ r.user \in Identities
                      /\ r.then \subseteq {"login", "logout"}
                      /\ r.owner \in {"view", "page", "nobody"}
    /\ \A t \in Tabs : Cardinality({r \in net : r.tab = t /\ r.kind = "probe"}) <= 1
    /\ seen \in [Tabs -> SUBSET Identities]
    /\ round \in [Tabs -> BOOLEAN] /\ kept \in [Tabs -> BOOLEAN]
    /\ failed \in [Tabs -> BOOLEAN] /\ visited \in [Tabs -> BOOLEAN]
    /\ acts \in 0 .. MaxActs

(* Once the probe after a sign-in or sign-out has answered, whom the menu   *)
(* shows was signed in since then, and it shows nobody only when nobody was *)
(* or a session ended: an answer served before never comes back over it,    *)
(* unless that probe was joined or failed.                                  *)
ConvergedIdentity ==
    \A t \in Tabs :
        \/ kept[t] \/ cached[t] = Unknown
        \/ \E r \in Probing(t) : r.then # {}
        \/ cached[t] \in seen[t]

(* A form that is pending has its one attempt, or the probe that ends it,   *)
(* under way: it is never left disabled by an answer that came.             *)
PendingIsRunning ==
    \A t \in Tabs :
        /\ form[t].pending =>
               \E r \in net : Owns(r, t) /\ (Flow(r) \/ "login" \in r.then)
        /\ ~form[t].pending => ~\E r \in net : Owns(r, t) /\ Flow(r)

(* A visitor who only looks at the open page is never sent to the login     *)
(* page by a 401: probing the session is not a private request.             *)
GuestStaysHome ==
    [][\A t \in Tabs : page[t] = "home" /\ ~visited[t]
           => page'[t] # "login" \/ visited'[t] \/ acts' # acts]_vars

(* An attempt to sign in or register always comes to an end.                *)
AttemptEnds ==
    \A t \in Tabs : form[t].pending ~> ~form[t].pending

(* A sign-out takes the tab off the account page and its orders, or the     *)
(* cookie is still there.                                                   *)
LogoutLeavesAccount ==
    \A t \in Tabs :
        (\E r \in net : Owns(r, t) /\ r.kind = "logout")
            ~> (page[t] # "account" \/ jar # NoCookie)

(* The state has its types, and no form waits for nothing.                  *)
SessionInv == TypeOK /\ PendingIsRunning

(* Signing in, registering and signing out come to an end.                  *)
EveryAttemptEnds == AttemptEnds /\ LogoutLeavesAccount
=============================================================================
