---------------------------- MODULE SessionProofs ----------------------------
(***************************************************************************)
(* Proofs about Session: a tab has one probe and one attempt under way, a   *)
(* form is pending exactly while its attempt runs, what the menu shows was  *)
(* true since the last sign-in or sign-out, and a visitor who only looks at *)
(* the home page is not sent to the login page, for any tabs, accounts and  *)
(* session keys.                                                            *)
(***************************************************************************)
EXTENDS Session, FiniteSetTheorems, TLAPS

Flows == {"login", "logout"}
RequestType ==
    [tab : Tabs, kind : Kinds, cookie : Cookies, user : Identities,
     then : SUBSET Flows, joined : BOOLEAN, body : Bodies,
     owner : {"view", "page", "nobody"}]

(* A request is typed; flows await probes only, and a probe is the view's.  *)
RequestOK(r) ==
    /\ r \in RequestType
    /\ r.kind # "probe" => r.then = {}
    /\ r.kind = "probe" => r.owner = "view" /\ r.body \in {"unserved", "refused"} \cup Identities
    /\ r.kind = "login" => r.user \in Users
AllOK(N) == \A r \in N : RequestOK(r)

ProbesOf(N, t) == {r \in N : r.tab = t /\ r.kind = "probe"}
OneProbe(N) == \A r, q \in N : r.kind = "probe" /\ q.kind = "probe" /\ r.tab = q.tab => r = q
Attempt(r, t) == Owns(r, t) /\ Flow(r)
OneAttempt(N) == \A r, q \in N : \A t \in Tabs : Attempt(r, t) /\ Attempt(q, t) => r = q

(* The variables but the requests have their types.                         *)
Types ==
    /\ jar \in Cookies
    /\ alive \subseteq Sessions
    /\ page \in [Tabs -> OpenPages \cup {"closed"}]
    /\ cached \in [Tabs -> Identities \cup {Unknown}]
    /\ form \in [Tabs -> [pending : BOOLEAN, locked : BOOLEAN]]
    /\ orders \in [Tabs -> Identities]
    /\ seen \in [Tabs -> SUBSET Identities]
    /\ round \in [Tabs -> BOOLEAN] /\ kept \in [Tabs -> BOOLEAN]
    /\ failed \in [Tabs -> BOOLEAN] /\ visited \in [Tabs -> BOOLEAN]
    /\ acts \in 0 .. MaxActs

(* The two halves of PendingIsRunning, for one tab.                         *)
Running(t) == \E r \in net : Owns(r, t) /\ (Flow(r) \/ "login" \in r.then)
Attempting(t) == \E r \in net : Attempt(r, t)
PendingOK(t) ==
    /\ form[t].pending => Running(t)
    /\ ~form[t].pending => ~Attempting(t)

(* ConvergedIdentity for one tab.                                           *)
Converging(t) == \E r \in net : r.tab = t /\ r.kind = "probe" /\ r.then # {}
Converged(t) == kept[t] \/ cached[t] = Unknown \/ Converging(t) \/ cached[t] \in seen[t]

(* A probe that was not joined says what is or was true since the last      *)
(* round, or will: its session's owner was signed in, or the session ended. *)
ProbeOK(r) ==
    r.kind = "probe" /\ ~r.joined =>
        IF r.body = "unserved" THEN Owner(r.cookie) \in seen[r.tab]
        ELSE r.body \in Identities => r.body \in seen[r.tab]

(* Until the visitor uses a form, a tab only probes.                        *)
GuestOK(r) ==
    visited[r.tab] \/ r.owner = "nobody" \/ (r.kind = "probe" /\ r.then = {})

IInv ==
    /\ Types
    /\ AllOK(net)
    /\ OneProbe(net)
    /\ OneAttempt(net)
    /\ \A t \in Tabs : PendingOK(t)
    /\ \A r \in net : ProbeOK(r)
    /\ \A r \in net : GuestOK(r)
    /\ \A t \in Tabs : Converged(t)

-----------------------------------------------------------------------------
(* Requests and sets of requests.                                           *)

LEMMA RequestIsOK ==
    ASSUME NEW t \in Tabs, NEW k \in Kinds, NEW u \in Identities, jar \in Cookies,
           k = "login" => u \in Users
    PROVE  /\ RequestOK(Request(t, k, u))
           /\ Request(t, k, u).tab = t /\ Request(t, k, u).kind = k
           /\ Request(t, k, u).cookie = jar /\ Request(t, k, u).then = {}
           /\ Request(t, k, u).joined = FALSE /\ Request(t, k, u).body = "unserved"
           /\ Request(t, k, u).owner = "view"
    BY DEF Request, RequestOK, RequestType, Bodies

LEMMA ProbeIsOK ==
    ASSUME NEW t \in Tabs, jar \in Cookies
    PROVE  /\ RequestOK(Probe(t))
           /\ Probe(t).tab = t /\ Probe(t).kind = "probe"
           /\ Probe(t).cookie = jar /\ Probe(t).then = {}
           /\ Probe(t).joined = FALSE /\ Probe(t).body = "unserved"
           /\ Probe(t).owner = "view"
<1>1. "probe" \in Kinds /\ Nobody \in Identities
      BY DEF Kinds, Identities
<1>. QED BY <1>1 DEF Probe, Request, RequestOK, RequestType, Bodies

LEMMA OrdersAreOK ==
    ASSUME NEW t \in Tabs, NEW p, jar \in Cookies
    PROVE  \A x \in OrdersFor(t, p) :
              /\ RequestOK(x) /\ x.tab = t /\ x.kind = "orders" /\ x.owner = "view"
              /\ x.then = {} /\ p = "account"
<1>1. "orders" \in Kinds /\ Nobody \in Identities
      BY DEF Kinds, Identities
<1>2. ASSUME NEW x, x = Request(t, "orders", Nobody)
      PROVE  RequestOK(x) /\ x.tab = t /\ x.kind = "orders" /\ x.owner = "view" /\ x.then = {}
      BY <1>1, <1>2 DEF Request, RequestOK, RequestType, Bodies
<1>. QED BY <1>2 DEF OrdersFor

(* A view that is left keeps its requests, as the page's.                   *)
LEMMA LeaveFacts ==
    ASSUME NEW t \in Tabs, NEW N, AllOK(N)
    PROVE  /\ AllOK(Leave(t, N))
           /\ \A x \in Leave(t, N) :
                 \/ x \in N /\ (Owns(x, t) => x.kind = "probe")
                 \/ /\ x.tab = t /\ x.owner = "page" /\ x.kind # "probe"
                    /\ \E r \in N : r.tab = t /\ r.owner = "view" /\ r.kind # "probe"
           /\ \A r \in N : r.tab # t \/ r.kind = "probe" => r \in Leave(t, N)
<1>1. ASSUME NEW x \in Leave(t, N)
      PROVE  /\ RequestOK(x)
             /\ \/ x \in N /\ (Owns(x, t) => x.kind = "probe")
                \/ /\ x.tab = t /\ x.owner = "page" /\ x.kind # "probe"
                   /\ \E r \in N : r.tab = t /\ r.owner = "view" /\ r.kind # "probe"
  <2>1. PICK r \in N : x = IF Owns(r, t) /\ r.kind # "probe"
                           THEN [r EXCEPT !.owner = "page"] ELSE r
        BY <1>1 DEF Leave
  <2>2. RequestOK(r)
        BY DEF AllOK
  <2>3. CASE Owns(r, t) /\ r.kind # "probe"
        BY <2>1, <2>2, <2>3 DEF RequestOK, RequestType, Owns
  <2>4. CASE ~(Owns(r, t) /\ r.kind # "probe")
        BY <2>1, <2>2, <2>4
  <2>. QED BY <2>3, <2>4
<1>2. \A r \in N : r.tab # t \/ r.kind = "probe" => r \in Leave(t, N)
      BY DEF Leave, Owns
<1>. QED BY <1>1, <1>2 DEF AllOK

(* A page that is unloaded leaves sign-ins and sign-outs, which are nobody's. *)
LEMMA UnloadFacts ==
    ASSUME NEW t \in Tabs, NEW N, AllOK(N)
    PROVE  /\ AllOK(Unload(t, N))
           /\ \A x \in Unload(t, N) :
                 \/ x \in N /\ x.tab # t
                 \/ x.tab = t /\ x.owner = "nobody" /\ x.kind # "probe"
           /\ \A r \in N : r.tab # t => r \in Unload(t, N)
<1>1. ASSUME NEW x \in Unload(t, N)
      PROVE  /\ RequestOK(x)
             /\ \/ x \in N /\ x.tab # t
                \/ x.tab = t /\ x.owner = "nobody" /\ x.kind # "probe"
  <2>1. PICK r \in {q \in N : q.tab # t \/ q.kind \in {"login", "logout"}} :
               x = IF r.tab = t THEN [r EXCEPT !.owner = "nobody"] ELSE r
        BY <1>1 DEF Unload
  <2>2. RequestOK(r)
        BY DEF AllOK
  <2>3. CASE r.tab = t
        BY <2>1, <2>2, <2>3 DEF RequestOK, RequestType
  <2>4. CASE r.tab # t
        BY <2>1, <2>2, <2>4
  <2>. QED BY <2>3, <2>4
<1>2. \A r \in N : r.tab # t => r \in Unload(t, N)
      BY DEF Unload
<1>. QED BY <1>1, <1>2 DEF AllOK

(* After Converge the tab has one probe: a new one, or the one joined.      *)
LEMMA ConvergeFacts ==
    ASSUME NEW t \in Tabs, NEW flow \in Flows, NEW N, NEW c \in Cookies,
           jar \in Cookies, AllOK(N), OneProbe(N)
    PROVE  \E p \in Converge(t, flow, N, c) :
              /\ Converge(t, flow, N, c) = (N \ ProbesOf(N, t)) \cup {p}
              /\ RequestOK(p)
              /\ p.tab = t /\ p.kind = "probe" /\ flow \in p.then
              /\ \A r \in ProbesOf(N, t) : r.then \subseteq p.then
              /\ p.joined \/ (p.body = "unserved" /\ p.cookie = c)
<1>. DEFINE old == {r \in N : r.tab = t /\ r.kind = "probe"}
            joined(r) == [r EXCEPT !.then = @ \cup {flow}, !.joined = TRUE]
            new == [Probe(t) EXCEPT !.then = {flow} \cup UNION {r.then : r \in old},
                                    !.cookie = c]
<1>1. ProbesOf(N, t) = old
      BY DEF ProbesOf
<1>2. CASE old # {} /\ cached[t] = Unknown
  <2>1. PICK r \in old : TRUE
        BY <1>2
  <2>2. old = {r}
        BY <2>1 DEF OneProbe
  <2>3. Converge(t, flow, N, c) = (N \ old) \cup {joined(q) : q \in old}
        BY <1>2 DEF Converge
  <2>4. {joined(q) : q \in old} = {joined(r)}
        BY <2>2
  <2>5. RequestOK(r) /\ r.kind = "probe" /\ r.tab = t
        BY <2>1 DEF AllOK
  <2>6. /\ RequestOK(joined(r))
        /\ joined(r).tab = t /\ joined(r).kind = "probe" /\ flow \in joined(r).then
        /\ r.then \subseteq joined(r).then /\ joined(r).joined
        BY <2>5 DEF RequestOK, RequestType
  <2>. QED BY <1>1, <2>2, <2>3, <2>4, <2>6
<1>3. CASE ~(old # {} /\ cached[t] = Unknown)
  <2>1. Converge(t, flow, N, c) = (N \ old) \cup {new}
        BY <1>3 DEF Converge
  <2>2. UNION {r.then : r \in old} \subseteq Flows
        BY DEF AllOK, RequestOK, RequestType
  <2>3. {flow} \cup UNION {r.then : r \in old} \in SUBSET Flows
        BY <2>2
  <2>4. ASSUME NEW T \in SUBSET Flows, NEW p,
               p = [Probe(t) EXCEPT !.then = T, !.cookie = c]
        PROVE  /\ RequestOK(p) /\ p.tab = t /\ p.kind = "probe" /\ p.then = T
               /\ p.body = "unserved" /\ p.cookie = c
        BY <2>4 DEF Probe, Request, RequestOK, RequestType, Bodies, Kinds, Identities
  <2>5. /\ RequestOK(new) /\ new.tab = t /\ new.kind = "probe"
        /\ new.then = {flow} \cup UNION {r.then : r \in old}
        /\ new.body = "unserved" /\ new.cookie = c
        BY <2>3, <2>4, Zenon
  <2>6. \A r \in old : r.then \subseteq new.then
        BY <2>5
  <2>. QED BY <1>1, <2>1, <2>5, <2>6
<1>. QED BY <1>2, <1>3

-----------------------------------------------------------------------------
(* What Observe notes.                                                      *)

LEMMA OwnerIsIdentity ==
    ASSUME NEW c \in Cookies, alive \subseteq Sessions
    PROVE  Owner(c) \in Identities
    BY DEF Owner, Identities, Sessions

LEMMA ObserveType ==
    ASSUME Types, Observe, jar' \in Cookies, alive' \subseteq Sessions
    PROVE  seen' \in [Tabs -> SUBSET Identities]
<1>1. Identity' \in Identities
      BY DEF Identity, Owner, Identities, Sessions
<1>2. \A t \in Tabs :
        {Identity'} \cup {Nobody : s \in alive \ alive'}
            \cup (IF round'[t] = round[t] THEN seen[t] ELSE {}) \in SUBSET Identities
      BY <1>1 DEF Types, Identities
<1>. QED BY <1>2 DEF Observe

LEMMA SeenNow ==
    ASSUME Observe, NEW t \in Tabs
    PROVE  Identity' \in seen'[t]
    BY DEF Observe

LEMMA SeenStays ==
    ASSUME Observe, NEW t \in Tabs, round'[t] = round[t]
    PROVE  seen[t] \subseteq seen'[t]
    BY DEF Observe

(* Whose a cookie is stays noted, while no session with its key is made.    *)
LEMMA OwnerStaysSeen ==
    ASSUME Observe, NEW t \in Tabs, round'[t] = round[t], NEW c,
           Owner(c) \in seen[t], c \in alive' => c \in alive
    PROVE  Owner(c)' \in seen'[t]
<1>1. CASE c \in alive /\ c \notin alive'
  <2>1. Nobody \in {Nobody : s \in alive \ alive'}
        BY <1>1
  <2>. QED BY <1>1, <2>1 DEF Observe, Owner
<1>2. CASE c \in alive <=> c \in alive'
      BY <1>2, SeenStays DEF Owner
<1>. QED BY <1>1, <1>2

-----------------------------------------------------------------------------
(* What keeps the parts of the invariant.                                   *)

LEMMA ProbesStay ==
    ASSUME IInv, Observe, AllOK(net'),
           \A r \in net : r.cookie \in alive' => r.cookie \in alive,
           \A x \in net' : x.kind = "probe" /\ ~x.joined =>
               \/ x \in net /\ round'[x.tab] = round[x.tab]
               \/ x.body = "unserved" /\ x.cookie = jar'
    PROVE  \A x \in net' : ProbeOK(x)'
<1>. SUFFICES ASSUME NEW x \in net', x.kind = "probe", ~x.joined
              PROVE  IF x.body = "unserved" THEN Owner(x.cookie)' \in seen'[x.tab]
                     ELSE x.body \in Identities => x.body \in seen'[x.tab]
     BY DEF ProbeOK
<1>1. x.tab \in Tabs
      BY DEF AllOK, RequestOK, RequestType
<1>2. CASE x \in net /\ round'[x.tab] = round[x.tab]
  <2>1. ProbeOK(x)
        BY <1>2 DEF IInv
  <2>. QED BY <1>1, <1>2, <2>1, OwnerStaysSeen, SeenStays DEF ProbeOK
<1>3. CASE x.body = "unserved" /\ x.cookie = jar'
      BY <1>1, <1>3, SeenNow DEF Identity
<1>. QED BY <1>2, <1>3

LEMMA ConvergedStays ==
    ASSUME IInv, Observe, NEW t \in Tabs, round'[t] = round[t],
           cached'[t] = cached[t], kept'[t] = kept[t], Converging(t) => Converging(t)'
    PROVE  Converged(t)'
    BY SeenStays DEF IInv, Converged

LEMMA PendingStays ==
    ASSUME IInv, NEW t \in Tabs, form'[t].pending = form[t].pending,
           Running(t) => Running(t)', Attempting(t)' => Attempting(t)
    PROVE  PendingOK(t)'
    BY DEF IInv, PendingOK

(* Requests only leave the network, and nothing else of note happens.       *)
LEMMA FewerRequests ==
    ASSUME IInv, Observe, net' \subseteq net, alive' \subseteq alive,
           \A t \in Tabs : visited[t] => visited'[t],
           \A x \in net' : round'[x.tab] = round[x.tab]
    PROVE  /\ AllOK(net') /\ OneProbe(net') /\ OneAttempt(net')
           /\ \A x \in net' : ProbeOK(x)'
           /\ \A x \in net' : GuestOK(x)'
<1>1. AllOK(net') /\ OneProbe(net') /\ OneAttempt(net')
      BY DEF IInv, AllOK, OneProbe, OneAttempt
<1>2. \A x \in net' : ProbeOK(x)'
      BY <1>1, ProbesStay
<1>3. ASSUME NEW x \in net' PROVE GuestOK(x)'
  <2>1. GuestOK(x) /\ x.tab \in Tabs
        BY <1>1 DEF IInv, AllOK, RequestOK, RequestType
  <2>. QED BY <2>1 DEF GuestOK
<1>. QED BY <1>1, <1>2, <1>3

(* Other tabs: their requests stay, and nothing of theirs changes.          *)
LEMMA OtherTab ==
    ASSUME IInv, Observe, NEW t \in Tabs,
           \A r \in net : r.tab = t => r \in net',
           \A x \in net' : x.tab = t => x \in net,
           round'[t] = round[t], cached'[t] = cached[t], kept'[t] = kept[t],
           form'[t].pending = form[t].pending
    PROVE  PendingOK(t)' /\ Converged(t)'
<1>1. Running(t) => Running(t)'
      BY DEF Running, Owns
<1>2. Attempting(t)' => Attempting(t)
      BY DEF Attempting, Attempt, Owns
<1>3. Converging(t) => Converging(t)'
      BY DEF Converging
<1>. QED BY <1>1, <1>2, <1>3, PendingStays, ConvergedStays

-----------------------------------------------------------------------------
(* Steps.                                                                   *)

(* A view sends a request: a probe when there is none, an attempt when the  *)
(* form is not pending, or another one by a visitor who is no mere guest.   *)
LEMMA SendStep ==
    ASSUME IInv, Types', Observe, NEW t \in Tabs, NEW q,
           RequestOK(q), q.tab = t, q.owner = "view", q.then = {},
           q.body = "unserved", q.cookie = jar, net' = net \cup {q},
           UNCHANGED <<jar, alive, cached, round, kept>>,
           q.kind = "probe" => ProbesOf(net, t) = {},
           \A i \in Tabs : visited[i] => visited'[i],
           q.kind # "probe" => visited'[t],
           \A i \in Tabs \ {t} : form'[i] = form[i],
           IF Flow(q) THEN ~form[t].pending /\ form'[t].pending
           ELSE form'[t].pending = form[t].pending
    PROVE  IInv'
<1>1. AllOK(net')
      BY DEF IInv, AllOK
<1>2. OneProbe(net')
      BY DEF IInv, OneProbe, ProbesOf
<1>3. OneAttempt(net')
  <2>1. Flow(q) => ~Attempting(t)
        BY DEF IInv, PendingOK
  <2>. QED BY <2>1 DEF IInv, OneAttempt, Attempting, Attempt, Owns
<1>4. ASSUME NEW i \in Tabs PROVE PendingOK(i)' /\ Converged(i)'
  <2>1. CASE i # t
        BY <1>4, <2>1, OtherTab
  <2>2. CASE i = t
    <3>1. Running(t) => Running(t)'
          BY DEF Running, Owns
    <3>2. Converging(t) => Converging(t)'
          BY DEF Converging
    <3>3. CASE Flow(q)
      <4>1. Running(t)'
            BY <3>3 DEF Running, Owns
      <4>. QED BY <2>2, <3>2, <3>3, <4>1, ConvergedStays DEF PendingOK
    <3>4. CASE ~Flow(q)
      <4>1. Attempting(t)' => Attempting(t)
            BY <3>4 DEF Attempting, Attempt, Owns
      <4>. QED BY <2>2, <3>1, <3>2, <3>4, <4>1, ConvergedStays, PendingStays
    <3>. QED BY <3>3, <3>4
  <2>. QED BY <2>1, <2>2
<1>5. \A x \in net' : ProbeOK(x)'
      BY <1>1, ProbesStay
<1>6. ASSUME NEW x \in net' PROVE GuestOK(x)'
  <2>1. CASE x = q
        BY <2>1 DEF GuestOK
  <2>2. CASE x \in net
        BY <1>1, <2>2 DEF IInv, AllOK, RequestOK, RequestType, GuestOK
  <2>. QED BY <2>1, <2>2
<1>. QED BY <1>1, <1>2, <1>3, <1>4, <1>5, <1>6 DEF IInv

(* A session ends, or a form is unlocked: no request is touched.            *)
LEMMA SameRequests ==
    ASSUME IInv, Types', Observe, alive' \subseteq alive,
           UNCHANGED <<net, cached, round, kept, visited>>,
           \A t \in Tabs : form'[t].pending = form[t].pending
    PROVE  IInv'
<1>1. /\ AllOK(net') /\ OneProbe(net') /\ OneAttempt(net')
      /\ \A x \in net' : ProbeOK(x)'
      /\ \A x \in net' : GuestOK(x)'
  <2>1. net' \subseteq net
        OBVIOUS
  <2>2. \A x \in net' : round'[x.tab] = round[x.tab]
        OBVIOUS
  <2>3. \A t \in Tabs : visited[t] => visited'[t]
        OBVIOUS
  <2>. QED BY <2>1, <2>2, <2>3, FewerRequests
<1>2. \A t \in Tabs : PendingOK(t)' /\ Converged(t)'
      BY OtherTab
<1>. QED BY <1>1, <1>2 DEF IInv

(* The backend answers q for r: an unjoined probe with its cookie's owner.  *)
LEMMA AnswerStep ==
    ASSUME IInv, Types', Observe, NEW r \in net, NEW q,
           RequestOK(q), net' = (net \ {r}) \cup {q},
           q.tab = r.tab, q.kind = r.kind, q.owner = r.owner, q.then = r.then,
           q.joined = r.joined, q.body # "unserved", r.body = "unserved",
           \A c \in net : c.cookie \in alive' => c.cookie \in alive,
           r.kind = "probe" =>
               /\ UNCHANGED alive
               /\ q.body \in Identities => q.body = Owner(r.cookie),
           UNCHANGED <<jar, cached, form, round, kept, visited>>
    PROVE  IInv'
<1>1. AllOK(net')
      BY DEF IInv, AllOK
<1>2. OneProbe(net')
      BY DEF IInv, OneProbe
<1>3. OneAttempt(net')
      BY DEF IInv, OneAttempt, Attempt, Owns, Flow
<1>4. r.tab \in Tabs
      BY DEF IInv, AllOK, RequestOK, RequestType
<1>5. ASSUME NEW i \in Tabs PROVE PendingOK(i)' /\ Converged(i)'
  <2>1. Running(i) => Running(i)'
        BY DEF Running, Owns, Flow
  <2>2. Attempting(i)' => Attempting(i)
        BY DEF Attempting, Attempt, Owns, Flow
  <2>3. Converging(i) => Converging(i)'
        BY DEF Converging
  <2>. QED BY <2>1, <2>2, <2>3, PendingStays, ConvergedStays
<1>6. ASSUME NEW x \in net' PROVE ProbeOK(x)'
  <2>1. x.tab \in Tabs
        BY <1>1 DEF AllOK, RequestOK, RequestType
  <2>2. CASE x = q
    <3>1. SUFFICES ASSUME r.kind = "probe", ~r.joined, q.body \in Identities
                   PROVE  q.body \in seen'[q.tab]
          BY <2>2 DEF ProbeOK
    <3>2. Owner(r.cookie) \in seen[r.tab]
          BY <3>1 DEF IInv, ProbeOK
    <3>. QED BY <1>4, <3>1, <3>2, SeenStays
  <2>3. CASE x \in net
    <3>1. ProbeOK(x)
          BY <2>3 DEF IInv
    <3>. QED BY <2>1, <2>3, <3>1, OwnerStaysSeen, SeenStays DEF ProbeOK
  <2>. QED BY <2>2, <2>3
<1>7. \A x \in net' : GuestOK(x)'
      BY DEF IInv, GuestOK
<1>. QED BY <1>1, <1>2, <1>3, <1>5, <1>6, <1>7 DEF IInv

(* A full load: of the tab's requests, the new ones are the view's alone.   *)
LEMMA FullLoadStep ==
    ASSUME IInv, Types', Observe, UNCHANGED <<jar, alive>>,
           NEW t \in Tabs, NEW p \in OpenPages, NEW pending \in SUBSET net,
           \A r \in net : r.tab # t => r \in pending,
           FullLoad(t, p, pending),
           \A i \in Tabs \ {t} : visited'[i] = visited[i],
           p = "account" => visited'[t]
    PROVE  IInv'
<1>. DEFINE loaded == Unload(t, pending)
            asked == OrdersFor(t, p)
<1>1. net' = loaded \cup asked \cup {Probe(t)}
      BY DEF FullLoad
<1>2. AllOK(pending)
      BY DEF IInv, AllOK
<1>3. /\ AllOK(loaded)
      /\ \A x \in loaded : \/ x \in pending /\ x.tab # t
                           \/ x.tab = t /\ x.owner = "nobody" /\ x.kind # "probe"
      /\ \A r \in pending : r.tab # t => r \in loaded
      BY <1>2, UnloadFacts
<1>4. \A x \in asked : /\ RequestOK(x) /\ x.tab = t /\ x.kind = "orders" /\ x.owner = "view"
                       /\ x.then = {} /\ p = "account"
      BY OrdersAreOK DEF IInv, Types
<1>5. /\ RequestOK(Probe(t)) /\ Probe(t).tab = t /\ Probe(t).kind = "probe"
      /\ Probe(t).cookie = jar /\ Probe(t).then = {} /\ Probe(t).body = "unserved"
      /\ Probe(t).owner = "view"
      BY ProbeIsOK DEF IInv, Types
<1>. HIDE DEF loaded, asked
<1>6. /\ \A x \in net' : x.tab # t => x \in net
      /\ \A r \in net : r.tab # t => r \in net'
      /\ \A x \in net' : x.tab = t => \/ x.owner = "nobody" /\ x.kind # "probe"
                                      \/ x.kind = "orders" /\ p = "account"
                                      \/ x = Probe(t)
      BY <1>1, <1>3, <1>4, <1>5
<1>7. AllOK(net')
      BY <1>1, <1>3, <1>4, <1>5 DEF AllOK
<1>8. OneProbe(net')
      BY <1>6 DEF IInv, OneProbe
<1>9. \A x \in net' : ~Attempt(x, t)
      BY <1>5, <1>6 DEF Attempt, Owns, Flow
<1>10. OneAttempt(net')
       BY <1>6, <1>9 DEF IInv, OneAttempt, Attempt, Owns
<1>11. /\ \A i \in Tabs \ {t} : /\ round'[i] = round[i] /\ cached'[i] = cached[i]
                                /\ kept'[i] = kept[i] /\ form'[i] = form[i]
       /\ cached'[t] = Unknown /\ ~form'[t].pending
       BY DEF FullLoad, IInv, Types, NewForm
<1>12. ASSUME NEW i \in Tabs PROVE PendingOK(i)' /\ Converged(i)'
  <2>1. CASE i # t
        BY <1>6, <1>11, <2>1, OtherTab
  <2>2. CASE i = t
        BY <1>9, <1>11, <2>2 DEF PendingOK, Attempting, Converged
  <2>. QED BY <2>1, <2>2
<1>13. \A x \in net' : x.tab \in Tabs
       BY <1>7 DEF AllOK, RequestOK, RequestType
<1>14. \A x \in net' : ProbeOK(x)'
  <2>1. \A x \in net' : x.kind = "probe" =>
            \/ x \in net /\ round'[x.tab] = round[x.tab]
            \/ x.body = "unserved" /\ x.cookie = jar'
        BY <1>5, <1>6, <1>11, <1>13
  <2>. QED BY <1>7, <2>1, ProbesStay
<1>15. \A x \in net' : GuestOK(x)'
       BY <1>5, <1>6, <1>13 DEF IInv, GuestOK
<1>. QED BY <1>7, <1>8, <1>10, <1>12, <1>14, <1>15 DEF IInv

(* A navigation: the form is new, and what the tab had asked is the page's. *)
LEMMA PushStep ==
    ASSUME IInv, Types', Observe, UNCHANGED <<jar, alive, round>>,
           NEW t \in Tabs, NEW p \in OpenPages, NEW pending \in SUBSET net,
           \A r \in net : r.tab # t => r \in pending,
           Push(t, p, Leave(t, pending)),
           \A i \in Tabs \ {t} : /\ visited'[i] = visited[i] /\ cached'[i] = cached[i]
                                 /\ kept'[i] = kept[i],
           visited[t] => visited'[t],
           p = "account" => visited'[t],
           Converged(t)'
    PROVE  IInv'
<1>. DEFINE left == Leave(t, pending)
            asked == OrdersFor(t, p)
<1>1. net' = left \cup asked
      BY DEF Push
<1>2. AllOK(pending)
      BY DEF IInv, AllOK
<1>3. /\ AllOK(left)
      /\ \A x \in left :
            \/ x \in pending /\ (Owns(x, t) => x.kind = "probe")
            \/ /\ x.tab = t /\ x.owner = "page" /\ x.kind # "probe"
               /\ \E r \in pending : r.tab = t /\ r.owner = "view" /\ r.kind # "probe"
      /\ \A r \in pending : r.tab # t \/ r.kind = "probe" => r \in left
      BY <1>2, LeaveFacts
<1>4. \A x \in asked : /\ RequestOK(x) /\ x.tab = t /\ x.kind = "orders" /\ x.owner = "view"
                       /\ x.then = {} /\ p = "account"
      BY OrdersAreOK DEF IInv, Types
<1>. HIDE DEF left, asked
<1>5. AllOK(net')
      BY <1>1, <1>3, <1>4 DEF AllOK
<1>6. /\ \A x \in net' : x.tab # t => x \in net
      /\ \A r \in net : r.tab # t => r \in net'
      /\ \A x \in net' : x.kind = "probe" => x \in net
      BY <1>1, <1>3, <1>4
<1>7. OneProbe(net')
      BY <1>6 DEF IInv, OneProbe
<1>8. \A x \in net' : ~Attempt(x, t)
      BY <1>1, <1>3, <1>4 DEF Attempt, Owns, Flow
<1>9. OneAttempt(net')
      BY <1>6, <1>8 DEF IInv, OneAttempt, Attempt, Owns
<1>10. /\ \A i \in Tabs \ {t} : form'[i] = form[i]
       /\ ~form'[t].pending
       BY DEF Push, IInv, Types, NewForm
<1>11. ASSUME NEW i \in Tabs PROVE PendingOK(i)' /\ Converged(i)'
  <2>1. CASE i # t
        BY <1>6, <1>10, <2>1, OtherTab
  <2>2. CASE i = t
        BY <1>8, <1>10, <2>2 DEF PendingOK, Attempting
  <2>. QED BY <2>1, <2>2
<1>12. \A x \in net' : x.tab \in Tabs
       BY <1>5 DEF AllOK, RequestOK, RequestType
<1>13. \A x \in net' : ProbeOK(x)'
       BY <1>5, <1>6, ProbesStay
<1>14. ASSUME NEW x \in net' PROVE GuestOK(x)'
  <2>1. CASE x \in net
        BY <1>12, <2>1 DEF IInv, GuestOK
  <2>2. CASE x \in asked
        BY <1>4, <2>2 DEF GuestOK
  <2>3. CASE x.tab = t /\ \E r \in net : r.tab = t /\ r.owner = "view" /\ r.kind # "probe"
        BY <2>3 DEF IInv, GuestOK
  <2>. QED BY <1>1, <1>3, <2>1, <2>2, <2>3
<1>. QED BY <1>5, <1>7, <1>9, <1>11, <1>13, <1>14 DEF IInv

(* A request is settled, and nothing is asked instead.                      *)
LEMMA DropStep ==
    ASSUME IInv, Types', Observe, NEW r \in net, net' = net \ {r},
           UNCHANGED <<jar, alive, round, visited>>,
           \A i \in Tabs \ {r.tab} : /\ cached'[i] = cached[i] /\ kept'[i] = kept[i]
                                     /\ form'[i] = form[i],
           PendingOK(r.tab)', Converged(r.tab)'
    PROVE  IInv'
<1>1. /\ AllOK(net') /\ OneProbe(net') /\ OneAttempt(net')
      /\ \A x \in net' : ProbeOK(x)'
      /\ \A x \in net' : GuestOK(x)'
      BY FewerRequests
<1>2. ASSUME NEW i \in Tabs PROVE PendingOK(i)' /\ Converged(i)'
  <2>1. CASE i # r.tab
        BY <2>1, OtherTab
  <2>. QED BY <2>1
<1>. QED BY <1>1, <1>2 DEF IInv

(* The session a sign-in set is fetched, for the same owner.                *)
LEMMA FetchStep ==
    ASSUME IInv, Types', Observe, NEW r \in net, r.kind = "login", NEW q,
           RequestOK(q), q.kind = "confirm", q.tab = r.tab, q.owner = r.owner,
           net' = (net \ {r}) \cup {q},
           UNCHANGED <<alive, cached, form, round, kept, visited>>
    PROVE  IInv'
<1>1. AllOK(net')
      BY DEF IInv, AllOK
<1>2. OneProbe(net')
      BY DEF IInv, OneProbe
<1>3. OneAttempt(net')
      BY DEF IInv, OneAttempt, Attempt, Owns, Flow
<1>4. ASSUME NEW i \in Tabs PROVE PendingOK(i)' /\ Converged(i)'
  <2>1. Running(i) => Running(i)'
        BY DEF Running, Owns, Flow
  <2>2. Attempting(i)' => Attempting(i)
        BY DEF Attempting, Attempt, Owns, Flow
  <2>3. Converging(i) => Converging(i)'
        BY DEF Converging
  <2>. QED BY <2>1, <2>2, <2>3, PendingStays, ConvergedStays
<1>5. \A x \in net' : ProbeOK(x)'
      BY <1>1, ProbesStay
<1>6. \A x \in net' : GuestOK(x)'
      BY DEF IInv, GuestOK
<1>. QED BY <1>1, <1>2, <1>3, <1>4, <1>5, <1>6 DEF IInv

(* A sign-in or a sign-out that came through fetches the session anew.      *)
LEMMA ConvergeStep ==
    ASSUME IInv, Types', Observe, NEW r \in net, r.owner # "nobody",
           NEW flow \in Flows,
           \/ r.kind = "confirm" /\ flow = "login"
           \/ r.kind = "logout",
           net' = Converge(r.tab, flow, net \ {r}, jar'),
           round' = [round EXCEPT ![r.tab] = ~@],
           UNCHANGED <<alive, cached, form, kept, visited>>
    PROVE  IInv'
<1>. DEFINE t == r.tab
            N == net \ {r}
<1>1. RequestOK(r) /\ t \in Tabs /\ r.then = {} /\ visited[t]
      BY DEF IInv, AllOK, RequestOK, RequestType, GuestOK
<1>2. AllOK(N) /\ OneProbe(N)
      BY DEF IInv, AllOK, OneProbe
<1>3. PICK p \in net' :
              /\ net' = (N \ ProbesOf(N, t)) \cup {p}
              /\ RequestOK(p)
              /\ p.tab = t /\ p.kind = "probe" /\ flow \in p.then
              /\ \A q \in ProbesOf(N, t) : q.then \subseteq p.then
              /\ p.joined \/ (p.body = "unserved" /\ p.cookie = jar')
  <2>1. jar \in Cookies /\ jar' \in Cookies /\ net' = Converge(t, flow, N, jar')
        BY DEF IInv, Types
  <2>. HIDE DEF N, t
  <2>2. \E p \in Converge(t, flow, N, jar') :
              /\ Converge(t, flow, N, jar') = (N \ ProbesOf(N, t)) \cup {p}
              /\ RequestOK(p)
              /\ p.tab = t /\ p.kind = "probe" /\ flow \in p.then
              /\ \A q \in ProbesOf(N, t) : q.then \subseteq p.then
              /\ p.joined \/ (p.body = "unserved" /\ p.cookie = jar')
        BY <1>1, <1>2, <2>1, ConvergeFacts
  <2>. QED BY <2>1, <2>2
<1>4. p.owner = "view"
      BY <1>3 DEF RequestOK
<1>5. AllOK(net')
      BY <1>2, <1>3 DEF AllOK
<1>6. /\ \A x \in net' : x.tab # t => x \in net
      /\ \A q \in net : q.tab # t => q \in net'
      /\ \A x \in net' : x.tab = t => x = p \/ (x \in net /\ x.kind # "probe")
      /\ \A q \in net : q.tab = t => q = r \/ q \in net' \/ (q.kind = "probe" /\ q.then \subseteq p.then)
      BY <1>3 DEF ProbesOf
<1>. HIDE DEF N, t
<1>7. OneProbe(net')
      BY <1>3, <1>6 DEF IInv, OneProbe
<1>8. \A x \in net' : \A i \in Tabs : Attempt(x, i) => x \in net
      BY <1>3, <1>6 DEF Attempt, Owns, Flow
<1>9. OneAttempt(net')
      BY <1>8 DEF IInv, OneAttempt
<1>10. \A i \in Tabs \ {t} : round'[i] = round[i]
       BY DEF t
<1>11. PendingOK(t)'
  <2>1. Attempting(t)' => Attempting(t)
        BY <1>1, <1>8 DEF Attempting
  <2>2. ASSUME NEW q \in net, Owns(q, t), Flow(q) \/ "login" \in q.then
        PROVE  Running(t)'
    <3>1. CASE q = r
      <4>1. "login" \in p.then
            BY <1>1, <1>3, <2>2, <3>1 DEF Flow
      <4>. QED BY <1>3, <1>4, <4>1 DEF Running, Owns
    <3>2. CASE q \in net'
          BY <2>2, <3>2 DEF Running, Owns, Flow
    <3>3. CASE q.kind = "probe" /\ q.then \subseteq p.then
          BY <1>3, <1>4, <2>2, <3>3 DEF Running, Owns, Flow
    <3>. QED BY <1>6, <2>2, <3>1, <3>2, <3>3 DEF Owns
  <2>3. Running(t) => Running(t)'
        BY <2>2 DEF Running
  <2>. QED BY <1>1, <2>1, <2>3, PendingStays
<1>12. Converged(t)'
       BY <1>3 DEF Converged, Converging
<1>13. ASSUME NEW i \in Tabs PROVE PendingOK(i)' /\ Converged(i)'
  <2>1. CASE i # t
        BY <1>6, <1>10, <2>1, OtherTab
  <2>. QED BY <1>11, <1>12, <2>1
<1>14. \A x \in net' : x.tab \in Tabs
       BY <1>5 DEF AllOK, RequestOK, RequestType
<1>15. \A x \in net' : ProbeOK(x)'
  <2>1. \A x \in net' : x.kind = "probe" /\ ~x.joined =>
            \/ x \in net /\ round'[x.tab] = round[x.tab]
            \/ x.body = "unserved" /\ x.cookie = jar'
        BY <1>3, <1>6, <1>10, <1>14
  <2>. QED BY <1>5, <2>1, ProbesStay
<1>16. ASSUME NEW x \in net' PROVE GuestOK(x)'
  <2>1. CASE x.tab # t
        BY <1>6, <2>1 DEF IInv, GuestOK
  <2>2. CASE x.tab = t
        BY <1>1, <2>2 DEF GuestOK
  <2>. QED BY <2>1, <2>2
<1>. QED BY <1>5, <1>7, <1>9, <1>13, <1>15, <1>16 DEF IInv

-----------------------------------------------------------------------------
(* Types.                                                                   *)

LEMMA GatedPage ==
    ASSUME NEW p \in OpenPages
    PROVE  /\ Gated(p) \in OpenPages
           /\ Gated(p) = p \/ Gated(p) = "login"
    BY DEF Gated, OpenPages

LEMMA PushTypes ==
    ASSUME Types, NEW t \in Tabs, NEW p \in OpenPages, NEW pending, Push(t, p, pending)
    PROVE  /\ page' \in [Tabs -> OpenPages \cup {"closed"}]
           /\ form' \in [Tabs -> [pending : BOOLEAN, locked : BOOLEAN]]
           /\ orders' \in [Tabs -> Identities]
    BY DEF Types, Push, NewForm, Identities

LEMMA FullLoadTypes ==
    ASSUME Types, NEW t \in Tabs, NEW p \in OpenPages, NEW pending, FullLoad(t, p, pending)
    PROVE  /\ page' \in [Tabs -> OpenPages \cup {"closed"}]
           /\ cached' \in [Tabs -> Identities \cup {Unknown}]
           /\ form' \in [Tabs -> [pending : BOOLEAN, locked : BOOLEAN]]
           /\ orders' \in [Tabs -> Identities]
           /\ round' \in [Tabs -> BOOLEAN]
           /\ kept' \in [Tabs -> BOOLEAN]
<1>1. /\ page' \in [Tabs -> OpenPages \cup {"closed"}]
      /\ cached' \in [Tabs -> Identities \cup {Unknown}]
      /\ form' \in [Tabs -> [pending : BOOLEAN, locked : BOOLEAN]]
      /\ orders' \in [Tabs -> Identities]
      BY DEF Types, FullLoad, NewForm, Identities
<1>2. round' \in [Tabs -> BOOLEAN] /\ kept' \in [Tabs -> BOOLEAN]
      BY DEF Types, FullLoad
<1>. QED BY <1>1, <1>2

LEMMA FormAfterErrorType ==
    ASSUME Types, NEW r \in RequestType
    PROVE  FormAfterError(r) \in [Tabs -> [pending : BOOLEAN, locked : BOOLEAN]]
<1>1. [pending |-> FALSE, locked |-> r.kind # "register"]
         \in [pending : BOOLEAN, locked : BOOLEAN]
      OBVIOUS
<1>. QED BY <1>1 DEF Types, FormAfterError, RequestType

LEMMA FailedType ==
    ASSUME Types, NEW t \in Tabs, NEW b \in BOOLEAN
    PROVE  [failed EXCEPT ![t] = @ \/ b] \in [Tabs -> BOOLEAN]
    BY DEF Types

-----------------------------------------------------------------------------
(* What the visitor does.                                                   *)

LEMMA ActType ==
    ASSUME Types, Act
    PROVE  acts' \in 0 .. MaxActs
    BY SessionAssumption DEF Types, Act

LEMMA OpenStep ==
    ASSUME IInv, Observe, NEW t \in Tabs, NEW p \in OpenPages, Open(t, p)
    PROVE  IInv'
<1>1. Gated(p) \in OpenPages /\ (Gated(p) = "account" => p = "account")
      BY GatedPage
<1>2. FullLoad(t, Gated(p), net) /\ UNCHANGED <<jar, alive, failed>> /\ Act
      BY DEF Open, server
<1>3. /\ visited' \in [Tabs -> BOOLEAN]
      /\ \A i \in Tabs \ {t} : visited'[i] = visited[i]
      /\ p = "account" => visited'[t]
  <2>1. visited \in [Tabs -> BOOLEAN] /\ visited' = [visited EXCEPT ![t] = p \in Protected]
        BY DEF Open, IInv, Types
  <2>2. CASE p = "account"
    <3>. DEFINE b == p \in Protected
    <3>0. b = TRUE
          BY <2>2 DEF Protected
    <3>1. visited' = [visited EXCEPT ![t] = TRUE]
          BY <2>1, <3>0, Zenon
    <3>. QED BY <2>1, <3>1
  <2>3. CASE p # "account"
    <3>. DEFINE b == p \in Protected
    <3>0. b = FALSE
          BY <2>3 DEF Protected
    <3>1. visited' = [visited EXCEPT ![t] = FALSE]
          BY <2>1, <3>0, Zenon
    <3>. QED BY <2>1, <2>3, <3>1
  <2>. QED BY <2>2, <2>3
<1>4. Types'
  <2>1. Types
        BY DEF IInv
  <2>. QED BY <1>1, <1>2, <1>3, <2>1, FullLoadTypes, ObserveType, ActType DEF Types
<1>. QED BY <1>1, <1>2, <1>3, <1>4, FullLoadStep

LEMMA GoStep ==
    ASSUME IInv, Observe, NEW t \in Tabs, NEW p \in OpenPages, Go(t, p)
    PROVE  IInv'
<1>1. Gated(p) \in OpenPages /\ (Gated(p) = "account" => p = "account")
      BY GatedPage
<1>2. /\ Push(t, Gated(p), Leave(t, net)) /\ Act
      /\ UNCHANGED <<jar, alive, cached, round, kept, failed>>
      BY DEF Go, server
<1>3. /\ visited' \in [Tabs -> BOOLEAN]
      /\ \A i \in Tabs \ {t} : visited'[i] = visited[i]
      /\ visited[t] => visited'[t]
      /\ p = "account" => visited'[t]
      BY DEF Go, IInv, Types
<1>4. Types'
  <2>1. Types
        BY DEF IInv
  <2>2. /\ page' \in [Tabs -> OpenPages \cup {"closed"}]
        /\ form' \in [Tabs -> [pending : BOOLEAN, locked : BOOLEAN]]
        /\ orders' \in [Tabs -> Identities]
        BY <1>1, <1>2, <2>1, PushTypes
  <2>. QED BY <1>2, <1>3, <2>1, <2>2, ObserveType, ActType DEF Types
<1>5. Converging(t) => Converging(t)'
  <2>1. \A r \in net : r.kind = "probe" => r \in net'
        BY <1>2, LeaveFacts DEF IInv, Push
  <2>. QED BY <2>1 DEF Converging
<1>6. Converged(t)'
      BY <1>2, <1>5, ConvergedStays
<1>. QED BY <1>1, <1>2, <1>3, <1>4, <1>6, PushStep

LEMMA FocusStep ==
    ASSUME IInv, Observe, NEW t \in Tabs, Focus(t)
    PROVE  IInv'
<1>1. /\ UNCHANGED <<jar, alive, page, cached, form, orders, round, kept, failed, visited>>
      /\ Act /\ net' = net \cup {Probe(t)}
      BY DEF Focus, server
<1>2. ProbesOf(net, t) = {}
      BY DEF Focus, ProbesOf, Probing
<1>3. Types'
      BY <1>1, ObserveType, ActType DEF IInv, Types
<1>4. /\ RequestOK(Probe(t)) /\ Probe(t).tab = t /\ Probe(t).kind = "probe"
      /\ Probe(t).cookie = jar /\ Probe(t).then = {} /\ Probe(t).body = "unserved"
      /\ Probe(t).owner = "view"
      BY ProbeIsOK DEF IInv, Types
<1>5. ~Flow(Probe(t))
      BY <1>4 DEF Flow
<1>. QED BY <1>1, <1>2, <1>3, <1>4, <1>5, SendStep

(* The form, or the menu, sends a request of kind k.                        *)
LEMMA AskStep ==
    ASSUME IInv, Observe, Act, NEW t \in Tabs, NEW k \in {"login", "register", "logout"},
           NEW u \in Identities, k = "login" => u \in Users,
           net' = net \cup {Request(t, k, u)},
           visited' = [visited EXCEPT ![t] = TRUE],
           IF k = "logout" THEN form' = form
           ELSE ~form[t].pending /\ form' = [form EXCEPT ![t].pending = TRUE],
           UNCHANGED <<jar, alive, page, cached, orders, round, kept, failed>>
    PROVE  IInv'
<1>1. PICK q : q = Request(t, k, u)
      OBVIOUS
<1>2. /\ RequestOK(q) /\ q.tab = t /\ q.kind = k /\ q.owner = "view" /\ q.then = {}
      /\ q.body = "unserved" /\ q.cookie = jar
      BY <1>1 DEF IInv, Types, Request, RequestOK, RequestType, Bodies, Kinds
<1>3. /\ visited' \in [Tabs -> BOOLEAN] /\ visited'[t]
      /\ \A i \in Tabs : visited[i] => visited'[i]
      BY DEF IInv, Types
<1>4. /\ form' \in [Tabs -> [pending : BOOLEAN, locked : BOOLEAN]]
      /\ \A i \in Tabs \ {t} : form'[i] = form[i]
      /\ IF Flow(q) THEN ~form[t].pending /\ form'[t].pending
         ELSE form'[t].pending = form[t].pending
  <2>1. Flow(q) <=> k # "logout"
        BY <1>2 DEF Flow
  <2>2. CASE k = "logout"
        BY <2>1, <2>2 DEF IInv, Types
  <2>3. CASE k # "logout"
    <3>1. form' = [form EXCEPT ![t] = [form[t] EXCEPT !.pending = TRUE]] /\ ~form[t].pending
          BY <2>3
    <3>2. form \in [Tabs -> [pending : BOOLEAN, locked : BOOLEAN]]
          BY DEF IInv, Types
    <3>3. /\ [form[t] EXCEPT !.pending = TRUE] \in [pending : BOOLEAN, locked : BOOLEAN]
          /\ [form[t] EXCEPT !.pending = TRUE].pending
          BY <3>2
    <3>. QED BY <2>1, <2>3, <3>1, <3>2, <3>3
  <2>. QED BY <2>2, <2>3
<1>5. Types'
      BY <1>3, <1>4, ObserveType, ActType DEF IInv, Types
<1>. QED BY <1>1, <1>2, <1>3, <1>4, <1>5, SendStep

LEMMA VisitorStep ==
    ASSUME IInv, Observe, NEW t \in Tabs,
           \/ \E p \in OpenPages : Open(t, p) \/ Go(t, p)
           \/ Focus(t) \/ Register(t) \/ Logout(t) \/ Unlock(t)
           \/ \E u \in Users : Submit(t, u)
    PROVE  IInv'
<1>1. CASE \E p \in OpenPages : Open(t, p) \/ Go(t, p)
      BY <1>1, OpenStep, GoStep
<1>2. CASE Focus(t)
      BY <1>2, FocusStep
<1>3. CASE Register(t)
      BY <1>3, AskStep DEF Register, server, Identities
<1>4. CASE Logout(t)
      BY <1>4, AskStep DEF Logout, server, Identities
<1>5. ASSUME NEW u \in Users, Submit(t, u) PROVE IInv'
      BY <1>5, AskStep DEF Submit, server, Identities
<1>6. CASE Unlock(t)
  <2>1. /\ form' \in [Tabs -> [pending : BOOLEAN, locked : BOOLEAN]]
        /\ \A i \in Tabs : form'[i].pending = form[i].pending
        BY <1>6 DEF Unlock, IInv, Types
  <2>2. failed' \in [Tabs -> BOOLEAN]
        BY <1>6 DEF Unlock, IInv, Types
  <2>3. /\ UNCHANGED <<jar, alive, page, cached, orders, net, round, kept, visited, acts>>
        BY <1>6 DEF Unlock, server
  <2>4. Types'
        BY <2>1, <2>2, <2>3, ObserveType DEF IInv, Types
  <2>. QED BY <2>1, <2>3, <2>4, SameRequests
<1>. QED BY <1>1, <1>2, <1>3, <1>4, <1>5, <1>6

-----------------------------------------------------------------------------
(* What the backend does.                                                   *)

LEMMA BodyIsOK ==
    ASSUME NEW r, RequestOK(r), NEW b \in Bodies,
           r.kind = "probe" => b \in {"unserved", "refused"} \cup Identities,
           NEW q, q = [r EXCEPT !.body = b]
    PROVE  /\ RequestOK(q) /\ q.body = b
           /\ q.tab = r.tab /\ q.kind = r.kind /\ q.owner = r.owner
           /\ q.then = r.then /\ q.joined = r.joined
    BY DEF RequestOK, RequestType

(* The bodies of answers; they are no account's name.                       *)
LEMMA BodyFacts ==
    /\ "ok" \in Bodies /\ "refused" \in Bodies /\ "unauthorized" \in Bodies
    /\ Identities \subseteq Bodies
    /\ \A u \in Identities : u \notin {"unserved", "ok", "refused", "unauthorized"}
    BY SessionAssumption DEF Bodies, Identities, Nobody

LEMMA ServeStep ==
    ASSUME IInv, Observe, NEW r \in net, Serve(r)
    PROVE  IInv'
<1>1. /\ UNCHANGED <<jar, page, cached, form, orders, round, kept, failed, visited, acts>>
      /\ r.body = "unserved"
      BY DEF Serve
<1>2. RequestOK(r) /\ alive \subseteq Sessions /\ jar \in Cookies
      BY DEF IInv, AllOK, Types
<1>3. alive' \subseteq Sessions => Types'
      BY <1>1, ObserveType DEF IInv, Types
<1>4. ASSUME NEW b \in Bodies \ {"unserved"}, Served(r, b), alive' \subseteq alive,
             r.kind = "probe" => alive' = alive /\ b \in {"refused", Owner(r.cookie)}
      PROVE  IInv'
  <2>1. PICK q : q = [r EXCEPT !.body = b]
        OBVIOUS
  <2>2. net' = (net \ {r}) \cup {q}
        BY <1>4, <2>1 DEF Served
  <2>3. Owner(r.cookie) \in Identities
        BY <1>2, OwnerIsIdentity DEF RequestOK, RequestType
  <2>4. /\ RequestOK(q) /\ q.body = b
        /\ q.tab = r.tab /\ q.kind = r.kind /\ q.owner = r.owner
        /\ q.then = r.then /\ q.joined = r.joined
        BY <1>2, <1>4, <2>1, <2>3, BodyIsOK
  <2>5. r.kind = "probe" => alive' = alive /\ (q.body \in Identities => q.body = Owner(r.cookie))
        BY <1>4, <2>4, BodyFacts
  <2>6. Types'
        BY <1>2, <1>3, <1>4
  <2>. QED BY <1>1, <1>4, <2>2, <2>4, <2>5, <2>6, AnswerStep
<1>5. ASSUME r.kind = "login", SignedIn(r) PROVE IInv'
  <2>. DEFINE s == NewSession(r.user)
  <2>1. s \in NewSessions(r.user)
        BY <1>5 DEF SignedIn, NewSession
  <2>2. s \in Sessions /\ s \in Cookies /\ \A x \in net : x.cookie # s
        BY <2>1 DEF NewSessions, Cookies
  <2>3. /\ net' = (net \ {r}) \cup {[r EXCEPT !.body = "ok", !.cookie = s]}
        /\ alive' = (alive \ {r.cookie}) \cup {s}
        BY <1>5 DEF SignedIn
  <2>. HIDE DEF s
  <2>4. PICK q : q = [r EXCEPT !.body = "ok", !.cookie = s]
        OBVIOUS
  <2>5. /\ RequestOK(q) /\ q.body = "ok"
        /\ q.tab = r.tab /\ q.kind = r.kind /\ q.owner = r.owner
        /\ q.then = r.then /\ q.joined = r.joined
        BY <1>2, <1>5, <2>2, <2>4 DEF RequestOK, RequestType, Bodies
  <2>6. Types'
        BY <1>2, <1>3, <2>2, <2>3
  <2>7. \A x \in net : x.cookie \in alive' => x.cookie \in alive
        BY <2>2, <2>3
  <2>. QED BY <1>1, <1>5, <2>3, <2>4, <2>5, <2>6, <2>7, AnswerStep
<1>6. Owner(r.cookie) \in Identities
      BY <1>2, OwnerIsIdentity DEF RequestOK, RequestType
<1>7. CASE r.kind \in {"probe", "confirm"} /\ Served(r, Owner(r.cookie)) /\ alive' = alive
      BY <1>4, <1>6, <1>7, BodyFacts
<1>8. CASE /\ r.kind = "orders" /\ alive' = alive
           /\ Served(r, IF r.cookie \in alive THEN r.cookie.user ELSE "unauthorized")
  <2>1. r.cookie \in alive => r.cookie.user = Owner(r.cookie)
        BY DEF Owner
  <2>. QED BY <1>4, <1>6, <1>8, <2>1, BodyFacts
<1>9. CASE /\ r.kind \in {"login", "register"} /\ alive' = alive
           /\ Served(r, "unauthorized") \/ Served(r, "ok")
      BY <1>4, <1>9, BodyFacts
<1>10. CASE r.kind = "logout" /\ Served(r, "ok") /\ alive' = alive \ {r.cookie}
       BY <1>4, <1>10, BodyFacts
<1>11. CASE Served(r, "refused") /\ alive' = alive
       BY <1>4, <1>11, BodyFacts
<1>. QED BY <1>5, <1>7, <1>8, <1>9, <1>10, <1>11 DEF Serve

LEMMA ExpireStep ==
    ASSUME IInv, Observe, NEW s \in Sessions, Expire(s)
    PROVE  IInv'
<1>1. /\ UNCHANGED <<jar, page, cached, form, orders, net, round, kept, failed, visited>>
      /\ Act /\ alive' = alive \ {s}
      BY DEF Expire
<1>2. Types'
      BY <1>1, ObserveType, ActType DEF IInv, Types
<1>. QED BY <1>1, <1>2, SameRequests

-----------------------------------------------------------------------------
(* Answers.                                                                 *)

LEMMA AttemptFailsStep ==
    ASSUME IInv, Observe, NEW r \in net, r.kind \in {"login", "confirm", "register"},
           r.owner # "nobody", AttemptFails(r), UNCHANGED acts
    PROVE  IInv'
<1>. DEFINE t == r.tab
<1>1. RequestOK(r) /\ r \in RequestType /\ t \in Tabs
      BY DEF IInv, AllOK, RequestOK, RequestType
<1>2. /\ UNCHANGED <<jar, alive, page, cached, orders, round, kept, visited>>
      /\ net' = net \ {r} /\ form' = FormAfterError(r)
      BY DEF AttemptFails, server
<1>3. Types'
  <2>1. failed' \in [Tabs -> BOOLEAN]
        BY <1>1, FailedType DEF AttemptFails, IInv
  <2>2. form' \in [Tabs -> [pending : BOOLEAN, locked : BOOLEAN]]
        BY <1>1, <1>2, FormAfterErrorType DEF IInv
  <2>. QED BY <1>2, <2>1, <2>2, ObserveType DEF IInv, Types
<1>4. Converged(t)'
  <2>1. Converging(t) => Converging(t)'
        BY <1>2 DEF Converging
  <2>. QED BY <1>1, <1>2, <2>1, ConvergedStays
<1>5. /\ \A i \in Tabs \ {t} : form'[i] = form[i]
      /\ r.owner = "view" => ~form'[t].pending
      /\ r.owner # "view" => form' = form
      BY <1>1, <1>2 DEF FormAfterError, IInv, Types
<1>6. PendingOK(t)'
  <2>1. CASE r.owner = "view"
    <3>1. ~Attempting(t)'
          BY <1>1, <1>2, <2>1 DEF IInv, OneAttempt, Attempting, Attempt, Owns, Flow
    <3>. QED BY <1>5, <2>1, <3>1 DEF PendingOK
  <2>2. CASE r.owner # "view"
    <3>1. Running(t) => Running(t)'
          BY <1>2, <2>2 DEF Running, Owns
    <3>2. Attempting(t)' => Attempting(t)
          BY <1>2 DEF Attempting
    <3>. QED BY <1>1, <1>5, <2>2, <3>1, <3>2, PendingStays
  <2>. QED BY <2>1, <2>2
<1>. QED BY <1>2, <1>3, <1>4, <1>5, <1>6, DropStep

LEMMA LoginAnswerStep ==
    ASSUME IInv, Observe, NEW r \in net, r.kind = "login", r.owner # "nobody",
           NEW says, LoginAnswer(r, says), UNCHANGED acts
    PROVE  IInv'
<1>1. CASE says = "ok"
  <2>1. PICK q : q = [Request(r.tab, "confirm", r.user) EXCEPT !.cookie = r.cookie,
                                                               !.owner = r.owner]
        OBVIOUS
  <2>2. /\ RequestOK(q) /\ q.kind = "confirm" /\ q.tab = r.tab /\ q.owner = r.owner
        BY <2>1 DEF IInv, AllOK, Types, Request, RequestOK, RequestType, Bodies, Kinds
  <2>3. /\ jar' = r.cookie /\ net' = (net \ {r}) \cup {q}
        /\ UNCHANGED <<alive, page, cached, form, orders, round, kept, failed, visited>>
        BY <1>1, <2>1 DEF LoginAnswer, AttemptFails
  <2>4. r.cookie \in Cookies
        BY DEF IInv, AllOK, RequestOK, RequestType
  <2>5. Types'
        BY <2>3, <2>4, ObserveType DEF IInv, Types
  <2>. QED BY <2>2, <2>3, <2>5, FetchStep
<1>2. CASE says # "ok"
      BY <1>2, AttemptFailsStep DEF LoginAnswer
<1>. QED BY <1>1, <1>2

LEMMA FlipType ==
    ASSUME Types, NEW t
    PROVE  [round EXCEPT ![t] = ~@] \in [Tabs -> BOOLEAN]
    BY DEF Types

LEMMA ConfirmAnswerStep ==
    ASSUME IInv, Observe, NEW r \in net, r.kind = "confirm", r.owner # "nobody",
           NEW says, ConfirmAnswer(r, says), UNCHANGED acts
    PROVE  IInv'
<1>1. CASE says \in Users
  <2>1. /\ UNCHANGED <<jar, alive, page, cached, form, orders, kept, failed, visited>>
        /\ net' = Converge(r.tab, "login", net \ {r}, jar)
        /\ round' = [round EXCEPT ![r.tab] = ~@]
        BY <1>1 DEF ConfirmAnswer, server
  <2>2. Types'
        BY <2>1, ObserveType, FlipType DEF IInv, Types
  <2>3. net' = Converge(r.tab, "login", net \ {r}, jar') /\ "login" \in Flows
        BY <2>1 DEF Flows
  <2>. QED BY <2>1, <2>2, <2>3, ConvergeStep
<1>2. CASE says \notin Users
      BY <1>2, AttemptFailsStep DEF ConfirmAnswer
<1>. QED BY <1>1, <1>2

LEMMA LogoutAnswerStep ==
    ASSUME IInv, Observe, NEW r \in net, r.kind = "logout", r.owner # "nobody",
           NEW says, LogoutAnswer(r, says), UNCHANGED acts
    PROVE  IInv'
<1>1. /\ UNCHANGED <<alive, page, cached, form, orders, kept, failed, visited>>
      /\ net' = Converge(r.tab, "logout", net \ {r}, jar')
      /\ round' = [round EXCEPT ![r.tab] = ~@]
      BY DEF LogoutAnswer
<1>2. jar' \in Cookies
      BY DEF LogoutAnswer, IInv, Types, Cookies
<1>3. Types'
      BY <1>1, <1>2, ObserveType, FlipType DEF IInv, Types
<1>4. "logout" \in Flows
      BY DEF Flows
<1>. QED BY <1>1, <1>3, <1>4, ConvergeStep

(* The answer of a probe that was not joined was true since the last round. *)
LEMMA ProbeAnswerStep ==
    ASSUME IInv, Observe, NEW r \in net, r.kind = "probe",
           NEW says \in {r.body, "refused"} \ {"unserved"},
           ProbeAnswer(r, says), UNCHANGED acts
    PROVE  IInv'
<1>. DEFINE t == r.tab
            pending == net \ {r}
<1>1. RequestOK(r) /\ r \in RequestType /\ t \in Tabs
      BY DEF IInv, AllOK, RequestOK, RequestType
<1>2. UNCHANGED <<jar, alive, round, failed, visited>>
      BY DEF ProbeAnswer, server
<1>3. /\ cached' \in [Tabs -> Identities \cup {Unknown}]
      /\ \A i \in Tabs \ {t} : cached'[i] = cached[i]
      /\ says \in Identities => cached'[t] = says
      BY <1>1 DEF ProbeAnswer, IInv, Types
<1>4. /\ kept' \in [Tabs -> BOOLEAN]
      /\ \A i \in Tabs \ {t} : kept'[i] = kept[i]
      /\ ~kept'[t] => says \in Identities /\ ~r.joined
  <2>. DEFINE b == says \notin Identities \/ r.joined
  <2>1. b \in BOOLEAN /\ kept' = [kept EXCEPT ![t] = b] /\ kept \in [Tabs -> BOOLEAN]
        BY <1>1 DEF ProbeAnswer, IInv, Types, RequestType
  <2>2. ~b => says \in Identities /\ ~r.joined
        OBVIOUS
  <2>. HIDE DEF b
  <2>. QED BY <1>1, <2>1, <2>2
<1>5. Converged(t)'
  <2>1. SUFFICES ASSUME says \in Identities, ~r.joined
                 PROVE  says \in seen'[t]
        BY <1>3, <1>4 DEF Converged
  <2>2. says = r.body /\ r.body # "unserved"
        BY <2>1, BodyFacts
  <2>3. ProbeOK(r)
        BY DEF IInv
  <2>. QED BY <1>1, <1>2, <2>1, <2>2, <2>3, SeenStays DEF ProbeOK
<1>6. \A q \in net : q.tab # t => q \in pending
      OBVIOUS
<1>7. ASSUME NEW p \in OpenPages, Push(t, p, Leave(t, pending)), p = "account" => visited'[t]
      PROVE  IInv'
  <2>1. Types'
        BY <1>1, <1>2, <1>3, <1>4, <1>7, PushTypes, ObserveType DEF IInv, Types
  <2>2. pending \in SUBSET net
        OBVIOUS
  <2>. HIDE DEF pending, t
  <2>. QED BY <1>1, <1>2, <1>3, <1>4, <1>5, <1>6, <1>7, <2>1, <2>2, PushStep
<1>8. CASE "login" \in r.then
  <2>1. Push(t, Gated("account"), Leave(t, pending))
        BY <1>8 DEF ProbeAnswer
  <2>2. visited'[t]
        BY <1>1, <1>2, <1>8 DEF IInv, GuestOK, RequestOK
  <2>3. Gated("account") \in OpenPages
        BY GatedPage DEF OpenPages, Protected
  <2>. QED BY <1>7, <2>1, <2>2, <2>3
<1>9. CASE r.then = {"logout"} /\ Refreshed(t) # page[t]
  <2>1. Push(t, Refreshed(t), Leave(t, pending))
        BY <1>9 DEF ProbeAnswer
  <2>2. Refreshed(t) = "login" /\ "login" \in OpenPages
        BY <1>9 DEF Refreshed, Gated, OpenPages
  <2>. QED BY <1>7, <2>1, <2>2
<1>10. CASE "login" \notin r.then /\ ~(r.then = {"logout"} /\ Refreshed(t) # page[t])
  <2>1. net' = net \ {r} /\ UNCHANGED <<page, form, orders>>
        BY <1>10 DEF ProbeAnswer
  <2>2. Types'
        BY <1>2, <1>3, <1>4, <2>1, ObserveType DEF IInv, Types
  <2>3. PendingOK(t)'
    <3>1. Running(t) => Running(t)'
          BY <1>10, <2>1 DEF Running, Flow
    <3>2. Attempting(t)' => Attempting(t)
          BY <2>1 DEF Attempting
    <3>. QED BY <1>1, <2>1, <3>1, <3>2, PendingStays
  <2>. QED BY <1>2, <1>3, <1>4, <1>5, <2>1, <2>2, <2>3, DropStep
<1>. QED BY <1>8, <1>9, <1>10

(* A request of no attempt and no probe is settled.                         *)
LEMMA SettleStep ==
    ASSUME IInv, Types', Observe, NEW r \in net, net' = net \ {r},
           r.owner = "nobody" \/ r.kind = "orders",
           UNCHANGED <<jar, alive, cached, form, round, kept, visited>>
    PROVE  IInv'
<1>1. RequestOK(r) /\ r.tab \in Tabs
      BY DEF IInv, AllOK, RequestOK, RequestType
<1>2. Running(r.tab) => Running(r.tab)'
      BY <1>1 DEF Running, Owns, Flow, RequestOK
<1>3. Attempting(r.tab)' => Attempting(r.tab)
      BY DEF Attempting
<1>4. Converging(r.tab) => Converging(r.tab)'
      BY <1>1 DEF Converging, RequestOK
<1>5. PendingOK(r.tab)' /\ Converged(r.tab)'
      BY <1>1, <1>2, <1>3, <1>4, PendingStays, ConvergedStays
<1>. QED BY <1>5, DropStep

LEMMA OrdersAnswerStep ==
    ASSUME IInv, Observe, NEW r \in net, r.kind = "orders",
           NEW says, OrdersAnswer(r, says), UNCHANGED acts
    PROVE  IInv'
<1>1. orders' \in [Tabs -> Identities]
      BY DEF OrdersAnswer, IInv, Types, Identities
<1>2. /\ UNCHANGED <<jar, alive, page, cached, form, round, kept, failed, visited>>
      /\ net' = net \ {r}
      BY DEF OrdersAnswer, server
<1>3. Types'
      BY <1>1, <1>2, ObserveType DEF IInv, Types
<1>. QED BY <1>2, <1>3, SettleStep

LEMMA RegisterAnswerStep ==
    ASSUME IInv, Observe, NEW r \in net, r.kind = "register", r.owner # "nobody",
           NEW says, RegisterAnswer(r, says), UNCHANGED acts
    PROVE  IInv'
<1>1. CASE says = "ok"
  <2>. DEFINE t == r.tab
              pending == net \ {r}
  <2>1. Push(t, "login", Leave(t, pending))
        /\ UNCHANGED <<jar, alive, cached, round, kept, failed, visited>>
        BY <1>1 DEF RegisterAnswer, server, AttemptFails
  <2>2. t \in Tabs /\ "login" \in OpenPages
        BY DEF IInv, AllOK, RequestOK, RequestType, OpenPages
  <2>3. Types'
        BY <2>1, <2>2, PushTypes, ObserveType DEF IInv, Types
  <2>4. pending \in SUBSET net /\ AllOK(pending) /\ \A q \in net : q.tab # t => q \in pending
        BY DEF IInv, AllOK
  <2>5. Converging(t) => Converging(t)'
    <3>1. \A q \in pending : q.kind = "probe" => q \in net'
          BY <2>1, <2>2, <2>4, LeaveFacts DEF Push
    <3>. QED BY <3>1 DEF Converging
  <2>6. Converged(t)'
        BY <2>1, <2>2, <2>5, ConvergedStays
  <2>. HIDE DEF pending, t
  <2>. QED BY <2>1, <2>2, <2>3, <2>4, <2>6, PushStep
<1>2. CASE says # "ok"
      BY <1>2, AttemptFailsStep DEF RegisterAnswer
<1>. QED BY <1>1, <1>2

LEMMA RedirectStep ==
    ASSUME IInv, Observe, NEW r \in net, RedirectToLogin(r), UNCHANGED acts
    PROVE  IInv'
<1>. DEFINE t == r.tab
            pending == net \ {r}
<1>1. t \in Tabs /\ "login" \in OpenPages
      BY DEF IInv, AllOK, RequestOK, RequestType, OpenPages
<1>2. FullLoad(t, "login", pending) /\ UNCHANGED <<jar, alive, visited>>
      BY DEF RedirectToLogin, server
<1>3. failed' \in [Tabs -> BOOLEAN]
  <2>1. (r.kind = "login") \in BOOLEAN
        OBVIOUS
  <2>. QED BY <1>1, <2>1, FailedType DEF RedirectToLogin, IInv
<1>4. Types'
  <2>1. Types
        BY DEF IInv
  <2>. QED BY <1>1, <1>2, <1>3, <2>1, FullLoadTypes, ObserveType DEF Types
<1>5. pending \in SUBSET net /\ \A q \in net : q.tab # t => q \in pending
      OBVIOUS
<1>. HIDE DEF pending, t
<1>. QED BY <1>1, <1>2, <1>4, <1>5, FullLoadStep

LEMMA ArriveStep ==
    ASSUME IInv, Observe, NEW r \in net, Arrive(r)
    PROVE  IInv'
<1>1. PICK says \in {r.body, "refused"} \ {"unserved"} :
        /\ IF r.owner = "nobody"
           THEN /\ net' = net \ {r}
                /\ UNCHANGED <<server, page, cached, form, orders, round, kept,
                               failed, visited>>
           ELSE IF Bounced(r, says) THEN RedirectToLogin(r)
           ELSE \/ r.kind = "login" /\ LoginAnswer(r, says)
                \/ r.kind = "confirm" /\ ConfirmAnswer(r, says)
                \/ r.kind = "logout" /\ LogoutAnswer(r, says)
                \/ r.kind = "probe" /\ ProbeAnswer(r, says)
                \/ r.kind = "orders" /\ OrdersAnswer(r, says)
                \/ r.kind = "register" /\ RegisterAnswer(r, says)
        /\ UNCHANGED acts
      BY DEF Arrive
<1>2. CASE r.owner = "nobody"
  <2>1. net' = net \ {r} /\ UNCHANGED <<jar, alive, page, cached, form, orders, round, kept,
                                        failed, visited>>
        BY <1>1, <1>2 DEF server
  <2>2. Types'
        BY <1>1, <2>1, ObserveType DEF IInv, Types
  <2>. QED BY <1>2, <2>1, <2>2, SettleStep
<1>3. CASE r.owner # "nobody"
      BY <1>1, <1>3, RedirectStep, LoginAnswerStep, ConfirmAnswerStep, LogoutAnswerStep,
         ProbeAnswerStep, OrdersAnswerStep, RegisterAnswerStep
<1>. QED BY <1>2, <1>3

-----------------------------------------------------------------------------
(* The invariant, and what it implies.                                      *)

LEMMA InitInv == Init => IInv
<1>. SUFFICES ASSUME Init PROVE IInv
     OBVIOUS
<1>1. Types
      BY SessionAssumption DEF Init, Types, Cookies, Identities, NewForm
<1>2. AllOK(net) /\ OneProbe(net) /\ OneAttempt(net)
      BY DEF Init, AllOK, OneProbe, OneAttempt
<1>3. \A t \in Tabs : PendingOK(t)
      BY DEF Init, PendingOK, Attempting, NewForm
<1>4. \A t \in Tabs : Converged(t)
      BY DEF Init, Converged
<1>. QED BY <1>1, <1>2, <1>3, <1>4 DEF Init, IInv

LEMMA NextInv == IInv /\ [Next]_vars => IInv'
<1>. SUFFICES ASSUME IInv, [Next]_vars PROVE IInv'
     OBVIOUS
<1>1. CASE UNCHANGED vars
      BY <1>1 DEF vars, IInv, Types, AllOK, OneProbe, OneAttempt, Attempt, Flow, Owns, PendingOK,
         Running, Attempting, ProbeOK, Owner, GuestOK, Converged, Converging
<1>2. CASE ServeSome /\ Observe
      BY <1>2, ServeStep DEF ServeSome
<1>3. CASE ArriveSome /\ Observe
      BY <1>3, ArriveStep DEF ArriveSome
<1>4. CASE \E s \in Sessions : Expire(s) /\ Observe
      BY <1>4, ExpireStep
<1>5. CASE \E t \in Tabs :
             \/ \E p \in OpenPages : Open(t, p) /\ Observe
             \/ \E p \in OpenPages : Go(t, p) /\ Observe
             \/ Focus(t) /\ Observe
             \/ \E u \in Users : Submit(t, u) /\ Observe
             \/ Register(t) /\ Observe
             \/ Logout(t) /\ Observe
             \/ Unlock(t) /\ Observe
      BY <1>5, VisitorStep
<1>. QED BY <1>1, <1>2, <1>3, <1>4, <1>5 DEF Next

LEMMA SpecInv == Spec => []IInv
      BY InitInv, NextInv, PTL DEF Spec

LEMMA OneProbePerTab ==
    ASSUME OneProbe(net), NEW t
    PROVE  Cardinality({r \in net : r.tab = t /\ r.kind = "probe"}) <= 1
<1>. DEFINE P == {r \in net : r.tab = t /\ r.kind = "probe"}
<1>1. CASE P = {}
      BY <1>1, FS_EmptySet
<1>2. CASE P # {}
  <2>1. PICK r \in P : TRUE
        BY <1>2
  <2>2. P = {r}
        BY <2>1 DEF OneProbe
  <2>. HIDE DEF P
  <2>3. Cardinality(P) = 1
        BY <2>2, FS_Singleton
  <2>. QED BY <2>3 DEF P
<1>. QED BY <1>1, <1>2

(* SessionInv: types, at most one probe of a tab under way, and a form that *)
(* is pending exactly while its attempt or the probe that ends it is: no    *)
(* answer that came, or was lost, leaves the login or registration form     *)
(* disabled, however many tabs share the cookie.                            *)
THEOREM SessionIsSound == Spec => []SessionInv
<1>1. IInv => SessionInv
  <2>. SUFFICES ASSUME IInv PROVE SessionInv
       OBVIOUS
  <2>1. TypeOK
    <3>1. \A t \in Tabs : Cardinality({r \in net : r.tab = t /\ r.kind = "probe"}) <= 1
          BY OneProbePerTab DEF IInv
    <3>2. \A r \in net : /\ r.tab \in Tabs /\ r.kind \in Kinds /\ r.body \in Bodies
                         /\ r.cookie \in Cookies /\ r.user \in Identities
                         /\ r.then \subseteq {"login", "logout"}
                         /\ r.owner \in {"view", "page", "nobody"}
          BY DEF IInv, AllOK, RequestOK, RequestType, Flows
    <3>. QED BY <3>1, <3>2 DEF IInv, Types, TypeOK
  <2>2. PendingIsRunning
        BY DEF IInv, PendingOK, Running, Attempting, Attempt, PendingIsRunning
  <2>. QED BY <2>1, <2>2 DEF SessionInv
<1>. QED BY <1>1, SpecInv, PTL

(* ConvergedIdentity: once the probe after a sign-in or sign-out answered,  *)
(* the menu shows who was signed in since, or nobody once a session ended:  *)
(* no answer served before comes back over it, whatever order answers take. *)
THEOREM IdentityConverges == Spec => []ConvergedIdentity
<1>1. IInv => ConvergedIdentity
      BY DEF IInv, Converged, Converging, Probing, ConvergedIdentity
<1>. QED BY <1>1, SpecInv, PTL

(* An answer to a guest's tab leaves the page alone.                        *)
LEMMA GuestArrives ==
    ASSUME IInv, NEW t \in Tabs, ~visited[t], NEW r \in net, Arrive(r)
    PROVE  page'[t] = page[t]
<1>1. /\ RequestOK(r) /\ r \in RequestType
      /\ page \in [Tabs -> OpenPages \cup {"closed"}]
      BY DEF IInv, AllOK, RequestOK, Types
<1>2. PICK says \in {r.body, "refused"} \ {"unserved"} :
        IF r.owner = "nobody" THEN page' = page
        ELSE IF Bounced(r, says) THEN RedirectToLogin(r)
        ELSE \/ r.kind = "login" /\ LoginAnswer(r, says)
             \/ r.kind = "confirm" /\ ConfirmAnswer(r, says)
             \/ r.kind = "logout" /\ LogoutAnswer(r, says)
             \/ r.kind = "probe" /\ ProbeAnswer(r, says)
             \/ r.kind = "orders" /\ OrdersAnswer(r, says)
             \/ r.kind = "register" /\ RegisterAnswer(r, says)
      BY DEF Arrive
<1>3. CASE r.tab # t
  <2>1. ASSUME NEW p, NEW pending, Push(r.tab, p, pending) \/ FullLoad(r.tab, p, pending)
        PROVE  page'[t] = page[t]
        BY <1>1, <1>3, <2>1 DEF Push, FullLoad
  <2>. QED BY <1>2, <2>1 DEF RedirectToLogin, LoginAnswer, ConfirmAnswer, LogoutAnswer, ProbeAnswer,
              OrdersAnswer, RegisterAnswer, AttemptFails
<1>4. CASE r.tab = t
  <2>1. r.owner = "nobody" \/ (r.kind = "probe" /\ r.then = {})
        BY <1>4 DEF IInv, GuestOK
  <2>2. r.kind = "probe" => ~Bounced(r, says)
    <3>1. r.kind = "probe" => says \in {"refused"} \cup Identities
          BY <1>1 DEF RequestOK
    <3>. QED BY <3>1, BodyFacts DEF Bounced, Exempt
  <2>3. r.owner # "nobody" => ProbeAnswer(r, says) /\ r.then = {}
        BY <1>2, <2>1, <2>2
  <2>. QED BY <1>2, <2>3 DEF ProbeAnswer
<1>. QED BY <1>3, <1>4

(* GuestStaysHome: while the visitor of the home page does nothing, no      *)
(* answer sends the page to the login form: a tab that used no form and no  *)
(* protected page has only probes under way, and their 401 is exempt.       *)
THEOREM GuestsStayHome == Spec => GuestStaysHome
<1>. DEFINE Stays == \A t \in Tabs : page[t] = "home" /\ ~visited[t]
                        => page'[t] # "login" \/ visited'[t] \/ acts' # acts
<1>1. IInv /\ [Next]_vars => [Stays]_vars
  <2>. SUFFICES ASSUME IInv, Next, NEW t \in Tabs, page[t] = "home", ~visited[t],
                       acts' = acts
                PROVE  page'[t] # "login"
       OBVIOUS
  <2>1. ~Act
        BY SessionAssumption DEF IInv, Types, Act
  <2>2. CASE ServeSome
        BY <2>2 DEF ServeSome, Serve
  <2>3. CASE ArriveSome
        BY <2>3, GuestArrives DEF ArriveSome
  <2>4. ASSUME NEW i \in Tabs, Unlock(i) PROVE page'[t] # "login"
        BY <2>4 DEF Unlock
  <2>. QED BY <2>1, <2>2, <2>3, <2>4 DEF Next, Expire, Open, Go, Focus, Submit, Register, Logout
<1>. QED BY <1>1, SpecInv, PTL DEF Spec, GuestStaysHome
=============================================================================
