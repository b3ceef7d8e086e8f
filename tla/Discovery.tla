----------------------------- MODULE Discovery -----------------------------
(***************************************************************************)
(* Finding one's way in the browser: the search page, with its debounced    *)
(* query, its filters and its pager, the directory of funeral homes (module *)
(* Funeral), the lists of a category or a seller (module Browse), and the   *)
(* command palette of the header, which outlives every page and leads away  *)
(* from each.  Palette and search page meet in two places of the browser's  *)
(* storage: the recent searches, and the query that the palette hands over. *)
(*                                                                          *)
(* Every change of what is asked takes a new request identifier and starts  *)
(* the debounce anew.  A request already sent is not aborted: it becomes    *)
(* stale, and its answer is dropped.                                        *)
(***************************************************************************)
EXTENDS Funeral, Browse

CONSTANTS
    Terms,          \* what can be typed, besides nothing
    Fallback,       \* the categories offered before the catalog's are known
    Categories,     \* the categories of the catalog
    RecentLimit,    \* RECENT_SEARCHES_LIMIT
    MaxPages        \* bound: pages of results

ASSUME DiscoveryAssumption ==
    RecentLimit \in Nat \ {0} /\ MaxPages \in Nat \ {0}

VARIABLES
    route,      \* the page shown
    search,     \* the search page
    palette,    \* the command palette
    recents,    \* the recent searches, newest first
    handoff,    \* the query the palette left for the search page
    net,        \* requests on their way
    stock,      \* per category: the pages of results a query has, looked at
                \* while there is a search page
    shrunk      \* a result went away since the query or the filter was set

finding == <<route, search, palette, recents, handoff, net, stock, shrunk>>
pages == <<funeral, browse>>
discoveryVars == <<finding, pages, acts>>

-----------------------------------------------------------------------------
Blank == "blank"
Any == "any"

Queries == Terms \cup {Blank}
Facets == {Any} \cup Fallback \cup Categories

Asks == [q : Queries, page : 1..MaxPages, filter : Facets]
Plain(q) == [q |-> q, page |-> 1, filter |-> Any]
Stocks == {s \in [Facets -> 0..MaxPages] : \A c \in Facets : s[c] <= s[Any]}
Unseen == [c \in Facets |-> 0]

NoResults == [of |-> Plain(Blank), total |-> 0, some |-> FALSE]
Results == [of : Asks, total : 1..MaxPages, some : BOOLEAN]

ClosedPage == [q |-> Blank, page |-> 1, filter |-> Any, results |-> NoResults,
               status |-> "idle", timer |-> FALSE, facet |-> "loading"]

ClosedPalette == [open |-> FALSE, value |-> Blank, active |-> 0,
                  timer |-> FALSE, shown |-> None, recent |-> <<>>]

(* What a search page asks for.                                             *)
Asked(s) == [q |-> s.q, page |-> s.page, filter |-> s.filter]

(* A request is fresh while its identifier is the newest of the component   *)
(* that sent it, which may have been unmounted since.                       *)
Request(kind, of) == [kind |-> kind, of |-> of, fresh |-> TRUE, mounted |-> TRUE]

SupersedeNone(kind) == net

Supersede(kind) ==
    {IF r.kind = kind /\ r.mounted THEN [r EXCEPT !.fresh = FALSE] ELSE r
        : r \in net}

(* The page is left: its facets are cancelled, its last search is not.      *)
Unmount ==
    {IF r.kind = "suggest" THEN r
     ELSE [r EXCEPT !.mounted = FALSE, !.fresh = @ /\ r.kind = "search"]
        : r \in net}

(* The newest first, none twice, never more than the limit; a query that is *)
(* searched again leaves its old place, of which it has one.                *)
Without(q) ==
    IF \E i \in 1..Len(recents) : recents[i] = q
    THEN LET at == CHOOSE i \in 1..Len(recents) : recents[i] = q
         IN  [i \in 1..(Len(recents) - 1) |->
                 IF i < at THEN recents[i] ELSE recents[i + 1]]
    ELSE recents
Remembered(q) ==
    LET next == <<q>> \o Without(q)
    IN  [i \in 1..(IF Len(next) < RecentLimit THEN Len(next) ELSE RecentLimit)
            |-> next[i]]

-----------------------------------------------------------------------------
(* The search page.                                                         *)

RunOnce(s) ==
    IF s.q = Blank
    THEN [s EXCEPT !.status = "idle", !.results = NoResults, !.timer = FALSE]
    ELSE [s EXCEPT !.status = "loading", !.timer = @ \/ s.status # "loading"]

(* The effect of a new query, page or filter; an empty query asks nothing.  *)
Run(s) ==
    IF s.q = Blank
    THEN [s EXCEPT !.status = "idle", !.results = NoResults, !.timer = FALSE]
    ELSE [s EXCEPT !.status = "loading", !.timer = TRUE]

Type(q) ==
    /\ route = "search" /\ q # search.q /\ Act
    /\ search' = Run([search EXCEPT !.q = q, !.page = 1])
    /\ net' = Supersede("search")
    /\ shrunk' = FALSE
    /\ UNCHANGED <<route, palette, recents, handoff, stock, pages>>

(* The categories offered: the fallback list until the catalog's arrive.    *)
Offered == {Any} \cup (IF search.facet = "ready" THEN Categories ELSE Fallback)

Filtered(c) == [search EXCEPT !.filter = c, !.page = 1]

(* The list is disabled once the categories failed to load.                 *)
Filter(c) ==
    /\ route = "search" /\ search.facet # "pending" /\ Act
    /\ c \in Offered \ {search.filter}
    /\ search' = Run(Filtered(c))
    /\ net' = Supersede("search")
    /\ shrunk' = FALSE
    /\ UNCHANGED <<route, palette, recents, handoff, stock, pages>>

(* The pager is shown under results of several pages only.                  *)
Turn(p) ==
    /\ route = "search" /\ search.status = "ready" /\ search.results.some
    /\ search.results.total > 1 /\ Act
    /\ p \in {search.page - 1, search.page + 1}
    /\ p \in 1..search.results.total
    /\ search' = Run([search EXCEPT !.page = p])
    /\ net' = Supersede("search")
    /\ UNCHANGED <<route, palette, recents, handoff, stock, shrunk, pages>>

SearchTimer ==
    /\ search.timer
    /\ search' = [search EXCEPT !.timer = FALSE]
    /\ net' = net \cup {Request("search", Asked(search))}
    /\ UNCHANGED <<route, palette, recents, handoff, stock, shrunk, acts, pages>>

(* The backend's page of a query: a page past the last one is empty.        *)
Found(of) ==
    [of |-> of, total |-> IF stock[of.filter] = 0 THEN 1 ELSE stock[of.filter],
     some |-> of.page <= stock[of.filter]]

(* A fresh answer is shown if its page still is, and remembered if not.     *)
SearchAnswer(r, ok) ==
    /\ r.kind = "search"
    /\ net' = net \ {r}
    /\ search' = IF ~(r.fresh /\ r.mounted) THEN search
                 ELSE IF ok THEN [search EXCEPT !.results = Found(r.of),
                                                !.status = "ready"]
                 ELSE [search EXCEPT !.status = "error"]
    /\ recents' = IF r.fresh /\ ok THEN Remembered(r.of.q) ELSE recents
    /\ UNCHANGED <<route, palette, handoff, stock, shrunk, acts, pages>>

FacetAnswer(r, ok) ==
    /\ r.kind = "categories"
    /\ net' = net \ {r}
    /\ search' = IF ~r.fresh THEN search
                 ELSE [search EXCEPT !.facet = IF ok THEN "ready" ELSE "pending"]
    /\ UNCHANGED <<route, palette, recents, handoff, stock, shrunk, acts, pages>>

(* A listing is published or withdrawn, in a category and so in them all.   *)
Restock(c, n) ==
    /\ route = "search" /\ Act /\ n # stock[c]
    /\ c # Any => n <= stock[Any]
    /\ c = Any => \A d \in Facets \ {Any} : stock[d] <= n
    /\ stock' = [stock EXCEPT ![c] = n]
    /\ shrunk' = (shrunk \/ n < stock[c])
    /\ UNCHANGED <<route, search, palette, recents, handoff, net, pages>>

-----------------------------------------------------------------------------
(* The command palette.                                                     *)

ClosedKeeping == [palette EXCEPT !.open = FALSE, !.timer = FALSE]

(* Closing forgets the value; what was suggested is kept.                   *)
Closed == [ClosedKeeping EXCEPT !.value = Blank, !.active = 0]

(* The rows: what was searched before, or the search for what is typed.     *)
(* The suggested ones would follow; but the value is not sent, and for an   *)
(* empty one the backend suggests nothing.                                  *)
Rows(p) == IF p.value = Blank THEN p.recent
                              ELSE <<p.value>>

(* The list is built anew, and its first row highlighted.                   *)
Listed(p) == [p EXCEPT !.active = 0]

Show ==
    /\ ~palette.open /\ Act
    /\ palette' = Listed([palette EXCEPT !.open = TRUE, !.timer = TRUE,
                                         !.recent = recents])
    /\ net' = Supersede("suggest")
    /\ UNCHANGED <<route, search, recents, handoff, stock, shrunk, pages>>

(* The hotkey hides the palette and keeps the value; Escape clears it.      *)
Hide ==
    /\ palette.open /\ Act
    /\ palette' \in {ClosedKeeping, Closed}
    /\ UNCHANGED <<route, search, recents, handoff, net, stock, shrunk, pages>>

TypeValue(q) ==
    /\ palette.open /\ q # palette.value /\ Act
    /\ palette' = Listed([palette EXCEPT !.value = q, !.timer = TRUE])
    /\ net' = Supersede("suggest")
    /\ UNCHANGED <<route, search, recents, handoff, stock, shrunk, pages>>

(* The arrows; below an empty list the highlight is on no row at all.       *)
Highlight ==
    /\ palette.open
    /\ \E i \in {palette.active - 1, palette.active + 1} :
        LET last == Len(Rows(palette)) - 1
            to == IF i < palette.active THEN (IF i < 0 THEN 0 ELSE i)
                  ELSE IF i > last THEN last ELSE i
        IN  /\ to # palette.active
            /\ palette' = [palette EXCEPT !.active = to]
    /\ UNCHANGED <<route, search, recents, handoff, net, stock, shrunk, acts, pages>>

SuggestTimer ==
    /\ palette.timer
    /\ palette' = [palette EXCEPT !.timer = FALSE]
    /\ net' = net \cup {Request("suggest", Plain(palette.value))}
    /\ UNCHANGED <<route, search, recents, handoff, stock, shrunk, acts, pages>>

(* "shown" is the value the suggestions were asked for.                     *)
SuggestAnswer(r, ok) ==
    /\ r.kind = "suggest"
    /\ net' = net \ {r}
    /\ palette' =
        LET asked == IF ok THEN r.of.q ELSE None
        IN  IF ~r.fresh THEN palette
            ELSE IF ~ok /\ palette.shown = None THEN palette
            ELSE Listed([palette EXCEPT !.shown = asked])
    /\ UNCHANGED <<route, search, recents, handoff, stock, shrunk, acts, pages>>

-----------------------------------------------------------------------------
(* Navigation.                                                              *)

(* The search page is mounted: it takes what the palette left, else the     *)
(* query of the link.                                                       *)
Mount(q, left) ==
    /\ route' = "search"
    /\ search' = Run([ClosedPage EXCEPT !.q = IF left = None THEN q ELSE left])
    /\ handoff' = None
    /\ net' = net \cup {Request("categories", Plain(Blank))}
    /\ stock' \in Stocks /\ shrunk' = FALSE
    /\ LeaveDirectory /\ LeaveList

Open(q) ==
    /\ route # "search" /\ Act
    /\ Mount(q, handoff)
    /\ palette' = Closed
    /\ UNCHANGED recents

(* To another page: the directory, a list, or one that is not modelled.     *)
Leave(r) ==
    /\ r # route /\ Act
    /\ route' = r
    /\ search' = ClosedPage
    /\ net' = Unmount
    /\ palette' = Closed
    /\ stock' = Unseen /\ shrunk' = FALSE
    /\ UNCHANGED <<recents, handoff>>

VisitDirectory == Leave("directory") /\ EnterDirectory /\ LeaveList
VisitList == Leave("list") /\ LeaveDirectory /\ \E url \in Links : EnterList(url)
VisitOther == Leave("other") /\ LeaveDirectory /\ LeaveList

(* A row is picked, by Enter or by the mouse.  On the search page already,  *)
(* the push changes nothing and the query is left for a later visit.        *)
Pick(i) ==
    /\ palette.open /\ i \in 1..Len(Rows(palette)) /\ Act
    /\ LET q == Rows(palette)[i]
       IN  /\ recents' = Remembered(q)
           /\ IF route # "search"
              THEN Mount(Blank, q)
              ELSE handoff' = q /\ UNCHANGED <<route, search, net, stock, shrunk, pages>>
    /\ palette' = Closed

(* What happens on these pages leaves the rest alone.                       *)
OnDirectory ==
    /\ route = "directory"
    /\ FuneralNext
    /\ UNCHANGED <<finding, browse>>

OnList ==
    /\ route = "list"
    /\ \/ BrowseActs /\ Act
       \/ BrowseAnswers /\ UNCHANGED acts
    /\ UNCHANGED <<finding, funeral>>

-----------------------------------------------------------------------------
DiscoveryInit ==
    /\ route = "other"
    /\ search = ClosedPage
    /\ palette = ClosedPalette
    /\ recents = <<>>
    /\ handoff = None
    /\ net = {}
    /\ stock = Unseen
    /\ shrunk = FALSE
    /\ FuneralInit /\ BrowseInit
    /\ acts = 0

AnswerSome ==
    \E r \in net, ok \in BOOLEAN :
        SearchAnswer(r, ok) \/ FacetAnswer(r, ok) \/ SuggestAnswer(r, ok)

DiscoveryNext ==
    \/ \E q \in Queries : Type(q) \/ TypeValue(q) \/ Open(q)
    \/ \E c \in Facets : Filter(c)
    \/ \E p \in 1..MaxPages : Turn(p)
    \/ \E c \in Facets, n \in 0..MaxPages : Restock(c, n)
    \/ VisitDirectory \/ VisitList \/ VisitOther
    \/ Show \/ Hide \/ Highlight \/ OnDirectory \/ OnList
    \/ \E i \in 1..RecentLimit : Pick(i)
    \/ SearchTimer \/ SuggestTimer \/ AnswerSome

DiscoverySpec == DiscoveryInit /\ [][DiscoveryNext]_discoveryVars

(* Timers run out, and the browser answers or fails every request in time.  *)
DiscoveryFairSpec ==
    /\ DiscoverySpec
    /\ WF_discoveryVars(SearchTimer) /\ WF_discoveryVars(SuggestTimer)
    /\ WF_discoveryVars(AnswerSome)

-----------------------------------------------------------------------------
(* Properties.                                                              *)

SearchRequests ==
    [kind : {"search", "suggest", "categories"}, of : Asks,
     fresh : BOOLEAN, mounted : BOOLEAN]

(* Types; the recent searches are never more than the limit nor name one    *)
(* query twice, whatever late answers add to them.                          *)
DiscoveryTypeOK ==
    /\ route \in {"search", "directory", "list", "other"}
    /\ search \in [q : Queries, page : 1..MaxPages, filter : Facets,
                   results : Results \cup {NoResults},
                   status : {"idle", "loading", "ready", "error"},
                   timer : BOOLEAN, facet : {"loading", "ready", "pending"}]
    /\ palette \in [open : BOOLEAN, value : Queries, active : -1..RecentLimit,
                    timer : BOOLEAN, shown : Queries \cup {None},
                    recent : Seq(Terms)]
    /\ recents \in Seq(Terms) /\ Len(recents) <= RecentLimit
    /\ \A i, j \in 1..Len(recents) : recents[i] = recents[j] => i = j
    /\ handoff \in Terms \cup {None}
    /\ net \subseteq SearchRequests
    /\ stock \in [Facets -> 0..MaxPages]
    /\ FuneralTypeOK /\ BrowseTypeOK
    /\ shrunk \in BOOLEAN /\ acts \in 0..MaxActs

(* The results on the page answer the query, the page and the filter that   *)
(* the page now shows, in whatever order the answers arrived.               *)
ResultsAreAsked ==
    search.status = "ready" => search.results.of = Asked(search)

(* An empty page past the first one is shown only if a listing went away:   *)
(* a new query or filter starts at the first page, and the pager keeps to   *)
(* the pages there are.                                                     *)
EmptyMeansNone ==
    search.status = "ready" /\ ~search.results.some /\ ~shrunk
        => search.page = 1

(* While the page says that it loads, a timer or the newest request will    *)
(* end it.                                                                  *)
LoadingIsPending ==
    search.status = "loading" =>
        \/ search.timer
        \/ \E r \in net : /\ r.kind = "search" /\ r.fresh /\ r.mounted
                          /\ r.of = Asked(search)

(* The suggestions of a palette that has nothing pending were asked for the *)
(* value it shows, also after it was hidden while their answer was due.     *)
SuggestionsAreLatest ==
    /\ palette.open /\ ~palette.timer /\ palette.shown # None
    /\ ~\E r \in net : r.kind = "suggest" /\ r.fresh
    => palette.shown = palette.value

(* An open palette with rows highlights one of them, however the list       *)
(* changed below the highlight.                                             *)
HighlightIsARow ==
    palette.open /\ Rows(palette) # <<>>
        => palette.active \in 0..(Len(Rows(palette)) - 1)

(* A search does not load for ever: it is answered, fails, or is given up.  *)
EverySearchSettles == search.status = "loading" ~> search.status # "loading"

(* What search page and palette show answers what they ask.                 *)
ShownIsAsked == ResultsAreAsked /\ SuggestionsAreLatest

(* The state has its types; nothing loads or sends without a request, an    *)
(* empty page, a highlight and a pager are what the page can account for.   *)
DiscoveryInv ==
    /\ DiscoveryTypeOK
    /\ LoadingIsPending /\ SendingIsPending
    /\ EmptyMeansNone /\ HighlightIsARow /\ PagerIsHonest
=============================================================================
