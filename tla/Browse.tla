-------------------------------- MODULE Browse --------------------------------
(***************************************************************************)
(* The lists that the server renders: a category with its filters, and the  *)
(* storefront of a seller.  Which list it is, is all in the URL.  The pager *)
(* is rendered with the list; the filters are an island in the page that    *)
(* reads the URL once, when it is mounted, and from then on only writes it. *)
(*                                                                          *)
(* The module has no bound of its own: what the visitor does is counted     *)
(* where it is composed with the rest of the site.                          *)
(***************************************************************************)
EXTENDS Integers, Sequences

CONSTANTS
    Sellers,        \* sellers that a category can be narrowed to
    Prices,         \* lowest prices that can be typed
    Totals,         \* bound: how many pages a list may have
    Links           \* the URLs under which somebody comes to a list

ASSUME BrowseAssumption ==
    /\ Totals \subseteq Nat \ {0}
    /\ \E n \in Totals : \A k \in Totals : k <= n

VARIABLES
    shown,      \* the page that was rendered last
    draft,      \* the state of the filter island, or that it is not there
    going,      \* the URL of the navigation under way
    past,       \* the pages that the back button leads to
    astray      \* history: the list left the filters of the island behind

browse == <<shown, draft, going, past, astray>>

-----------------------------------------------------------------------------
(* URLs.  "absent" is a parameter that the URL does not have, as the page   *)
(* zero: that, or whatever else is not a positive number.  The sort "odd"   *)
(* stands for one that the shop does not know.                              *)
Absent == "absent"
Sorts == {"newest", "price_asc"}
Places == {"category", "storefront"}
LastPage == CHOOSE n \in Totals : \A k \in Totals : k <= n

Filters == [price : Prices \cup {Absent}, sellers : SUBSET Sellers, sort : Sorts]

NoFilters == [price |-> Absent, sellers |-> {}, sort |-> "newest"]

Url(place, page, price, sellers, sort) ==
    [place |-> place, page |-> page, price |-> price, sellers |-> sellers, sort |-> sort]
Urls == [place : Places, page : 0..(LastPage + 1),
         price : Prices \cup {Absent}, sellers : SUBSET Sellers,
         sort : {Absent, "odd"} \cup Sorts]
NoUrl == [place |-> "nowhere"]

ASSUME LinksAssumption == Links \subseteq Urls

(* What the page makes of its URL; a storefront has no filters.             *)
ParsePage(url) == IF url.page = 0 THEN 1 ELSE url.page
ParseFiltersUnsorted(url) ==
    IF url.place = "storefront" THEN NoFilters
    ELSE [price |-> url.price, sellers |-> url.sellers, sort |-> "newest"]
ParseFilters(url) ==
    IF url.place = "storefront" THEN NoFilters
    ELSE [price |-> url.price, sellers |-> url.sellers,
          sort |-> IF url.sort \in Sorts THEN url.sort ELSE "newest"]

(* The parameters of a set of filters; the default order has none.          *)
Written(place, page, f) ==
    Url(place, page, f.price, f.sellers, IF f.sort = "newest" THEN Absent ELSE f.sort)

-----------------------------------------------------------------------------
(* What is rendered: a list, which may be empty; that there is no such      *)
(* category or seller; or an apology, without pager and without filters.    *)
Pages == [of : Urls, kind : {"list", "missing", "error"}, total : Totals]
NoPage == [of |-> NoUrl, kind |-> "none", total |-> 1]
NoDraft == [sort |-> "no island"]

HasIsland(page) == page.kind = "list" /\ page.of.place = "category"

(* A list after a list keeps the island and what it holds; otherwise it is  *)
(* mounted anew.                                                            *)
Render(page) ==
    /\ shown' = page
    /\ draft' = IF ~HasIsland(page) THEN NoDraft
                ELSE IF HasIsland(shown) THEN draft
                ELSE ParseFilters(page.of)

Turned(url) ==
    /\ shown' = NoPage /\ draft' = NoDraft
    /\ going' = url
    /\ past' = <<>> /\ astray' = FALSE

(* A link from elsewhere, or a URL that somebody kept, shared or typed.     *)
EnterList(url) == Turned(url)
LeaveList == Turned(NoUrl)

(* The server answers what was asked for last: a navigation that another    *)
(* has replaced is dropped by the router.                                   *)
ListAnswered(kind, total) ==
    /\ going # NoUrl
    /\ Render([of |-> going, kind |-> kind, total |-> total])
    /\ past' = IF shown = NoPage THEN past ELSE <<shown>> \o past
    /\ going' = NoUrl
    /\ astray' = (astray /\ HasIsland(shown))

(* The page before is shown again as it was, without a request.             *)
GoBack ==
    /\ past # <<>>
    /\ Render(Head(past))
    /\ past' = Tail(past)
    /\ going' = NoUrl
    /\ astray' = HasIsland(shown)

-----------------------------------------------------------------------------
(* The filter island.  Every change of it sends all that it holds, and      *)
(* begins at the first page.                                                *)
WantedOnPage(f) == Written("category", shown.of.page, f)
Wanted(f) == Written("category", 0, f)

Navigate(f) ==
    /\ draft # NoDraft
    /\ draft' = f
    /\ going' = Wanted(f)
    /\ astray' = FALSE
    /\ UNCHANGED <<shown, past>>

(* A price is typed first, and goes out with whatever is changed next.      *)
TypePrice(p) ==
    /\ draft # NoDraft
    /\ p # draft.price
    /\ draft' = [draft EXCEPT !.price = p]
    /\ UNCHANGED <<shown, going, past, astray>>

ApplyPrice == Navigate(draft)

ToggleSeller(s) ==
    Navigate([draft EXCEPT !.sellers = IF s \in @ THEN @ \ {s} ELSE @ \cup {s}])

ChangeSort(sort) == Navigate([draft EXCEPT !.sort = sort])

-----------------------------------------------------------------------------
(* The pager.                                                               *)
Gap == 0

(* The first page, the last one, and those around the one shown.            *)
PageItemsNear(page, total) ==
    IF total <= 7
    THEN [i \in 1..total |-> i]
    ELSE LET low == IF page - 1 < 2 THEN 2 ELSE page - 1
             high == IF page + 1 > total - 1 THEN total - 1 ELSE page + 1
         IN  <<1>> \o (IF page > 4 THEN <<Gap>> ELSE <<>>)
                   \o [i \in 1..(high - low + 1) |-> low + i - 1]
                   \o (IF page < total - 2 THEN <<Gap>> ELSE <<>>) \o <<total>>
PageItems(page, total) ==
    IF total <= 7
    THEN [i \in 1..total |-> i]
    ELSE LET low == IF page - 1 < 2 THEN 2 ELSE page - 1
             high == IF page + 1 > total - 1 THEN total - 1 ELSE page + 1
         IN  <<1>> \o (IF page > 3 THEN <<Gap>> ELSE <<>>)
                   \o [i \in 1..(high - low + 1) |-> low + i - 1]
                   \o (IF page < total - 2 THEN <<Gap>> ELSE <<>>) \o <<total>>

Items == PageItems(ParsePage(shown.of), shown.total)

HasPager == shown.kind = "list" /\ shown.total > 1

(* The pages that the pager links to; "previous" and "next" are two more.   *)
Linked ==
    LET page == ParsePage(shown.of)
    IN  ({Items[i] : i \in 1..Len(Items)} \ {Gap})
            \cup (IF page > 1 THEN {page - 1} ELSE {})
            \cup (IF page < shown.total THEN {page + 1} ELSE {})

(* Its links carry the filters of the list, not those of the island.        *)
TurnTo(page) ==
    /\ HasPager
    /\ page \in Linked
    /\ going' = Written(shown.of.place, page, ParseFilters(shown.of))
    /\ astray' = (astray \/ going # NoUrl)
    /\ UNCHANGED <<shown, draft, past>>

-----------------------------------------------------------------------------
BrowseInit ==
    /\ shown = NoPage /\ draft = NoDraft
    /\ going = NoUrl
    /\ past = <<>> /\ astray = FALSE

BrowseAnswers ==
    \E kind \in {"list", "missing", "error"}, total \in Totals :
        ListAnswered(kind, total)

(* What the visitor does with a list.                                       *)
BrowseActs ==
    \/ \E p \in Prices \cup {Absent} : TypePrice(p)
    \/ ApplyPrice
    \/ \E s \in Sellers : ToggleSeller(s)
    \/ \E sort \in Sorts : ChangeSort(sort)
    \/ \E page \in 1..(LastPage + 1) : TurnTo(page)
    \/ GoBack

-----------------------------------------------------------------------------
(* Properties.                                                              *)

BrowseTypeOK ==
    /\ shown \in Pages \cup {NoPage}
    /\ draft \in Filters \cup {NoDraft}
    /\ going \in Urls \cup {NoUrl}
    /\ past \in Seq(Pages)
    /\ astray \in BOOLEAN

(* The sellers and the order that the island shows are those of the list,   *)
(* or of the one under way, through pages that fail, are missing, or come   *)
(* back: but for the back button, and a page turned while a filter was on   *)
(* its way, which leave the island behind.                                  *)
IslandIsShown ==
    draft # NoDraft /\ ~astray =>
        LET f == ParseFilters(IF going # NoUrl THEN going ELSE shown.of)
        IN  f.sellers = draft.sellers /\ f.sort = draft.sort

(* A page past the first is asked for only with the filters under which the *)
(* pager offered it, unless the URL came from outside: never a late page of *)
(* a set that a filter has just changed.                                    *)
PageWasOffered ==
    going # NoUrl /\ shown # NoPage =>
        \/ ParsePage(going) = 1
        \/ /\ ParseFilters(going) = ParseFilters(shown.of)
           /\ ParsePage(going) <= shown.total \/ ParsePage(going) < ParsePage(shown.of)

(* The pager leads to the first page, the last one and the neighbours, in   *)
(* order, and has a gap exactly where it leaves pages out, also on a page   *)
(* past the last.                                                           *)
PagerIsHonest ==
    HasPager =>
        LET page == ParsePage(shown.of)
            last == Len(Items)
        IN  /\ Items[1] = 1 /\ Items[last] = shown.total
            /\ \A i \in 1..(last - 1) :
                IF Items[i] = Gap THEN Items[i - 1] + 1 < Items[i + 1]
                ELSE Items[i + 1] \in {Gap, Items[i] + 1}
            /\ {page - 1, page, page + 1} \cap (1..shown.total)
                   \subseteq {Items[i] : i \in 1..last}
=============================================================================
