--------------------------- MODULE DiscoveryProofs ---------------------------
(***************************************************************************)
(* What is true of the pages a visitor finds the way by - the search, the  *)
(* funeral directory with its thank-you forms, the category and storefront *)
(* lists - for every value of the constants of Discovery.  The inductive   *)
(* invariant is DiscoveryIInv; the first four sections prove the parts of  *)
(* it that belong to Funeral and Browse, the rest puts them together.      *)
(***************************************************************************)
EXTENDS Discovery, SequenceTheorems, TLAPS

-----------------------------------------------------------------------------
(* The directory of funeral homes.                                          *)

Counted == acts \in 0..MaxActs

FuneralInv == FuneralTypeOK /\ ThanksWereEarned /\ SendingIsPending

(* An empty directory page, open or not, is sound.                          *)
LEMMA DirectoryChanges ==
    ASSUME Counted, EnterDirectory \/ LeaveDirectory
    PROVE  FuneralInv'
<1>1. forms' = [f \in FormNames |-> NewForm] /\ received' = {}
    BY DEF EnterDirectory, LeaveDirectory
<1>2. \A f \in FormNames : forms'[f] = NewForm
    BY <1>1
<1>3. \/ directory' = "away" /\ calls' = {}
      \/ directory' = "loading" /\ calls' = {Call("list")}
    BY DEF EnterDirectory, LeaveDirectory
<1>4. Call("list") \in [n : 0..MaxActs, of : FormNames \cup {"list"}, now : BOOLEAN]
      /\ Call("list").of = "list"
    BY DEF Call, Counted
<1>5. FuneralTypeOK'
    BY <1>1, <1>3, <1>4 DEF FuneralTypeOK, NewForm
<1>6. ThanksWereEarned'
    BY <1>2 DEF ThanksWereEarned, NewForm
<1>7. SendingIsPending'
    BY <1>2, <1>3, <1>4 DEF SendingIsPending, NewForm
<1> QED BY <1>5, <1>6, <1>7 DEF FuneralInv

(* Both ways of closing a form hide it and disown its requests.             *)
LEMMA ClosingIsSound ==
    ASSUME FuneralInv, NEW f \in FormNames, Hidden(f), Disowned(f),
           UNCHANGED <<directory, received>>
    PROVE  FuneralInv'
<1> USE DEF FuneralInv
<1>1. forms' = [forms EXCEPT ![f].for = None]
    BY DEF Hidden
<1>2. \A g \in FormNames : /\ forms'[g].outcome = forms[g].outcome
                           /\ g # f => forms'[g] = forms[g]
    BY <1>1 DEF FuneralTypeOK
<1>3. forms'[f].for = None
    BY <1>1 DEF FuneralTypeOK
<1>4. forms' \in [FormNames -> [for : Homes \cup {None, NoHome},
                                outcome : {"idle", "submitting", "success",
                                           "portal-pending", "error"}]]
    BY <1>1 DEF FuneralTypeOK
<1>5. calls' = {IF c.of = f THEN [c EXCEPT !.now = FALSE] ELSE c : c \in calls}
    BY DEF Disowned
<1>6. calls' \subseteq [n : 0..MaxActs, of : FormNames \cup {"list"}, now : BOOLEAN]
    BY <1>5 DEF FuneralTypeOK
<1>7. \A c \in calls : c.of # f => c \in calls'
    BY <1>5
<1>8. FuneralTypeOK'
    BY <1>4, <1>6 DEF FuneralTypeOK
<1>9. ThanksWereEarned'
    BY <1>2 DEF ThanksWereEarned
<1>10. SendingIsPending'
  <2>1. ASSUME NEW g \in FormNames, IsOpen(g)', forms'[g].outcome = "submitting"
        PROVE  \E c \in calls' : c.of = g /\ c.now
    <3>1. g # f
        BY <1>3, <2>1 DEF IsOpen
    <3>2. PICK c \in calls : c.of = g /\ c.now
        BY <1>2, <2>1, <3>1 DEF SendingIsPending, IsOpen
    <3> QED BY <1>7, <3>1, <3>2
  <2>2. directory' = "loading" => \E c \in calls' : c.of = "list"
    <3> SUFFICES ASSUME directory' = "loading" PROVE \E c \in calls' : c.of = "list"
        OBVIOUS
    <3>1. PICK c \in calls : c.of = "list"
        BY DEF SendingIsPending
    <3>2. f # "list"
        BY DEF FormNames
    <3> QED BY <1>7, <3>1, <3>2
  <2> QED BY <2>1, <2>2 DEF SendingIsPending, IsOpen
<1> QED BY <1>8, <1>9, <1>10

(* Whatever happens on the page of the directory keeps it sound.            *)
LEMMA FuneralSteps ==
    ASSUME FuneralInv, Counted, FuneralNext
    PROVE  FuneralInv'
<1> USE DEF FuneralInv
<1> DEFINE CallSet == [n : 0..MaxActs, of : FormNames \cup {"list"}, now : BOOLEAN]
           FormSet == [for : Homes \cup {None, NoHome},
                       outcome : {"idle", "submitting", "success",
                                  "portal-pending", "error"}]
<1>0. forms \in [FormNames -> FormSet] /\ calls \subseteq CallSet
    BY DEF FuneralTypeOK
<1>a. \A o \in FormNames \cup {"list"} :
        Call(o) \in CallSet /\ Call(o).of = o /\ Call(o).now
    BY DEF Call, Counted
<1>b. "list" \notin FormNames
    BY DEF FormNames
<1>1. ASSUME SearchHomes PROVE FuneralInv'
  <2>1. directory' = "loading" /\ calls' = calls \cup {Call("list")}
        /\ UNCHANGED <<forms, received>>
      BY <1>1 DEF SearchHomes
  <2>2. FuneralTypeOK'
      BY <1>a, <2>1 DEF FuneralTypeOK
  <2>3. ThanksWereEarned'
      BY <2>1 DEF ThanksWereEarned
  <2>4. SendingIsPending'
      BY <1>a, <2>1 DEF SendingIsPending, IsOpen
  <2> QED BY <2>2, <2>3, <2>4
<1>2. ASSUME NEW f \in FormNames, OpenForm(f) PROVE FuneralInv'
  <2>1. PICK h \in OffersFor(f) :
            forms' = [forms EXCEPT ![f].for = h, ![f].outcome = Reopened(f)]
      BY <1>2 DEF OpenForm
  <2>2. h \in Homes \cup {None, NoHome}
      BY DEF OffersFor, FormNames
  <2>3. UNCHANGED <<directory, calls, received>>
      BY <1>2 DEF OpenForm
  <2>4. Reopened(f) \in {"idle", forms[f].outcome}
        /\ (Reopened(f) = "idle" \/ IsOpen(f))
      BY DEF Reopened
  <2>5. forms' \in [FormNames -> FormSet]
      BY <1>0, <2>1, <2>2, <2>4
  <2>6. /\ forms'[f].outcome = Reopened(f)
        /\ \A g \in FormNames \ {f} : forms'[g] = forms[g]
      BY <1>0, <2>1
  <2>7. FuneralTypeOK'
      BY <2>3, <2>5 DEF FuneralTypeOK
  <2>8. ThanksWereEarned'
      BY <2>3, <2>4, <2>6 DEF ThanksWereEarned
  <2>9. SendingIsPending'
      BY <2>3, <2>4, <2>6 DEF SendingIsPending, IsOpen
  <2> QED BY <2>7, <2>8, <2>9
<1>3. ASSUME NEW f \in FormNames, CloseForm(f) \/ AutoClose(f) PROVE FuneralInv'
    BY <1>3, ClosingIsSound DEF CloseForm, AutoClose
<1>4. ASSUME NEW f \in FormNames, Submit(f) PROVE FuneralInv'
  <2>1. forms' = [forms EXCEPT ![f].outcome = "submitting"]
        /\ calls' = calls \cup {Call(f)} /\ UNCHANGED <<directory, received>>
      BY <1>4 DEF Submit
  <2>2. forms' \in [FormNames -> FormSet] /\ forms'[f].outcome = "submitting"
        /\ \A g \in FormNames \ {f} : forms'[g] = forms[g]
      BY <1>0, <2>1
  <2>3. FuneralTypeOK'
      BY <1>a, <2>1, <2>2 DEF FuneralTypeOK
  <2>4. ThanksWereEarned'
      BY <2>1, <2>2 DEF ThanksWereEarned
  <2>5. SendingIsPending'
      BY <1>a, <2>1, <2>2 DEF SendingIsPending, IsOpen
  <2> QED BY <2>3, <2>4, <2>5
<1>5. ASSUME NEW c \in calls, ListAnswer(c) PROVE FuneralInv'
  <2>1. c.of = "list" /\ calls' = calls \ {c} /\ directory' \in ListStates
        /\ UNCHANGED <<forms, received>>
      BY <1>5 DEF ListAnswer
  <2>2. FuneralTypeOK'
      BY <2>1 DEF FuneralTypeOK, ListStates
  <2>3. ThanksWereEarned'
      BY <2>1 DEF ThanksWereEarned
  <2>4. SendingIsPending'
      BY <1>b, <2>1 DEF SendingIsPending, IsOpen, ListStates
  <2> QED BY <2>2, <2>3, <2>4
<1>6. ASSUME NEW c \in calls, NEW got \in BOOLEAN, NEW ok \in BOOLEAN,
             NEW known \in BOOLEAN, FormAnswer(c, got, ok, known)
      PROVE  FuneralInv'
  <2>1. /\ c.of \in FormNames /\ (ok => got)
        /\ calls' = calls \ {c} /\ directory' = directory
        /\ forms' = [forms EXCEPT ![c.of].outcome = Outcome(ok, known)]
        /\ received' = IF got THEN received \cup {c.of} ELSE received
      BY <1>6 DEF FormAnswer
  <2>2. /\ Outcome(ok, known) \in {"success", "error", "portal-pending"}
        /\ Outcome(ok, known) = "success" => ok
      BY DEF Outcome
  <2>3. forms' \in [FormNames -> FormSet]
        /\ forms'[c.of].outcome = Outcome(ok, known)
        /\ \A g \in FormNames \ {c.of} : forms'[g] = forms[g]
      BY <1>0, <2>1, <2>2
  <2>4. FuneralTypeOK'
      BY <2>1, <2>3 DEF FuneralTypeOK
  <2>5. ThanksWereEarned'
      BY <2>1, <2>2, <2>3 DEF ThanksWereEarned
  <2>6. SendingIsPending'
      BY <1>b, <2>1, <2>2, <2>3 DEF SendingIsPending, IsOpen
  <2> QED BY <2>4, <2>5, <2>6
<1> QED BY <1>1, <1>2, <1>3, <1>4, <1>5, <1>6 DEF FuneralNext, FuneralAnswers

-----------------------------------------------------------------------------
(* The lists, their filters and their pager.                                *)

(* A filter island there is stands on the list of a category.               *)
IslandHasPlace == draft # NoDraft => HasIsland(shown)

BrowseInv == BrowseTypeOK /\ IslandHasPlace /\ IslandIsShown /\ PageWasOffered

LEMMA LastPageIsMax == LastPage \in Totals /\ LastPage \in Nat \ {0}
<1>1. \E n \in Totals : \A k \in Totals : k <= n
    BY BrowseAssumption
<1>2. LastPage \in Totals
    BY <1>1 DEF LastPage
<1> QED BY <1>2, BrowseAssumption

(* Filters written into a URL are read from it again.                       *)
LEMMA FiltersAreWritten ==
    ASSUME NEW f \in Filters, NEW page \in 0..(LastPage + 1)
    PROVE  LET url == Written("category", page, f)
           IN  /\ url \in Urls /\ url # NoUrl /\ url.page = page
               /\ ParseFilters(url) = f
<1> DEFINE url == Written("category", page, f)
<1>1. f.sort \in Sorts
    BY DEF Filters
<1>2. url = [place |-> "category", page |-> page, price |-> f.price,
             sellers |-> f.sellers,
             sort |-> IF f.sort = "newest" THEN Absent ELSE f.sort]
    BY DEF Written, Url
<1>3. url \in Urls
    BY <1>1, <1>2 DEF Urls, Places, Filters
<1>4. url # NoUrl
    BY <1>2 DEF NoUrl
<1>5. (IF url.sort \in Sorts THEN url.sort ELSE "newest") = f.sort
    BY <1>1, <1>2 DEF Sorts, Absent
<1>6. ParseFilters(url) = [price |-> f.price, sellers |-> f.sellers, sort |-> f.sort]
    BY <1>2, <1>5 DEF ParseFilters
<1>7. ParseFilters(url) = f
    BY <1>6 DEF Filters
<1> QED BY <1>2, <1>3, <1>4, <1>7

LEMMA FiltersAreRead ==
    ASSUME NEW url \in Urls
    PROVE  ParseFilters(url) \in Filters
BY DEF Urls, ParseFilters, Filters, NoFilters, Sorts

(* The pager of a list keeps its filters.                                   *)
LEMMA PagerKeepsFilters ==
    ASSUME NEW of \in Urls, NEW page \in 0..(LastPage + 1)
    PROVE  LET url == Written(of.place, page, ParseFilters(of))
           IN  /\ url \in Urls /\ url # NoUrl /\ url.page = page
               /\ ParseFilters(url) = ParseFilters(of)
<1> DEFINE url == Written(of.place, page, ParseFilters(of))
<1>1. of.place \in {"category", "storefront"}
    BY DEF Urls, Places
<1>2. ParseFilters(of) \in Filters
    BY FiltersAreRead
<1>3. CASE of.place = "category"
    BY <1>2, <1>3, FiltersAreWritten
<1>4. CASE of.place = "storefront"
  <2>1. ParseFilters(of) = NoFilters
      BY <1>4 DEF ParseFilters
  <2>2. url = [place |-> "storefront", page |-> page, price |-> Absent,
               sellers |-> {}, sort |-> Absent]
      BY <1>4, <2>1 DEF Written, Url, NoFilters
  <2>3. url \in Urls
      BY <2>2 DEF Urls, Places
  <2>4. url # NoUrl
      BY <2>2 DEF NoUrl
  <2>5. ParseFilters(url) = NoFilters
      BY <2>2 DEF ParseFilters
  <2> QED BY <2>1, <2>2, <2>3, <2>4, <2>5
<1> QED BY <1>1, <1>3, <1>4

(* There is a page, and it is one that can be left or come back to.         *)
LEMMA PagesAreTold ==
    /\ NoUrl \notin Urls /\ NoPage \notin Pages /\ NoDraft \notin Filters
    /\ ~HasIsland(NoPage)
<1>1. NoUrl \notin Urls
    BY DEF NoUrl, Urls, Places
<1>2. NoPage \notin Pages
    BY DEF NoPage, Pages
<1>3. NoDraft \notin Filters
    BY DEF NoDraft, Filters, Sorts
<1>4. ~HasIsland(NoPage)
    BY DEF HasIsland, NoPage
<1> QED BY <1>1, <1>2, <1>3, <1>4

-----------------------------------------------------------------------------
(* The pager: what there is between its first and its last page.            *)

LowPage(page) == IF page - 1 < 2 THEN 2 ELSE page - 1
HighPage(page, total) == IF page + 1 > total - 1 THEN total - 1 ELSE page + 1
RunLength(page, total) ==
    IF HighPage(page, total) < LowPage(page) THEN 0
    ELSE HighPage(page, total) - LowPage(page) + 1
LeftGap(page) == IF page > 3 THEN 1 ELSE 0
RightGap(page, total) == IF page < total - 2 THEN 1 ELSE 0

(* A function on the first numbers is a sequence of as many elements.       *)
LEMMA FunctionIsSequence ==
    ASSUME NEW S, NEW m \in Nat, NEW s \in [1..m -> S]
    PROVE  s \in Seq(S) /\ Len(s) = m
<1>1. s \in Seq(S)
    BY SeqDef
<1>2. DOMAIN s = 1..m
    OBVIOUS
<1>3. PICK k \in Nat : k = Len(s) /\ 1..k = 1..m
    BY <1>1, <1>2, LenProperties
<1>4. (k \in 1..k \/ k = 0) /\ (m \in 1..m \/ m = 0)
    OBVIOUS
<1>5. (k \in 1..m \/ k = 0) /\ (m \in 1..k \/ m = 0)
    BY <1>3, <1>4, Zenon
<1>6. k = m
    BY <1>5
<1> QED BY <1>1, <1>3, <1>6

(* Numbers in a row are a sequence, of no elements if they end too early.   *)
LEMMA RowOfPages ==
    ASSUME NEW low \in Nat, NEW n \in Int, NEW s, s = [i \in 1..n |-> low + i - 1]
    PROVE  /\ s \in Seq(Nat)
           /\ Len(s) = IF n < 0 THEN 0 ELSE n
           /\ \A i \in 1..n : s[i] = low + i - 1
<1> DEFINE m == IF n < 0 THEN 0 ELSE n
<1>1. m \in Nat /\ 1..m = 1..n
    OBVIOUS
<1>2. s \in [1..m -> Nat]
    BY <1>1
<1> HIDE DEF m
<1>3. s \in Seq(Nat) /\ Len(s) = m
    BY <1>1, <1>2, FunctionIsSequence
<1> QED BY <1>3 DEF m

(* The parts of a pager over more than seven pages.                         *)
LEMMA PagerShape ==
    ASSUME NEW page \in Nat \ {0}, NEW total \in Nat, total > 7
    PROVE  LET s == PageItems(page, total)
               a == LeftGap(page)
               n == RunLength(page, total)
               b == RightGap(page, total)
           IN  /\ s \in Seq(Nat) /\ Len(s) = 2 + a + n + b
               /\ s[1] = 1 /\ s[2 + a + n + b] = total
               /\ a = 1 => s[2] = Gap
               /\ \A i \in 1..n : s[1 + a + i] = LowPage(page) + i - 1
               /\ b = 1 => s[2 + a + n] = Gap
<1> DEFINE low == LowPage(page)
           high == HighPage(page, total)
           a == LeftGap(page)
           n == RunLength(page, total)
           b == RightGap(page, total)
           A == IF page > 3 THEN <<Gap>> ELSE <<>>
           R == [i \in 1..(high - low + 1) |-> low + i - 1]
           B == IF page < total - 2 THEN <<Gap>> ELSE <<>>
           s1 == <<1>> \o A
           s2 == s1 \o R
           s3 == s2 \o B
           s == s3 \o <<total>>
<1>1. PageItems(page, total) = s
  <2>1. ~(total <= 7)
      OBVIOUS
  <2> QED BY <2>1, Zenon DEF PageItems, LowPage, HighPage
<1>2. low \in Nat /\ high \in Nat /\ a \in 0..1 /\ b \in 0..1 /\ n \in Nat
    BY DEF LowPage, HighPage, LeftGap, RightGap, RunLength
<1>3. n = IF high - low + 1 < 0 THEN 0 ELSE high - low + 1
    BY <1>2 DEF RunLength
<1>4. /\ R \in Seq(Nat) /\ Len(R) = n
      /\ \A i \in 1..n : R[i] = low + i - 1
  <2>1. PICK d \in Int : d = high - low + 1
      BY <1>2
  <2>2. 1..n \subseteq 1..d
      BY <1>2, <1>3, <2>1
  <2> HIDE DEF R, low, high
  <2>3. PICK r : r = R
      OBVIOUS
  <2>4. PICK lw \in Nat : lw = low
      BY <1>2
  <2>5. r = [i \in 1..d |-> lw + i - 1]
      BY <2>1, <2>3, <2>4 DEF R
  <2>6. /\ r \in Seq(Nat) /\ Len(r) = IF d < 0 THEN 0 ELSE d
        /\ \A i \in 1..d : r[i] = lw + i - 1
      BY <2>5, RowOfPages, Zenon
  <2> QED BY <1>3, <2>1, <2>2, <2>3, <2>4, <2>6
<1>5. /\ A \in Seq(Nat) /\ Len(A) = a /\ (a = 1 => A[1] = Gap)
      /\ B \in Seq(Nat) /\ Len(B) = b /\ (b = 1 => B[1] = Gap)
    BY DEF LeftGap, RightGap, Gap
<1>6. /\ <<1>> \in Seq(Nat) /\ Len(<<1>>) = 1 /\ <<1>>[1] = 1
      /\ <<total>> \in Seq(Nat) /\ Len(<<total>>) = 1 /\ <<total>>[1] = total
    OBVIOUS
<1> HIDE DEF A, B, R, low, high, a, b, n
<1>7. /\ s1 \in Seq(Nat) /\ Len(s1) = 1 + a
      /\ \A i \in 1..(1 + a) : s1[i] = IF i <= 1 THEN <<1>>[i] ELSE A[i - 1]
    BY <1>5, <1>6, ConcatProperties
<1> HIDE DEF s1
<1>8. /\ s2 \in Seq(Nat) /\ Len(s2) = 1 + a + n
      /\ \A i \in 1..(1 + a + n) :
            s2[i] = IF i <= 1 + a THEN s1[i] ELSE R[i - (1 + a)]
    BY <1>2, <1>4, <1>7, ConcatProperties
<1> HIDE DEF s2
<1>9. /\ s3 \in Seq(Nat) /\ Len(s3) = 1 + a + n + b
      /\ \A i \in 1..(1 + a + n + b) :
            s3[i] = IF i <= 1 + a + n THEN s2[i] ELSE B[i - (1 + a + n)]
    BY <1>2, <1>5, <1>8, ConcatProperties
<1> HIDE DEF s3
<1>10. /\ s \in Seq(Nat) /\ Len(s) = 2 + a + n + b
       /\ \A i \in 1..(2 + a + n + b) :
            s[i] = IF i <= 1 + a + n + b THEN s3[i] ELSE <<total>>[i - (1 + a + n + b)]
    BY <1>2, <1>6, <1>9, ConcatProperties
<1> HIDE DEF s
<1>11. s[1] = 1 /\ s[2 + a + n + b] = total
    BY <1>2, <1>6, <1>7, <1>8, <1>9, <1>10
<1>12. a = 1 => s[2] = Gap
    BY <1>2, <1>5, <1>7, <1>8, <1>9, <1>10
<1>13. ASSUME NEW i \in 1..n PROVE s[1 + a + i] = low + i - 1
  <2>1. PICK k \in 1..(1 + a + n) : k = 1 + a + i
      BY <1>2
  <2>2. k - (1 + a) = i /\ ~(k <= 1 + a)
      BY <1>2, <2>1
  <2>3. s[k] = s3[k]
      BY <1>2, <1>10
  <2>4. s3[k] = s2[k]
      BY <1>2, <1>9
  <2>5. s2[k] = R[i]
      BY <1>8, <2>2
  <2> QED BY <1>4, <2>1, <2>3, <2>4, <2>5
<1>14. b = 1 => s[2 + a + n] = Gap
    BY <1>2, <1>5, <1>9, <1>10
<1> QED BY <1>1, <1>10, <1>11, <1>12, <1>13, <1>14 DEF a, b, n, low

(* Every entry of a pager is a gap or one of the pages there are.           *)
LEMMA PagerKeepsToPages ==
    ASSUME NEW page \in Nat \ {0}, NEW total \in Nat \ {0},
           NEW i \in 1..Len(PageItems(page, total))
    PROVE  PageItems(page, total)[i] \in 0..total
<1>1. CASE total <= 7
  <2>1. PageItems(page, total) = [k \in 1..total |-> k]
      BY <1>1 DEF PageItems
  <2>2. PICK s : s = PageItems(page, total)
      OBVIOUS
  <2>3. s = [k \in 1..total |-> 1 + k - 1]
      BY <2>1, <2>2
  <2>4. Len(s) = total /\ \A k \in 1..total : s[k] = 1 + k - 1
      BY <2>3, RowOfPages
  <2> QED BY <2>2, <2>4
<1>2. CASE total > 7
  <2> DEFINE s == PageItems(page, total)
             a == LeftGap(page)
             n == RunLength(page, total)
             b == RightGap(page, total)
  <2>1. /\ Len(s) = 2 + a + n + b
        /\ s[1] = 1 /\ s[2 + a + n + b] = total
        /\ a = 1 => s[2] = Gap
        /\ \A k \in 1..n : s[1 + a + k] = LowPage(page) + k - 1
        /\ b = 1 => s[2 + a + n] = Gap
      BY <1>2, PagerShape
  <2>2. a \in 0..1 /\ b \in 0..1 /\ n \in Nat
      BY DEF LeftGap, RightGap, RunLength, LowPage, HighPage
  <2>3. \A k \in 1..n : LowPage(page) + k - 1 \in 0..total
      BY <1>2 DEF RunLength, LowPage, HighPage
  <2> HIDE DEF s, a, b, n
  <2>4. \/ i = 1 \/ (a = 1 /\ i = 2) \/ i = 2 + a + n + b \/ (b = 1 /\ i = 2 + a + n)
        \/ \E k \in 1..n : i = 1 + a + k
    <3>1. i \in 1..(2 + a + n + b)
        BY <2>1 DEF s
    <3>2. (a = 1 /\ i = 2) \/ i = 1 \/ (b = 1 /\ i = 2 + a + n) \/ i = 2 + a + n + b
          \/ i - (1 + a) \in 1..n
        BY <2>2, <3>1
    <3>3. i = 1 + a + (i - (1 + a))
        BY <2>2, <3>1
    <3> QED BY <3>2, <3>3
  <2>5. s[i] \in 0..total
      BY <1>2, <2>1, <2>3, <2>4 DEF Gap
  <2> QED BY <2>5 DEF s
<1> QED BY <1>1, <1>2

(* What the pager promises, for any page and any number of pages.           *)
LEMMA PagerIsHonestEverywhere ==
    ASSUME NEW page \in Nat \ {0}, NEW total \in Nat \ {0}
    PROVE  LET s == PageItems(page, total)
               last == Len(s)
           IN  /\ s[1] = 1 /\ s[last] = total
               /\ \A i \in 1..(last - 1) :
                    IF s[i] = Gap THEN s[i - 1] + 1 < s[i + 1]
                    ELSE s[i + 1] \in {Gap, s[i] + 1}
               /\ {page - 1, page, page + 1} \cap (1..total)
                      \subseteq {s[i] : i \in 1..last}
<1>1. CASE total <= 7
  <2>1. PICK s : s = PageItems(page, total)
      OBVIOUS
  <2>2. s = [k \in 1..total |-> 1 + k - 1]
      BY <1>1, <2>1 DEF PageItems
  <2>3. Len(s) = total /\ \A k \in 1..total : s[k] = k
    <3>1. Len(s) = total /\ \A k \in 1..total : s[k] = 1 + k - 1
        BY <2>2, RowOfPages
    <3> QED BY <3>1
  <2>4. \A i \in 1..(total - 1) : s[i] # Gap /\ s[i + 1] = s[i] + 1
      BY <2>3 DEF Gap
  <2>5. {page - 1, page, page + 1} \cap (1..total) \subseteq {s[i] : i \in 1..total}
      BY <2>3
  <2> QED BY <2>1, <2>3, <2>4, <2>5
<1>2. CASE total > 7
  <2> DEFINE s == PageItems(page, total)
             a == LeftGap(page)
             n == RunLength(page, total)
             b == RightGap(page, total)
             low == LowPage(page)
             high == HighPage(page, total)
             last == 2 + a + n + b
  <2>1. /\ Len(s) = last
        /\ s[1] = 1 /\ s[last] = total
        /\ a = 1 => s[2] = Gap
        /\ \A k \in 1..n : s[1 + a + k] = low + k - 1
        /\ b = 1 => s[2 + a + n] = Gap
      BY <1>2, PagerShape
  <2>2. /\ (a = 1 /\ page > 3) \/ (a = 0 /\ page <= 3)
        /\ (b = 1 /\ page < total - 2) \/ (b = 0 /\ page >= total - 2)
        /\ low \in Nat /\ high \in Nat
        /\ (page <= 3 /\ low = 2) \/ (page > 3 /\ low = page - 1)
        /\ \/ page + 1 > total - 1 /\ high = total - 1
           \/ page + 1 <= total - 1 /\ high = page + 1
        /\ (high < low /\ n = 0) \/ (high >= low /\ n = high - low + 1)
      BY <1>2 DEF LeftGap, RightGap, RunLength, LowPage, HighPage
  <2> HIDE DEF s, a, b, n, low, high
  <2>3. ASSUME NEW i \in 1..(last - 1)
        PROVE  IF s[i] = Gap THEN s[i - 1] + 1 < s[i + 1]
               ELSE s[i + 1] \in {Gap, s[i] + 1}
    <3>1. CASE i = 1
      <4>1. CASE a = 1
          BY <2>1, <3>1, <4>1 DEF Gap
      <4>2. CASE a = 0
        <5>1. 1 \in 1..n /\ 1 + a + 1 = i + 1 /\ low + 1 - 1 = 2
            BY <1>2, <2>2, <3>1, <4>2
        <5> QED BY <2>1, <3>1, <5>1 DEF Gap
      <4> QED BY <2>2, <4>1, <4>2
    <3>2. CASE a = 1 /\ i = 2
      <4>1. s[i] = Gap /\ s[i - 1] = 1
          BY <2>1, <3>2
      <4>2. CASE n = 0
        <5>1. last = 3
            BY <1>2, <2>2, <3>2, <4>2
        <5> QED BY <1>2, <2>1, <3>2, <4>1, <5>1
      <4>3. CASE n # 0
        <5>1. 1 \in 1..n /\ 1 + a + 1 = i + 1 /\ low + 1 - 1 > 2
            BY <2>2, <3>2, <4>3
        <5> QED BY <2>1, <4>1, <5>1
      <4> QED BY <4>2, <4>3
    <3>3. ASSUME NEW k \in 1..n, i = 1 + a + k
          PROVE  IF s[i] = Gap THEN s[i - 1] + 1 < s[i + 1]
                 ELSE s[i + 1] \in {Gap, s[i] + 1}
      <4>1. s[i] = low + k - 1 /\ s[i] # Gap
          BY <2>1, <2>2, <3>3 DEF Gap
      <4>2. CASE k < n
        <5>1. k + 1 \in 1..n /\ 1 + a + (k + 1) = i + 1 /\ low + (k + 1) - 1 = (low + k - 1) + 1
            BY <2>2, <3>3, <4>2
        <5> QED BY <2>1, <4>1, <5>1
      <4>3. CASE k = n /\ b = 1
        <5>1. i + 1 = 2 + a + n
            BY <2>2, <3>3, <4>3
        <5> QED BY <2>1, <4>1, <4>3, <5>1
      <4>4. CASE k = n /\ b = 0
        <5>1. i + 1 = last /\ total = (low + k - 1) + 1
            BY <1>2, <2>2, <3>3, <4>4
        <5> QED BY <2>1, <4>1, <5>1
      <4> QED BY <2>2, <4>2, <4>3, <4>4
    <3>4. CASE b = 1 /\ i = 2 + a + n
      <4>1. n \in 1..n /\ i - 1 = 1 + a + n /\ i + 1 = last /\ low + n - 1 + 1 < total
          BY <1>2, <2>2, <3>4
      <4> QED BY <2>1, <3>4, <4>1
    <3>5. i = 1 \/ (a = 1 /\ i = 2) \/ (b = 1 /\ i = 2 + a + n) \/ i - (1 + a) \in 1..n
        BY <2>2
    <3>6. i = 1 + a + (i - (1 + a))
        BY <2>2
    <3> QED BY <3>1, <3>2, <3>3, <3>4, <3>5, <3>6
  <2>4. ASSUME NEW x \in {page - 1, page, page + 1} \cap (1..total)
        PROVE  x \in {s[i] : i \in 1..last}
    <3>1. last \in Nat /\ 1 \in 1..last /\ last \in 1..last
        BY <2>2
    <3>2. CASE x = 1
        BY <2>1, <3>1, <3>2
    <3>3. CASE x = total
        BY <2>1, <3>1, <3>3
    <3>4. CASE x # 1 /\ x # total
      <4>1. PICK k \in 1..n : k = x - low + 1
          BY <1>2, <2>2, <3>4
      <4>2. low + k - 1 = x /\ 1 + a + k \in 1..last
          BY <2>2, <4>1
      <4> QED BY <2>1, <4>2
    <3> QED BY <3>2, <3>3, <3>4
  <2> QED BY <2>1, <2>3, <2>4 DEF s
<1> QED BY <1>1, <1>2

(* The pager of every list is honest.                                       *)
LEMMA ListsHaveHonestPagers == BrowseTypeOK => PagerIsHonest
<1> SUFFICES ASSUME BrowseTypeOK, HasPager PROVE PagerIsHonest
    BY DEF PagerIsHonest
<1>1. shown \in Pages
    BY DEF BrowseTypeOK, HasPager, NoPage
<1>2. shown.total \in Nat \ {0} /\ shown.of \in Urls
    BY <1>1, BrowseAssumption DEF Pages
<1>3. ParsePage(shown.of) \in Nat \ {0}
    BY <1>2, LastPageIsMax DEF ParsePage, Urls
<1> QED BY <1>2, <1>3, PagerIsHonestEverywhere, Zenon DEF PagerIsHonest, Items

-----------------------------------------------------------------------------
(* The steps of a list.                                                     *)

LEMMA ListTurned ==
    ASSUME NEW url \in Urls \cup {NoUrl}, Turned(url)
    PROVE  BrowseInv'
<1>1. shown' = NoPage /\ draft' = NoDraft /\ going' = url /\ past' = <<>>
      /\ astray' = FALSE
    BY DEF Turned
<1>2. past' \in Seq(Pages)
    BY <1>1
<1>3. BrowseTypeOK'
    BY <1>1, <1>2 DEF BrowseTypeOK
<1> QED BY <1>1, <1>3 DEF BrowseInv, IslandHasPlace, IslandIsShown, PageWasOffered

(* What the filters hold is sent with the first page of the list.           *)
LEMMA FiltersNavigate ==
    ASSUME BrowseInv, NEW f \in Filters, Navigate(f)
    PROVE  BrowseInv'
<1> USE DEF BrowseInv
<1>1. draft # NoDraft /\ draft' = f /\ going' = Wanted(f) /\ UNCHANGED <<shown, past>>
      /\ astray' = FALSE
    BY DEF Navigate
<1>2. 0 \in 0..(LastPage + 1)
    BY LastPageIsMax
<1>3. going' \in Urls /\ going' # NoUrl /\ going'.page = 0 /\ ParseFilters(going') = f
    BY <1>1, <1>2, FiltersAreWritten DEF Wanted
<1>4. BrowseTypeOK'
    BY <1>1, <1>3 DEF BrowseTypeOK
<1>5. IslandHasPlace'
    BY <1>1 DEF IslandHasPlace, HasIsland
<1>6. IslandIsShown'
    BY <1>1, <1>3 DEF IslandIsShown
<1>7. PageWasOffered'
    BY <1>1, <1>3 DEF PageWasOffered, ParsePage
<1> QED BY <1>4, <1>5, <1>6, <1>7

LEMMA FiltersAct ==
    ASSUME BrowseInv,
           \/ \E p \in Prices \cup {Absent} : TypePrice(p)
           \/ ApplyPrice
           \/ \E s \in Sellers : ToggleSeller(s)
           \/ \E sort \in Sorts : ChangeSort(sort)
    PROVE  BrowseInv'
<1> USE DEF BrowseInv
<1>1. draft # NoDraft => draft \in Filters
    BY DEF BrowseTypeOK
<1>2. ASSUME NEW p \in Prices \cup {Absent}, TypePrice(p) PROVE BrowseInv'
  <2>1. draft # NoDraft /\ draft' = [draft EXCEPT !.price = p]
        /\ UNCHANGED <<shown, going, past, astray>>
      BY <1>2 DEF TypePrice
  <2>2. draft' \in Filters /\ draft'.sellers = draft.sellers /\ draft'.sort = draft.sort
      BY <1>1, <2>1 DEF Filters
  <2>3. BrowseTypeOK'
      BY <2>1, <2>2 DEF BrowseTypeOK
  <2>4. IslandHasPlace'
      BY <2>1 DEF IslandHasPlace, HasIsland
  <2>5. IslandIsShown'
      BY <2>1, <2>2 DEF IslandIsShown
  <2>6. PageWasOffered'
      BY <2>1 DEF PageWasOffered
  <2> QED BY <2>3, <2>4, <2>5, <2>6
<1>3. ASSUME ApplyPrice PROVE BrowseInv'
    BY <1>1, <1>3, FiltersNavigate DEF ApplyPrice, Navigate
<1>4. ASSUME NEW s \in Sellers, ToggleSeller(s) PROVE BrowseInv'
  <2>1. PICK f : f = [draft EXCEPT !.sellers = IF s \in @ THEN @ \ {s} ELSE @ \cup {s}]
      OBVIOUS
  <2>2. Navigate(f)
      BY <1>4, <2>1 DEF ToggleSeller
  <2>3. f \in Filters
      BY <1>1, <2>1, <2>2 DEF Navigate, Filters
  <2> QED BY <2>2, <2>3, FiltersNavigate
<1>5. ASSUME NEW sort \in Sorts, ChangeSort(sort) PROVE BrowseInv'
  <2>1. PICK f : f = [draft EXCEPT !.sort = sort]
      OBVIOUS
  <2>2. Navigate(f)
      BY <1>5, <2>1 DEF ChangeSort
  <2>3. f \in Filters
      BY <1>1, <2>1, <2>2 DEF Navigate, Filters
  <2> QED BY <2>2, <2>3, FiltersNavigate
<1> QED BY <1>2, <1>3, <1>4, <1>5

(* The pager offers pages that there are, and the one before.               *)
LEMMA LinkedPages ==
    ASSUME BrowseInv, HasPager, NEW page \in Linked
    PROVE  page <= shown.total \/ page < ParsePage(shown.of)
<1> DEFINE now == ParsePage(shown.of)
<1>1. shown \in Pages
    BY DEF BrowseInv, BrowseTypeOK, HasPager, NoPage
<1>2. shown.total \in Nat \ {0} /\ shown.of \in Urls
    BY <1>1, BrowseAssumption DEF Pages
<1>3. now \in Nat \ {0}
    BY <1>2, LastPageIsMax DEF ParsePage, Urls
<1>4. \/ \E i \in 1..Len(Items) : page = Items[i]
      \/ now > 1 /\ page = now - 1
      \/ now < shown.total /\ page = now + 1
    BY DEF Linked
<1>5. \A i \in 1..Len(Items) : Items[i] \in 0..shown.total
    BY <1>2, <1>3, PagerKeepsToPages DEF Items
<1> HIDE DEF now
<1>6. page <= shown.total \/ page < now
    BY <1>2, <1>3, <1>4, <1>5
<1> QED BY <1>6 DEF now

LEMMA PagerTurns ==
    ASSUME BrowseInv, NEW page \in 1..(LastPage + 1), TurnTo(page)
    PROVE  BrowseInv'
<1> USE DEF BrowseInv
<1>1. /\ HasPager /\ page \in Linked /\ UNCHANGED <<shown, draft, past>>
      /\ going' = Written(shown.of.place, page, ParseFilters(shown.of))
      /\ astray' = (astray \/ going # NoUrl)
    BY DEF TurnTo
<1>2. shown.of \in Urls
    BY <1>1 DEF BrowseTypeOK, HasPager, NoPage, Pages
<1>3. page \in 0..(LastPage + 1) /\ page # 0
    BY LastPageIsMax
<1>4. /\ going' \in Urls /\ going' # NoUrl /\ going'.page = page
      /\ ParseFilters(going') = ParseFilters(shown.of)
    BY <1>1, <1>2, <1>3, PagerKeepsFilters
<1>5. astray' \in BOOLEAN
    BY <1>1 DEF BrowseTypeOK
<1>6. BrowseTypeOK'
    BY <1>1, <1>4, <1>5 DEF BrowseTypeOK
<1>7. IslandHasPlace'
    BY <1>1 DEF IslandHasPlace, HasIsland
<1>8. IslandIsShown'
    BY <1>1, <1>4 DEF IslandIsShown, BrowseTypeOK
<1>9. ParsePage(going') = page
    BY <1>3, <1>4 DEF ParsePage
<1>10. PageWasOffered'
    BY <1>1, <1>4, <1>9, LinkedPages DEF PageWasOffered
<1> QED BY <1>6, <1>7, <1>8, <1>10

(* The island of a list that is rendered: the one there was, or a new one.  *)
LEMMA ListRendered ==
    ASSUME BrowseInv, NEW page \in Pages, Render(page)
    PROVE  /\ shown' \in Pages /\ draft' \in Filters \cup {NoDraft}
           /\ IslandHasPlace'
           /\ draft' # NoDraft => draft' = IF HasIsland(shown) THEN draft
                                           ELSE ParseFilters(page.of)
<1>1. shown' = page /\ draft' = IF ~HasIsland(page) THEN NoDraft
                                ELSE IF HasIsland(shown) THEN draft
                                ELSE ParseFilters(page.of)
    BY DEF Render
<1>2. ParseFilters(page.of) \in Filters
    BY FiltersAreRead DEF Pages
<1>3. draft \in Filters \cup {NoDraft}
    BY DEF BrowseInv, BrowseTypeOK
<1>4. IslandHasPlace'
    BY <1>1 DEF IslandHasPlace, HasIsland
<1> QED BY <1>1, <1>2, <1>3, <1>4

LEMMA ListShown ==
    ASSUME BrowseInv, BrowseAnswers \/ GoBack
    PROVE  BrowseInv'
<1> USE DEF BrowseInv
<1>1. ASSUME NEW kind \in {"list", "missing", "error"}, NEW total \in Totals,
             ListAnswered(kind, total)
      PROVE  BrowseInv'
  <2>1. PICK page : page = [of |-> going, kind |-> kind, total |-> total]
      OBVIOUS
  <2>2. /\ going # NoUrl /\ going' = NoUrl /\ Render(page)
        /\ past' = IF shown = NoPage THEN past ELSE <<shown>> \o past
        /\ astray' = (astray /\ HasIsland(shown))
      BY <1>1, <2>1 DEF ListAnswered
  <2>3. page \in Pages /\ page.of = going
      BY <2>1, <2>2 DEF BrowseTypeOK, Pages
  <2>4. past' \in Seq(Pages)
    <3>1. CASE shown = NoPage
        BY <2>2, <3>1 DEF BrowseTypeOK
    <3>2. CASE shown # NoPage
      <4>1. shown \in Pages /\ past \in Seq(Pages)
          BY <3>2 DEF BrowseTypeOK
      <4>2. <<shown>> \in Seq(Pages)
          BY <4>1
      <4> QED BY <2>2, <3>2, <4>1, <4>2, ConcatProperties
    <3> QED BY <3>1, <3>2
  <2>5. astray' \in BOOLEAN
      BY <2>2 DEF BrowseTypeOK
  <2>6. shown' \in Pages /\ draft' \in Filters \cup {NoDraft} /\ IslandHasPlace'
        /\ (draft' # NoDraft => draft' = IF HasIsland(shown) THEN draft
                                         ELSE ParseFilters(page.of))
      BY <2>2, <2>3, ListRendered
  <2>7. shown'.of = going
      BY <2>2, <2>3 DEF Render
  <2>8. BrowseTypeOK'
      BY <2>2, <2>4, <2>5, <2>6 DEF BrowseTypeOK
  <2>9. IslandIsShown'
    <3> SUFFICES ASSUME draft' # NoDraft, ~astray'
                 PROVE  LET f == ParseFilters(shown'.of)
                        IN  f.sellers = draft'.sellers /\ f.sort = draft'.sort
        BY <2>2 DEF IslandIsShown
    <3>1. CASE HasIsland(shown)
      <4>1. draft' = draft /\ ~astray
          BY <2>2, <2>6, <3>1
      <4> QED BY <2>2, <2>7, <4>1 DEF IslandIsShown
    <3>2. CASE ~HasIsland(shown)
        BY <2>3, <2>6, <2>7, <3>2
    <3> QED BY <3>1, <3>2
  <2>10. PageWasOffered'
      BY <2>2 DEF PageWasOffered
  <2> QED BY <2>6, <2>8, <2>9, <2>10
<1>2. ASSUME GoBack PROVE BrowseInv'
  <2>1. /\ past # <<>> /\ Render(Head(past)) /\ past' = Tail(past)
        /\ going' = NoUrl /\ astray' = HasIsland(shown)
      BY <1>2 DEF GoBack
  <2>2. Head(past) \in Pages /\ past' \in Seq(Pages)
      BY <2>1, HeadTailProperties DEF BrowseTypeOK
  <2>3. shown' \in Pages /\ draft' \in Filters \cup {NoDraft} /\ IslandHasPlace'
        /\ (draft' # NoDraft => draft' = IF HasIsland(shown) THEN draft
                                         ELSE ParseFilters(Head(past).of))
      BY <2>1, <2>2, ListRendered
  <2>4. shown' = Head(past)
      BY <2>1 DEF Render
  <2>5. astray' \in BOOLEAN
      BY <2>1 DEF HasIsland
  <2>6. BrowseTypeOK'
      BY <2>1, <2>2, <2>3, <2>5 DEF BrowseTypeOK
  <2>7. IslandIsShown'
      BY <2>1, <2>3, <2>4 DEF IslandIsShown
  <2>8. PageWasOffered'
      BY <2>1 DEF PageWasOffered
  <2> QED BY <2>3, <2>6, <2>7, <2>8
<1> QED BY <1>1, <1>2 DEF BrowseAnswers

(* Whatever happens to a list keeps it sound.                               *)
LEMMA BrowseSteps ==
    ASSUME BrowseInv, BrowseActs \/ BrowseAnswers
    PROVE  BrowseInv'
BY FiltersAct, PagerTurns, ListShown DEF BrowseActs

-----------------------------------------------------------------------------
(* The recent searches.                                                     *)

IsRecents(s) ==
    /\ s \in Seq(Terms) /\ Len(s) <= RecentLimit
    /\ \A i, j \in 1..Len(s) : s[i] = s[j] => i = j

LEMMA WithoutIsRecents ==
    ASSUME IsRecents(recents), NEW q
    PROVE  /\ Without(q) \in Seq(Terms) /\ Len(Without(q)) <= Len(recents)
           /\ \A i, j \in 1..Len(Without(q)) : Without(q)[i] = Without(q)[j] => i = j
           /\ \A i \in 1..Len(Without(q)) : Without(q)[i] # q
<1>1. Len(recents) \in Nat /\ recents \in [1..Len(recents) -> Terms]
    BY LenProperties DEF IsRecents
<1>2. CASE ~\E i \in 1..Len(recents) : recents[i] = q
  <2>1. Without(q) = recents
      BY <1>2 DEF Without
  <2> QED BY <1>1, <1>2, <2>1 DEF IsRecents
<1>3. CASE \E i \in 1..Len(recents) : recents[i] = q
  <2> DEFINE at == CHOOSE i \in 1..Len(recents) : recents[i] = q
             m == Len(recents) - 1
             w == [i \in 1..m |-> IF i < at THEN recents[i] ELSE recents[i + 1]]
  <2>1. at \in 1..Len(recents) /\ recents[at] = q
      BY <1>3
  <2>2. Without(q) = w
      BY <1>3, Zenon DEF Without
  <2> HIDE DEF at
  <2>3. m \in Nat
      BY <1>1, <2>1
  <2>4. \A i \in 1..m : i \in 1..Len(recents) /\ i + 1 \in 1..Len(recents)
      BY <1>1
  <2>5. w \in [1..m -> Terms]
      BY <1>1, <2>1, <2>4
  <2>6. \A i \in 1..m :
            \E k \in 1..Len(recents) :
                /\ k = (IF i < at THEN i ELSE i + 1) /\ k # at
                /\ w[i] = recents[k]
    <3> SUFFICES ASSUME NEW i \in 1..m
                 PROVE  \E k \in 1..Len(recents) :
                            /\ k = (IF i < at THEN i ELSE i + 1) /\ k # at
                            /\ w[i] = recents[k]
        OBVIOUS
    <3>1. CASE i < at
        BY <2>1, <2>4, <3>1
    <3>2. CASE ~(i < at)
      <4>1. i + 1 \in 1..Len(recents) /\ i + 1 # at
          BY <1>1, <2>1, <2>4, <3>2
      <4> QED BY <3>2, <4>1
    <3> QED BY <3>1, <3>2
  <2> HIDE DEF w
  <2>7. w \in Seq(Terms) /\ Len(w) = m
      BY <2>3, <2>5, FunctionIsSequence
  <2> HIDE DEF m
  <2>8. ASSUME NEW i \in 1..m, NEW j \in 1..m, w[i] = w[j] PROVE i = j
    <3>1. PICK k \in 1..Len(recents) :
                k = (IF i < at THEN i ELSE i + 1) /\ w[i] = recents[k]
        BY <2>6
    <3>2. PICK l \in 1..Len(recents) :
                l = (IF j < at THEN j ELSE j + 1) /\ w[j] = recents[l]
        BY <2>6
    <3>3. k = l
        BY <2>8, <3>1, <3>2 DEF IsRecents
    <3> QED BY <2>1, <2>3, <3>1, <3>2, <3>3
  <2>9. ASSUME NEW i \in 1..m PROVE w[i] # q
      BY <2>1, <2>6 DEF IsRecents
  <2> QED BY <1>1, <2>2, <2>7, <2>8, <2>9 DEF m
<1> QED BY <1>2, <1>3

LEMMA RememberedIsRecents ==
    ASSUME IsRecents(recents), NEW q \in Terms
    PROVE  IsRecents(Remembered(q))
<1> DEFINE w == Without(q)
           next == <<q>> \o w
           k == IF Len(next) < RecentLimit THEN Len(next) ELSE RecentLimit
           s == [i \in 1..k |-> next[i]]
<1>1. w \in Seq(Terms) /\ Len(w) <= Len(recents)
      /\ (\A i, j \in 1..Len(w) : w[i] = w[j] => i = j)
      /\ \A i \in 1..Len(w) : w[i] # q
    BY WithoutIsRecents
<1>2. Remembered(q) = s
    BY DEF Remembered
<1> HIDE DEF w
<1>3. Len(w) \in Nat /\ \A i \in 1..Len(w) : w[i] \in Terms
    BY <1>1, LenProperties
<1>4. <<q>> \in Seq(Terms) /\ Len(<<q>>) = 1 /\ <<q>>[1] = q
    OBVIOUS
<1>5. next \in Seq(Terms) /\ Len(next) = 1 + Len(w)
      /\ \A i \in 1..(1 + Len(w)) : next[i] = IF i <= 1 THEN <<q>>[i] ELSE w[i - 1]
    BY <1>1, <1>4, ConcatProperties
<1>6. next[1] = q /\ \A i \in 2..Len(next) : i - 1 \in 1..Len(w) /\ next[i] = w[i - 1]
    BY <1>3, <1>4, <1>5
<1> HIDE DEF next
<1>7. ASSUME NEW i \in 1..Len(next), NEW j \in 1..Len(next), next[i] = next[j]
      PROVE  i = j
  <2>1. CASE i = 1 /\ j # 1
    <3>1. j \in 2..Len(next)
        BY <1>3, <1>5, <2>1
    <3> QED BY <1>1, <1>6, <1>7, <2>1, <3>1
  <2>2. CASE i # 1 /\ j = 1
    <3>1. i \in 2..Len(next)
        BY <1>3, <1>5, <2>2
    <3> QED BY <1>1, <1>6, <1>7, <2>2, <3>1
  <2>3. CASE i # 1 /\ j # 1
    <3>1. i \in 2..Len(next) /\ j \in 2..Len(next)
        BY <1>3, <1>5, <2>3
    <3>2. i - 1 = j - 1
        BY <1>1, <1>6, <1>7, <3>1
    <3> QED BY <3>1, <3>2
  <2> QED BY <2>1, <2>2, <2>3
<1>8. \A i \in 1..Len(next) : next[i] \in Terms
    BY <1>5, LenProperties
<1>9. k \in Nat /\ k <= RecentLimit /\ k <= Len(next)
    BY <1>3, <1>5, DiscoveryAssumption
<1> HIDE DEF k
<1>10. s \in [1..k -> Terms] /\ 1..k \subseteq 1..Len(next)
    BY <1>3, <1>5, <1>8, <1>9
<1>11. \A i \in 1..k : s[i] = next[i]
    OBVIOUS
<1> HIDE DEF s
<1>12. s \in Seq(Terms) /\ Len(s) = k
    BY <1>9, <1>10, FunctionIsSequence
<1> QED BY <1>2, <1>7, <1>9, <1>10, <1>11, <1>12 DEF IsRecents

-----------------------------------------------------------------------------
(* The search page and the palette.                                         *)

SearchPages == [q : Queries, page : 1..MaxPages, filter : Facets,
                results : Results \cup {NoResults},
                status : {"idle", "loading", "ready", "error"},
                timer : BOOLEAN, facet : {"loading", "ready", "pending"}]
Palettes == [open : BOOLEAN, value : Queries, active : -1..RecentLimit,
             timer : BOOLEAN, shown : Queries \cup {None}, recent : Seq(Terms)]

FindingTyped ==
    /\ route \in {"search", "directory", "list", "other"}
    /\ search \in SearchPages /\ palette \in Palettes
    /\ IsRecents(recents)
    /\ handoff \in Terms \cup {None}
    /\ net \subseteq SearchRequests
    /\ stock \in [Facets -> 0..MaxPages]
    /\ shrunk \in BOOLEAN

OfKind(kind) == {r \in net : r.kind = kind}

(* A page that asks for something is there and asks for more than nothing;  *)
(* the newest request of it is for what it asks; and the page it is on,     *)
(* like the pages its pager offers, is one of those there are.              *)
SearchSound ==
    /\ search.timer => route = "search" /\ search.status = "loading"
    /\ search.status = "loading" => search.q # Blank
    /\ \A r \in OfKind("search") :
        /\ r.of.q # Blank
        /\ r.fresh /\ r.mounted =>
            route = "search" /\ r.of = Asked(search) /\ ~search.timer
    /\ route = "search" /\ ~shrunk
        => search.page = 1 \/ search.page <= stock[search.filter]
    /\ search.status = "ready" /\ ~shrunk
        => search.results.total = 1 \/ search.results.total <= stock[search.filter]
    /\ LoadingIsPending /\ ResultsAreAsked /\ EmptyMeansNone

(* Suggestions on their way to an open palette are for the value it shows,  *)
(* and are not asked for again; the highlight is on a row, or on none       *)
(* because there is none.                                                   *)
PaletteSound ==
    /\ Len(palette.recent) <= RecentLimit
    /\ palette.timer => palette.open
    /\ \A r \in OfKind("suggest") :
        /\ r.mounted
        /\ r.fresh /\ palette.open => r.of.q = palette.value /\ ~palette.timer
    /\ palette.open =>
        \/ palette.active \in 0..(Len(Rows(palette)) - 1)
        \/ Rows(palette) = <<>> /\ palette.active \in {-1, 0}
    /\ SuggestionsAreLatest

DiscoveryIInv ==
    /\ FindingTyped /\ SearchSound /\ PaletteSound
    /\ FuneralInv /\ BrowseInv /\ Counted

LEMMA TypesAreFound ==
    DiscoveryTypeOK <=> FindingTyped /\ FuneralTypeOK /\ BrowseTypeOK /\ Counted
BY DEF DiscoveryTypeOK, FindingTyped, SearchPages, Palettes, IsRecents, Counted

LEMMA AskedIsTyped ==
    ASSUME FindingTyped
    PROVE  /\ Asked(search) \in Asks
           /\ \A q \in Queries : Plain(q) \in Asks
           /\ \A kind \in {"search", "suggest", "categories"}, of \in Asks :
                /\ Request(kind, of) \in SearchRequests
                /\ Request(kind, of).kind = kind /\ Request(kind, of).of = of
                /\ Request(kind, of).fresh /\ Request(kind, of).mounted
<1>1. Asked(search) \in Asks
    BY DEF Asked, Asks, FindingTyped, SearchPages
<1>2. 1 \in 1..MaxPages
    BY DiscoveryAssumption
<1>3. \A q \in Queries : Plain(q) \in Asks
    BY <1>2 DEF Plain, Asks, Facets, Any
<1>4. \A kind \in {"search", "suggest", "categories"}, of \in Asks :
                Request(kind, of) \in SearchRequests
    BY DEF Request, SearchRequests
<1> QED BY <1>1, <1>3, <1>4 DEF Request

(* Only the mounted requests of one kind are superseded.                    *)
LEMMA SupersedeIsSound ==
    ASSUME FindingTyped, NEW kind, NEW other, other # kind, net' = Supersede(kind)
    PROVE  /\ net' \subseteq SearchRequests
           /\ OfKind(other)' = OfKind(other)
           /\ \A r \in OfKind(kind)' :
                /\ ~(r.fresh /\ r.mounted)
                /\ \E s \in OfKind(kind) : r.of = s.of /\ r.mounted = s.mounted
<1> DEFINE Old(r) == IF r.kind = kind /\ r.mounted THEN [r EXCEPT !.fresh = FALSE] ELSE r
<1>1. net' = {Old(r) : r \in net}
    BY DEF Supersede
<1>2. \A r \in net : /\ Old(r) \in SearchRequests
                     /\ Old(r).kind = r.kind /\ Old(r).of = r.of
                     /\ Old(r).mounted = r.mounted
                     /\ r.kind # kind => Old(r) = r
                     /\ r.kind = kind => ~(Old(r).fresh /\ Old(r).mounted)
  <2> SUFFICES ASSUME NEW r \in net
               PROVE  /\ Old(r) \in SearchRequests
                      /\ Old(r).kind = r.kind /\ Old(r).of = r.of
                      /\ Old(r).mounted = r.mounted
                      /\ r.kind # kind => Old(r) = r
                      /\ r.kind = kind => ~(Old(r).fresh /\ Old(r).mounted)
      OBVIOUS
  <2>1. r \in SearchRequests
      BY DEF FindingTyped
  <2>2. CASE r.kind = kind /\ r.mounted
    <3>1. [r EXCEPT !.fresh = FALSE] \in SearchRequests
          /\ [r EXCEPT !.fresh = FALSE].fresh = FALSE
          /\ [r EXCEPT !.fresh = FALSE].kind = r.kind
          /\ [r EXCEPT !.fresh = FALSE].of = r.of
          /\ [r EXCEPT !.fresh = FALSE].mounted = r.mounted
        BY <2>1 DEF SearchRequests
    <3> QED BY <2>2, <3>1
  <2>3. CASE ~(r.kind = kind /\ r.mounted)
    <3>1. Old(r) = r
        BY <2>3
    <3> QED BY <2>1, <2>3, <3>1
  <2> QED BY <2>2, <2>3
<1> HIDE DEF Old
<1>3. net' \subseteq SearchRequests
    BY <1>1, <1>2
<1>4. OfKind(other)' = OfKind(other)
  <2>1. OfKind(other)' = {r \in net' : r.kind = other}
      BY DEF OfKind
  <2>2. \A r : r \in net' /\ r.kind = other <=> r \in net /\ r.kind = other
      BY <1>1, <1>2
  <2> QED BY <2>1, <2>2 DEF OfKind
<1>5. \A r \in OfKind(kind)' :
                /\ ~(r.fresh /\ r.mounted)
                /\ \E s \in OfKind(kind) : r.of = s.of /\ r.mounted = s.mounted
  <2> SUFFICES ASSUME NEW r, r \in net', r.kind = kind
               PROVE  /\ ~(r.fresh /\ r.mounted)
                      /\ \E s \in OfKind(kind) : r.of = s.of /\ r.mounted = s.mounted
      BY DEF OfKind
  <2>1. PICK s \in net : r = Old(s)
      BY <1>1
  <2>2. s \in OfKind(kind)
      BY <1>2, <2>1 DEF OfKind
  <2> QED BY <1>2, <2>1, <2>2
<1> QED BY <1>3, <1>4, <1>5

(* A request more is one of its kind more, and one that ends one less.      *)
LEMMA SentIsSound ==
    ASSUME FindingTyped, NEW kind \in {"search", "suggest", "categories"},
           NEW of \in Asks, net' = net \cup {Request(kind, of)}
    PROVE  /\ net' \subseteq SearchRequests
           /\ OfKind(kind)' = OfKind(kind) \cup {Request(kind, of)}
           /\ \A other : other # kind => OfKind(other)' = OfKind(other)
BY AskedIsTyped DEF OfKind, FindingTyped

LEMMA EndedIsSound ==
    ASSUME FindingTyped, NEW r \in net, net' = net \ {r}
    PROVE  /\ net' \subseteq SearchRequests
           /\ OfKind(r.kind)' = OfKind(r.kind) \ {r}
           /\ \A other : other # r.kind => OfKind(other)' = OfKind(other)
BY DEF OfKind, FindingTyped

(* What the search page, and the palette, need of a step of the other.      *)
LEMMA SearchKept ==
    ASSUME SearchSound, UNCHANGED <<route, search, stock, shrunk>>,
           OfKind("search")' = OfKind("search")
    PROVE  SearchSound'
<1>1. LoadingIsPending <=> (search.status = "loading" =>
        search.timer \/ \E r \in OfKind("search") : r.fresh /\ r.mounted /\ r.of = Asked(search))
    BY DEF LoadingIsPending, OfKind
<1>2. LoadingIsPending' <=> (search'.status = "loading" =>
        search'.timer \/ \E r \in OfKind("search")' : r.fresh /\ r.mounted /\ r.of = Asked(search)')
    BY DEF LoadingIsPending, OfKind
<1>3. Asked(search)' = Asked(search)
    OBVIOUS
<1> QED BY <1>1, <1>2, <1>3 DEF SearchSound, ResultsAreAsked, EmptyMeansNone

LEMMA PaletteKept ==
    ASSUME PaletteSound, UNCHANGED palette, OfKind("suggest")' = OfKind("suggest")
    PROVE  PaletteSound'
<1>1. SuggestionsAreLatest <=>
        (/\ palette.open /\ ~palette.timer /\ palette.shown # None
         /\ ~\E r \in OfKind("suggest") : r.fresh
         => palette.shown = palette.value)
    BY DEF SuggestionsAreLatest, OfKind
<1>2. SuggestionsAreLatest' <=>
        (/\ palette'.open /\ ~palette'.timer /\ palette'.shown # None
         /\ ~\E r \in OfKind("suggest")' : r.fresh
         => palette'.shown = palette'.value)
    BY DEF SuggestionsAreLatest, OfKind
<1>3. Rows(palette)' = Rows(palette)
    BY DEF Rows
<1> QED BY <1>1, <1>2, <1>3 DEF PaletteSound

-----------------------------------------------------------------------------
(* The steps of the search page.                                            *)

(* A page that has just asked for something else waits for its timer, and   *)
(* for none of the requests on their way.                                   *)
LEMMA AskedAnew ==
    ASSUME NEW s \in SearchPages, search' = Run(s), route' = "search",
           \A r \in OfKind("search")' : r.of.q # Blank /\ ~(r.fresh /\ r.mounted),
           ~shrunk' => s.page = 1 \/ s.page <= stock'[s.filter]
    PROVE  search' \in SearchPages /\ SearchSound'
<1>1. CASE s.q = Blank
  <2>1. search' = [s EXCEPT !.status = "idle", !.results = NoResults, !.timer = FALSE]
      BY <1>1 DEF Run
  <2>2. search' \in SearchPages /\ search'.status = "idle" /\ search'.timer = FALSE
        /\ search'.page = s.page /\ search'.filter = s.filter
      BY <2>1 DEF SearchPages
  <2> QED BY <2>2 DEF SearchSound, LoadingIsPending, ResultsAreAsked, EmptyMeansNone
<1>2. CASE s.q # Blank
  <2>1. search' = [s EXCEPT !.status = "loading", !.timer = TRUE]
      BY <1>2 DEF Run
  <2>2. search' \in SearchPages /\ search'.status = "loading" /\ search'.timer
        /\ search'.page = s.page /\ search'.filter = s.filter /\ search'.q # Blank
      BY <1>2, <2>1 DEF SearchPages
  <2> QED BY <2>2 DEF SearchSound, LoadingIsPending, ResultsAreAsked, EmptyMeansNone
<1> QED BY <1>1, <1>2

(* On the page: what was asked is superseded.                               *)
LEMMA ChangedOnPage ==
    ASSUME FindingTyped, SearchSound, PaletteSound,
           NEW s \in SearchPages, search' = Run(s), route = "search",
           net' = Supersede("search"),
           UNCHANGED <<route, palette, recents, handoff, stock>>,
           shrunk' \in BOOLEAN,
           ~shrunk' => s.page = 1 \/ s.page <= stock[s.filter]
    PROVE  FindingTyped' /\ SearchSound' /\ PaletteSound'
<1>1. /\ net' \subseteq SearchRequests
      /\ OfKind("suggest")' = OfKind("suggest")
      /\ \A r \in OfKind("search")' :
            /\ ~(r.fresh /\ r.mounted)
            /\ \E q \in OfKind("search") : r.of = q.of /\ r.mounted = q.mounted
    BY SupersedeIsSound
<1>2. \A r \in OfKind("search")' : r.of.q # Blank /\ ~(r.fresh /\ r.mounted)
    BY <1>1 DEF SearchSound
<1>3. search' \in SearchPages /\ SearchSound'
    BY <1>2, AskedAnew
<1>4. PaletteSound'
    BY <1>1, PaletteKept
<1>5. FindingTyped'
    BY <1>1, <1>3 DEF FindingTyped
<1> QED BY <1>3, <1>4, <1>5

(* The visitor types, filters, or turns a page.                             *)
LEMMA SearchChanges ==
    ASSUME FindingTyped, SearchSound, PaletteSound,
           \/ \E q \in Queries : Type(q)
           \/ \E c \in Facets : Filter(c)
           \/ \E p \in 1..MaxPages : Turn(p)
    PROVE  FindingTyped' /\ SearchSound' /\ PaletteSound'
<1>1. search \in SearchPages /\ 1 \in 1..MaxPages
    BY DiscoveryAssumption DEF FindingTyped
<1>2. ASSUME NEW q \in Queries, Type(q)
      PROVE  FindingTyped' /\ SearchSound' /\ PaletteSound'
  <2>1. PICK s : s = [search EXCEPT !.q = q, !.page = 1]
      OBVIOUS
  <2>2. s \in SearchPages /\ s.page = 1
      BY <1>1, <2>1 DEF SearchPages
  <2>3. /\ search' = Run(s) /\ route = "search" /\ net' = Supersede("search")
        /\ UNCHANGED <<route, palette, recents, handoff, stock>> /\ shrunk' = FALSE
      BY <1>2, <2>1 DEF Type
  <2> QED BY <2>2, <2>3, ChangedOnPage
<1>3. ASSUME NEW c \in Facets, Filter(c)
      PROVE  FindingTyped' /\ SearchSound' /\ PaletteSound'
  <2>1. PICK s : s = [search EXCEPT !.filter = c, !.page = 1]
      OBVIOUS
  <2>2. s \in SearchPages /\ s.page = 1
      BY <1>1, <2>1 DEF SearchPages
  <2>3. /\ search' = Run(s) /\ route = "search" /\ net' = Supersede("search")
        /\ UNCHANGED <<route, palette, recents, handoff, stock>> /\ shrunk' = FALSE
      BY <1>3, <2>1 DEF Filter, Filtered
  <2> QED BY <2>2, <2>3, ChangedOnPage
<1>4. ASSUME NEW p \in 1..MaxPages, Turn(p)
      PROVE  FindingTyped' /\ SearchSound' /\ PaletteSound'
  <2>1. PICK s : s = [search EXCEPT !.page = p]
      OBVIOUS
  <2>2. s \in SearchPages /\ s.page = p /\ s.filter = search.filter
      BY <1>1, <2>1 DEF SearchPages
  <2>3. /\ search' = Run(s) /\ route = "search" /\ net' = Supersede("search")
        /\ UNCHANGED <<route, palette, recents, handoff, stock, shrunk>>
        /\ search.status = "ready" /\ search.results.total > 1
        /\ p \in 1..search.results.total
      BY <1>4, <2>1 DEF Turn
  <2>4. search.results \in Results
      BY <1>1, <2>3 DEF SearchPages, NoResults
  <2>5. search.results.total \in Nat /\ stock[search.filter] \in Nat
      BY <1>1, <2>4 DEF Results, SearchPages, FindingTyped
  <2>6. ~shrunk' => s.page = 1 \/ s.page <= stock[s.filter]
      BY <2>2, <2>3, <2>5 DEF SearchSound
  <2>7. shrunk' \in BOOLEAN
      BY <2>3 DEF FindingTyped
  <2> QED BY <2>2, <2>3, <2>6, <2>7, ChangedOnPage
<1> QED BY <1>2, <1>3, <1>4

LEMMA SearchTimerSends ==
    ASSUME FindingTyped, SearchSound, PaletteSound, SearchTimer
    PROVE  FindingTyped' /\ SearchSound' /\ PaletteSound'
<1>1. /\ search.timer /\ search' = [search EXCEPT !.timer = FALSE]
      /\ net' = net \cup {Request("search", Asked(search))}
      /\ UNCHANGED <<route, palette, recents, handoff, stock, shrunk>>
    BY DEF SearchTimer
<1>2. search \in SearchPages
    BY DEF FindingTyped
<1>3. /\ search' \in SearchPages /\ search'.timer = FALSE
      /\ search'.q = search.q /\ search'.page = search.page
      /\ search'.filter = search.filter /\ search'.results = search.results
      /\ search'.status = search.status
    BY <1>1, <1>2 DEF SearchPages
<1>4. Asked(search)' = Asked(search) /\ Asked(search).q = search.q
    BY <1>3 DEF Asked
<1>5. PICK new : new = Request("search", Asked(search))
    OBVIOUS
<1>6. new \in SearchRequests /\ new.kind = "search" /\ new.of = Asked(search)
      /\ new.fresh /\ new.mounted
    BY <1>5, AskedIsTyped
<1>7. /\ net' \subseteq SearchRequests
      /\ OfKind("search")' = OfKind("search") \cup {new}
      /\ OfKind("suggest")' = OfKind("suggest")
    BY <1>1, <1>5, AskedIsTyped, SentIsSound
<1>8. FindingTyped'
    BY <1>1, <1>3, <1>7 DEF FindingTyped
<1>9. LoadingIsPending'
    BY <1>1, <1>4, <1>5, <1>6 DEF LoadingIsPending
<1>10. SearchSound'
    BY <1>1, <1>3, <1>4, <1>6, <1>7, <1>9 DEF SearchSound, ResultsAreAsked, EmptyMeansNone
<1>11. PaletteSound'
    BY <1>1, <1>7, PaletteKept
<1> QED BY <1>8, <1>10, <1>11

LEMMA FoundIsTyped ==
    ASSUME FindingTyped, NEW of \in Asks
    PROVE  /\ Found(of) \in Results /\ Found(of).of = of
           /\ Found(of).total = 1 \/ Found(of).total <= stock[of.filter]
           /\ ~Found(of).some => of.page > stock[of.filter]
<1>1. of.filter \in Facets /\ of.page \in 1..MaxPages /\ stock[of.filter] \in 0..MaxPages
    BY DEF FindingTyped, Asks
<1>2. PICK n \in 0..MaxPages : n = stock[of.filter]
    BY <1>1
<1>3. (IF n = 0 THEN 1 ELSE n) \in 1..MaxPages
    BY DiscoveryAssumption
<1>4. CASE of.page <= n
  <2>1. Found(of) = [of |-> of, total |-> IF n = 0 THEN 1 ELSE n, some |-> TRUE]
      BY <1>2, <1>4 DEF Found
  <2> QED BY <1>2, <1>3, <1>4, <2>1 DEF Results
<1>5. CASE ~(of.page <= n)
  <2>1. (of.page <= stock[of.filter]) = FALSE
      BY <1>1, <1>2, <1>5
  <2>2. Found(of) = [of |-> of, total |-> IF n = 0 THEN 1 ELSE n, some |-> FALSE]
      BY <1>2, <2>1, Zenon DEF Found
  <2> QED BY <1>1, <1>2, <1>3, <1>5, <2>2 DEF Results
<1> QED BY <1>4, <1>5

(* An answer is of a request for what the page asks, or changes nothing.    *)
LEMMA SearchAnswerIsSound ==
    ASSUME FindingTyped, SearchSound, PaletteSound,
           NEW r \in net, NEW ok \in BOOLEAN, SearchAnswer(r, ok)
    PROVE  FindingTyped' /\ SearchSound' /\ PaletteSound'
<1>1. /\ r.kind = "search" /\ net' = net \ {r}
      /\ search' = IF ~(r.fresh /\ r.mounted) THEN search
                   ELSE IF ok THEN [search EXCEPT !.results = Found(r.of),
                                                  !.status = "ready"]
                   ELSE [search EXCEPT !.status = "error"]
      /\ recents' = IF r.fresh /\ ok THEN Remembered(r.of.q) ELSE recents
      /\ UNCHANGED <<route, palette, handoff, stock, shrunk>>
    BY DEF SearchAnswer
<1>2. r \in SearchRequests /\ search \in SearchPages /\ r \in OfKind("search")
    BY <1>1 DEF FindingTyped, OfKind
<1>3. r.of \in Asks /\ r.of.q \in Terms
    BY <1>2 DEF SearchRequests, SearchSound, Asks, Queries
<1>4. IsRecents(recents')
    BY <1>1, <1>3, RememberedIsRecents DEF FindingTyped
<1>5. /\ net' \subseteq SearchRequests
      /\ OfKind("search")' = OfKind("search") \ {r}
      /\ OfKind("suggest")' = OfKind("suggest")
    BY <1>1, EndedIsSound
<1>6. PaletteSound'
    BY <1>1, <1>5, PaletteKept
<1>7. search' \in SearchPages /\ SearchSound'
  <2>1. CASE ~(r.fresh /\ r.mounted)
    <3>1. search' = search /\ Asked(search)' = Asked(search)
        BY <1>1, <2>1
    <3>2. LoadingIsPending'
        BY <1>1, <2>1, <3>1 DEF SearchSound, LoadingIsPending
    <3>3. SearchSound'
        BY <1>1, <1>5, <3>1, <3>2 DEF SearchSound, ResultsAreAsked, EmptyMeansNone
    <3> QED BY <1>2, <3>1, <3>3
  <2>2. CASE r.fresh /\ r.mounted /\ ok
    <3>1. search' = [search EXCEPT !.results = Found(r.of), !.status = "ready"]
        BY <1>1, <2>2
    <3>2. route = "search" /\ r.of = Asked(search) /\ ~search.timer
        BY <1>2, <2>2 DEF SearchSound
    <3>3. /\ Found(r.of) \in Results /\ Found(r.of).of = r.of
          /\ Found(r.of).total = 1 \/ Found(r.of).total <= stock[r.of.filter]
          /\ ~Found(r.of).some => r.of.page > stock[r.of.filter]
        BY <1>3, FoundIsTyped
    <3>4. /\ search' \in SearchPages /\ search'.status = "ready"
          /\ search'.results = Found(r.of) /\ search'.timer = search.timer
          /\ search'.q = search.q /\ search'.page = search.page
          /\ search'.filter = search.filter
        BY <1>2, <3>1, <3>3 DEF SearchPages
    <3>5. Asked(search)' = Asked(search)
          /\ Asked(search).page = search.page /\ Asked(search).filter = search.filter
        BY <3>4 DEF Asked
    <3>6. search'.results.of = Asked(search)
        BY <3>2, <3>3, <3>4
    <3>7. ~shrunk => search.page = 1 \/ search.page <= stock[search.filter]
        BY <3>2 DEF SearchSound
    <3>8. search.page \in Nat /\ stock[search.filter] \in Nat
        BY <1>2 DEF FindingTyped, SearchPages
    <3>9. LoadingIsPending' /\ ResultsAreAsked'
        BY <3>4, <3>5, <3>6 DEF LoadingIsPending, ResultsAreAsked
    <3>10. EmptyMeansNone'
      <4> SUFFICES ASSUME ~Found(r.of).some, ~shrunk PROVE search.page = 1
          BY <1>1, <3>4 DEF EmptyMeansNone
      <4> QED BY <3>2, <3>3, <3>5, <3>7, <3>8
    <3>11. \A q \in OfKind("search")' :
            /\ q.of.q # Blank
            /\ q.fresh /\ q.mounted =>
                route' = "search" /\ q.of = Asked(search)' /\ ~search'.timer
        BY <1>1, <1>5, <3>4, <3>5 DEF SearchSound
    <3>12. /\ ~shrunk' => search'.page = 1 \/ search'.page <= stock'[search'.filter]
           /\ ~shrunk' => \/ search'.results.total = 1
                          \/ search'.results.total <= stock'[search'.filter]
        BY <1>1, <3>2, <3>3, <3>4, <3>5, <3>7
    <3>13. SearchSound'
        BY <3>2, <3>4, <3>9, <3>10, <3>11, <3>12 DEF SearchSound
    <3> QED BY <3>4, <3>13
  <2>3. CASE r.fresh /\ r.mounted /\ ~ok
    <3>1. search' = [search EXCEPT !.status = "error"]
        BY <1>1, <2>3
    <3>2. /\ search' \in SearchPages /\ search'.status = "error"
          /\ search'.timer = search.timer
          /\ search'.q = search.q /\ search'.page = search.page
          /\ search'.filter = search.filter
        BY <1>2, <3>1 DEF SearchPages
    <3>3. Asked(search)' = Asked(search)
        BY <3>2 DEF Asked
    <3>4. route = "search" /\ ~search.timer
        BY <1>2, <2>3 DEF SearchSound
    <3>5. \A q \in OfKind("search")' :
            /\ q.of.q # Blank
            /\ q.fresh /\ q.mounted =>
                route' = "search" /\ q.of = Asked(search)' /\ ~search'.timer
        BY <1>1, <1>5, <3>2, <3>3 DEF SearchSound
    <3>6. ~shrunk' => search'.page = 1 \/ search'.page <= stock'[search'.filter]
        BY <1>1, <3>2, <3>4 DEF SearchSound
    <3>7. SearchSound'
        BY <3>2, <3>4, <3>5, <3>6
           DEF SearchSound, LoadingIsPending, ResultsAreAsked, EmptyMeansNone
    <3> QED BY <3>2, <3>7
  <2> QED BY <2>1, <2>2, <2>3
<1>8. FindingTyped'
    BY <1>1, <1>4, <1>5, <1>7 DEF FindingTyped
<1> QED BY <1>6, <1>7, <1>8

LEMMA FacetAnswerIsSound ==
    ASSUME FindingTyped, SearchSound, PaletteSound,
           NEW r \in net, NEW ok \in BOOLEAN, FacetAnswer(r, ok)
    PROVE  FindingTyped' /\ SearchSound' /\ PaletteSound'
<1>1. /\ r.kind = "categories" /\ net' = net \ {r}
      /\ search' = IF ~r.fresh THEN search
                   ELSE [search EXCEPT !.facet = IF ok THEN "ready" ELSE "pending"]
      /\ UNCHANGED <<route, palette, recents, handoff, stock, shrunk>>
    BY DEF FacetAnswer
<1>2. search \in SearchPages
    BY DEF FindingTyped
<1>3. /\ search' \in SearchPages /\ search'.timer = search.timer
      /\ search'.q = search.q /\ search'.page = search.page
      /\ search'.filter = search.filter /\ search'.results = search.results
      /\ search'.status = search.status
    BY <1>1, <1>2 DEF SearchPages
<1>4. /\ net' \subseteq SearchRequests
      /\ OfKind("search")' = OfKind("search") /\ OfKind("suggest")' = OfKind("suggest")
    BY <1>1, EndedIsSound
<1>5. Asked(search)' = Asked(search)
    BY <1>3 DEF Asked
<1>6. LoadingIsPending'
    BY <1>1, <1>3, <1>5 DEF SearchSound, LoadingIsPending
<1>7. SearchSound'
    BY <1>1, <1>3, <1>4, <1>5, <1>6 DEF SearchSound, ResultsAreAsked, EmptyMeansNone
<1>8. PaletteSound'
    BY <1>1, <1>4, PaletteKept
<1>9. FindingTyped'
    BY <1>1, <1>3, <1>4 DEF FindingTyped
<1> QED BY <1>7, <1>8, <1>9

(* What was shown of the catalog stays so unless a listing went away.       *)
LEMMA RestockIsSound ==
    ASSUME FindingTyped, SearchSound, PaletteSound,
           NEW c \in Facets, NEW n \in 0..MaxPages, Restock(c, n)
    PROVE  FindingTyped' /\ SearchSound' /\ PaletteSound'
<1>1. /\ stock' = [stock EXCEPT ![c] = n]
      /\ shrunk' = (shrunk \/ n < stock[c])
      /\ UNCHANGED <<route, search, palette, recents, handoff, net>>
    BY DEF Restock
<1>2. stock \in [Facets -> 0..MaxPages] /\ search \in SearchPages /\ shrunk \in BOOLEAN
    BY DEF FindingTyped
<1>3. stock' \in [Facets -> 0..MaxPages] /\ shrunk' \in BOOLEAN
    BY <1>1, <1>2
<1>4. ~shrunk' => ~shrunk /\ \A d \in Facets : stock[d] <= stock'[d]
  <2>1. ~shrunk' => ~shrunk /\ ~(n < stock[c])
      BY <1>1, Zenon
  <2>2. ~(n < stock[c]) => \A d \in Facets : stock[d] <= stock'[d]
      BY <1>1, <1>2
  <2> QED BY <2>1, <2>2
<1>5. search.filter \in Facets /\ search.page \in Nat
    BY <1>2 DEF SearchPages
<1>6. search.results.total \in Nat
    BY <1>2 DEF SearchPages, Results, NoResults
<1>7. stock[search.filter] \in Nat /\ stock'[search.filter] \in Nat
    BY <1>2, <1>3, <1>5
<1>8. /\ route = "search" /\ ~shrunk'
            => search.page = 1 \/ search.page <= stock'[search.filter]
      /\ search.status = "ready" /\ ~shrunk'
            => search.results.total = 1 \/ search.results.total <= stock'[search.filter]
  <2> SUFFICES ASSUME ~shrunk'
               PROVE  /\ route = "search"
                            => search.page = 1 \/ search.page <= stock'[search.filter]
                      /\ search.status = "ready"
                            => \/ search.results.total = 1
                               \/ search.results.total <= stock'[search.filter]
      OBVIOUS
  <2>1. ~shrunk /\ stock[search.filter] <= stock'[search.filter]
      BY <1>4, <1>5
  <2>2. route = "search" => search.page = 1 \/ search.page <= stock[search.filter]
      BY <2>1 DEF SearchSound
  <2>3. search.status = "ready" => \/ search.results.total = 1
                                   \/ search.results.total <= stock[search.filter]
      BY <2>1 DEF SearchSound
  <2> QED BY <1>5, <1>6, <1>7, <2>1, <2>2, <2>3
<1>9. OfKind("search")' = OfKind("search") /\ OfKind("suggest")' = OfKind("suggest")
      /\ Asked(search)' = Asked(search)
    BY <1>1 DEF OfKind
<1>10. LoadingIsPending' /\ ResultsAreAsked'
    BY <1>1, <1>9 DEF SearchSound, LoadingIsPending, ResultsAreAsked
<1>11. EmptyMeansNone'
    BY <1>1, <1>4 DEF SearchSound, EmptyMeansNone
<1>12. SearchSound'
    BY <1>1, <1>8, <1>9, <1>10, <1>11 DEF SearchSound
<1>13. PaletteSound'
    BY <1>1, <1>9, PaletteKept
<1>14. FindingTyped'
    BY <1>1, <1>3 DEF FindingTyped
<1> QED BY <1>12, <1>13, <1>14

-----------------------------------------------------------------------------
(* The steps of the palette.                                                *)

(* A palette that is shut asks for nothing and shows nothing.               *)
LEMMA ShutPalette ==
    ASSUME FindingTyped, PaletteSound, palette' \in {ClosedKeeping, Closed},
           \A r \in OfKind("suggest")' : r.mounted
    PROVE  palette' \in Palettes /\ PaletteSound'
<1>1. palette \in Palettes
    BY DEF FindingTyped
<1>2. 0 \in -1..RecentLimit /\ Blank \in Queries
    BY DiscoveryAssumption DEF Queries
<1>3. /\ palette' \in Palettes /\ ~palette'.open /\ ~palette'.timer
      /\ palette'.recent = palette.recent
    BY <1>1, <1>2 DEF ClosedKeeping, Closed, Palettes
<1> QED BY <1>3 DEF PaletteSound, SuggestionsAreLatest

(* A palette of which the list is built anew.                               *)
LEMMA RowsOfPalette ==
    ASSUME NEW p \in Palettes, Len(p.recent) <= RecentLimit
    PROVE  /\ Rows(p) \in Seq(Terms) /\ Len(Rows(p)) \in 0..RecentLimit
           /\ Rows(p) = <<>> \/ 0 \in 0..(Len(Rows(p)) - 1)
<1>1. CASE p.value = Blank
  <2>1. Rows(p) = p.recent /\ p.recent \in Seq(Terms)
      BY <1>1 DEF Rows, Palettes
  <2> QED BY <2>1, DiscoveryAssumption
<1>2. CASE p.value # Blank
  <2>1. Rows(p) = <<p.value>> /\ p.value \in Terms
      BY <1>2 DEF Rows, Palettes, Queries
  <2> QED BY <2>1, DiscoveryAssumption
<1> QED BY <1>1, <1>2

(* It is opened, or something is typed into it.                             *)
LEMMA AsksAnew ==
    ASSUME FindingTyped, SearchSound, PaletteSound, Show \/ \E q \in Queries : TypeValue(q)
    PROVE  FindingTyped' /\ SearchSound' /\ PaletteSound'
<1>1. palette \in Palettes /\ 0 \in -1..RecentLimit
    BY DiscoveryAssumption DEF FindingTyped
<1>2. /\ net' = Supersede("suggest")
      /\ UNCHANGED <<route, search, recents, handoff, stock, shrunk>>
    BY DEF Show, TypeValue
<1>3. /\ palette' \in Palettes /\ palette'.open /\ palette'.timer /\ palette'.active = 0
      /\ Len(palette'.recent) <= RecentLimit
  <2>1. ASSUME Show
        PROVE  /\ palette' \in Palettes /\ palette'.open /\ palette'.timer
               /\ palette'.active = 0 /\ Len(palette'.recent) <= RecentLimit
    <3>1. palette' = [[palette EXCEPT !.open = TRUE, !.timer = TRUE, !.recent = recents]
                        EXCEPT !.active = 0]
        BY <2>1 DEF Show, Listed
    <3>2. recents \in Seq(Terms) /\ Len(recents) <= RecentLimit
        BY DEF FindingTyped, IsRecents
    <3> QED BY <1>1, <3>1, <3>2 DEF Palettes
  <2>2. ASSUME NEW q \in Queries, TypeValue(q)
        PROVE  /\ palette' \in Palettes /\ palette'.open /\ palette'.timer
               /\ palette'.active = 0 /\ Len(palette'.recent) <= RecentLimit
    <3>1. palette.open
          /\ palette' = [[palette EXCEPT !.value = q, !.timer = TRUE] EXCEPT !.active = 0]
        BY <2>2 DEF TypeValue, Listed
    <3> QED BY <1>1, <3>1 DEF Palettes, PaletteSound
  <2> QED BY <2>1, <2>2
<1>4. /\ net' \subseteq SearchRequests
      /\ OfKind("search")' = OfKind("search")
      /\ \A r \in OfKind("suggest")' :
            /\ ~(r.fresh /\ r.mounted)
            /\ \E s \in OfKind("suggest") : r.of = s.of /\ r.mounted = s.mounted
    BY <1>2, SupersedeIsSound
<1>5. \A r \in OfKind("suggest")' : r.mounted /\ ~r.fresh
    BY <1>4 DEF PaletteSound
<1>6. SearchSound'
    BY <1>2, <1>4, SearchKept
<1>7. Rows(palette') = <<>> \/ 0 \in 0..(Len(Rows(palette')) - 1)
    BY <1>3, RowsOfPalette
<1>8. PaletteSound'
    BY <1>3, <1>5, <1>7 DEF PaletteSound, SuggestionsAreLatest, Rows
<1>9. FindingTyped'
    BY <1>2, <1>3, <1>4 DEF FindingTyped
<1> QED BY <1>6, <1>8, <1>9

(* The arrows keep to the rows there are.                                   *)
LEMMA HighlightIsSound ==
    ASSUME FindingTyped, SearchSound, PaletteSound, Highlight
    PROVE  FindingTyped' /\ SearchSound' /\ PaletteSound'
<1>1. palette \in Palettes
    BY DEF FindingTyped
<1> DEFINE last == Len(Rows(palette)) - 1
           To(i) == IF i < palette.active THEN (IF i < 0 THEN 0 ELSE i)
                    ELSE IF i > last THEN last ELSE i
<1>2. /\ palette.open
      /\ UNCHANGED <<route, search, recents, handoff, net, stock, shrunk>>
    BY DEF Highlight
<1>3. PICK i \in {palette.active - 1, palette.active + 1} :
            palette' = [palette EXCEPT !.active = To(i)]
    BY DEF Highlight
<1>4. Rows(palette) \in Seq(Terms) /\ Len(Rows(palette)) \in 0..RecentLimit
      /\ (Rows(palette) = <<>> \/ 0 \in 0..last)
    BY <1>1, RowsOfPalette DEF PaletteSound
<1>5. last \in -1..(RecentLimit - 1) /\ (Rows(palette) = <<>> => last = -1)
    BY <1>4, DiscoveryAssumption
<1>6. palette.active \in Int
      /\ (palette.active \in 0..last \/ (Rows(palette) = <<>> /\ palette.active \in {-1, 0}))
    BY <1>1, <1>2 DEF PaletteSound, Palettes
<1> HIDE DEF last
<1>7. To(i) \in 0..last \/ (Rows(palette) = <<>> /\ To(i) \in {-1, 0})
    BY <1>3, <1>4, <1>5, <1>6
<1>8. To(i) \in -1..RecentLimit
    BY <1>5, <1>7, DiscoveryAssumption
<1> HIDE DEF To
<1>9. /\ palette' \in Palettes /\ palette'.active = To(i)
      /\ palette'.open = palette.open /\ palette'.value = palette.value
      /\ palette'.timer = palette.timer /\ palette'.shown = palette.shown
      /\ palette'.recent = palette.recent
    BY <1>1, <1>3, <1>8 DEF Palettes
<1>10. Rows(palette') = Rows(palette)
    BY <1>9 DEF Rows
<1>11. OfKind("search")' = OfKind("search") /\ OfKind("suggest")' = OfKind("suggest")
    BY <1>2 DEF OfKind
<1>12. SearchSound'
    BY <1>2, <1>11, SearchKept
<1>13. SuggestionsAreLatest'
    BY <1>2, <1>9 DEF PaletteSound, SuggestionsAreLatest
<1>14. PaletteSound'
    BY <1>2, <1>7, <1>9, <1>10, <1>11, <1>13 DEF PaletteSound, last, Rows
<1>15. FindingTyped'
    BY <1>2, <1>9 DEF FindingTyped
<1> QED BY <1>12, <1>14, <1>15

LEMMA SuggestTimerSends ==
    ASSUME FindingTyped, SearchSound, PaletteSound, SuggestTimer
    PROVE  FindingTyped' /\ SearchSound' /\ PaletteSound'
<1>1. /\ palette.timer /\ palette' = [palette EXCEPT !.timer = FALSE]
      /\ net' = net \cup {Request("suggest", Plain(palette.value))}
      /\ UNCHANGED <<route, search, recents, handoff, stock, shrunk>>
    BY DEF SuggestTimer
<1>2. palette \in Palettes
    BY DEF FindingTyped
<1>3. /\ palette' \in Palettes /\ palette'.timer = FALSE
      /\ palette'.open = palette.open /\ palette'.value = palette.value
      /\ palette'.active = palette.active /\ palette'.shown = palette.shown
      /\ palette'.recent = palette.recent
    BY <1>1, <1>2 DEF Palettes
<1>4. palette.value \in Queries /\ Plain(palette.value).q = palette.value
    BY <1>2 DEF Palettes, Plain
<1>5. PICK new : new = Request("suggest", Plain(palette.value))
    OBVIOUS
<1>6. new \in SearchRequests /\ new.kind = "suggest" /\ new.of.q = palette.value
      /\ new.fresh /\ new.mounted
    BY <1>4, <1>5, AskedIsTyped
<1>7. /\ net' \subseteq SearchRequests
      /\ OfKind("suggest")' = OfKind("suggest") \cup {new}
      /\ OfKind("search")' = OfKind("search")
    BY <1>1, <1>4, <1>5, AskedIsTyped, SentIsSound
<1>8. Rows(palette') = Rows(palette)
    BY <1>3 DEF Rows
<1>9. palette.open
    BY <1>1 DEF PaletteSound
<1>10. new \in net'
    BY <1>1, <1>5
<1>11. SuggestionsAreLatest'
    BY <1>6, <1>10 DEF SuggestionsAreLatest
<1>12. PaletteSound'
    BY <1>3, <1>6, <1>7, <1>8, <1>9, <1>11 DEF PaletteSound, Rows
<1>13. SearchSound'
    BY <1>1, <1>7, SearchKept
<1>14. FindingTyped'
    BY <1>1, <1>3, <1>7 DEF FindingTyped
<1> QED BY <1>12, <1>13, <1>14

LEMMA SuggestAnswerIsSound ==
    ASSUME FindingTyped, SearchSound, PaletteSound,
           NEW r \in net, NEW ok \in BOOLEAN, SuggestAnswer(r, ok)
    PROVE  FindingTyped' /\ SearchSound' /\ PaletteSound'
<1> DEFINE asked == IF ok THEN r.of.q ELSE None
<1>1. /\ r.kind = "suggest" /\ net' = net \ {r}
      /\ palette' = IF ~r.fresh THEN palette
                    ELSE IF ~ok /\ palette.shown = None THEN palette
                    ELSE [[palette EXCEPT !.shown = asked] EXCEPT !.active = 0]
      /\ UNCHANGED <<route, search, recents, handoff, stock, shrunk>>
    BY DEF SuggestAnswer, Listed
<1>2. r \in SearchRequests /\ palette \in Palettes /\ r \in OfKind("suggest")
    BY <1>1 DEF FindingTyped, OfKind
<1>3. asked \in Queries \cup {None} /\ 0 \in -1..RecentLimit
    BY <1>2, DiscoveryAssumption DEF SearchRequests, Asks
<1>4. /\ net' \subseteq SearchRequests
      /\ OfKind("suggest")' = OfKind("suggest") \ {r}
      /\ OfKind("search")' = OfKind("search")
    BY <1>1, EndedIsSound
<1>5. SearchSound'
    BY <1>1, <1>4, SearchKept
<1>6. palette' \in Palettes /\ PaletteSound'
  <2>1. CASE ~r.fresh \/ (~ok /\ palette.shown = None)
    <3>1. palette' = palette
        BY <1>1, <2>1
    <3>2. Rows(palette') = Rows(palette)
        BY <3>1
    <3>3. SuggestionsAreLatest'
        BY <1>1, <2>1, <3>1 DEF PaletteSound, SuggestionsAreLatest
    <3>4. PaletteSound'
        BY <1>4, <3>1, <3>2, <3>3 DEF PaletteSound, Rows
    <3> QED BY <1>2, <3>1, <3>4
  <2>2. CASE r.fresh /\ ~(~ok /\ palette.shown = None)
    <3>1. palette' = [[palette EXCEPT !.shown = asked] EXCEPT !.active = 0]
        BY <1>1, <2>2
    <3> HIDE DEF asked
    <3>2. /\ palette' \in Palettes /\ palette'.active = 0 /\ palette'.shown = asked
          /\ palette'.open = palette.open /\ palette'.value = palette.value
          /\ palette'.timer = palette.timer /\ palette'.recent = palette.recent
        BY <1>2, <1>3, <3>1 DEF Palettes
    <3>3. palette.open => r.of.q = palette.value
        BY <1>2, <2>2 DEF PaletteSound
    <3>4. SuggestionsAreLatest'
        BY <3>2, <3>3 DEF SuggestionsAreLatest, asked
    <3>5. Rows(palette') = <<>> \/ 0 \in 0..(Len(Rows(palette')) - 1)
        BY <3>2, RowsOfPalette DEF PaletteSound
    <3>6. PaletteSound'
        BY <1>4, <3>2, <3>4, <3>5 DEF PaletteSound, Rows
    <3> QED BY <3>2, <3>6
  <2> QED BY <2>1, <2>2
<1>7. FindingTyped'
    BY <1>1, <1>4, <1>6 DEF FindingTyped
<1> QED BY <1>5, <1>6, <1>7

LEMMA HideIsSound ==
    ASSUME FindingTyped, SearchSound, PaletteSound, Hide
    PROVE  FindingTyped' /\ SearchSound' /\ PaletteSound'
<1>1. /\ palette' \in {ClosedKeeping, Closed}
      /\ UNCHANGED <<route, search, recents, handoff, net, stock, shrunk>>
    BY DEF Hide
<1>2. OfKind("search")' = OfKind("search") /\ OfKind("suggest")' = OfKind("suggest")
    BY <1>1 DEF OfKind
<1>3. palette' \in Palettes /\ PaletteSound'
    BY <1>1, <1>2, ShutPalette DEF PaletteSound
<1>4. SearchSound'
    BY <1>1, <1>2, SearchKept
<1>5. FindingTyped'
    BY <1>1, <1>3 DEF FindingTyped
<1> QED BY <1>3, <1>4, <1>5

-----------------------------------------------------------------------------
(* Coming to the search page, and leaving it.                               *)

LEMMA UnmountIsSound ==
    ASSUME FindingTyped, net' = Unmount
    PROVE  /\ net' \subseteq SearchRequests
           /\ OfKind("suggest")' = OfKind("suggest")
           /\ \A r \in OfKind("search")' :
                ~r.mounted /\ \E s \in OfKind("search") : r.of = s.of
<1> DEFINE Old(r) == IF r.kind = "suggest" THEN r
                     ELSE [r EXCEPT !.mounted = FALSE, !.fresh = @ /\ r.kind = "search"]
<1>1. net' = {Old(r) : r \in net}
    BY DEF Unmount
<1>2. \A r \in net : /\ Old(r) \in SearchRequests
                     /\ Old(r).kind = r.kind /\ Old(r).of = r.of
                     /\ r.kind = "suggest" => Old(r) = r
                     /\ r.kind # "suggest" => ~Old(r).mounted
  <2> SUFFICES ASSUME NEW r \in net
               PROVE  /\ Old(r) \in SearchRequests
                      /\ Old(r).kind = r.kind /\ Old(r).of = r.of
                      /\ r.kind = "suggest" => Old(r) = r
                      /\ r.kind # "suggest" => ~Old(r).mounted
      OBVIOUS
  <2>1. r \in SearchRequests
      BY DEF FindingTyped
  <2>2. CASE r.kind = "suggest"
      BY <2>1, <2>2
  <2>3. CASE r.kind # "suggest"
    <3>1. PICK b : b = (r.fresh /\ r.kind = "search")
        OBVIOUS
    <3>2. b \in BOOLEAN
        BY <2>1, <3>1 DEF SearchRequests
    <3>3. Old(r) = [r EXCEPT !.mounted = FALSE, !.fresh = b]
        BY <2>3, <3>1, Zenon
    <3> HIDE DEF Old
    <3>4. /\ Old(r) \in SearchRequests /\ Old(r).mounted = FALSE
          /\ Old(r).kind = r.kind /\ Old(r).of = r.of
        BY <2>1, <3>2, <3>3 DEF SearchRequests
    <3> QED BY <2>3, <3>4
  <2> QED BY <2>2, <2>3
<1> HIDE DEF Old
<1>3. net' \subseteq SearchRequests
    BY <1>1, <1>2
<1>4. OfKind("suggest")' = OfKind("suggest")
  <2>1. OfKind("suggest")' = {r \in net' : r.kind = "suggest"}
      BY DEF OfKind
  <2>2. \A r : r \in net' /\ r.kind = "suggest" <=> r \in net /\ r.kind = "suggest"
      BY <1>1, <1>2
  <2> QED BY <2>1, <2>2 DEF OfKind
<1>5. \A r \in OfKind("search")' :
            ~r.mounted /\ \E s \in OfKind("search") : r.of = s.of
  <2> SUFFICES ASSUME NEW r, r \in net', r.kind = "search"
               PROVE  ~r.mounted /\ \E s \in OfKind("search") : r.of = s.of
      BY DEF OfKind
  <2>1. PICK s \in net : r = Old(s)
      BY <1>1
  <2>2. s \in OfKind("search")
      BY <1>2, <2>1 DEF OfKind
  <2> QED BY <1>2, <2>1, <2>2
<1> QED BY <1>3, <1>4, <1>5

LEMMA ClosedPageIsTyped == ClosedPage \in SearchPages
BY DiscoveryAssumption DEF ClosedPage, SearchPages, Queries, Facets

LEMMA MountIsSound ==
    ASSUME FindingTyped, SearchSound, PaletteSound, route # "search",
           NEW q \in Queries, NEW left \in Terms \cup {None}, Mount(q, left),
           palette' = Closed, IsRecents(recents')
    PROVE  FindingTyped' /\ SearchSound' /\ PaletteSound'
<1>1. PICK asked : asked = IF left = None THEN q ELSE left
    OBVIOUS
<1>2. PICK s : s = [ClosedPage EXCEPT !.q = asked]
    OBVIOUS
<1>3. /\ route' = "search" /\ search' = Run(s) /\ handoff' = None
      /\ net' = net \cup {Request("categories", Plain(Blank))}
      /\ stock' \in Stocks /\ shrunk' = FALSE
    BY <1>1, <1>2 DEF Mount
<1>4. asked \in Queries
    BY <1>1 DEF Queries
<1>5. s \in SearchPages /\ s.page = 1
  <2>1. s.page = ClosedPage.page /\ ClosedPage.page = 1
      BY <1>2 DEF ClosedPage
  <2>2. s \in SearchPages
      BY <1>2, <1>4, ClosedPageIsTyped DEF SearchPages
  <2> QED BY <2>1, <2>2
<1>6. /\ net' \subseteq SearchRequests
      /\ OfKind("search")' = OfKind("search") /\ OfKind("suggest")' = OfKind("suggest")
  <2>1. Plain(Blank) \in Asks
      BY AskedIsTyped DEF Queries
  <2> QED BY <1>3, <2>1, SentIsSound
<1>7. \A r \in OfKind("search")' : r.of.q # Blank /\ ~(r.fresh /\ r.mounted)
    BY <1>6 DEF SearchSound
<1>8. search' \in SearchPages /\ SearchSound'
    BY <1>3, <1>5, <1>7, AskedAnew
<1>9. palette' \in Palettes /\ PaletteSound'
    BY <1>6, ShutPalette DEF PaletteSound
<1>10. stock' \in [Facets -> 0..MaxPages]
    BY <1>3 DEF Stocks
<1>11. FindingTyped'
    BY <1>3, <1>6, <1>8, <1>9, <1>10 DEF FindingTyped
<1> QED BY <1>8, <1>9, <1>11

LEMMA OpenIsSound ==
    ASSUME FindingTyped, SearchSound, PaletteSound, NEW q \in Queries, Open(q)
    PROVE  FindingTyped' /\ SearchSound' /\ PaletteSound'
<1>1. route # "search" /\ Mount(q, handoff) /\ palette' = Closed /\ recents' = recents
    BY DEF Open
<1>2. handoff \in Terms \cup {None} /\ IsRecents(recents')
    BY <1>1 DEF FindingTyped
<1> QED BY <1>1, <1>2, MountIsSound

(* A row is remembered, and searched now or on the next visit.              *)
LEMMA PickIsSound ==
    ASSUME FindingTyped, SearchSound, PaletteSound, NEW i \in 1..RecentLimit, Pick(i)
    PROVE  FindingTyped' /\ SearchSound' /\ PaletteSound'
<1>1. PICK q : q = Rows(palette)[i]
    OBVIOUS
<1>2. /\ i \in 1..Len(Rows(palette)) /\ recents' = Remembered(q) /\ palette' = Closed
      /\ IF route # "search"
         THEN Mount(Blank, q)
         ELSE handoff' = q /\ UNCHANGED <<route, search, net, stock, shrunk, pages>>
    BY <1>1 DEF Pick
<1>3. Rows(palette) \in Seq(Terms)
    BY RowsOfPalette DEF FindingTyped, PaletteSound
<1>4. q \in Terms
    BY <1>1, <1>2, <1>3, ElementOfSeq
<1>5. IsRecents(recents')
    BY <1>2, <1>4, RememberedIsRecents DEF FindingTyped
<1>6. CASE route # "search"
  <2>1. Mount(Blank, q) /\ Blank \in Queries
      BY <1>2, <1>6 DEF Queries
  <2> QED BY <1>2, <1>4, <1>5, <1>6, <2>1, MountIsSound
<1>7. CASE route = "search"
  <2>1. handoff' = q /\ UNCHANGED <<route, search, net, stock, shrunk>>
      BY <1>2, <1>7
  <2>2. OfKind("search")' = OfKind("search") /\ OfKind("suggest")' = OfKind("suggest")
      BY <2>1 DEF OfKind
  <2>3. palette' \in Palettes /\ PaletteSound'
      BY <1>2, <2>2, ShutPalette DEF PaletteSound
  <2>4. SearchSound'
      BY <2>1, <2>2, SearchKept
  <2>5. FindingTyped'
      BY <1>4, <1>5, <2>1, <2>3 DEF FindingTyped
  <2> QED BY <2>3, <2>4, <2>5
<1> QED BY <1>6, <1>7

LEMMA LeaveIsSound ==
    ASSUME FindingTyped, SearchSound, PaletteSound,
           NEW r \in {"directory", "list", "other"}, Leave(r)
    PROVE  FindingTyped' /\ SearchSound' /\ PaletteSound'
<1>1. /\ route' = r /\ search' = ClosedPage /\ net' = Unmount /\ palette' = Closed
      /\ stock' = Unseen /\ shrunk' = FALSE /\ UNCHANGED <<recents, handoff>>
    BY DEF Leave
<1>2. /\ net' \subseteq SearchRequests
      /\ OfKind("suggest")' = OfKind("suggest")
      /\ \A p \in OfKind("search")' :
            ~p.mounted /\ \E s \in OfKind("search") : p.of = s.of
    BY <1>1, UnmountIsSound
<1>3. search'.status = "idle" /\ ~search'.timer
    BY <1>1 DEF ClosedPage
<1>4. \A p \in OfKind("search")' : p.of.q # Blank /\ ~p.mounted
    BY <1>2 DEF SearchSound
<1>5. SearchSound'
    BY <1>1, <1>3, <1>4 DEF SearchSound, LoadingIsPending, ResultsAreAsked, EmptyMeansNone
<1>6. palette' \in Palettes /\ PaletteSound'
    BY <1>1, <1>2, ShutPalette DEF PaletteSound
<1>7. stock' \in [Facets -> 0..MaxPages]
    BY <1>1, DiscoveryAssumption DEF Unseen
<1>8. FindingTyped'
    BY <1>1, <1>2, <1>6, <1>7, ClosedPageIsTyped DEF FindingTyped
<1> QED BY <1>5, <1>6, <1>8

-----------------------------------------------------------------------------
(* The whole.                                                               *)

LEMMA PagesKept ==
    ASSUME FuneralInv, BrowseInv, UNCHANGED pages
    PROVE  FuneralInv' /\ BrowseInv'
<1>1. UNCHANGED <<directory, forms, calls, received>>
      /\ UNCHANGED <<shown, draft, going, past, astray>>
    BY DEF pages, funeral, browse
<1>2. FuneralInv'
    BY <1>1 DEF FuneralInv, FuneralTypeOK, ThanksWereEarned, SendingIsPending, IsOpen
<1>3. BrowseInv'
    BY <1>1 DEF BrowseInv, BrowseTypeOK, IslandHasPlace, HasIsland, IslandIsShown,
                PageWasOffered
<1> QED BY <1>2, <1>3

LEMMA FindingKept ==
    ASSUME FindingTyped, SearchSound, PaletteSound, UNCHANGED finding
    PROVE  FindingTyped' /\ SearchSound' /\ PaletteSound'
<1>1. UNCHANGED <<route, search, palette, recents, handoff, net, stock, shrunk>>
    BY DEF finding
<1>2. OfKind("search")' = OfKind("search") /\ OfKind("suggest")' = OfKind("suggest")
    BY <1>1 DEF OfKind
<1> QED BY <1>1, <1>2, SearchKept, PaletteKept DEF FindingTyped

(* What is done is counted, up to the bound.                                *)
LEMMA ActsAreCounted ==
    ASSUME Counted, Act \/ UNCHANGED acts
    PROVE  Counted'
BY FuneralAssumption DEF Counted, Act

LEMMA FuneralIsCounted == FuneralNext => Act \/ UNCHANGED acts
BY DEF FuneralNext, FuneralAnswers, SearchHomes, ListAnswer, OpenForm, CloseForm,
       AutoClose, Submit, FormAnswer

(* On the search page and in the palette, the other pages are let alone.    *)
LEMMA StepsOfFinding ==
    ASSUME DiscoveryIInv,
           \/ \E q \in Queries : Type(q) \/ TypeValue(q)
           \/ \E c \in Facets : Filter(c)
           \/ \E p \in 1..MaxPages : Turn(p)
           \/ \E c \in Facets, n \in 0..MaxPages : Restock(c, n)
           \/ Show \/ Hide \/ Highlight
           \/ SearchTimer \/ SuggestTimer \/ AnswerSome
    PROVE  DiscoveryIInv'
<1> USE DEF DiscoveryIInv
<1>1. UNCHANGED pages /\ (Act \/ UNCHANGED acts)
    BY DEF Type, TypeValue, Filter, Turn, Restock, Show, Hide, Highlight, SearchTimer,
           SuggestTimer, AnswerSome, SearchAnswer, FacetAnswer, SuggestAnswer
<1>2. FindingTyped' /\ SearchSound' /\ PaletteSound'
  <2>1. AnswerSome => FindingTyped' /\ SearchSound' /\ PaletteSound'
      BY SearchAnswerIsSound, FacetAnswerIsSound, SuggestAnswerIsSound DEF AnswerSome
  <2>2. (\E c \in Facets, n \in 0..MaxPages : Restock(c, n))
            => FindingTyped' /\ SearchSound' /\ PaletteSound'
      BY RestockIsSound
  <2>3. (\E q \in Queries : Type(q)) \/ (\E c \in Facets : Filter(c))
            \/ (\E p \in 1..MaxPages : Turn(p))
            => FindingTyped' /\ SearchSound' /\ PaletteSound'
      BY SearchChanges
  <2>4. Show \/ (\E q \in Queries : TypeValue(q))
            => FindingTyped' /\ SearchSound' /\ PaletteSound'
      BY AsksAnew
  <2> QED BY <2>1, <2>2, <2>3, <2>4, HideIsSound, HighlightIsSound, SearchTimerSends,
             SuggestTimerSends
<1> QED BY <1>1, <1>2, PagesKept, ActsAreCounted

(* Another page is shown, and begins anew.                                  *)
LEMMA StepsBetweenPages ==
    ASSUME DiscoveryIInv,
           \/ \E q \in Queries : Open(q)
           \/ \E i \in 1..RecentLimit : Pick(i)
           \/ VisitDirectory \/ VisitList \/ VisitOther
    PROVE  DiscoveryIInv'
<1> USE DEF DiscoveryIInv
<1>1. Act
    BY DEF Open, Pick, VisitDirectory, VisitList, VisitOther, Leave
<1>2. FindingTyped' /\ SearchSound' /\ PaletteSound'
    BY OpenIsSound, PickIsSound, LeaveIsSound DEF VisitDirectory, VisitList, VisitOther
<1>3. LeaveList \/ (\E url \in Links : EnterList(url)) => BrowseInv'
    BY ListTurned, LinksAssumption DEF LeaveList, EnterList
<1>4. \/ EnterDirectory \/ LeaveDirectory
      \/ UNCHANGED pages
    BY DEF Open, Pick, Mount, VisitDirectory, VisitList, VisitOther
<1>5. LeaveList \/ (\E url \in Links : EnterList(url)) \/ UNCHANGED pages
    BY DEF Open, Pick, Mount, VisitDirectory, VisitList, VisitOther
<1>6. FuneralInv'
    BY <1>4, DirectoryChanges, PagesKept
<1>7. BrowseInv'
    BY <1>3, <1>5, PagesKept
<1> QED BY <1>1, <1>2, <1>6, <1>7, ActsAreCounted

(* The directory and the lists leave the rest, and each other, alone.       *)
LEMMA StepsOnPages ==
    ASSUME DiscoveryIInv, OnDirectory \/ OnList
    PROVE  DiscoveryIInv'
<1> USE DEF DiscoveryIInv
<1>1. CASE OnDirectory
  <2>1. FuneralNext /\ UNCHANGED finding /\ UNCHANGED browse
      BY <1>1 DEF OnDirectory
  <2>2. FuneralInv'
      BY <2>1, FuneralSteps
  <2>3. BrowseInv'
      BY <2>1 DEF browse, BrowseInv, BrowseTypeOK, IslandHasPlace, HasIsland,
                  IslandIsShown, PageWasOffered
  <2>4. Counted'
      BY <2>1, FuneralIsCounted, ActsAreCounted
  <2> QED BY <2>1, <2>2, <2>3, <2>4, FindingKept
<1>2. CASE OnList
  <2>1. /\ BrowseActs \/ BrowseAnswers
        /\ UNCHANGED finding /\ UNCHANGED funeral /\ (Act \/ UNCHANGED acts)
      BY <1>2 DEF OnList
  <2>2. BrowseInv'
      BY <2>1, BrowseSteps
  <2>3. FuneralInv'
      BY <2>1 DEF funeral, FuneralInv, FuneralTypeOK, ThanksWereEarned,
                  SendingIsPending, IsOpen
  <2> QED BY <2>1, <2>2, <2>3, FindingKept, ActsAreCounted
<1> QED BY <1>1, <1>2

LEMMA DiscoveryInitSound == DiscoveryInit => DiscoveryIInv
<1> SUFFICES ASSUME DiscoveryInit PROVE DiscoveryIInv
    OBVIOUS
<1>1. /\ route = "other" /\ search = ClosedPage /\ palette = ClosedPalette
      /\ recents = <<>> /\ handoff = None /\ net = {} /\ stock = Unseen /\ shrunk = FALSE
      /\ FuneralInit /\ BrowseInit /\ acts = 0
    BY DEF DiscoveryInit
<1>2. Counted
    BY <1>1, FuneralAssumption DEF Counted
<1>3. FuneralInv
    BY <1>1 DEF FuneralInv, FuneralInit, FuneralTypeOK, ThanksWereEarned,
                SendingIsPending, IsOpen, NewForm
<1>4. BrowseInv
  <2>1. past \in Seq(Pages)
      BY <1>1 DEF BrowseInit
  <2> QED BY <1>1, <2>1 DEF BrowseInit, BrowseInv, BrowseTypeOK, IslandHasPlace,
                            IslandIsShown, PageWasOffered
<1>5. recents \in Seq(Terms) /\ Len(recents) = 0 /\ IsRecents(recents)
    BY <1>1, DiscoveryAssumption DEF IsRecents
<1>6. palette \in Palettes /\ palette.recent = <<>> /\ ~palette.open /\ ~palette.timer
  <2>1. 0 \in -1..RecentLimit /\ Blank \in Queries /\ <<>> \in Seq(Terms)
      BY DiscoveryAssumption DEF Queries
  <2> QED BY <1>1, <2>1 DEF ClosedPalette, Palettes
<1>7. stock \in [Facets -> 0..MaxPages]
    BY <1>1, DiscoveryAssumption DEF Unseen
<1>8. FindingTyped
    BY <1>1, <1>5, <1>6, <1>7, ClosedPageIsTyped DEF FindingTyped
<1>9. OfKind("search") = {} /\ OfKind("suggest") = {}
    BY <1>1 DEF OfKind
<1>10. search.status = "idle" /\ ~search.timer
    BY <1>1 DEF ClosedPage
<1>11. SearchSound
    BY <1>1, <1>9, <1>10 DEF SearchSound, LoadingIsPending, ResultsAreAsked, EmptyMeansNone
<1>12. Len(palette.recent) <= RecentLimit
    BY <1>6, DiscoveryAssumption
<1>13. PaletteSound
    BY <1>6, <1>9, <1>12 DEF PaletteSound, SuggestionsAreLatest
<1> QED BY <1>2, <1>3, <1>4, <1>8, <1>11, <1>13 DEF DiscoveryIInv

LEMMA DiscoverySteps ==
    ASSUME DiscoveryIInv, [DiscoveryNext]_discoveryVars
    PROVE  DiscoveryIInv'
<1>1. CASE DiscoveryNext
    BY <1>1, StepsOfFinding, StepsBetweenPages, StepsOnPages DEF DiscoveryNext
<1>2. CASE UNCHANGED discoveryVars
  <2>1. UNCHANGED finding /\ UNCHANGED pages /\ UNCHANGED acts
      BY <1>2 DEF discoveryVars
  <2> QED BY <2>1, FindingKept, PagesKept, ActsAreCounted DEF DiscoveryIInv
<1> QED BY <1>1, <1>2

LEMMA DiscoveryIsSound == DiscoverySpec => []DiscoveryIInv
<1>1. DiscoveryInit => DiscoveryIInv
    BY DiscoveryInitSound
<1>2. DiscoveryIInv /\ [DiscoveryNext]_discoveryVars => DiscoveryIInv'
    BY DiscoverySteps
<1> QED BY <1>1, <1>2, PTL DEF DiscoverySpec

(* The state keeps its types, the recent searches their limit and their      *)
(* difference; nothing loads or sends without a request, an empty page past  *)
(* the first says that a listing went away, the highlight is on a row, and   *)
(* the pager of a list is honest: for any terms, homes, lists and bounds.    *)
THEOREM DiscoveryHolds == DiscoverySpec => []DiscoveryInv
<1>1. DiscoveryIInv => DiscoveryInv
  <2> SUFFICES ASSUME DiscoveryIInv PROVE DiscoveryInv
      OBVIOUS
  <2>1. DiscoveryTypeOK
      BY TypesAreFound DEF DiscoveryIInv, FuneralInv, BrowseInv
  <2>2. HighlightIsARow
      BY DEF DiscoveryIInv, PaletteSound, HighlightIsARow
  <2>3. PagerIsHonest
      BY ListsHaveHonestPagers DEF DiscoveryIInv, BrowseInv
  <2> QED BY <2>1, <2>2, <2>3 DEF DiscoveryInv, DiscoveryIInv, SearchSound, FuneralInv
<1> QED BY <1>1, DiscoveryIsSound, PTL

(* What the search page shows answers what it now asks, and what the        *)
(* palette suggests was asked for what is typed, in whatever order answers   *)
(* come, and through pages left and palettes hidden in between.              *)
THEOREM AnswersAreAsked == DiscoverySpec => []ShownIsAsked
<1>1. DiscoveryIInv => ShownIsAsked
    BY DEF DiscoveryIInv, SearchSound, PaletteSound, ShownIsAsked
<1> QED BY <1>1, DiscoveryIsSound, PTL

(* A consultation form thanks only for a request that the backend received. *)
THEOREM ThanksAreEarned == DiscoverySpec => []ThanksWereEarned
<1>1. DiscoveryIInv => ThanksWereEarned
    BY DEF DiscoveryIInv, FuneralInv
<1> QED BY <1>1, DiscoveryIsSound, PTL

(* The filter island shows the sellers and the order of the list it stands   *)
(* on, or of the one under way, unless the back button or a page turned in   *)
(* between has left it behind.                                               *)
THEOREM IslandFollows == DiscoverySpec => []IslandIsShown
<1>1. DiscoveryIInv => IslandIsShown
    BY DEF DiscoveryIInv, BrowseInv
<1> QED BY <1>1, DiscoveryIsSound, PTL

(* A late page of a list is asked for only under the filters that the pager  *)
(* which offered it was rendered with.                                       *)
THEOREM PagesAreOffered == DiscoverySpec => []PageWasOffered
<1>1. DiscoveryIInv => PageWasOffered
    BY DEF DiscoveryIInv, BrowseInv
<1> QED BY <1>1, DiscoveryIsSound, PTL

=============================================================================
