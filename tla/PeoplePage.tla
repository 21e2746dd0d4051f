------------------------------ MODULE PeoplePage ------------------------------
(***************************************************************************)
(* The list of people: home.service, shared by home.component and          *)
(* advanced-search.component of the front end, and the query of            *)
(* user.service getAll it is filled from page by page.                     *)
(*                                                                         *)
(* The service outlives both pages and no load is ever cancelled, so any   *)
(* answer still replaces the list or is appended to it.  A load is read    *)
(* from the database when it is answered: people who come online in        *)
(* between are an accident of their own.  Only the counts of super likes   *)
(* on the cards may be older, for the tab is told of them by events too.   *)
(* Left out: the order by name or distance (the sort control is never      *)
(* shown), the counts of profile views, which change while the page of a   *)
(* profile is shown, the price of a super like (WalletService has it), the *)
(* spinner, the gift dialog.                                               *)
(***************************************************************************)
EXTENDS Browser

CONSTANTS
  LastSeen,    \* the other users, by last visit, at the start
  Women,       \* the ones the advanced filter by gender asks for
  Verified,    \* the ones with a verified profile
  Named,       \* the ones the search term finds
  Limit        \* people on a page of the list, 12 in the code

People == ToSet(LastSeen)

ASSUME PeoplePageAssumption ==
  /\ LastSeen \in Seq(People) /\ IsInjective(LastSeen)
  /\ Women \union Verified \union Named \subseteq People
  /\ Limit \in Nat \ {0}

VARIABLES
  people,     \* the server: the people by last visit, the ones online, super likes
  home,       \* the fields of HomeService, the guard of the page included
  homeCalls,  \* the calls of the service
  homeCalm     \* history: accidents since the list was last loaded in peace

peopleVars == <<people, home, homeCalls, homeCalm>>

AdvancedFilters == {"none", "gender", "verified"}

Queries == [filter : {"all", "online"}, search : {"", "term"}, advanced : AdvancedFilters]

NoHome ==
  [made |-> FALSE, users |-> <<>>, page |-> 0, more |-> TRUE, loadingMore |-> FALSE,
   query |-> [filter |-> "all", search |-> "", advanced |-> "none"]]

PeopleInit ==
  /\ people = [order |-> LastSeen, online |-> {}, likes |-> [u \in People |-> 0]]
  /\ home = NoHome
  /\ homeCalls = <<>>
  /\ homeCalm = TRUE

-----------------------------------------------------------------------------
(***************************************************************************)
(* The server: getAll.                                                     *)
(***************************************************************************)
Matching(query) ==
  LET meets(u) == /\ query.filter = "online" => u \in people.online
                  /\ query.search = "term" => u \in Named
                  /\ query.advanced = "gender" => u \in Women
                  /\ query.advanced = "verified" => u \in Verified
  IN  Part(people.order, {i \in 1..Len(people.order) : meets(people.order[i])})

\* What is sent of a person: the count of super likes goes with it.
Cards(found, likes) == [i \in 1..Len(found) |-> [id |-> found[i], likes |-> likes[found[i]]]]

UpTo(seq, n) == SubSeq(seq, 1, IF n < Len(seq) THEN n ELSE Len(seq))

\* skip and take, and whether there are more pages.
PageOf(query, page) ==
  LET found == Matching(query)
  IN  [users |-> SubSeq(UpTo(found, page * Limit), (page - 1) * Limit + 1, Len(UpTo(found, page * Limit))),
       more |-> page * Limit < Len(found)]

\* The endpoint compares verifiedOnly with true, and a query string holds a
\* word: the filter is never applied.
GetAll(query) == [query EXCEPT !.advanced = IF @ = "verified" THEN "none" ELSE @]

OnPeople == Shows("home") \/ Shows("search")

\* Somebody comes online, and so to the front, under the eyes of the user.
ComesOnline(u) ==
  /\ OnPeople /\ home.users # <<>>
  /\ people.order[1] # u
  /\ people' = [people EXCEPT !.order = <<u>> \o Without(@, u), !.online = @ \union {u}]
  /\ homeCalm' = FALSE
  /\ Happens
  /\ UNCHANGED <<home, homeCalls>>

-----------------------------------------------------------------------------
(***************************************************************************)
(* Loads.                                                                  *)
(***************************************************************************)
HomeTells == {<<"page", "list">>}

Loading == \E j \in 1..Len(homeCalls) : homeCalls[j].kind = "page"

Replacing == \E j \in 1..Len(homeCalls) : homeCalls[j].kind = "page" /\ ~homeCalls[j].arg.append

LoadUsersPage(query, page, append) ==
  Call("page", [query |-> query, page |-> page, append |-> append])

LoadFriends == Call("friends", [query |-> home.query, page |-> 0, append |-> FALSE])

\* The pagination state, before the first page of a query is asked for.
Reset(service) == [service EXCEPT !.page = 0, !.more = TRUE]

FirstPage(service) == <<LoadUsersPage(service.query, 1, FALSE)>>

Asked(calls) ==
  /\ Len(homeCalls) + Len(calls) <= MaxCalls
  /\ homeCalls' = Sent(homeCalls, calls)

\* The list is loaded anew: in peace when nothing else is being loaded.
Anew == homeCalm' = ~Loading

-----------------------------------------------------------------------------
(***************************************************************************)
(* The pages.  The service is made when the first of them is opened.       *)
(***************************************************************************)
InitializeData == IF home.made THEN <<>> ELSE <<LoadFriends>>

\* The guard is the new page's own, and a failure of what the page before has
\* asked for does not release it.
EnterPeople ==
  /\ home' = [Reset(home) EXCEPT !.made = TRUE, !.loadingMore = FALSE]
  /\ homeCalls' = Sent(Deafened(homeCalls),
                       InitializeData \o FirstPage(home))
  /\ Anew
  /\ UNCHANGED people

\* Scrolled near the end of the list.
OnScroll == OnPeople /\ ~home.loadingMore /\ home.more

LoadNextPage == <<LoadUsersPage(home.query, home.page + 1, TRUE)>>

SetFilter(filter) ==
  LET service == [Reset(home) EXCEPT !.query.filter = filter]
  IN  /\ Shows("home") /\ Click
      /\ home' = service
      /\ Asked(FirstPage(service))
      /\ Anew
      /\ UNCHANGED people

\* One load for every letter typed.
SetSearch(search) ==
  LET service == [Reset(home) EXCEPT !.query.search = search]
  IN  /\ Shows("home") /\ Click
      /\ home.query.search # search
      /\ home' = service
      /\ Asked(FirstPage(service))
      /\ Anew
      /\ UNCHANGED people

\* setFilter, setAdvancedFilters, getFilteredAndSortedUsers: three loads, the
\* first of them with the advanced filters there were before.
ApplyFilters(filter, chosen) ==
  LET filtered == [Reset(home) EXCEPT !.query.filter = filter]
      advanced == [filtered EXCEPT !.query.advanced = chosen]
  IN  /\ Shows("search") /\ Click
      /\ home' = advanced
      /\ Asked(FirstPage(filtered) \o FirstPage(advanced) \o FirstPage(advanced))
      /\ Anew
      /\ UNCHANGED people

RefreshData ==
  /\ Shows("home") /\ Click
  /\ home' = Reset(home)
  /\ Asked(<<LoadFriends>> \o FirstPage(home))
  /\ Anew
  /\ UNCHANGED people

\* Mutant: scrolling does not wait for the page it has asked for.
LoadEagerly ==
  /\ OnPeople /\ Click
  /\ home.more
  /\ home' = [home EXCEPT !.loadingMore = TRUE]
  /\ Asked(LoadNextPage)
  /\ homeCalm' = (homeCalm /\ ~Replacing)
  /\ UNCHANGED people

\* A page may be asked for while the list is being loaded anew, when the page
\* it counts from is gone.
LoadMoreUsers ==
  /\ OnScroll /\ Click
  /\ home' = [home EXCEPT !.loadingMore = TRUE]
  /\ Asked(LoadNextPage)
  /\ homeCalm' = (homeCalm /\ ~Replacing)
  /\ UNCHANGED people

-----------------------------------------------------------------------------
(***************************************************************************)
(* Super likes.                                                            *)
(***************************************************************************)
OnSuperLikeClick(u) ==
  /\ OnPeople /\ Click
  /\ \E i \in 1..Len(home.users) : home.users[i].id = u
  /\ Asked(<<Call("superLike", u)>>)
  /\ UNCHANGED <<people, home, homeCalm>>

\* The counts of a page under way, of the calls in read, were taken before.
ReadBefore(read) ==
  [k \in 1..Len(homeCalls) |-> IF k \in read THEN [homeCalls[k] EXCEPT !.got = people.likes] ELSE homeCalls[k]]

SendSuperLike(j) ==
  LET u == homeCalls[j].arg
      pages == {k \in 1..Len(homeCalls) : homeCalls[k].kind = "page" /\ homeCalls[k].got = <<>>}
  IN  /\ homeCalls[j].kind = "superLike" /\ homeCalls[j].at = "sent"
      /\ people' = [people EXCEPT !.likes[u] = @ + 1]
      /\ \E read \in SUBSET pages : homeCalls' = Served(ReadBefore(read), j, people.likes[u] + 1)
      /\ Unprompted
      /\ UNCHANGED <<home, homeCalm>>

UpdateUserSuperLikesCount(users, u, count) ==
  [i \in 1..Len(users) |-> IF users[i].id = u THEN [users[i] EXCEPT !.likes = count] ELSE users[i]]

\* The home page takes a list that is set anew for the end of the load it
\* waits for, and asks for the same page again.
Released(service) ==
  IF Shows("home") /\ service.page > 0 THEN [service EXCEPT !.loadingMore = FALSE] ELSE service

Early == Shows("home") /\ home.page > 0 /\ home.loadingMore

\* Whoever sent it is told the count, and the list is set anew. An older count
\* may come after it: in a page that was being read, or told for a super like
\* sent before.
SuperLikeSent(j) ==
  LET c == homeCalls[j]
      Older(k) == (homeCalls[k].kind = "page" /\ homeCalls[k].got # <<>>) \/ (k < j /\ homeCalls[k].at = "served")
  IN  /\ c.kind = "superLike" /\ c.at = "served"
      /\ home' = Released([home EXCEPT !.users = UpdateUserSuperLikesCount(@, c.arg, c.got)])
      /\ homeCalls' = RemoveAt([k \in 1..Len(homeCalls) |->
                          IF Older(k) THEN [homeCalls[k] EXCEPT !.late = @ \union {"likes"}]
                          ELSE homeCalls[k]], j)
      /\ homeCalm' = (homeCalm /\ ~Early /\ c.late = {})
      /\ Unprompted
      /\ UNCHANGED people

\* The connection of the tab breaks, and the counts under way are lost: the
\* cards keep the old ones. A super like served while there is no connection is
\* one whose count is lost.
CountsLost ==
  /\ \E j \in 1..Len(homeCalls) : homeCalls[j].at # "sent"
  /\ Failing
  /\ homeCalls' = Part(homeCalls, {j \in 1..Len(homeCalls) : homeCalls[j].at = "sent"})
  /\ homeCalm' = FALSE
  /\ UNCHANGED <<people, home>>

\* Somebody likes this user: the count is nobody's in the list, which is set
\* anew all the same.
SuperLikeReceived ==
  /\ Early
  /\ home' = Released(home)
  /\ homeCalm' = FALSE
  /\ Happens
  /\ UNCHANGED <<people, homeCalls>>

\* Somebody likes one in the list: only the two of them are told, and a count
\* this user is being told is an old one.
OthersSuperLike(u) ==
  /\ OnPeople /\ \E i \in 1..Len(home.users) : home.users[i].id = u
  /\ people' = [people EXCEPT !.likes[u] = @ + 1]
  /\ homeCalls' = [k \in 1..Len(homeCalls) |->
                     IF homeCalls[k].at = "served" THEN [homeCalls[k] EXCEPT !.late = @ \union {"likes"}]
                     ELSE homeCalls[k]]
  /\ homeCalm' = FALSE
  /\ Happens
  /\ UNCHANGED home

-----------------------------------------------------------------------------
(***************************************************************************)
(* Answers.                                                                *)
(***************************************************************************)
\* The friends are marked in the list by loading it once more.
FriendsLoaded(j) ==
  /\ homeCalls[j].kind = "friends"
  /\ home' = Reset(home)
  /\ homeCalls' = Sent(RemoveAt(homeCalls, j), FirstPage(home))
  /\ homeCalm' = (homeCalm \/ ~Loading)
  /\ Unprompted
  /\ UNCHANGED people

PageLoaded(j) ==
  LET asked == homeCalls[j].arg
      got == PageOf(GetAll(asked.query), asked.page)
      likes == IF homeCalls[j].got = <<>> THEN people.likes ELSE homeCalls[j].got
      cards == Cards(got.users, likes)
  IN  /\ homeCalls[j].kind = "page"
      /\ home' = [home EXCEPT !.page = asked.page, !.more = got.more, !.loadingMore = FALSE,
                              !.users = IF asked.append THEN @ \o cards ELSE cards]
      /\ homeCalls' = Answered(homeCalls, j, HomeTells)
      /\ homeCalm' = (homeCalm /\ homeCalls[j].late = {})
      /\ Unprompted
      /\ UNCHANGED people

\* Only loadMoreUsers handles it. A super like that failed was not counted.
PageFailed(j) ==
  LET c == homeCalls[j]
  IN  /\ c.at = "sent" /\ Failing
      /\ home' = IF c.kind = "page" /\ c.arg.append /\ ~c.deaf
                 THEN [home EXCEPT !.loadingMore = FALSE] ELSE home
      /\ homeCalls' = RemoveAt(homeCalls, j)
      /\ homeCalm' = (homeCalm /\ c.kind = "superLike")
      /\ UNCHANGED people

PeopleNext ==
  \/ \E filter \in {"all", "online"} :
       \/ SetFilter(filter)
       \/ \E chosen \in AdvancedFilters : ApplyFilters(filter, chosen)
  \/ \E search \in {"", "term"} : SetSearch(search)
  \/ RefreshData \/ LoadMoreUsers \/ SuperLikeReceived \/ CountsLost
  \/ \E u \in People : ComesOnline(u) \/ OnSuperLikeClick(u) \/ OthersSuperLike(u)
  \/ \E j \in 1..Len(homeCalls) :
       \/ FriendsLoaded(j) \/ PageLoaded(j) \/ PageFailed(j)
       \/ SendSuperLike(j) \/ SuperLikeSent(j)

-----------------------------------------------------------------------------
PeopleTypeOK ==
  /\ people.online \subseteq People
  /\ home.query \in Queries /\ home.page \in Nat
  /\ home.more \in BOOLEAN /\ home.loadingMore \in BOOLEAN
  /\ ToSet(home.users) \subseteq [id : People, likes : Nat]

\* When nothing is under way, the list is the first pages of what the server
\* finds for the last query, each person once and with the super likes it
\* counts, and scrolling goes on where it stands; unless something was asked
\* for while the list was loaded anew, an answer was overtaken or missing, the
\* guard was released early, people moved or liked one another, or the tab was
\* not connected.
PeopleShown ==
  OnPeople /\ ~Loading /\ homeCalm /\ (\A j \in 1..Len(homeCalls) : homeCalls[j].kind # "superLike") =>
    LET found == Matching(GetAll(home.query))
    IN  /\ home.page > 0 /\ ~home.loadingMore
        /\ home.users = Cards(UpTo(found, home.page * Limit), people.likes)
        /\ home.more <=> home.page * Limit < Len(found)
=============================================================================
