------------------------------- MODULE Friends -------------------------------
(***************************************************************************)
(* Friend requests: services/friend.service.ts, the registry of sockets in *)
(* gateways/friend.gateway.ts, and the lists of friend-requests.component  *)
(* and my-friends.component of the front end, which are loaded over HTTP   *)
(* when the page opens and again when the gateway says so.                 *)
(*                                                                         *)
(* The other gateways with a map of sockets (chat, messages, wallets,      *)
(* gifts, super likes) fill and empty it in the same way, from the same    *)
(* connection.  A connection that breaks is noticed by the server later,   *)
(* perhaps after the browser has connected again.                          *)
(*                                                                         *)
(* Left out: names, and the labels of all-users.component, the only ones   *)
(* that listen to friend:request:updated.  Ids in URLs are text, so a user *)
(* may ask himself (no property is about it) and a save of a new row is    *)
(* always an INSERT.                                                       *)
(***************************************************************************)
EXTENDS Integers, Sequences, FiniteSets

CONSTANTS
  Users,        \* registered users
  Nobody,       \* no user
  MaxRequests,  \* bound: requests and answers sent in a behaviour
  Openers,      \* bound: who opens the page, in turn
  Roamers,      \* bound: users who may lose their connection
  MaxLosses,    \* bound: connections lost in a behaviour
  Places        \* bound: places for the HTTP requests under way at once

ASSUME FriendsAssumption ==
  /\ Nobody \notin Users
  /\ Openers \in Seq(Users) /\ Roamers \subseteq Users
  /\ MaxRequests \in Nat /\ MaxLosses \in Nat

VARIABLES
  rows,         \* user_friend: the status of each pair, "none" for no row
  hand,         \* the HTTP requests under way
  page,         \* the lists each browser shows
  net,          \* the events under way to each browser
  sock,         \* the socket of each browser, 0 while it has none
  ghosts,       \* the sockets the server has not yet noticed the end of
  userSockets,  \* the registry: the socket of each user, 0 for no entry
  asked,        \* requests and answers so far
  visits,       \* pages opened so far
  losses,       \* connections lost so far
  shaken,       \* history: users who missed an event, or two of whose loads overlapped
  cut,          \* history: users who connected again before the server noticed
  twice,        \* history: pairs two requests were being made for at once
  parted,       \* history: users a friendship of whom was withdrawn
  untold,       \* history: users whose requests changed behind their page
  forced        \* history: pairs who are friends by a word of the one who asked

bounds == <<asked, visits, losses>>
sockets == <<sock, ghosts, userSockets>>
history == <<shaken, cut, twice, parted, untold, forced>>
vars == <<rows, hand, page, net, sockets, bounds, history>>

Statuses == {"none", "pending", "accepted", "blocked"}

Pairs == {p \in Users \X Users : p[1] # p[2]}

Lists == {"incoming", "friends"}

\* friend:request:created and friend:list:updated.
Events == {"created", "list"}

NoPage == [incoming |-> {}, friends |-> {}]

NoWork == [kind |-> "none", user |-> Nobody, other |-> Nobody, at |-> "idle",
           status |-> "none", got |-> {}, live |-> FALSE]

\* live: the page that started it is still open.
Work == [kind : {"request", "respond"} \union Lists, user : Users, other : Users \union {Nobody},
         at : {"insert", "tell", "update", "reverse", "mirror", "select", "answer"}, status : Statuses,
         got : SUBSET Users, live : BOOLEAN]

Init ==
  /\ rows \in [Pairs -> Statuses]
  /\ \A p \in Pairs : "none" \in {rows[p], rows[<<p[2], p[1]>>]}
  /\ hand = [j \in Places |-> NoWork]
  /\ page = [u \in Users |-> NoPage]
  /\ net = [u \in Users |-> <<>>]
  /\ sock = [u \in Users |-> 1]
  /\ ghosts = [u \in Users |-> {}]
  /\ userSockets = [u \in Users |-> 1]
  /\ asked = 0 /\ visits = 0 /\ losses = 0
  /\ shaken = Users /\ cut = {} /\ twice = {} /\ parted = {} /\ untold = {} /\ forced = {}

-----------------------------------------------------------------------------
Free(j) == hand[j] = NoWork

Takes(j, work) == hand' = [hand EXCEPT ![j] = work]

Goes(j, at) == hand' = [hand EXCEPT ![j].at = at]

Done(j) == hand' = [hand EXCEPT ![j] = NoWork]

\* emitToEmail: the socket in the registry, if it is still one.
Emitted(n, u, what) ==
  IF userSockets[u] # 0 /\ userSockets[u] = sock[u]
  THEN [n EXCEPT ![u] = @ \o what]
  ELSE n

\* Mutant: only a request the same way round is looked for.
EitherOneWay(u, v) == {p \in {<<u, v>>} : rows[p] # "none"}

\* A friendship of two users, in either direction.
Either(u, v) == {p \in {<<u, v>>, <<v, u>>} : rows[p] # "none"}

\* getIncomingRequests and getAcceptedFriends.
Incoming(u) == {v \in Users \ {u} : rows[<<v, u>>] = "pending"}

Accepted(u) == {v \in Users \ {u} : \E p \in Either(u, v) : rows[p] = "accepted"}

Loading(u, list) ==
  \E j \in Places : /\ hand[j].user = u /\ hand[j].live
                        /\ \/ hand[j].kind = list
                           \/ hand[j].kind = "respond" /\ list = "incoming"

-----------------------------------------------------------------------------
(***************************************************************************)
(* Requests.                                                               *)
(***************************************************************************)
\* createFriendRequest: refused when there is a friendship of any status ...
Request(u, v, j) ==
  /\ asked < MaxRequests /\ asked' = asked + 1
  /\ Free(j)
  /\ Either(u, v) = {}
  /\ Takes(j, [NoWork EXCEPT !.kind = "request", !.user = u, !.other = v, !.at = "insert"])
  /\ twice' = IF \E i \in Places : hand[i].at = "insert" /\ {hand[i].user, hand[i].other} = {u, v}
              THEN twice \union {{u, v}}
              ELSE twice
  /\ UNCHANGED <<rows, page, net, sockets, visits, losses, shaken, cut, parted, untold, forced>>

\* ... and inserted, unless another has the key meanwhile.
InsertRequest(j) ==
  /\ hand[j].kind = "request" /\ hand[j].at = "insert"
  /\ LET p == <<hand[j].user, hand[j].other>>
     IN  IF rows[p] = "none"
         THEN rows' = [rows EXCEPT ![p] = "pending"] /\ Goes(j, "tell")
         ELSE rows' = rows /\ Done(j)
  /\ UNCHANGED <<page, net, sockets, bounds, history>>

TellRequested(j) ==
  /\ hand[j].kind = "request" /\ hand[j].at = "tell"
  /\ net' = Emitted(net, hand[j].other, <<"created">>)
  /\ Done(j)
  /\ UNCHANGED <<rows, page, sockets, bounds, history>>

\* acceptFriendRequest and declineFriendRequest of a request the page shows.
Respond(u, v, status, j) ==
  /\ asked < MaxRequests /\ asked' = asked + 1
  /\ Free(j)
  /\ v \in page[u].incoming
  /\ Takes(j, [NoWork EXCEPT !.kind = "respond", !.user = u, !.other = v, !.at = "update",
                             !.status = status, !.live = TRUE])
  /\ shaken' = IF Loading(u, "incoming") THEN shaken \union {u} ELSE shaken
  /\ UNCHANGED <<rows, page, net, sockets, visits, losses, cut, twice, parted, untold, forced>>

\* PUT friends/respond from elsewhere, which either of the two may call, with any
\* status.
RespondElsewhere(u, v, status, j) ==
  /\ asked < MaxRequests /\ asked' = asked + 1
  /\ Free(j)
  /\ Takes(j, [NoWork EXCEPT !.kind = "respond", !.user = u, !.other = v, !.at = "update",
                             !.status = status])
  /\ UNCHANGED <<rows, page, net, sockets, visits, losses, history>>

\* updateFriendshipStatus: whichever row of the two is found. Only the page that
\* answers loads its requests again.
UpdateStatus(j) ==
  LET u == hand[j].user
      v == hand[j].other
      status == hand[j].status
  IN  /\ hand[j].kind = "respond" /\ hand[j].at = "update"
      /\ IF Either(u, v) = {}
         THEN Done(j) /\ UNCHANGED <<rows, parted, untold, forced>>
         ELSE \E p \in Either(u, v) :
                /\ rows' = [rows EXCEPT ![p] = status]
                /\ parted' = IF rows[p] = "accepted" /\ status # "accepted"
                             THEN parted \union {u, v} ELSE parted
                /\ untold' = IF "pending" \in {rows[p], status} /\ rows[p] # status
                                  /\ ~(hand[j].live /\ p[2] = u)
                             THEN untold \union {p[2]} ELSE untold
                /\ forced' = IF p = <<u, v>> /\ status = "accepted"
                             THEN forced \union {{u, v}} ELSE forced
                /\ Goes(j, IF status = "accepted" THEN "reverse" ELSE "tell")
      /\ UNCHANGED <<page, net, sockets, bounds, shaken, cut, twice>>

\* A friendship has a row of the other one, too: it is looked for ...
FindReverse(j) ==
  /\ hand[j].at = "reverse"
  /\ Goes(j, IF rows[<<hand[j].other, hand[j].user>>] = "none" THEN "mirror" ELSE "tell")
  /\ UNCHANGED <<rows, page, net, sockets, bounds, history>>

\* ... and inserted, unless another has the key meanwhile, and then nobody is told.
InsertReverse(j) ==
  /\ hand[j].at = "mirror"
  /\ LET p == <<hand[j].other, hand[j].user>>
     IN  IF rows[p] = "none"
         THEN rows' = [rows EXCEPT ![p] = "accepted"] /\ Goes(j, "tell")
         ELSE rows' = rows /\ Done(j)
  /\ UNCHANGED <<page, net, sockets, bounds, history>>

\* Mutant: only who answered is told.
NewsForOne(status, n, u, v) ==
  IF status = "accepted" THEN Emitted(n, u, <<"list">>) ELSE n

\* Both are told when they are friends now.
News(status, n, u, v) ==
  IF status = "accepted" THEN Emitted(Emitted(n, u, <<"list">>), v, <<"list">>) ELSE n

\* The page that answered, if it is still open, then loads what has come in.
TellResponded(j) ==
  /\ hand[j].kind = "respond" /\ hand[j].at = "tell"
  /\ net' = News(hand[j].status, net, hand[j].user, hand[j].other)
  /\ IF hand[j].live THEN hand' = [hand EXCEPT ![j].kind = "incoming", ![j].at = "select"] ELSE Done(j)
  /\ UNCHANGED <<rows, page, sockets, bounds, history>>

-----------------------------------------------------------------------------
(***************************************************************************)
(* The lists.                                                              *)
(***************************************************************************)
Load(u, list) ==
  [NoWork EXCEPT !.kind = list, !.user = u, !.at = "select", !.live = TRUE]

\* The page opens: both lists are loaded, and what the page before asked for
\* is not shown.
Visit(u, i, j) ==
  /\ visits < Len(Openers) /\ visits' = visits + 1
  /\ u = Openers[visits + 1]
  /\ i # j /\ Free(i) /\ Free(j)
  /\ page' = [page EXCEPT ![u] = NoPage]
  /\ hand' = [k \in Places |->
                CASE k = i -> Load(u, "incoming")
                  [] k = j -> Load(u, "friends")
                  [] OTHER -> IF hand[k].user = u THEN [hand[k] EXCEPT !.live = FALSE] ELSE hand[k]]
  /\ shaken' = IF sock[u] = 0 THEN shaken \union {u} ELSE shaken \ {u}
  /\ parted' = parted \ {u} /\ untold' = untold \ {u}
  /\ UNCHANGED <<rows, net, sockets, asked, losses, cut, twice, forced>>

SelectList(j) ==
  /\ hand[j].kind \in Lists /\ hand[j].at = "select"
  /\ LET u == hand[j].user
     IN  hand' = [hand EXCEPT ![j].at = "answer",
                    ![j].got = IF hand[j].kind = "incoming" THEN Incoming(u) ELSE Accepted(u)]
  /\ UNCHANGED <<rows, page, net, sockets, bounds, history>>

\* Answers come in any order, and the last one is shown.
ShowList(j) ==
  /\ hand[j].kind \in Lists /\ hand[j].at = "answer"
  /\ page' = IF hand[j].live
             THEN [page EXCEPT ![hand[j].user][hand[j].kind] = hand[j].got]
             ELSE page
  /\ Done(j)
  /\ UNCHANGED <<rows, net, sockets, bounds, history>>

\* The event that makes the page load a list.
ListOf(what) == IF what = "created" THEN "incoming" ELSE "friends"

Hear(u, j) ==
  /\ net[u] # <<>> /\ Free(j)
  /\ net' = [net EXCEPT ![u] = Tail(@)]
  /\ LET list == ListOf(Head(net[u]))
     IN  /\ Takes(j, Load(u, list))
         /\ shaken' = IF Loading(u, list) THEN shaken \union {u} ELSE shaken
  /\ UNCHANGED <<rows, page, sockets, bounds, cut, twice, parted, untold, forced>>

-----------------------------------------------------------------------------
(***************************************************************************)
(* Connections.                                                            *)
(***************************************************************************)
Lose(u) ==
  /\ losses < MaxLosses /\ losses' = losses + 1
  /\ u \in Roamers
  /\ sock[u] # 0
  /\ sock' = [sock EXCEPT ![u] = 0]
  /\ ghosts' = [ghosts EXCEPT ![u] = @ \union {sock[u]}]
  /\ net' = [net EXCEPT ![u] = <<>>]
  /\ shaken' = shaken \union {u}
  /\ UNCHANGED <<rows, hand, page, userSockets, asked, visits, cut, twice, parted, untold, forced>>

\* handleConnection, of a socket there has not been before.
Connect(u) ==
  /\ sock[u] = 0
  /\ sock' = [sock EXCEPT ![u] = losses + 1]
  /\ userSockets' = [userSockets EXCEPT ![u] = losses + 1]
  /\ cut' = IF ghosts[u] = {} THEN cut \ {u} ELSE cut \union {u}
  /\ UNCHANGED <<rows, hand, page, net, ghosts, bounds, shaken, twice, parted, untold, forced>>

\* handleDisconnect takes the entry away, whichever socket it is.
Unregistered(u) == [userSockets EXCEPT ![u] = 0]

Notice(u, s) ==
  /\ s \in ghosts[u]
  /\ ghosts' = [ghosts EXCEPT ![u] = @ \ {s}]
  /\ userSockets' = Unregistered(u)
  /\ UNCHANGED <<rows, hand, page, net, sock, bounds, history>>

-----------------------------------------------------------------------------
Next ==
  \/ \E j \in Places :
       \/ InsertRequest(j) \/ TellRequested(j) \/ UpdateStatus(j) \/ TellResponded(j)
       \/ FindReverse(j) \/ InsertReverse(j) \/ SelectList(j) \/ ShowList(j)
       \/ \E u \in Users :
            \/ Hear(u, j)
            \/ \E v \in Users \ {u} : Request(u, v, j)
            \/ \E v \in Users \ {u}, status \in {"accepted", "blocked"} : Respond(u, v, status, j)
            \/ \E v \in Users \ {u}, status \in Statuses \ {"none"} : RespondElsewhere(u, v, status, j)
            \/ \E i \in Places : Visit(u, i, j)
  \/ \E u \in Users : Lose(u) \/ Connect(u) \/ \E s \in ghosts[u] : Notice(u, s)

Spec == Init /\ [][Next]_vars

-----------------------------------------------------------------------------
\* The types, and: a busy place in hand is at a step of its kind, a server
\* never registers a socket the browser has not had, and a ghost is not the
\* socket its browser has.
TypeOK ==
  /\ rows \in [Pairs -> Statuses]
  /\ hand \in [Places -> Work \union {NoWork}]
  /\ \A j \in Places :
       /\ hand[j].kind \in Lists => hand[j].at \in {"select", "answer"}
       /\ hand[j].at \in {"insert", "update", "reverse", "mirror", "tell"} => hand[j].kind \in {"request", "respond"}
  /\ page \in [Users -> [incoming : SUBSET Users, friends : SUBSET Users]]
  /\ \A u \in Users : u \notin page[u].incoming \union page[u].friends
  /\ net \in [Users -> Seq(Events)]
  /\ \A u \in Users : net[u] # <<>> => sock[u] # 0
  /\ sock \in [Users -> Nat] /\ ghosts \in [Users -> SUBSET (Nat \ {0})]
  /\ userSockets \in [Users -> Nat]
  /\ \A u \in Users : sock[u] \notin ghosts[u] /\ userSockets[u] \in {0, sock[u]} \union ghosts[u]
  /\ asked \in 0..MaxRequests /\ visits \in 0..Len(Openers) /\ losses \in 0..MaxLosses
  /\ shaken \subseteq Users /\ cut \subseteq Users /\ parted \subseteq Users /\ untold \subseteq Users
  /\ twice \union forced \subseteq {{p[1], p[2]} : p \in Pairs}

\* Two users have one row between them, unless both asked at once or the one who
\* asked was the one to accept.
CalmOneRow ==
  \A u, v \in Users : u # v /\ rows[<<u, v>>] # "none" /\ rows[<<v, u>>] # "none"
                        => {u, v} \in twice \union forced

\* Nothing under way changes what u is shown.
Settled(u) ==
  /\ net[u] = <<>>
  /\ \A j \in Places : hand[j].at \in {"reverse", "mirror", "tell"} => u \notin {hand[j].user, hand[j].other}
  /\ ~Loading(u, "incoming") /\ ~Loading(u, "friends")

\* The lists a settled page shows are those of the database, unless it missed
\* an event, two loads of it overlapped, two rows were asked for at once, its
\* user connected again before the server noticed the end of his last
\* connection, or, for the friends, a friendship of his was withdrawn, for the
\* requests, one to him was answered behind the page.
CalmListsFresh ==
  \A u \in Users \ (shaken \union cut \union UNION twice) :
    Settled(u) => /\ u \in untold \/ page[u].incoming = Incoming(u)
                  /\ u \in parted \/ page[u].friends = Accepted(u)
=============================================================================
