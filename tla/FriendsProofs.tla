---------------------------- MODULE FriendsProofs ----------------------------
(***************************************************************************)
(* Proofs about Friends, for any number of users, places, requests, visits *)
(* and lost connections: two users have one row between them, and a page   *)
(* that is up to date shows the lists of the database, but for the         *)
(* histories that Friends names.                                           *)
(*                                                                         *)
(* The first needs to know that an acceptance that finds no row of the     *)
(* other one is of the user who had asked.  The second needs to know what  *)
(* will bring each list up to date.  While the database has a list the     *)
(* page does not show, there is an event on its way or about to be sent,   *)
(* or the list is being loaded, or an answer with the right list is on its *)
(* way; and there is one load of a list at a time, so that no older answer *)
(* comes after it.                                                         *)
(***************************************************************************)
EXTENDS Friends, SequenceTheorems, TLAPS
-----------------------------------------------------------------------------
\* The sockets of a user are numbered by the connections lost so far, a user
\* without one has missed events, and one who is connected, and did not connect
\* again too early, is in the registry.
Sockets ==
  \A u \in Users :
    /\ sock[u] <= losses + 1
    /\ \A s \in ghosts[u] : s <= losses
    /\ sock[u] = 0 => u \in shaken
    /\ sock[u] # 0 /\ u \notin cut => ghosts[u] = {} /\ userSockets[u] = sock[u]

\* A request under way is at one of the steps of its kind.
JobOK(w) ==
  \/ w = NoWork
  \/ /\ w \in Work /\ w.user \notin w.got
     /\ \/ w.kind = "request" /\ w.at \in {"insert", "tell"} /\ w.other \in Users \ {w.user}
        \/ /\ w.kind = "respond" /\ w.at \in {"update", "reverse", "mirror", "tell"}
           /\ w.other \in Users \ {w.user} /\ w.status \in Statuses \ {"none"}
           /\ w.at \in {"reverse", "mirror"} => w.status = "accepted"
        \/ w.kind \in Lists /\ w.at \in {"select", "answer"}

\* All of them are.
Steps ==
  /\ hand = [j \in Places |-> hand[j]]
  /\ \A j \in Places : JobOK(hand[j])

\* j is about to store a request between u and v.
Inserting(j, u, v) ==
  /\ hand[j].at = "insert"
  /\ (hand[j].user = u /\ hand[j].other = v) \/ (hand[j].user = v /\ hand[j].other = u)

\* The answer is of one who had asked the other.
Forces(w) == rows[<<w.user, w.other>>] # "none" /\ {w.user, w.other} \in forced

\* At most one request of a pair is about to be stored.
OneInsert ==
  \A i, j \in Places, u, v \in Users :
    u # v /\ i # j /\ Inserting(i, u, v) /\ Inserting(j, u, v) => {u, v} \in twice

\* The pair of a request about to be stored has no row.
Unasked ==
  \A j \in Places, u, v \in Users :
    u # v /\ Inserting(j, u, v) /\ {u, v} \notin twice => rows[<<u, v>>] = "none"

\* An acceptance looks for the row of the other one to find the very row it was
\* about, unless it came from the one who had asked.
Reversing ==
  \A j \in Places :
    /\ hand[j].at = "reverse" => \/ rows[<<hand[j].other, hand[j].user>>] # "none"
                                 \/ Forces(hand[j])
    /\ hand[j].at = "mirror" => Forces(hand[j]) /\ ~hand[j].live

\* What makes two users have one row.
OneRows == OneInsert /\ Unasked /\ Reversing /\ CalmOneRow

\* Whom a page shows a request of, is about to show it, or is answering it, has
\* a row: rows are never taken away.  From elsewhere anything can be answered.
Known ==
  /\ \A u \in Users : \A v \in page[u].incoming : rows[<<v, u>>] # "none"
  /\ \A j \in Places :
       /\ hand[j].kind \in {"incoming", "respond"} => \A v \in hand[j].got : rows[<<v, hand[j].user>>] # "none"
       /\ hand[j].kind = "respond" /\ hand[j].live => rows[<<hand[j].other, hand[j].user>>] # "none"

\* The users the lists are right for: see CalmListsFresh.
Calm(u) == u \notin shaken /\ u \notin cut /\ u \notin UNION twice

\* j loads the list for the page of u that is open.
Loads(j, u, list) ==
  /\ hand[j].user = u /\ hand[j].live
  /\ hand[j].kind = list \/ (hand[j].kind = "respond" /\ list = "incoming")

\* A list is loaded once at a time.
OneLoad ==
  \A u \in Users \ shaken, list \in Lists, i, j \in Places :
    Loads(i, u, list) /\ Loads(j, u, list) => i = j

\* The event is among those of q.
HeardIn(q, what) == \E i \in DOMAIN q : q[i] = what

\* An event of the kind is on its way to u.
Heard(u, what) == HeardIn(net[u], what)

\* Something will make the page of u load the requests.
DueIncoming(u) ==
  \/ Heard(u, "created")
  \/ \E j \in Places : hand[j].kind = "request" /\ hand[j].at = "tell" /\ hand[j].other = u
  \/ \E j \in Places : Loads(j, u, "incoming") /\ hand[j].at # "answer"

\* j is to tell two users that they are friends; at the insert of the row of the
\* other one, only while nobody else has the key.
Telling(j) ==
  /\ hand[j].kind = "respond" /\ hand[j].status = "accepted"
  /\ \/ hand[j].at \in {"reverse", "tell"}
     \/ hand[j].at = "mirror" /\ rows[<<hand[j].other, hand[j].user>>] = "none"

Tells(j, u) == Telling(j) /\ u \in {hand[j].user, hand[j].other}

\* Something will make the page of u load the friends.
DueFriends(u) ==
  \/ Heard(u, "list")
  \/ \E j \in Places : Tells(j, u)
  \/ \E j \in Places : Loads(j, u, "friends") /\ hand[j].at # "answer"

\* j brings the list to the page of u.
Brings(j, u, list) == Loads(j, u, list) /\ hand[j].at = "answer"

\* The requests u will be shown, when nothing more comes, are the right ones.
IncomingRight(u) ==
  \/ DueIncoming(u)
  \/ /\ \A j \in Places : Brings(j, u, "incoming") => hand[j].got = Incoming(u)
     /\ (\A j \in Places : ~Brings(j, u, "incoming")) => page[u].incoming = Incoming(u)

\* The friends u will be shown, when nothing more comes, are the right ones.
FriendsRight(u) ==
  \/ DueFriends(u)
  \/ /\ \A j \in Places : Brings(j, u, "friends") => hand[j].got = Accepted(u)
     /\ (\A j \in Places : ~Brings(j, u, "friends")) => page[u].friends = Accepted(u)

\* So it is for every calm user whose requests did not change behind his page.
FreshIncoming == \A u \in Users : Calm(u) /\ u \notin untold => IncomingRight(u)

\* So it is for every calm user whose friendships were not withdrawn.
FreshFriends == \A u \in Users : Calm(u) /\ u \notin parted => FriendsRight(u)

\* The inductive invariant.
Inv ==
  /\ TypeOK /\ Sockets /\ Steps /\ OneRows /\ Known
  /\ OneLoad /\ FreshIncoming /\ FreshFriends
-----------------------------------------------------------------------------
USE FriendsAssumption

\* The fields of a busy place.
LEMMA JobFields ==
  ASSUME Steps, NEW j \in Places, hand[j].at # "idle" \/ hand[j].kind # "none" \/ hand[j].live
  PROVE  /\ hand[j] \in Work
         /\ hand[j].user \in Users /\ hand[j].live \in BOOLEAN /\ hand[j].got \in SUBSET Users
         /\ hand[j].status \in Statuses /\ hand[j].other \in Users \union {Nobody}
         /\ hand[j].user \notin hand[j].got
         /\ \/ hand[j].kind = "request" /\ hand[j].at \in {"insert", "tell"} /\ hand[j].other \in Users \ {hand[j].user}
            \/ /\ hand[j].kind = "respond" /\ hand[j].at \in {"update", "reverse", "mirror", "tell"}
               /\ hand[j].other \in Users \ {hand[j].user} /\ hand[j].status \in Statuses \ {"none"}
               /\ hand[j].at \in {"reverse", "mirror"} => hand[j].status = "accepted"
            \/ hand[j].kind \in Lists /\ hand[j].at \in {"select", "answer"}
<1>1. JobOK(hand[j])
  BY DEF Steps
<1>2. hand[j] # NoWork
  BY DEF NoWork
<1>3. hand[j] \in Work
  BY <1>1, <1>2 DEF JobOK
<1>4. /\ hand[j].user \in Users /\ hand[j].live \in BOOLEAN /\ hand[j].got \in SUBSET Users
      /\ hand[j].status \in Statuses /\ hand[j].other \in Users \union {Nobody}
  BY <1>3 DEF Work
<1> QED
  BY <1>1, <1>2, <1>3, <1>4 DEF JobOK

\* A place that takes a request at a step of its kind.
LEMMA Put ==
  ASSUME Steps, NEW j \in Places, NEW w, JobOK(w), hand' = [hand EXCEPT ![j] = w]
  PROVE  Steps'
<1>1. \A k \in Places : hand'[k] = IF k = j THEN w ELSE hand[k]
  BY DEF Steps
<1>2. hand' = [k \in Places |-> hand'[k]]
  BY DEF Steps
<1> QED
  BY <1>1, <1>2 DEF Steps, JobOK

\* The fields of a free place.
LEMMA NoWorkFields ==
  /\ NoWork.at = "idle" /\ NoWork.kind = "none" /\ NoWork.live = FALSE /\ NoWork.got = {}
  /\ NoWork.user = Nobody /\ NoWork.other = Nobody /\ NoWork.status = "none"
BY DEF NoWork

\* Load is a request at its first step.
LEMMA LoadOK ==
  ASSUME NEW u \in Users, NEW list \in Lists
  PROVE  /\ JobOK(Load(u, list))
         /\ Load(u, list).kind = list /\ Load(u, list).user = u /\ Load(u, list).at = "select"
         /\ Load(u, list).live /\ Load(u, list).got = {}
<1>1. /\ Load(u, list) \in Work
      /\ Load(u, list).kind = list /\ Load(u, list).user = u /\ Load(u, list).at = "select"
      /\ Load(u, list).live /\ Load(u, list).got = {}
  BY DEF Load, NoWork, Work, Statuses
<1> QED
  BY <1>1 DEF JobOK

\* A free place waits for nothing already.
LEMMA DeadNoWork ==
  ASSUME NEW w, w = [NoWork EXCEPT !.live = FALSE]
  PROVE  w = NoWork
<1>1. w = [kind |-> w.kind, user |-> w.user, other |-> w.other, at |-> w.at,
           status |-> w.status, got |-> w.got, live |-> w.live]
  BY DEF NoWork
<1>2. /\ w.kind = "none" /\ w.user = Nobody /\ w.other = Nobody /\ w.at = "idle"
      /\ w.status = "none" /\ w.got = {} /\ w.live = FALSE
  BY DEF NoWork
<1> QED
  BY <1>1, <1>2 DEF NoWork

\* Every step leaves the requests at a step of their kind.
LEMMA StepsKept == Steps /\ [Next]_vars => Steps'
<1> SUFFICES ASSUME Steps, [Next]_vars PROVE Steps'
  OBVIOUS
<1>0. JobOK(NoWork)
  BY DEF JobOK
<1>d. ASSUME NEW j \in Places, Done(j) PROVE Steps'
  BY <1>0, <1>d, Put DEF Done
<1>1. ASSUME NEW j \in Places, InsertRequest(j) PROVE Steps'
  <2>1. CASE Done(j)
    BY <1>d, <2>1
  <2>2. CASE Goes(j, "tell")
    <3> DEFINE w == [hand[j] EXCEPT !.at = "tell"]
    <3>1. hand' = [hand EXCEPT ![j] = w]
      BY <2>2 DEF Goes
    <3>2. hand[j].kind = "request" /\ hand[j].at = "insert"
      BY <1>1 DEF InsertRequest
    <3>3. hand[j] \in Work /\ hand[j].other \in Users \ {hand[j].user} /\ hand[j].user \notin hand[j].got
      BY <3>2, JobFields DEF Lists
    <3>4. /\ w \in Work /\ w.kind = "request" /\ w.at = "tell" /\ w.other = hand[j].other /\ w.user = hand[j].user
          /\ w.got = hand[j].got
      BY <3>2, <3>3 DEF Work
    <3>5. JobOK(w)
      BY <3>3, <3>4 DEF JobOK
    <3> HIDE DEF w
    <3> QED
      BY <3>1, <3>5, Put
  <2> QED
    BY <1>1, <2>1, <2>2 DEF InsertRequest
<1>2. ASSUME NEW j \in Places, TellRequested(j) PROVE Steps'
  BY <1>2, <1>d DEF TellRequested
<1>g. ASSUME NEW j \in Places, NEW at \in {"reverse", "mirror", "tell"}, Goes(j, at), hand[j].kind = "respond",
             at = "tell" \/ hand[j].status = "accepted"
      PROVE  Steps'
  <2> DEFINE w == [hand[j] EXCEPT !.at = at]
  <2>1. hand' = [hand EXCEPT ![j] = w]
    BY <1>g DEF Goes
  <2>2. /\ hand[j] \in Work /\ hand[j].other \in Users \ {hand[j].user}
        /\ hand[j].status \in Statuses \ {"none"} /\ hand[j].user \notin hand[j].got
    BY <1>g, JobFields DEF Lists
  <2>3. /\ w \in Work /\ w.kind = "respond" /\ w.at = at /\ w.other = hand[j].other /\ w.user = hand[j].user
        /\ w.status = hand[j].status /\ w.got = hand[j].got
    BY <1>g, <2>2 DEF Work
  <2>4. JobOK(w)
    BY <1>g, <2>2, <2>3 DEF JobOK
  <2> HIDE DEF w
  <2> QED
    BY <2>1, <2>4, Put
<1>3. ASSUME NEW j \in Places, UpdateStatus(j) PROVE Steps'
  <2>1. hand[j].kind = "respond"
    BY <1>3 DEF UpdateStatus
  <2>2. Done(j) \/ Goes(j, IF hand[j].status = "accepted" THEN "reverse" ELSE "tell")
    BY <1>3 DEF UpdateStatus
  <2> QED
    BY <1>d, <1>g, <2>1, <2>2
<1>r. ASSUME NEW j \in Places, FindReverse(j) \/ InsertReverse(j) PROVE Steps'
  <2>1. hand[j].kind = "respond" /\ hand[j].status = "accepted"
    BY <1>r, JobFields DEF FindReverse, InsertReverse, Lists
  <2>2. Done(j) \/ Goes(j, "mirror") \/ Goes(j, "tell")
    BY <1>r DEF FindReverse, InsertReverse
  <2> QED
    BY <1>d, <1>g, <2>1, <2>2
<1>4. ASSUME NEW j \in Places, TellResponded(j) PROVE Steps'
  <2> DEFINE w == [hand[j] EXCEPT !.kind = "incoming", !.at = "select"]
  <2>1. Done(j) \/ hand' = [hand EXCEPT ![j] = w]
    BY <1>4 DEF TellResponded
  <2>2. hand[j].kind = "respond" /\ hand[j].at = "tell"
    BY <1>4 DEF TellResponded
  <2>3. hand[j] \in Work /\ hand[j].user \notin hand[j].got
    BY <2>2, JobFields DEF Lists
  <2>4. w \in Work /\ w.kind = "incoming" /\ w.at = "select" /\ w.user = hand[j].user /\ w.got = hand[j].got
    BY <2>2, <2>3 DEF Work, Lists
  <2>5. JobOK(w)
    BY <2>3, <2>4 DEF JobOK, Lists
  <2> HIDE DEF w
  <2> QED
    BY <1>d, <2>1, <2>5, Put
<1>5. ASSUME NEW j \in Places, SelectList(j) PROVE Steps'
  <2> DEFINE u == hand[j].user
             got == IF hand[j].kind = "incoming" THEN Incoming(u) ELSE Accepted(u)
             w == [hand[j] EXCEPT !.at = "answer", !.got = got]
  <2>1. hand' = [hand EXCEPT ![j] = w]
    BY <1>5 DEF SelectList
  <2>2. hand[j].kind \in Lists /\ hand[j].at = "select"
    BY <1>5 DEF SelectList
  <2>3. hand[j] \in Work
    BY <2>2, JobFields DEF Lists
  <2>4. got \in SUBSET Users /\ u \notin got
    BY DEF Incoming, Accepted
  <2> HIDE DEF got
  <2>5. w \in Work /\ w.kind \in Lists /\ w.at = "answer" /\ w.user = u /\ w.got = got
    BY <2>2, <2>3, <2>4 DEF Work
  <2>6. JobOK(w)
    BY <2>4, <2>5 DEF JobOK
  <2> HIDE DEF w
  <2> QED
    BY <2>1, <2>6, Put
<1>6. ASSUME NEW j \in Places, ShowList(j) PROVE Steps'
  BY <1>6, <1>d DEF ShowList
<1>7. ASSUME NEW j \in Places, NEW u \in Users, Hear(u, j) PROVE Steps'
  BY <1>7, LoadOK, Put DEF Hear, Takes, ListOf, Lists
<1>8. ASSUME NEW j \in Places, NEW u \in Users, NEW v \in Users \ {u}, Request(u, v, j) PROVE Steps'
  <2> DEFINE w == [NoWork EXCEPT !.kind = "request", !.user = u, !.other = v, !.at = "insert"]
  <2>1. hand' = [hand EXCEPT ![j] = w]
    BY <1>8 DEF Request, Takes
  <2>2. w \in Work /\ w.kind = "request" /\ w.at = "insert" /\ w.other = v /\ w.user = u /\ w.got = {}
    BY DEF Work, NoWork, Statuses
  <2>3. JobOK(w)
    BY <2>2 DEF JobOK
  <2> HIDE DEF w
  <2> QED
    BY <2>1, <2>3, Put
<1>9. ASSUME NEW j \in Places, NEW u \in Users, NEW v \in Users \ {u},
             NEW status \in {"accepted", "blocked"}, Respond(u, v, status, j) PROVE Steps'
  <2> DEFINE w == [NoWork EXCEPT !.kind = "respond", !.user = u, !.other = v, !.at = "update",
                                 !.status = status, !.live = TRUE]
  <2>1. hand' = [hand EXCEPT ![j] = w]
    BY <1>9 DEF Respond, Takes
  <2>2. /\ w \in Work /\ w.kind = "respond" /\ w.at = "update" /\ w.other = v /\ w.user = u
        /\ w.status = status /\ w.got = {}
    BY DEF Work, NoWork, Statuses
  <2>3. JobOK(w)
    BY <2>2 DEF JobOK, Statuses
  <2> HIDE DEF w
  <2> QED
    BY <2>1, <2>3, Put
<1>e. ASSUME NEW j \in Places, NEW u \in Users, NEW v \in Users \ {u},
             NEW status \in Statuses \ {"none"}, RespondElsewhere(u, v, status, j) PROVE Steps'
  <2> DEFINE w == [NoWork EXCEPT !.kind = "respond", !.user = u, !.other = v, !.at = "update",
                                 !.status = status]
  <2>1. hand' = [hand EXCEPT ![j] = w]
    BY <1>e DEF RespondElsewhere, Takes
  <2>2. /\ w \in Work /\ w.kind = "respond" /\ w.at = "update" /\ w.other = v /\ w.user = u
        /\ w.status = status /\ w.got = {}
    BY DEF Work, NoWork, Statuses
  <2>3. JobOK(w)
    BY <2>2 DEF JobOK
  <2> HIDE DEF w
  <2> QED
    BY <2>1, <2>3, Put
<1>10. ASSUME NEW i \in Places, NEW j \in Places, NEW u \in Users, Visit(u, i, j) PROVE Steps'
  <2>1. ASSUME NEW k \in Places PROVE JobOK([hand[k] EXCEPT !.live = FALSE])
    <3> DEFINE w == [hand[k] EXCEPT !.live = FALSE]
    <3>1. CASE hand[k] = NoWork
      <4>1. w = NoWork
        BY <3>1, DeadNoWork
      <4> HIDE DEF w
      <4>2. JobOK(w)
        BY <4>1 DEF JobOK
      <4> QED
        BY <4>2 DEF w
    <3>2. CASE hand[k] # NoWork
      <4>1. JobOK(hand[k]) /\ hand[k] \in Work
        BY <3>2 DEF Steps, JobOK
      <4>2. /\ w \in Work /\ w.kind = hand[k].kind /\ w.user = hand[k].user /\ w.other = hand[k].other
            /\ w.at = hand[k].at /\ w.status = hand[k].status /\ w.got = hand[k].got
        BY <4>1 DEF Work
      <4> HIDE DEF w
      <4>3. JobOK(w)
        BY <3>2, <4>1, <4>2 DEF JobOK
      <4> QED
        BY <4>3 DEF w
    <3> QED
      BY <3>1, <3>2
  <2>2. JobOK(Load(u, "incoming")) /\ JobOK(Load(u, "friends"))
    BY LoadOK DEF Lists
  <2>3. \A k \in Places : JobOK(hand'[k])
    BY <1>10, <2>1, <2>2 DEF Visit, Steps
  <2>4. hand' = [k \in Places |-> hand'[k]]
    BY <1>10 DEF Visit
  <2> QED
    BY <2>3, <2>4 DEF Steps, JobOK
<1>11. ASSUME UNCHANGED hand PROVE Steps'
  BY <1>11 DEF Steps, JobOK
<1>12. CASE \E u \in Users : Lose(u) \/ Connect(u) \/ \E s \in ghosts[u] : Notice(u, s)
  BY <1>11, <1>12 DEF Lose, Connect, Notice
<1>13. CASE UNCHANGED vars
  BY <1>11, <1>13 DEF vars
<1> QED
  BY <1>1, <1>2, <1>3, <1>r, <1>4, <1>5, <1>6, <1>7, <1>8, <1>9, <1>e, <1>10, <1>12, <1>13 DEF Next

\* What JobOK says, field by field.
LEMMA JobIs ==
  ASSUME NEW w, JobOK(w)
  PROVE  /\ w.at \in {"idle", "insert", "tell", "update", "reverse", "mirror", "select", "answer"}
         /\ w.kind \in {"none", "request", "respond", "incoming", "friends"}
         /\ w.kind = "none" <=> w.at = "idle"
         /\ w.kind = "none" => ~w.live /\ w.got = {} /\ w.user = Nobody
         /\ w.kind # "none" => w.user \in Users /\ w.user \notin w.got
         /\ w.kind = "request" => w.at \in {"insert", "tell"} /\ w.other \in Users \ {w.user}
         /\ w.kind = "respond" => /\ w.at \in {"update", "reverse", "mirror", "tell"}
                                  /\ w.other \in Users \ {w.user} /\ w.status \in Statuses \ {"none"}
         /\ w.at \in {"reverse", "mirror"} => w.kind = "respond" /\ w.status = "accepted"
         /\ w.kind \in {"incoming", "friends"} => w.at \in {"select", "answer"}
         /\ w.live \in BOOLEAN /\ w.got \in SUBSET Users
<1>1. CASE w = NoWork
  BY <1>1, NoWorkFields
<1>2. CASE w # NoWork
  <2>1. w \in Work
    BY <1>2 DEF JobOK
  <2>2. /\ w.user \in Users /\ w.live \in BOOLEAN /\ w.got \in SUBSET Users
    BY <2>1 DEF Work
  <2> QED
    BY <1>2, <2>2 DEF JobOK, Lists
<1> QED
  BY <1>1, <1>2

\* The same of every place.
LEMMA JobsAre ==
  ASSUME Steps
  PROVE  \A j \in Places :
           /\ hand[j].at \in {"idle", "insert", "tell", "update", "reverse", "mirror", "select", "answer"}
           /\ hand[j].kind \in {"none", "request", "respond", "incoming", "friends"}
           /\ hand[j].kind = "none" <=> hand[j].at = "idle"
           /\ hand[j].kind = "none" => ~hand[j].live /\ hand[j].got = {} /\ hand[j].user = Nobody
           /\ hand[j].kind # "none" => hand[j].user \in Users /\ hand[j].user \notin hand[j].got
           /\ hand[j].kind = "request" => hand[j].at \in {"insert", "tell"} /\ hand[j].other \in Users \ {hand[j].user}
           /\ hand[j].kind = "respond" => /\ hand[j].at \in {"update", "reverse", "mirror", "tell"}
                                          /\ hand[j].other \in Users \ {hand[j].user}
                                          /\ hand[j].status \in Statuses \ {"none"}
           /\ hand[j].at \in {"reverse", "mirror"} => hand[j].kind = "respond" /\ hand[j].status = "accepted"
           /\ hand[j].kind \in {"incoming", "friends"} => hand[j].at \in {"select", "answer"}
           /\ hand[j].live \in BOOLEAN /\ hand[j].got \in SUBSET Users
<1> TAKE j \in Places
<1>1. JobOK(hand[j])
  BY DEF Steps
<1> QED
  BY <1>1, JobIs

\* Every step keeps the types.
LEMMA TypesKept == TypeOK /\ Sockets /\ Steps /\ [Next]_vars => TypeOK'
<1> SUFFICES ASSUME TypeOK, Sockets, Steps, [Next]_vars PROVE TypeOK'
  OBVIOUS
<1> DEFINE Jobs == /\ hand' \in [Places -> Work \union {NoWork}]
                   /\ \A j \in Places :
                        /\ hand'[j].kind \in Lists => hand'[j].at \in {"select", "answer"}
                        /\ hand'[j].at \in {"insert", "update", "reverse", "mirror", "tell"} => hand'[j].kind \in {"request", "respond"}
           Stored == rows' \in [Pairs -> Statuses]
           Shown == /\ page' \in [Users -> [incoming : SUBSET Users, friends : SUBSET Users]]
                    /\ \A u \in Users : u \notin page'[u].incoming \union page'[u].friends
           Sent == net' \in [Users -> Seq(Events)] /\ \A u \in Users : net'[u] # <<>> => sock'[u] # 0
           Open == /\ sock' \in [Users -> Nat] /\ ghosts' \in [Users -> SUBSET (Nat \ {0})]
                   /\ userSockets' \in [Users -> Nat]
                   /\ \A u \in Users : /\ sock'[u] \notin ghosts'[u]
                                       /\ userSockets'[u] \in {0, sock'[u]} \union ghosts'[u]
           Counted == asked' \in 0..MaxRequests /\ visits' \in 0..Len(Openers) /\ losses' \in 0..MaxLosses
           Noted == /\ shaken' \subseteq Users /\ cut' \subseteq Users /\ parted' \subseteq Users
                    /\ untold' \subseteq Users
                    /\ twice' \union forced' \subseteq {{p[1], p[2]} : p \in Pairs}
           All == Stored /\ Shown /\ Sent /\ Open /\ Counted /\ Noted
<1>a. Jobs
  <2>1. Steps'
    BY StepsKept
  <2> QED
    BY <2>1 DEF Steps, JobOK, NoWork, Lists
<1>b. /\ rows \in [Pairs -> Statuses]
      /\ page \in [Users -> [incoming : SUBSET Users, friends : SUBSET Users]]
      /\ \A u \in Users : u \notin page[u].incoming \union page[u].friends
      /\ net \in [Users -> Seq(Events)] /\ \A u \in Users : net[u] # <<>> => sock[u] # 0
      /\ sock \in [Users -> Nat] /\ ghosts \in [Users -> SUBSET (Nat \ {0})]
      /\ userSockets \in [Users -> Nat]
      /\ \A u \in Users : sock[u] \notin ghosts[u] /\ userSockets[u] \in {0, sock[u]} \union ghosts[u]
      /\ asked \in 0..MaxRequests /\ visits \in 0..Len(Openers) /\ losses \in 0..MaxLosses
      /\ shaken \subseteq Users /\ cut \subseteq Users /\ parted \subseteq Users /\ untold \subseteq Users
      /\ twice \union forced \subseteq {{p[1], p[2]} : p \in Pairs}
  BY DEF TypeOK
<1> HIDE DEF Jobs
<1> USE <1>b
<1> USE DEF sockets, bounds, history
<1>c. ASSUME NEW u \in Users, NEW v \in Users, NEW what \in Events
      PROVE  /\ Emitted(net, u, <<what>>) \in [Users -> Seq(Events)]
             /\ \A w \in Users : Emitted(net, u, <<what>>)[w] # <<>> => sock[w] # 0
             /\ Emitted(Emitted(net, u, <<what>>), v, <<what>>) \in [Users -> Seq(Events)]
             /\ \A w \in Users : Emitted(Emitted(net, u, <<what>>), v, <<what>>)[w] # <<>> => sock[w] # 0
  <2>1. ASSUME NEW n \in [Users -> Seq(Events)], \A w \in Users : n[w] # <<>> => sock[w] # 0,
               NEW x \in Users
        PROVE  /\ Emitted(n, x, <<what>>) \in [Users -> Seq(Events)]
               /\ \A w \in Users : Emitted(n, x, <<what>>)[w] # <<>> => sock[w] # 0
    <3>1. n[x] \o <<what>> \in Seq(Events)
      OBVIOUS
    <3> QED
      BY <2>1, <3>1 DEF Emitted
  <2>2. net \in [Users -> Seq(Events)] /\ \A w \in Users : net[w] # <<>> => sock[w] # 0
    OBVIOUS
  <2> QED
    BY <2>1, <2>2
<1>1. ASSUME NEW j \in Places, InsertRequest(j) PROVE All
  <2>1. Stored
    BY <1>1 DEF InsertRequest, Statuses
  <2>2. Shown /\ Sent /\ Open /\ Counted /\ Noted
    BY <1>1 DEF InsertRequest
  <2> QED
    BY <2>1, <2>2
<1>2. ASSUME NEW j \in Places, TellRequested(j) PROVE All
  <2>1. Sent
    BY <1>2, <1>c, JobsAre DEF TellRequested, Events
  <2>2. Stored /\ Shown /\ Open /\ Counted /\ Noted
    BY <1>2 DEF TellRequested
  <2> QED
    BY <2>1, <2>2
<1>s. \A u \in Users, v \in Users : u # v => <<u, v>> \in Pairs /\ {u, v} \in {{p[1], p[2]} : p \in Pairs}
  <2> TAKE u \in Users, v \in Users
  <2>1. u # v => <<u, v>> \in Pairs /\ {u, v} = {<<u, v>>[1], <<u, v>>[2]}
    BY DEF Pairs
  <2> QED
    BY <2>1
<1>3. ASSUME NEW j \in Places, UpdateStatus(j) PROVE All
  <2> DEFINE u == hand[j].user
             v == hand[j].other
             status == hand[j].status
  <2>1. u \in Users /\ v \in Users /\ u # v /\ status \in Statuses
    BY <1>3, JobsAre DEF UpdateStatus
  <2>2. Shown /\ Sent /\ Open /\ Counted
    BY <1>3 DEF UpdateStatus
  <2>3. shaken' = shaken /\ cut' = cut /\ twice' = twice
    BY <1>3 DEF UpdateStatus
  <2>4. CASE UNCHANGED <<rows, parted, untold, forced>>
    BY <2>2, <2>3, <2>4
  <2>5. CASE ~UNCHANGED <<rows, parted, untold, forced>>
    <3>1. PICK p \in Either(u, v) :
            /\ rows' = [rows EXCEPT ![p] = status]
            /\ parted' = IF rows[p] = "accepted" /\ status # "accepted"
                         THEN parted \union {u, v} ELSE parted
            /\ untold' = IF "pending" \in {rows[p], status} /\ rows[p] # status
                              /\ ~(hand[j].live /\ p[2] = u)
                         THEN untold \union {p[2]} ELSE untold
            /\ forced' = IF p = <<u, v>> /\ status = "accepted"
                         THEN forced \union {{u, v}} ELSE forced
      BY <1>3, <2>5, Zenon DEF UpdateStatus
    <3> HIDE DEF u, v, status
    <3>a. {u, v} \in {{q[1], q[2]} : q \in Pairs}
      BY <1>s, <2>1
    <3>b. p = <<u, v>> \/ p = <<v, u>>
      BY <3>1 DEF Either
    <3>c. p[2] \in Users
      BY <2>1, <3>b
    <3>2. p[2] \in Users /\ {u, v} \in {{q[1], q[2]} : q \in Pairs}
      BY <3>a, <3>c
    <3>3. Stored
      BY <2>1, <3>1
    <3>4. parted' \subseteq Users
      BY <2>1, <3>1
    <3>5. untold' \subseteq Users
      BY <3>1, <3>2
    <3>6. twice' \union forced' \subseteq {{q[1], q[2]} : q \in Pairs}
      BY <2>3, <3>1, <3>2
    <3> QED
      BY <2>2, <2>3, <3>3, <3>4, <3>5, <3>6
  <2> QED
    BY <2>4, <2>5
<1>r. ASSUME NEW j \in Places, FindReverse(j) \/ InsertReverse(j) PROVE All
  <2>1. Stored
    BY <1>r DEF FindReverse, InsertReverse, Statuses
  <2>2. Shown /\ Sent /\ Open /\ Counted /\ Noted
    BY <1>r DEF FindReverse, InsertReverse
  <2> QED
    BY <2>1, <2>2
<1>4. ASSUME NEW j \in Places, TellResponded(j) PROVE All
  <2>1. Sent
    <3> DEFINE u == hand[j].user
               v == hand[j].other
               n == Emitted(Emitted(net, u, <<"list">>), v, <<"list">>)
    <3>1. u \in Users /\ v \in Users
      BY <1>4, JobsAre DEF TellResponded
    <3>2. n \in [Users -> Seq(Events)] /\ \A w \in Users : n[w] # <<>> => sock[w] # 0
      BY <3>1, <1>c DEF Events
    <3>3. net' = n \/ net' = net
      BY <1>4 DEF TellResponded, News
    <3>4. sock' = sock
      BY <1>4 DEF TellResponded
    <3> HIDE DEF n
    <3> QED
      BY <3>2, <3>3, <3>4
  <2>2. Stored /\ Shown /\ Open /\ Counted /\ Noted
    BY <1>4 DEF TellResponded
  <2> QED
    BY <2>1, <2>2
<1>5. ASSUME NEW j \in Places, SelectList(j) PROVE All
  BY <1>5 DEF SelectList
<1>6. ASSUME NEW j \in Places, ShowList(j) PROVE All
  <2>1. Shown
    BY <1>6, JobsAre, SMTT(40) DEF ShowList, Lists
  <2>2. Stored /\ Sent /\ Open /\ Counted /\ Noted
    BY <1>6 DEF ShowList
  <2> QED
    BY <2>1, <2>2
<1>7. ASSUME NEW j \in Places, NEW u \in Users, Hear(u, j) PROVE All
  <2>1. Sent
    BY <1>7 DEF Hear
  <2>2. Stored /\ Shown /\ Open /\ Counted /\ Noted
    BY <1>7 DEF Hear
  <2> QED
    BY <2>1, <2>2
<1>8. ASSUME NEW j \in Places, NEW u \in Users, NEW v \in Users \ {u}, Request(u, v, j) PROVE All
  <2>2. {u, v} \in {{p[1], p[2]} : p \in Pairs}
    BY <1>s
  <2>3. Noted
    BY <1>8, <2>2 DEF Request
  <2>4. Stored /\ Shown /\ Open /\ Sent /\ Counted
    BY <1>8, SMTT(40) DEF Request
  <2> QED
    BY <2>3, <2>4
<1>9. ASSUME NEW j \in Places, NEW u \in Users, NEW v \in Users \ {u},
             NEW status \in {"accepted", "blocked"}, Respond(u, v, status, j) PROVE All
  <2>1. Noted
    BY <1>9 DEF Respond
  <2>2. Counted
    BY <1>9 DEF Respond
  <2>3. Stored /\ Shown /\ Sent /\ Open
    BY <1>9 DEF Respond
  <2> QED
    BY <2>1, <2>2, <2>3
<1>e. ASSUME NEW j \in Places, NEW u \in Users, NEW v \in Users \ {u},
             NEW status \in Statuses \ {"none"}, RespondElsewhere(u, v, status, j) PROVE All
  <2>1. Counted
    BY <1>e DEF RespondElsewhere
  <2>2. Stored /\ Shown /\ Sent /\ Open /\ Noted
    BY <1>e DEF RespondElsewhere
  <2> QED
    BY <2>1, <2>2
<1>10. ASSUME NEW i \in Places, NEW j \in Places, NEW u \in Users, Visit(u, i, j) PROVE All
  <2>1. Shown
    BY <1>10 DEF Visit, NoPage
  <2>2. Counted
    <3>1. Len(Openers) \in Nat
      BY FriendsAssumption
    <3>2. visits' = visits + 1 /\ visits < Len(Openers) /\ asked' = asked /\ losses' = losses
      BY <1>10 DEF Visit
    <3> QED
      BY <3>1, <3>2
  <2>3. Noted
    BY <1>10 DEF Visit
  <2>4. Stored /\ Open /\ Sent
    BY <1>10 DEF Visit
  <2> QED
    BY <2>1, <2>2, <2>3, <2>4
<1>11. ASSUME NEW u \in Users, Lose(u) PROVE All
  BY <1>11 DEF Lose
<1>12. ASSUME NEW u \in Users, Connect(u) PROVE All
  <2>1. losses + 1 \in Nat \ {0} /\ losses + 1 \notin ghosts[u]
    BY DEF Sockets
  <2> QED
    BY <1>12, <2>1 DEF Connect
<1>13. ASSUME NEW u \in Users, NEW s \in ghosts[u], Notice(u, s) PROVE All
  BY <1>13 DEF Notice, Unregistered
<1>14. ASSUME UNCHANGED vars PROVE All
  BY <1>14 DEF vars
<1> HIDE DEF All
<1>15. All
  BY <1>1, <1>2, <1>3, <1>r, <1>4, <1>5, <1>6, <1>7, <1>8, <1>9, <1>e, <1>10, <1>11, <1>12, <1>13, <1>14 DEF Next
<1> QED
  BY <1>a, <1>15 DEF Jobs, All, TypeOK

\* The same request, of the same users.
Same(v, w) ==
  v.user = w.user /\ v.other = w.other /\ v.status = w.status

\* A request goes on to its next step, and no other moves.
LEMMA Advanced ==
  ASSUME Steps, NEW j \in Places, hand[j].at # "idle", NEW at, Goes(j, at)
  PROVE  /\ \A k \in Places \ {j} : hand'[k] = hand[k]
         /\ hand'[j].at = at /\ hand'[j].kind = hand[j].kind /\ Same(hand'[j], hand[j])
         /\ hand'[j].got = hand[j].got /\ hand'[j].live = hand[j].live
<1>1. hand[j] \in Work
  BY JobFields
<1>2. hand'[j] = [hand[j] EXCEPT !.at = at]
  BY DEF Goes, Steps
<1>3. \A k \in Places \ {j} : hand'[k] = hand[k]
  BY DEF Goes, Steps
<1> QED
  BY <1>1, <1>2, <1>3 DEF Work, Same

\* A request ends, and no other moves.
LEMMA Ended ==
  ASSUME Steps, NEW j \in Places, Done(j)
  PROVE  /\ \A k \in Places \ {j} : hand'[k] = hand[k]
         /\ hand'[j].kind = "none" /\ hand'[j].at = "idle" /\ hand'[j].live = FALSE
         /\ hand'[j].user = Nobody /\ hand'[j].got = {} /\ hand'[j].other = Nobody
BY NoWorkFields DEF Done, Steps

\* A free place takes a request, and no other moves.
LEMMA Taken ==
  ASSUME Steps, NEW j \in Places, NEW w, Takes(j, w)
  PROVE  hand'[j] = w /\ \A k \in Places \ {j} : hand'[k] = hand[k]
BY DEF Takes, Steps

\* What a request for a friendship puts in hand.
LEMMA Asked ==
  ASSUME Steps, NEW j \in Places, NEW u \in Users, NEW v \in Users \ {u}, Request(u, v, j)
  PROVE  /\ \A k \in Places \ {j} : hand'[k] = hand[k]
         /\ hand'[j].kind = "request" /\ hand'[j].at = "insert" /\ hand'[j].live = FALSE
         /\ hand'[j].user = u /\ hand'[j].got = {} /\ hand'[j].other = v
<1>1. /\ hand'[j] = [NoWork EXCEPT !.kind = "request", !.user = u, !.other = v, !.at = "insert"]
      /\ \A k \in Places \ {j} : hand'[k] = hand[k]
  BY Taken DEF Request
<1> QED
  BY <1>1 DEF NoWork

\* What an answer to one puts in hand.
LEMMA Answered ==
  ASSUME Steps, NEW j \in Places, NEW u \in Users, NEW v \in Users \ {u}, NEW status, Respond(u, v, status, j)
  PROVE  /\ \A k \in Places \ {j} : hand'[k] = hand[k]
         /\ hand'[j].kind = "respond" /\ hand'[j].at = "update" /\ hand'[j].live = TRUE
         /\ hand'[j].user = u /\ hand'[j].got = {} /\ hand'[j].other = v /\ hand'[j].status = status
<1>1. /\ hand'[j] = [NoWork EXCEPT !.kind = "respond", !.user = u, !.other = v, !.at = "update",
                                    !.status = status, !.live = TRUE]
      /\ \A k \in Places \ {j} : hand'[k] = hand[k]
  BY Taken DEF Respond
<1> QED
  BY <1>1 DEF NoWork

\* An answer from elsewhere.
LEMMA AnsweredElsewhere ==
  ASSUME Steps, NEW j \in Places, NEW u \in Users, NEW v \in Users \ {u}, NEW status,
         RespondElsewhere(u, v, status, j)
  PROVE  /\ \A k \in Places \ {j} : hand'[k] = hand[k]
         /\ hand'[j].kind = "respond" /\ hand'[j].at = "update" /\ hand'[j].live = FALSE
         /\ hand'[j].user = u /\ hand'[j].got = {} /\ hand'[j].other = v /\ hand'[j].status = status
<1>1. /\ hand'[j] = [NoWork EXCEPT !.kind = "respond", !.user = u, !.other = v, !.at = "update",
                                    !.status = status]
      /\ \A k \in Places \ {j} : hand'[k] = hand[k]
  BY Taken DEF RespondElsewhere
<1> QED
  BY <1>1 DEF NoWork

\* An answer that finds a row is stored, and goes on.
LEMMA Updated ==
  ASSUME Steps, NEW j \in Places, UpdateStatus(j), ~Done(j)
  PROVE  /\ \A k \in Places \ {j} : hand'[k] = hand[k]
         /\ hand'[j].at = IF hand[j].status = "accepted" THEN "reverse" ELSE "tell"
         /\ hand'[j].kind = "respond" /\ Same(hand'[j], hand[j])
         /\ hand'[j].got = hand[j].got /\ hand'[j].live = hand[j].live
<1>1. hand[j].kind = "respond" /\ hand[j].at = "update"
  BY DEF UpdateStatus
<1>2. PICK at : Goes(j, at) /\ at = IF hand[j].status = "accepted" THEN "reverse" ELSE "tell"
  BY DEF UpdateStatus
<1> QED
  BY <1>1, <1>2, Advanced

\* The row of the other one is looked for, and is there or not.
LEMMA Found ==
  ASSUME Steps, NEW j \in Places, FindReverse(j)
  PROVE  /\ \A k \in Places \ {j} : hand'[k] = hand[k]
         /\ hand'[j].at = IF rows[<<hand[j].other, hand[j].user>>] = "none" THEN "mirror" ELSE "tell"
         /\ hand[j].kind = "respond" /\ hand'[j].kind = "respond" /\ Same(hand'[j], hand[j])
         /\ hand'[j].got = hand[j].got /\ hand'[j].live = hand[j].live
<1>1. hand[j].kind = "respond" /\ hand[j].at = "reverse"
  BY JobsAre DEF FindReverse
<1>2. PICK at : /\ Goes(j, at)
                /\ at = IF rows[<<hand[j].other, hand[j].user>>] = "none" THEN "mirror" ELSE "tell"
  BY DEF FindReverse
<1> QED
  BY <1>1, <1>2, Advanced

\* An answer that is told becomes a load of the requests.
LEMMA Reloads ==
  ASSUME Steps, NEW j \in Places, TellResponded(j), hand[j].live
  PROVE  /\ \A k \in Places \ {j} : hand'[k] = hand[k]
         /\ hand'[j].kind = "incoming" /\ hand'[j].at = "select" /\ Same(hand'[j], hand[j])
         /\ hand'[j].got = hand[j].got /\ hand'[j].live = hand[j].live
<1>1. hand[j] \in Work
  BY JobFields DEF TellResponded
<1>2. hand'[j] = [hand[j] EXCEPT !.kind = "incoming", !.at = "select"]
  BY DEF TellResponded, Steps
<1>3. \A k \in Places \ {j} : hand'[k] = hand[k]
  BY DEF TellResponded, Steps
<1>4. PICK w : w = hand[j]
  OBVIOUS
<1>5. w \in Work /\ hand'[j] = [w EXCEPT !.kind = "incoming", !.at = "select"]
  BY <1>1, <1>2, <1>4
<1>6. /\ hand'[j].kind = "incoming" /\ hand'[j].at = "select"
      /\ hand'[j].user = w.user /\ hand'[j].other = w.other /\ hand'[j].status = w.status
      /\ hand'[j].got = w.got /\ hand'[j].live = w.live
  BY <1>5 DEF Work
<1> QED
  BY <1>3, <1>4, <1>6 DEF Same

\* A load has its list.
LEMMA Selected ==
  ASSUME Steps, NEW j \in Places, SelectList(j)
  PROVE  /\ \A k \in Places \ {j} : hand'[k] = hand[k]
         /\ hand'[j].kind = hand[j].kind /\ hand'[j].at = "answer" /\ Same(hand'[j], hand[j])
         /\ hand'[j].got = IF hand[j].kind = "incoming" THEN Incoming(hand[j].user) ELSE Accepted(hand[j].user)
         /\ hand'[j].live = hand[j].live
<1> DEFINE got == IF hand[j].kind = "incoming" THEN Incoming(hand[j].user) ELSE Accepted(hand[j].user)
<1>1. hand[j] \in Work
  BY JobFields DEF SelectList
<1>2. hand'[j] = [hand[j] EXCEPT !.at = "answer", !.got = got]
  BY DEF SelectList, Steps
<1>3. \A k \in Places \ {j} : hand'[k] = hand[k]
  BY DEF SelectList, Steps
<1> HIDE DEF got
<1>4. /\ hand'[j].kind = hand[j].kind /\ hand'[j].at = "answer" /\ Same(hand'[j], hand[j])
      /\ hand'[j].got = got /\ hand'[j].live = hand[j].live
  BY <1>1, <1>2 DEF Work, Same
<1> QED
  BY <1>3, <1>4 DEF got

\* A visit starts two loads, and the page before waits for nothing.
LEMMA Visited ==
  ASSUME Steps, NEW i \in Places, NEW j \in Places, NEW u \in Users, Visit(u, i, j)
  PROVE  /\ i # j /\ hand[i].kind = "none" /\ hand[j].kind = "none"
         /\ hand'[i].kind = "incoming" /\ hand'[j].kind = "friends"
         /\ \A k \in {i, j} : hand'[k].user = u /\ hand'[k].at = "select" /\ hand'[k].live /\ hand'[k].got = {}
         /\ \A k \in Places \ {i, j} :
              /\ hand[k].user # u => hand'[k] = hand[k]
              /\ hand[k].user = u => /\ hand'[k].kind = hand[k].kind /\ hand'[k].at = hand[k].at
                                     /\ Same(hand'[k], hand[k]) /\ hand'[k].got = hand[k].got
                                     /\ hand'[k].live = FALSE
<1>1. i # j /\ hand[i].kind = "none" /\ hand[j].kind = "none"
  BY NoWorkFields DEF Visit, Free
<1>2. hand'[i] = Load(u, "incoming") /\ hand'[j] = Load(u, "friends")
  BY <1>1 DEF Visit
<1>3. ASSUME NEW k \in Places \ {i, j}, hand[k].user = u
      PROVE  /\ hand'[k].kind = hand[k].kind /\ hand'[k].at = hand[k].at
             /\ Same(hand'[k], hand[k]) /\ hand'[k].got = hand[k].got
             /\ hand'[k].live = FALSE
  <2>1. hand'[k] = [hand[k] EXCEPT !.live = FALSE]
    BY <1>3 DEF Visit
  <2>2. hand[k] # NoWork
    BY <1>3, NoWorkFields
  <2>3. hand[k] \in Work
    BY <2>2 DEF Steps, JobOK
  <2> QED
    BY <2>1, <2>3 DEF Work, Same
<1>4. \A k \in Places \ {i, j} : hand[k].user # u => hand'[k] = hand[k]
  BY DEF Visit
<1>5. \A k \in {i, j} : hand'[k].user = u /\ hand'[k].at = "select" /\ hand'[k].live /\ hand'[k].got = {}
  BY <1>2, LoadOK DEF Lists
<1>6. hand'[i].kind = "incoming" /\ hand'[j].kind = "friends"
  BY <1>2, LoadOK DEF Lists
<1> QED
  BY <1>1, <1>3, <1>4, <1>5, <1>6

\* An event that is heard starts a load.
LEMMA Listening ==
  ASSUME Steps, NEW j \in Places, NEW u \in Users, Hear(u, j)
  PROVE  /\ \A k \in Places \ {j} : hand'[k] = hand[k]
         /\ hand[j].kind = "none"
         /\ hand'[j].kind = ListOf(Head(net[u])) /\ hand'[j].user = u /\ hand'[j].at = "select"
         /\ hand'[j].live /\ hand'[j].got = {}
<1>1. hand'[j] = Load(u, ListOf(Head(net[u]))) /\ \A k \in Places \ {j} : hand'[k] = hand[k]
  BY Taken DEF Hear
<1>2. ListOf(Head(net[u])) \in Lists
  BY DEF ListOf, Lists
<1>3. hand[j].kind = "none"
  BY NoWorkFields DEF Hear, Free
<1> QED
  BY <1>1, <1>2, <1>3, LoadOK

\* Every step keeps the numbering and the registry.
LEMMA SocketsKept == TypeOK /\ Sockets /\ [Next]_vars => Sockets'
<1> SUFFICES ASSUME TypeOK, Sockets, [Next]_vars PROVE Sockets'
  OBVIOUS
<1>0. /\ sock \in [Users -> Nat] /\ ghosts \in [Users -> SUBSET (Nat \ {0})] /\ userSockets \in [Users -> Nat]
      /\ losses \in Nat
      /\ \A u \in Users : userSockets[u] \in {0, sock[u]} \union ghosts[u]
  BY DEF TypeOK
<1> USE <1>0 DEF Sockets, sockets, bounds, history
<1>1. ASSUME UNCHANGED <<sockets, losses, cut>>, shaken \subseteq shaken' PROVE Sockets'
  BY <1>1
<1>2. ASSUME NEW i \in Places, NEW j \in Places, NEW u \in Users, Visit(u, i, j) PROVE Sockets'
  BY <1>2 DEF Visit
<1>3. ASSUME NEW u \in Users, Lose(u) PROVE Sockets'
  BY <1>3 DEF Lose
<1>4. ASSUME NEW u \in Users, Connect(u) PROVE Sockets'
  BY <1>4 DEF Connect
<1>5. ASSUME NEW u \in Users, NEW s \in ghosts[u], Notice(u, s) PROVE Sockets'
  BY <1>5 DEF Notice, Unregistered
<1>6. ASSUME NEW j \in Places,
             \/ InsertRequest(j) \/ TellRequested(j) \/ UpdateStatus(j) \/ TellResponded(j)
             \/ FindReverse(j) \/ InsertReverse(j) \/ SelectList(j) \/ ShowList(j)
             \/ \E u \in Users :
                  \/ Hear(u, j)
                  \/ \E v \in Users \ {u} : Request(u, v, j)
                  \/ \E v \in Users \ {u}, status \in {"accepted", "blocked"} : Respond(u, v, status, j)
                  \/ \E v \in Users \ {u}, status \in Statuses \ {"none"} : RespondElsewhere(u, v, status, j)
      PROVE Sockets'
  <2>1. UNCHANGED <<sockets, losses, cut>> /\ shaken \subseteq shaken'
    BY <1>6 DEF InsertRequest, TellRequested, UpdateStatus, TellResponded, FindReverse, InsertReverse,
                SelectList, ShowList, Hear, Request, Respond, RespondElsewhere
  <2> QED
    BY <1>1, <2>1
<1>7. CASE UNCHANGED vars
  BY <1>1, <1>7 DEF vars
<1> QED
  BY <1>2, <1>3, <1>4, <1>5, <1>6, <1>7 DEF Next

\* Rows are never taken away, and only the inserts bring one.
LEMMA RowsOnlyCome ==
  ASSUME TypeOK, Steps, [Next]_vars
  PROVE  /\ \A p \in Pairs : rows[p] # "none" => rows'[p] # "none"
         /\ (\A j \in Places : ~InsertRequest(j) /\ ~InsertReverse(j)) =>
              \A p \in Pairs : rows[p] = "none" <=> rows'[p] = "none"
<1>0. rows \in [Pairs -> Statuses]
  BY DEF TypeOK
<1>1. ASSUME NEW j \in Places, InsertRequest(j) \/ InsertReverse(j)
      PROVE  \A p \in Pairs : rows[p] # "none" => rows'[p] # "none"
  BY <1>0, <1>1 DEF InsertRequest, InsertReverse
<1>2. ASSUME NEW j \in Places, UpdateStatus(j)
      PROVE  \A p \in Pairs : rows[p] = "none" <=> rows'[p] = "none"
  <2>1. hand[j].status # "none"
    BY <1>2, JobsAre DEF UpdateStatus
  <2>2. \/ rows' = rows
        \/ \E q \in Either(hand[j].user, hand[j].other) : rows' = [rows EXCEPT ![q] = hand[j].status]
    BY <1>2 DEF UpdateStatus
  <2>3. \A q \in Either(hand[j].user, hand[j].other) : rows[q] # "none"
    BY DEF Either
  <2> QED
    BY <1>0, <2>1, <2>2, <2>3
<1>3. CASE \A j \in Places : ~InsertRequest(j) /\ ~InsertReverse(j) /\ ~UpdateStatus(j)
  <2>1. ASSUME NEW j \in Places,
               TellRequested(j) \/ TellResponded(j) \/ FindReverse(j) \/ SelectList(j) \/ ShowList(j)
        PROVE  rows' = rows
    BY <2>1 DEF TellRequested, TellResponded, FindReverse, SelectList, ShowList
  <2>2. ASSUME NEW j \in Places, NEW u \in Users,
               \/ Hear(u, j) \/ \E v \in Users \ {u} : Request(u, v, j)
               \/ \E v \in Users \ {u}, status \in {"accepted", "blocked"} : Respond(u, v, status, j)
               \/ \E v \in Users \ {u}, status \in Statuses \ {"none"} : RespondElsewhere(u, v, status, j)
               \/ \E i \in Places : Visit(u, i, j)
        PROVE  rows' = rows
    BY <2>2 DEF Hear, Request, Respond, RespondElsewhere, Visit
  <2>3. ASSUME NEW u \in Users, Lose(u) \/ Connect(u) \/ \E s \in ghosts[u] : Notice(u, s) PROVE rows' = rows
    BY <2>3 DEF Lose, Connect, Notice
  <2>4. rows' = rows
    BY <1>3, <2>1, <2>2, <2>3 DEF Next, vars
  <2> QED
    BY <2>4
<1> QED
  BY <1>1, <1>2, <1>3

\* Every step keeps one row of each pair.
LEMMA OneRowsKept == TypeOK /\ Steps /\ OneRows /\ Known /\ [Next]_vars => OneRows'
<1> SUFFICES ASSUME TypeOK, Steps, OneRows, Known, [Next]_vars PROVE OneRows'
  OBVIOUS
<1>0. rows \in [Pairs -> Statuses]
  BY DEF TypeOK
<1>p. \A u, v \in Users : {u, v} = {v, u}
  OBVIOUS
<1>q. \A u, v \in Users : u # v => <<u, v>> \in Pairs
  BY DEF Pairs
<1>t. \A j \in Places : hand[j].at \in {"reverse", "mirror"} =>
        hand[j].user \in Users /\ hand[j].other \in Users \ {hand[j].user}
  BY JobsAre
<1>1. ASSUME \A j \in Places : hand'[j].at \in {"insert", "reverse", "mirror"} => hand'[j] = hand[j] \/
                 (hand'[j].at = hand[j].at /\ Same(hand'[j], hand[j]) /\ ~hand'[j].live),
             \A p \in Pairs : rows[p] = "none" <=> rows'[p] = "none",
             twice \subseteq twice', forced \subseteq forced'
      PROVE  OneRows'
  <2>1. \A j \in Places, u, v \in Users : Inserting(j, u, v)' => Inserting(j, u, v)
    BY <1>1 DEF Inserting, Same
  <2>2. OneInsert'
    BY <1>1, <2>1 DEF OneRows, OneInsert
  <2>3. Unasked'
    BY <1>1, <1>q, <2>1 DEF OneRows, Unasked
  <2>4. CalmOneRow'
    BY <1>1, <1>q DEF OneRows, CalmOneRow
  <2>5. Reversing'
    <3> SUFFICES ASSUME NEW j \in Places, hand'[j].at \in {"reverse", "mirror"}
                 PROVE  /\ hand'[j].at = "reverse" => \/ rows'[<<hand'[j].other, hand'[j].user>>] # "none"
                                                      \/ Forces(hand[j])'
                        /\ hand'[j].at = "mirror" => Forces(hand[j])' /\ ~hand'[j].live
      BY DEF Reversing
    <3>1. /\ hand'[j].at = hand[j].at /\ hand'[j].user = hand[j].user /\ hand'[j].other = hand[j].other
          /\ hand'[j] = hand[j] \/ ~hand'[j].live
      BY <1>1 DEF Same
    <3>2. Forces(hand[j]) => Forces(hand[j])'
      BY <1>1, <1>q, <1>t, <3>1 DEF Forces
    <3>3. /\ hand[j].at = "reverse" => rows[<<hand[j].other, hand[j].user>>] # "none" \/ Forces(hand[j])
          /\ hand[j].at = "mirror" => Forces(hand[j]) /\ ~hand[j].live
      BY DEF OneRows, Reversing
    <3>4. rows[<<hand[j].other, hand[j].user>>] # "none" => rows'[<<hand'[j].other, hand'[j].user>>] # "none"
      BY <1>1, <1>q, <1>t, <3>1
    <3> QED
      BY <3>1, <3>2, <3>3, <3>4
  <2> QED
    BY <2>2, <2>3, <2>4, <2>5 DEF OneRows
<1>m. ASSUME NEW j \in Places, \A k \in Places \ {j} : hand'[k] = hand[k],
             hand'[j].at \notin {"reverse", "mirror"},
             \A p \in Pairs : rows[p] # "none" => rows'[p] # "none",
             forced \subseteq forced'
      PROVE  Reversing'
  <2> SUFFICES ASSUME NEW k \in Places \ {j}, hand'[k].at \in {"reverse", "mirror"}
               PROVE  /\ hand'[k].at = "reverse" => \/ rows'[<<hand'[k].other, hand'[k].user>>] # "none"
                                                    \/ Forces(hand[k])'
                      /\ hand'[k].at = "mirror" => Forces(hand[k])' /\ ~hand'[k].live
    BY <1>m DEF Reversing
  <2>1. hand'[k] = hand[k]
    BY <1>m
  <2>2. Forces(hand[k]) => Forces(hand[k])'
    BY <1>m, <1>q, <1>t, <2>1 DEF Forces
  <2>3. /\ hand[k].at = "reverse" => rows[<<hand[k].other, hand[k].user>>] # "none" \/ Forces(hand[k])
        /\ hand[k].at = "mirror" => Forces(hand[k]) /\ ~hand[k].live
    BY DEF OneRows, Reversing
  <2>4. rows[<<hand[k].other, hand[k].user>>] # "none" => rows'[<<hand'[k].other, hand'[k].user>>] # "none"
    BY <1>m, <1>q, <1>t, <2>1
  <2> QED
    BY <2>1, <2>2, <2>3, <2>4
<1>2. ASSUME NEW j \in Places, InsertRequest(j) PROVE OneRows'
  <2> DEFINE u == hand[j].user
             v == hand[j].other
  <2>1. u \in Users /\ v \in Users \ {u} /\ Inserting(j, u, v) /\ Inserting(j, v, u)
    BY <1>2, JobsAre DEF InsertRequest, Inserting
  <2>2. \A k \in Places \ {j} : hand'[k] = hand[k]
    BY <1>2, Ended, Advanced DEF InsertRequest
  <2>3. hand'[j].at \notin {"insert", "reverse", "mirror"}
    <3>1. hand[j].at # "idle" /\ (Goes(j, "tell") \/ Done(j))
      BY <1>2 DEF InsertRequest
    <3>2. hand'[j].at = "tell" \/ hand'[j].at = "idle"
      BY <3>1, Ended, Advanced
    <3> QED
      BY <3>2
  <2>4. twice' = twice /\ forced' = forced
    BY <1>2 DEF InsertRequest, history
  <2>5. \A p \in Pairs \ {<<u, v>>} : rows'[p] = rows[p]
    BY <1>2, <1>0 DEF InsertRequest
  <2> HIDE DEF u, v
  <2>6. \A k \in Places, x, y \in Users : Inserting(k, x, y)' => k # j /\ Inserting(k, x, y)
    BY <2>2, <2>3 DEF Inserting
  <2>7. \A k \in Places \ {j} : Inserting(k, u, v) \/ Inserting(k, v, u) => {u, v} \in twice
    BY <2>1 DEF OneRows, OneInsert, Inserting
  <2>8. rows[<<v, u>>] = "none" \/ {u, v} \in twice
    BY <2>1, <1>p DEF OneRows, Unasked
  <2>9. OneInsert'
    BY <2>4, <2>6 DEF OneRows, OneInsert
  <2>10. Unasked'
    <3> SUFFICES ASSUME NEW k \in Places, NEW x \in Users, NEW y \in Users, x # y,
                        Inserting(k, x, y)', {x, y} \notin twice
                 PROVE  rows'[<<x, y>>] = "none"
      BY <2>4 DEF Unasked
    <3>1. k # j /\ Inserting(k, x, y) /\ rows[<<x, y>>] = "none"
      BY <2>6 DEF OneRows, Unasked
    <3>2. <<x, y>> # <<u, v>>
      BY <3>1, <2>7
    <3> QED
      BY <3>1, <3>2, <2>5, <1>q
  <2>11. CalmOneRow'
    <3> SUFFICES ASSUME NEW x \in Users, NEW y \in Users, x # y,
                        rows'[<<x, y>>] # "none", rows'[<<y, x>>] # "none"
                 PROVE  {x, y} \in twice \union forced
      BY <2>4 DEF CalmOneRow
    <3>1. CASE <<x, y>> # <<u, v>> /\ <<y, x>> # <<u, v>>
      BY <3>1, <2>5, <1>q DEF OneRows, CalmOneRow
    <3>2. CASE <<x, y>> = <<u, v>>
      <4>1. <<y, x>> # <<u, v>> /\ <<y, x>> = <<v, u>>
        BY <3>2
      <4>2. rows[<<v, u>>] # "none"
        BY <4>1, <2>5, <1>q
      <4> QED
        BY <2>8, <3>2, <4>2
    <3>3. CASE <<y, x>> = <<u, v>>
      <4>1. <<x, y>> # <<u, v>> /\ <<x, y>> = <<v, u>>
        BY <3>3
      <4>2. rows[<<v, u>>] # "none"
        BY <4>1, <2>5, <1>q
      <4> QED
        BY <2>8, <3>3, <4>2, <1>p
    <3> QED
      BY <3>1, <3>2, <3>3
  <2>12. Reversing'
    BY <1>m, <2>2, <2>3, <2>4, RowsOnlyCome
  <2> QED
    BY <2>9, <2>10, <2>11, <2>12 DEF OneRows
<1>k. ASSUME NEW j \in Places, InsertReverse(j) PROVE OneRows'
  <2> DEFINE u == hand[j].user
             v == hand[j].other
  <2>1. u \in Users /\ v \in Users \ {u} /\ hand[j].at = "mirror"
    BY <1>k, <1>t DEF InsertReverse
  <2>2. rows[<<u, v>>] # "none" /\ {u, v} \in forced
    BY <2>1 DEF OneRows, Reversing, Forces
  <2>3. (\A k \in Places \ {j} : hand'[k] = hand[k]) /\ hand'[j].at \in {"tell", "idle"}
    <3>1. Goes(j, "tell") \/ Done(j)
      BY <1>k DEF InsertReverse
    <3> QED
      BY <2>1, <3>1, Ended, Advanced
  <2>4. twice' = twice /\ forced' = forced
    BY <1>k DEF InsertReverse, history
  <2>5. \A p \in Pairs \ {<<v, u>>} : rows'[p] = rows[p]
    BY <1>k, <1>0 DEF InsertReverse
  <2> HIDE DEF u, v
  <2>6. \A k \in Places, x, y \in Users : Inserting(k, x, y)' => Inserting(k, x, y)
    BY <2>3 DEF Inserting
  <2>7. \A k \in Places : Inserting(k, v, u) => {u, v} \in twice
    <3> SUFFICES ASSUME NEW k \in Places, Inserting(k, v, u), {u, v} \notin twice PROVE FALSE
      OBVIOUS
    <3>1. Inserting(k, u, v)
      BY DEF Inserting
    <3> QED
      BY <2>1, <2>2, <3>1 DEF OneRows, Unasked
  <2>8. OneInsert'
    BY <2>4, <2>6 DEF OneRows, OneInsert
  <2>9. Unasked'
    <3> SUFFICES ASSUME NEW k \in Places, NEW x \in Users, NEW y \in Users, x # y,
                        Inserting(k, x, y)', {x, y} \notin twice
                 PROVE  rows'[<<x, y>>] = "none"
      BY <2>4 DEF Unasked
    <3>1. Inserting(k, x, y) /\ rows[<<x, y>>] = "none"
      BY <2>6 DEF OneRows, Unasked
    <3>2. <<x, y>> # <<v, u>>
      BY <3>1, <2>7, <1>p
    <3> QED
      BY <3>1, <3>2, <2>5, <1>q
  <2>10. CalmOneRow'
    <3> SUFFICES ASSUME NEW x \in Users, NEW y \in Users, x # y,
                        rows'[<<x, y>>] # "none", rows'[<<y, x>>] # "none"
                 PROVE  {x, y} \in twice \union forced
      BY <2>4 DEF CalmOneRow
    <3>1. CASE <<x, y>> # <<v, u>> /\ <<y, x>> # <<v, u>>
      BY <3>1, <2>5, <1>q DEF OneRows, CalmOneRow
    <3>2. CASE <<x, y>> = <<v, u>> \/ <<y, x>> = <<v, u>>
      <4>1. {x, y} = {u, v}
        BY <3>2
      <4> QED
        BY <2>2, <4>1
    <3> QED
      BY <3>1, <3>2
  <2>11. Reversing'
    BY <1>m, <2>3, <2>4, RowsOnlyCome
  <2> QED
    BY <2>8, <2>9, <2>10, <2>11 DEF OneRows
<1>f. ASSUME NEW j \in Places, FindReverse(j), (hand[j].live => rows[<<hand[j].other, hand[j].user>>] # "none")
      PROVE  OneRows'
  <2>1. /\ hand[j].at = "reverse" /\ rows' = rows /\ twice' = twice /\ forced' = forced
    BY <1>f DEF FindReverse, history
  <2>2. /\ \A k \in Places \ {j} : hand'[k] = hand[k]
        /\ hand'[j].at = IF rows[<<hand[j].other, hand[j].user>>] = "none" THEN "mirror" ELSE "tell"
        /\ hand'[j].user = hand[j].user /\ hand'[j].other = hand[j].other /\ hand'[j].live = hand[j].live
    BY <1>f, Found DEF Same
  <2>3. \A k \in Places, x, y \in Users : Inserting(k, x, y)' => Inserting(k, x, y)
    BY <2>2 DEF Inserting
  <2>4. OneInsert' /\ Unasked' /\ CalmOneRow'
    BY <2>1, <2>3 DEF OneRows, OneInsert, Unasked, CalmOneRow
  <2>5. Reversing'
    <3>1. ASSUME NEW k \in Places \ {j}
          PROVE  /\ hand'[k].at = "reverse" => \/ rows'[<<hand'[k].other, hand'[k].user>>] # "none"
                                               \/ Forces(hand[k])'
                 /\ hand'[k].at = "mirror" => Forces(hand[k])' /\ ~hand'[k].live
      BY <2>1, <2>2 DEF OneRows, Reversing, Forces
    <3>2. hand'[j].at = "mirror" => Forces(hand[j])' /\ ~hand'[j].live
      BY <1>f, <2>1, <2>2 DEF OneRows, Reversing, Forces
    <3>3. hand'[j].at # "reverse"
      BY <2>2
    <3> QED
      BY <3>1, <3>2, <3>3 DEF Reversing
  <2> QED
    BY <2>4, <2>5 DEF OneRows
<1>u. ASSUME NEW j \in Places, UpdateStatus(j) PROVE OneRows'
  <2>1. CASE Done(j)
    <3>1. hand'[j].at = "idle" /\ \A k \in Places \ {j} : hand'[k] = hand[k]
      BY <2>1, Ended
    <3>2. rows' = rows /\ forced' = forced /\ twice' = twice
      <4>1. Either(hand[j].user, hand[j].other) = {}
        <5> SUFFICES ASSUME Either(hand[j].user, hand[j].other) # {} PROVE FALSE
          OBVIOUS
        <5>1. hand[j].at = "update" /\ \E at \in {"reverse", "tell"} : Goes(j, at)
          BY <1>u DEF UpdateStatus
        <5> QED
          BY <3>1, <5>1, Advanced
      <4> QED
        BY <1>u, <4>1 DEF UpdateStatus
    <3> QED
      BY <1>1, <3>1, <3>2
  <2>2. CASE ~Done(j)
    <3> DEFINE u == hand[j].user
               v == hand[j].other
    <3>1. PICK p \in Either(u, v) :
            forced' = IF p = <<u, v>> /\ hand[j].status = "accepted" THEN forced \union {{u, v}} ELSE forced
      BY <1>u, <2>2 DEF UpdateStatus
    <3>2. p \in {<<u, v>>, <<v, u>>} /\ rows[p] # "none"
      BY <3>1 DEF Either
    <3>3. u \in Users /\ v \in Users \ {u}
      BY <1>u, JobsAre DEF UpdateStatus
    <3>4. /\ \A k \in Places \ {j} : hand'[k] = hand[k]
          /\ hand'[j].at = IF hand[j].status = "accepted" THEN "reverse" ELSE "tell"
          /\ hand'[j].user = u /\ hand'[j].other = v
      BY <1>u, <2>2, Updated DEF Same
    <3>5. twice' = twice /\ forced \subseteq forced'
      BY <1>u, <3>1 DEF UpdateStatus
    <3>6. \A q \in Pairs : rows[q] = "none" <=> rows'[q] = "none"
      <4>1. \A k \in Places : ~InsertRequest(k) /\ ~InsertReverse(k)
        <5> SUFFICES ASSUME NEW k \in Places, InsertRequest(k) \/ InsertReverse(k) PROVE FALSE
          OBVIOUS
        <5>1. hand[k].at \in {"insert", "mirror"} /\ (Goes(k, "tell") \/ Done(k))
          BY DEF InsertRequest, InsertReverse
        <5>2. hand'[k].at \in {"tell", "idle"}
          BY <5>1, Ended, Advanced
        <5>3. hand[j].at = "update"
          BY <1>u DEF UpdateStatus
        <5> QED
          BY <3>4, <5>1, <5>2, <5>3
      <4> QED
        BY <4>1, RowsOnlyCome
    <3> HIDE DEF u, v
    <3>7. \A k \in Places, x, y \in Users : Inserting(k, x, y)' => Inserting(k, x, y)
      BY <3>4 DEF Inserting
    <3>8. OneInsert'
      BY <3>5, <3>7 DEF OneRows, OneInsert
    <3>9. Unasked'
      BY <3>5, <3>6, <3>7, <1>q DEF OneRows, Unasked
    <3>10. CalmOneRow'
      BY <3>5, <3>6, <1>q DEF OneRows, CalmOneRow
    <3>11. Reversing'
      <4>1. ASSUME NEW k \in Places \ {j}
            PROVE  /\ hand'[k].at = "reverse" => \/ rows'[<<hand'[k].other, hand'[k].user>>] # "none"
                                                 \/ Forces(hand[k])'
                   /\ hand'[k].at = "mirror" => Forces(hand[k])' /\ ~hand'[k].live
        <5>1. hand'[k] = hand[k]
          BY <3>4
        <5>2. hand[k].at \in {"reverse", "mirror"} /\ Forces(hand[k]) => Forces(hand[k])'
          BY <1>q, <1>t, <3>5, <3>6, <5>1 DEF Forces
        <5>3. hand[k].at = "reverse" /\ rows[<<hand[k].other, hand[k].user>>] # "none" =>
                rows'[<<hand'[k].other, hand'[k].user>>] # "none"
          BY <1>q, <1>t, <3>6, <5>1
        <5> QED
          BY <5>1, <5>2, <5>3 DEF OneRows, Reversing
      <4>2. hand'[j].at # "mirror"
        BY <3>4
      <4>3. hand'[j].at = "reverse" => rows'[<<v, u>>] # "none" \/ Forces(hand[j])'
        <5> SUFFICES ASSUME hand'[j].at = "reverse" PROVE rows'[<<v, u>>] # "none" \/ Forces(hand[j])'
          OBVIOUS
        <5>1. rows'[p] # "none"
          BY <1>q, <3>2, <3>3, <3>6
        <5>2. p = <<u, v>> => {u, v} \in forced'
          BY <3>1, <3>4
        <5> QED
          BY <3>2, <3>4, <5>1, <5>2 DEF Forces
      <4> QED
        BY <3>4, <4>1, <4>2, <4>3 DEF Reversing
    <3> QED
      BY <3>8, <3>9, <3>10, <3>11 DEF OneRows
  <2> QED
    BY <2>1, <2>2
<1>3. ASSUME NEW j \in Places, NEW u \in Users, NEW v \in Users \ {u}, Request(u, v, j) PROVE OneRows'
  <2>1. \A k \in Places \ {j} : hand'[k] = hand[k]
    BY <1>3, Asked
  <2>2. hand'[j].user = u /\ hand'[j].other = v
    BY <1>3, Asked
  <2>3. rows' = rows /\ twice \subseteq twice' /\ forced' = forced
    BY <1>3 DEF Request
  <2>4. rows[<<u, v>>] = "none" /\ rows[<<v, u>>] = "none"
    BY <1>3 DEF Request, Either
  <2>5. \A i \in Places : Inserting(i, u, v) \/ Inserting(i, v, u) => {u, v} \in twice'
    BY <1>3, <1>p DEF Request, Inserting
  <2>6. ASSUME NEW k \in Places, NEW x \in Users, NEW y \in Users, Inserting(k, x, y)'
        PROVE  (k # j /\ Inserting(k, x, y)) \/ (k = j /\ <<x, y>> \in {<<u, v>>, <<v, u>>})
    BY <2>1, <2>2, <2>6 DEF Inserting
  <2>7. OneInsert'
    <3> SUFFICES ASSUME NEW i \in Places, NEW k \in Places, NEW x \in Users, NEW y \in Users, x # y, i # k,
                        Inserting(i, x, y)', Inserting(k, x, y)'
                 PROVE  {x, y} \in twice'
      BY DEF OneInsert
    <3>1. CASE i # j /\ k # j
      BY <3>1, <2>3, <2>6 DEF OneRows, OneInsert
    <3>2. ASSUME NEW a \in Places, a # j, Inserting(a, x, y)', Inserting(j, x, y)' PROVE {x, y} \in twice'
      <4>1. Inserting(a, x, y)
        BY <3>2, <2>6
      <4>2. <<x, y>> \in {<<u, v>>, <<v, u>>}
        BY <3>2, <2>6
      <4>3. CASE <<x, y>> = <<u, v>>
        BY <4>1, <4>3, <2>5
      <4>4. CASE <<x, y>> = <<v, u>>
        BY <4>1, <4>4, <2>5, <1>p
      <4> QED
        BY <4>2, <4>3, <4>4
    <3> QED
      BY <3>1, <3>2
  <2>8. Unasked'
    BY <2>3, <2>4, <2>6 DEF OneRows, Unasked
  <2>9. CalmOneRow'
    BY <2>3 DEF OneRows, CalmOneRow
  <2>10. Reversing'
    <3>1. hand'[j].at = "insert"
      BY <1>3, Asked
    <3> QED
      BY <1>m, <2>1, <2>3, <3>1
  <2> QED
    BY <2>7, <2>8, <2>9, <2>10 DEF OneRows
<1>4. ASSUME NEW i \in Places, NEW j \in Places, NEW u \in Users, Visit(u, i, j) PROVE OneRows'
  <2>1. \A k \in Places : hand'[k].at \in {"insert", "reverse", "mirror"} =>
             hand'[k] = hand[k] \/ (hand'[k].at = hand[k].at /\ Same(hand'[k], hand[k]) /\ ~hand'[k].live)
    <3>1. /\ \A k \in {i, j} : hand'[k].user = u /\ hand'[k].at = "select" /\ hand'[k].live /\ hand'[k].got = {}
          /\ \A k \in Places \ {i, j} :
                /\ hand[k].user # u => hand'[k] = hand[k]
                /\ hand[k].user = u => /\ hand'[k].kind = hand[k].kind /\ hand'[k].at = hand[k].at
                                       /\ Same(hand'[k], hand[k]) /\ hand'[k].got = hand[k].got
                                       /\ hand'[k].live = FALSE
      BY <1>4, Visited
    <3> QED
      BY <3>1
  <2>2. rows' = rows /\ twice' = twice /\ forced' = forced
    BY <1>4 DEF Visit
  <2> QED
    BY <1>1, <2>1, <2>2
<1>5. CASE \A j \in Places : /\ ~InsertRequest(j) /\ ~UpdateStatus(j) /\ ~FindReverse(j) /\ ~InsertReverse(j)
                             /\ \A u \in Users : /\ \A v \in Users \ {u} : ~Request(u, v, j)
                                                 /\ \A i \in Places : ~Visit(u, i, j)
  <2>1. \A p \in Pairs : rows[p] = "none" <=> rows'[p] = "none"
    BY <1>5, RowsOnlyCome
  <2>2. \/ UNCHANGED hand
        \/ \E j \in Places : /\ hand'[j].at \notin {"insert", "reverse", "mirror"}
                             /\ \A k \in Places \ {j} : hand'[k] = hand[k]
    <3>1. ASSUME NEW j \in Places, TellRequested(j) PROVE <2>2!2
      BY <3>1, Ended DEF TellRequested
    <3>2. ASSUME NEW j \in Places, TellResponded(j) PROVE <2>2!2
      BY <3>2, Ended, Reloads DEF TellResponded
    <3>4. ASSUME NEW j \in Places, SelectList(j) PROVE <2>2!2
      BY <3>4, Selected
    <3>5. ASSUME NEW j \in Places, ShowList(j) PROVE <2>2!2
      BY <3>5, Ended DEF ShowList
    <3>6. ASSUME NEW j \in Places, NEW u \in Users, Hear(u, j) PROVE <2>2!2
      BY <3>6, Listening
    <3>7. ASSUME NEW j \in Places, NEW u \in Users, NEW v \in Users \ {u},
                 NEW status \in {"accepted", "blocked"}, Respond(u, v, status, j) PROVE <2>2!2
      BY <3>7, Answered
    <3>8. ASSUME NEW j \in Places, NEW u \in Users, NEW v \in Users \ {u},
                 NEW status \in Statuses \ {"none"}, RespondElsewhere(u, v, status, j) PROVE <2>2!2
      BY <3>8, AnsweredElsewhere
    <3>9. ASSUME NEW u \in Users, Lose(u) \/ Connect(u) \/ \E s \in ghosts[u] : Notice(u, s) PROVE UNCHANGED hand
      BY <3>9 DEF Lose, Connect, Notice
    <3> QED
      BY <1>5, <3>1, <3>2, <3>4, <3>5, <3>6, <3>7, <3>8, <3>9 DEF Next, vars
  <2>3. twice' = twice /\ forced' = forced
    <3>1. ASSUME NEW j \in Places,
                 TellRequested(j) \/ TellResponded(j) \/ SelectList(j) \/ ShowList(j)
          PROVE  twice' = twice /\ forced' = forced
      BY <3>1 DEF TellRequested, TellResponded, SelectList, ShowList, history
    <3>2. ASSUME NEW j \in Places, NEW u \in Users,
                 \/ Hear(u, j)
                 \/ \E v \in Users \ {u}, status \in {"accepted", "blocked"} : Respond(u, v, status, j)
                 \/ \E v \in Users \ {u}, status \in Statuses \ {"none"} : RespondElsewhere(u, v, status, j)
          PROVE  twice' = twice /\ forced' = forced
      BY <3>2 DEF Hear, Respond, RespondElsewhere, history
    <3>4. ASSUME NEW u \in Users, Lose(u) \/ Connect(u) \/ \E s \in ghosts[u] : Notice(u, s)
          PROVE  twice' = twice /\ forced' = forced
      BY <3>4 DEF Lose, Connect, Notice, history
    <3>5. CASE UNCHANGED vars
      BY <3>5 DEF vars, history
    <3>6. CASE Next
      BY <1>5, <3>1, <3>2, <3>4, <3>6 DEF Next
    <3> QED
      BY <3>5, <3>6
  <2>4. \A k \in Places : hand'[k].at \in {"insert", "reverse", "mirror"} => hand'[k] = hand[k]
    BY <2>2
  <2> QED
    BY <1>1, <2>1, <2>3, <2>4
<1>6. \A j \in Places : hand[j].at = "reverse" /\ hand[j].live => rows[<<hand[j].other, hand[j].user>>] # "none"
  BY JobsAre DEF Known
<1>7. ASSUME NEW j \in Places, FindReverse(j) PROVE OneRows'
  BY <1>6, <1>7, <1>f DEF FindReverse
<1> QED
  BY <1>2, <1>k, <1>7, <1>u, <1>3, <1>4, <1>5

\* Known, for one request under way.
KnownJob(w) ==
  /\ w.kind \in {"incoming", "respond"} => \A v \in w.got : rows[<<v, w.user>>] # "none"
  /\ w.kind = "respond" /\ w.live => rows[<<w.other, w.user>>] # "none"

\* Every step keeps rows for what the pages know.
LEMMA KnownKept == TypeOK /\ TypeOK' /\ Steps /\ Known /\ [Next]_vars => Known'
<1> SUFFICES ASSUME TypeOK, TypeOK', Steps, Known, [Next]_vars PROVE Known'
  OBVIOUS
<1> DEFINE Pg == \A u \in Users : \A v \in page'[u].incoming : rows[<<v, u>>] # "none"
           Jb == \A j \in Places : KnownJob(hand'[j])
<1>0. /\ page \in [Users -> [incoming : SUBSET Users, friends : SUBSET Users]]
      /\ \A u \in Users : u \notin page[u].incoming
  BY DEF TypeOK
<1>1. \A j \in Places : KnownJob(hand[j])
  BY DEF Known, KnownJob
<1>2. \A u \in Users : \A v \in page[u].incoming : rows[<<v, u>>] # "none"
  BY DEF Known
<1>4. ASSUME Pg, Jb PROVE Known'
  <2>1. \A u, v \in Users : u # v /\ rows[<<u, v>>] # "none" => rows'[<<u, v>>] # "none"
    BY RowsOnlyCome DEF Pairs
  <2>2. /\ page' \in [Users -> [incoming : SUBSET Users, friends : SUBSET Users]]
        /\ \A u \in Users : u \notin page'[u].incoming
    BY DEF TypeOK
  <2>3. \A u \in Users : \A v \in page'[u].incoming : rows'[<<v, u>>] # "none"
    BY <1>4, <2>1, <2>2
  <2>4. ASSUME NEW j \in Places PROVE /\ hand'[j].kind \in {"incoming", "respond"} =>
                                            \A v \in hand'[j].got : rows'[<<v, hand'[j].user>>] # "none"
                                      /\ hand'[j].kind = "respond" /\ hand'[j].live =>
                                            rows'[<<hand'[j].other, hand'[j].user>>] # "none"
    <3>1. JobOK(hand'[j])
      BY StepsKept DEF Steps, JobOK
    <3>2. /\ hand'[j].kind # "none" => hand'[j].user \in Users /\ hand'[j].user \notin hand'[j].got
          /\ hand'[j].kind = "respond" => hand'[j].other \in Users \ {hand'[j].user}
          /\ hand'[j].got \in SUBSET Users
      BY <3>1, JobIs
    <3>3. KnownJob(hand'[j])
      BY <1>4
    <3> QED
      BY <2>1, <3>2, <3>3 DEF KnownJob
  <2> QED
    BY <2>3, <2>4 DEF Known
<1> HIDE DEF Pg, Jb
<1>p. ASSUME page' = page PROVE Pg
  BY <1>p, <1>2 DEF Pg
<1>j. ASSUME NEW j \in Places, KnownJob(hand'[j]), \A k \in Places \ {j} : hand'[k] = hand[k] PROVE Jb
  BY <1>j, <1>1 DEF Jb, KnownJob
<1>5. ASSUME NEW j \in Places, InsertRequest(j) PROVE Known'
  <2>1. page' = page
    BY <1>5 DEF InsertRequest
  <2>2. hand[j].at # "idle" /\ (Goes(j, "tell") \/ Done(j)) /\ hand[j].kind = "request"
    BY <1>5 DEF InsertRequest
  <2>3. (hand'[j].kind = "none" \/ hand'[j].kind = "request") /\ \A k \in Places \ {j} : hand'[k] = hand[k]
    BY <2>2, Ended, Advanced
  <2>4. KnownJob(hand'[j])
    BY <2>3 DEF KnownJob
  <2> QED
    BY <1>4, <1>p, <1>j, <2>1, <2>3, <2>4
<1>6. ASSUME NEW j \in Places, TellRequested(j) PROVE Known'
  <2>1. page' = page /\ Done(j)
    BY <1>6 DEF TellRequested
  <2>2. KnownJob(hand'[j]) /\ \A k \in Places \ {j} : hand'[k] = hand[k]
    BY <2>1, Ended DEF KnownJob
  <2> QED
    BY <1>4, <1>p, <1>j, <2>1, <2>2
<1>7. ASSUME NEW j \in Places, UpdateStatus(j) \/ FindReverse(j) \/ InsertReverse(j) PROVE Known'
  <2>1. /\ page' = page /\ hand[j].at # "idle"
        /\ Done(j) \/ \E at \in {"reverse", "mirror", "tell"} : Goes(j, at)
    BY <1>7 DEF UpdateStatus, FindReverse, InsertReverse
  <2>2. KnownJob(hand'[j]) /\ \A k \in Places \ {j} : hand'[k] = hand[k]
    <3>1. CASE Done(j)
      BY <3>1, Ended DEF KnownJob
    <3>2. ASSUME NEW at, Goes(j, at) PROVE KnownJob(hand'[j]) /\ \A k \in Places \ {j} : hand'[k] = hand[k]
      BY <1>1, <2>1, <3>2, Advanced DEF KnownJob, Same
    <3> QED
      BY <2>1, <3>1, <3>2
  <2> QED
    BY <1>4, <1>p, <1>j, <2>1, <2>2
<1>8. ASSUME NEW j \in Places, TellResponded(j) PROVE Known'
  <2>1. page' = page /\ hand[j].kind = "respond" /\ (hand[j].live \/ Done(j))
    BY <1>8 DEF TellResponded
  <2>2. KnownJob(hand'[j]) /\ \A k \in Places \ {j} : hand'[k] = hand[k]
    <3>1. CASE Done(j)
      BY <3>1, Ended DEF KnownJob
    <3>2. CASE hand[j].live
      BY <1>1, <1>8, <2>1, <3>2, Reloads DEF KnownJob, Same
    <3> QED
      BY <2>1, <3>1, <3>2
  <2> QED
    BY <1>4, <1>p, <1>j, <2>1, <2>2
<1>9. ASSUME NEW j \in Places, SelectList(j) PROVE Known'
  <2>1. page' = page
    BY <1>9 DEF SelectList
  <2>2. KnownJob(hand'[j]) /\ \A k \in Places \ {j} : hand'[k] = hand[k]
    <3>1. hand[j].kind \in {"incoming", "friends"}
      BY <1>9 DEF SelectList, Lists
    <3>2. \A v \in Incoming(hand[j].user) : rows[<<v, hand[j].user>>] # "none"
      BY DEF Incoming
    <3>3. /\ hand'[j].kind = hand[j].kind /\ hand'[j].user = hand[j].user
          /\ hand[j].kind = "incoming" => hand'[j].got = Incoming(hand[j].user)
      BY <1>9, Selected DEF Same
    <3>4. KnownJob(hand'[j])
      BY <3>1, <3>2, <3>3 DEF KnownJob
    <3> QED
      BY <3>4, <1>9, Selected
  <2> QED
    BY <1>4, <1>p, <1>j, <2>1, <2>2
<1>10. ASSUME NEW j \in Places, ShowList(j) PROVE Known'
  <2>1. Done(j) /\ hand[j].kind \in {"incoming", "friends"}
    BY <1>10 DEF ShowList, Lists
  <2>2. KnownJob(hand'[j]) /\ \A k \in Places \ {j} : hand'[k] = hand[k]
    BY <2>1, Ended DEF KnownJob
  <2>3. Jb
    BY <1>j, <2>2
  <2>4. hand[j].user \in Users
    BY <2>1, JobsAre
  <2>5. page' = IF hand[j].live THEN [page EXCEPT ![hand[j].user][hand[j].kind] = hand[j].got] ELSE page
    BY <1>10 DEF ShowList
  <2>6. CASE ~hand[j].live
    BY <1>4, <1>p, <2>3, <2>5, <2>6
  <2>7. CASE hand[j].live /\ hand[j].kind = "friends"
    <3>1. \A u \in Users : page'[u].incoming = page[u].incoming
      BY <1>0, <2>4, <2>5, <2>7
    <3>2. Pg
      BY <1>2, <3>1 DEF Pg
    <3> QED
      BY <1>4, <2>3, <3>2
  <2>8. CASE hand[j].live /\ hand[j].kind = "incoming"
    <3>1. \A u \in Users : page'[u].incoming = IF u = hand[j].user THEN hand[j].got ELSE page[u].incoming
      BY <1>0, <2>4, <2>5, <2>8
    <3>2. Pg
      BY <1>1, <1>2, <2>8, <3>1, ZenonT(40) DEF Pg, KnownJob
    <3> QED
      BY <1>4, <2>3, <3>2
  <2> QED
    BY <2>1, <2>6, <2>7, <2>8, JobsAre
<1>11. ASSUME NEW j \in Places, NEW u \in Users, Hear(u, j) PROVE Known'
  <2>1. page' = page
    BY <1>11 DEF Hear
  <2>2. KnownJob(hand'[j]) /\ \A k \in Places \ {j} : hand'[k] = hand[k]
    BY <1>11, Listening DEF KnownJob, ListOf
  <2> QED
    BY <1>4, <1>p, <1>j, <2>1, <2>2
<1>12. ASSUME NEW j \in Places, NEW u \in Users, NEW v \in Users \ {u}, Request(u, v, j) PROVE Known'
  <2>1. page' = page
    BY <1>12 DEF Request
  <2>2. KnownJob(hand'[j]) /\ \A k \in Places \ {j} : hand'[k] = hand[k]
    BY <1>12, Asked DEF KnownJob
  <2> QED
    BY <1>4, <1>p, <1>j, <2>1, <2>2
<1>13. ASSUME NEW j \in Places, NEW u \in Users, NEW v \in Users \ {u},
              NEW status \in {"accepted", "blocked"}, Respond(u, v, status, j) PROVE Known'
  <2>1. page' = page /\ v \in page[u].incoming
    BY <1>13 DEF Respond
  <2>2. KnownJob(hand'[j]) /\ \A k \in Places \ {j} : hand'[k] = hand[k]
    <3>1. /\ hand'[j].kind = "respond" /\ hand'[j].user = u /\ hand'[j].got = {} /\ hand'[j].other = v
          /\ \A k \in Places \ {j} : hand'[k] = hand[k]
      BY <1>13, Answered
    <3>2. rows[<<v, u>>] # "none"
      BY <1>2, <2>1
    <3>3. KnownJob(hand'[j])
      BY <3>1, <3>2 DEF KnownJob
    <3> QED
      BY <3>1, <3>3
  <2> QED
    BY <1>4, <1>p, <1>j, <2>1, <2>2
<1>e. ASSUME NEW j \in Places, NEW u \in Users, NEW v \in Users \ {u},
             NEW status \in Statuses \ {"none"}, RespondElsewhere(u, v, status, j) PROVE Known'
  <2>1. page' = page
    BY <1>e DEF RespondElsewhere
  <2>2. KnownJob(hand'[j]) /\ \A k \in Places \ {j} : hand'[k] = hand[k]
    <3>1. /\ hand'[j].kind = "respond" /\ hand'[j].live = FALSE /\ hand'[j].got = {}
          /\ \A k \in Places \ {j} : hand'[k] = hand[k]
      BY <1>e, AnsweredElsewhere
    <3> QED
      BY <3>1 DEF KnownJob
  <2> QED
    BY <1>4, <1>p, <1>j, <2>1, <2>2
<1>14. ASSUME NEW i \in Places, NEW j \in Places, NEW u \in Users, Visit(u, i, j) PROVE Known'
  <2>0. /\ i # j /\ hand[i].kind = "none" /\ hand[j].kind = "none"
        /\ hand'[i].kind = "incoming" /\ hand'[j].kind = "friends"
        /\ \A k \in {i, j} : hand'[k].user = u /\ hand'[k].at = "select" /\ hand'[k].live /\ hand'[k].got = {}
        /\ \A k \in Places \ {i, j} :
              /\ hand[k].user # u => hand'[k] = hand[k]
              /\ hand[k].user = u => /\ hand'[k].kind = hand[k].kind /\ hand'[k].at = hand[k].at
                                     /\ Same(hand'[k], hand[k]) /\ hand'[k].got = hand[k].got
                                     /\ hand'[k].live = FALSE
    BY <1>14, Visited
  <2>1. Pg
    BY <1>0, <1>2, <1>14 DEF Visit, NoPage, Pg
  <2>2. Jb
    <3>1. KnownJob(hand'[i]) /\ KnownJob(hand'[j])
      BY <1>14, Visited DEF KnownJob
    <3>2. \A k \in Places \ {i, j} : KnownJob(hand'[k])
      <4> TAKE k \in Places \ {i, j}
      <4>1. CASE hand[k].user = u
        BY <1>1, <2>0, <4>1 DEF KnownJob, Same
      <4>2. CASE hand[k].user # u
        BY <1>1, <2>0, <4>2 DEF KnownJob
      <4> QED
        BY <4>1, <4>2
    <3> QED
      BY <3>1, <3>2 DEF Jb
  <2> QED
    BY <1>4, <2>1, <2>2
<1>15. ASSUME UNCHANGED <<page, hand>> PROVE Known'
  BY <1>15, <1>4, <1>p, <1>1 DEF Jb, KnownJob
<1>16. ASSUME NEW u \in Users, Lose(u) \/ Connect(u) \/ \E s \in ghosts[u] : Notice(u, s) PROVE Known'
  BY <1>15, <1>16 DEF Lose, Connect, Notice
<1>17. CASE UNCHANGED vars
  BY <1>15, <1>17 DEF vars
<1> QED
  BY <1>5, <1>6, <1>7, <1>8, <1>9, <1>10, <1>11, <1>12, <1>13, <1>e, <1>14, <1>16, <1>17 DEF Next

\* The steps that start no load and no answer of a page.
LEMMA LoadsStand ==
  ASSUME Steps, NEW j \in Places,
         \/ InsertRequest(j) \/ TellRequested(j) \/ UpdateStatus(j) \/ TellResponded(j)
         \/ FindReverse(j) \/ InsertReverse(j) \/ SelectList(j) \/ ShowList(j)
         \/ \E u \in Users : \E v \in Users \ {u} : Request(u, v, j)
         \/ \E u \in Users : \E v \in Users \ {u}, status \in Statuses \ {"none"} : RespondElsewhere(u, v, status, j)
  PROVE  /\ \A k \in Places, u \in Users, list \in Lists : Loads(k, u, list)' => Loads(k, u, list)
         /\ \A k \in Places \ {j} : hand'[k] = hand[k]
         /\ UNCHANGED shaken
<1> USE DEF Loads, Lists
<1> DEFINE Stand == /\ \A k \in Places, u \in Users, list \in Lists : Loads(k, u, list)' => Loads(k, u, list)
                    /\ \A k \in Places \ {j} : hand'[k] = hand[k]
                    /\ UNCHANGED shaken
<1>1. ASSUME Done(j), UNCHANGED shaken PROVE Stand
  BY <1>1, Ended
<1>2. ASSUME NEW at, hand[j].at # "idle", Goes(j, at), UNCHANGED shaken PROVE Stand
  BY <1>2, Advanced DEF Same
<1>3. CASE InsertRequest(j) \/ TellRequested(j) \/ ShowList(j) \/ InsertReverse(j)
  <2>1. hand[j].at # "idle" /\ UNCHANGED shaken /\ (Done(j) \/ Goes(j, "tell"))
    BY <1>3 DEF InsertRequest, TellRequested, ShowList, InsertReverse, history
  <2> QED
    BY <1>1, <1>2, <2>1
<1>4. CASE TellResponded(j)
  <2>1. hand[j].kind = "respond" /\ UNCHANGED shaken /\ (Done(j) \/ hand[j].live)
    BY <1>4 DEF TellResponded, history
  <2>2. CASE Done(j)
    BY <1>1, <2>1, <2>2
  <2>3. CASE hand[j].live
    BY <1>4, <2>1, <2>3, Reloads DEF Same
  <2> QED
    BY <2>1, <2>2, <2>3
<1>5. CASE SelectList(j)
  <2>1. UNCHANGED shaken
    BY <1>5 DEF SelectList, history
  <2> QED
    BY <1>5, <2>1, Selected DEF Same
<1>6. ASSUME NEW u \in Users, NEW v \in Users \ {u}, Request(u, v, j) PROVE Stand
  <2>1. UNCHANGED shaken
    BY <1>6 DEF Request
  <2> QED
    BY <1>6, <2>1, Asked
<1>7. ASSUME NEW u \in Users, NEW v \in Users \ {u}, NEW status \in Statuses \ {"none"},
             RespondElsewhere(u, v, status, j)
      PROVE  Stand
  <2>1. UNCHANGED shaken
    BY <1>7 DEF RespondElsewhere, history
  <2> QED
    BY <1>7, <2>1, AnsweredElsewhere
<1>8. CASE UpdateStatus(j)
  <2>1. UNCHANGED shaken
    BY <1>8 DEF UpdateStatus
  <2>2. CASE Done(j)
    BY <1>1, <2>1, <2>2
  <2>3. CASE ~Done(j)
    <3>1. hand[j].kind = "respond"
      BY <1>8 DEF UpdateStatus
    <3> QED
      BY <1>8, <2>1, <2>3, <3>1, Updated DEF Same
  <2> QED
    BY <2>2, <2>3
<1>9. CASE FindReverse(j)
  <2>1. UNCHANGED shaken
    BY <1>9 DEF FindReverse, history
  <2> QED
    BY <1>9, <2>1, Found DEF Same
<1> QED
  BY <1>3, <1>4, <1>5, <1>6, <1>7, <1>8, <1>9

\* Every step keeps one load of each list.
LEMMA LoadsKept == TypeOK /\ Steps /\ OneLoad /\ [Next]_vars => OneLoad'
<1> SUFFICES ASSUME TypeOK, Steps, OneLoad, [Next]_vars PROVE OneLoad'
  OBVIOUS
<1>1. ASSUME \A k \in Places, u \in Users, list \in Lists : Loads(k, u, list)' => Loads(k, u, list),
             shaken \subseteq shaken'
      PROVE  OneLoad'
  BY <1>1 DEF OneLoad
<1>2. ASSUME NEW j \in Places,
             \/ InsertRequest(j) \/ TellRequested(j) \/ UpdateStatus(j) \/ TellResponded(j)
             \/ FindReverse(j) \/ InsertReverse(j) \/ SelectList(j) \/ ShowList(j)
             \/ \E u \in Users : \E v \in Users \ {u} : Request(u, v, j)
             \/ \E u \in Users : \E v \in Users \ {u}, status \in Statuses \ {"none"} : RespondElsewhere(u, v, status, j)
      PROVE  OneLoad'
  <2>1. /\ \A k \in Places, u \in Users, list \in Lists : Loads(k, u, list)' => Loads(k, u, list)
        /\ shaken' = shaken
    BY <1>2, LoadsStand
  <2> QED
    BY <1>1, <2>1
<1>3. ASSUME NEW j \in Places, NEW u \in Users, NEW list \in Lists,
             \A k \in Places \ {j} : hand'[k] = hand[k],
             \A l \in Lists : Loads(j, u, l)' => l = list,
             hand'[j].user = u, hand'[j].live,
             shaken' = IF Loading(u, list) THEN shaken \union {u} ELSE shaken
      PROVE  OneLoad'
  <2>2. ASSUME NEW w \in Users, w \notin shaken', NEW l \in Lists, NEW i \in Places, NEW k \in Places,
               Loads(i, w, l)', Loads(k, w, l)', i # k
        PROVE  FALSE
    <3>1. \A x \in Places \ {j} : Loads(x, w, l)' <=> Loads(x, w, l)
      BY <1>3 DEF Loads
    <3>2. i = j \/ k = j
      BY <1>3, <2>2, <3>1 DEF OneLoad
    <3>3. w = u /\ l = list
      BY <1>3, <2>2, <3>2 DEF Loads
    <3>4. ~Loading(u, list)
      BY <1>3, <2>2, <3>3
    <3>5. \A x \in Places : ~Loads(x, u, list)
      BY <3>4 DEF Loading, Loads
    <3> QED
      BY <2>2, <3>1, <3>2, <3>3, <3>5
  <2> QED
    BY <2>2 DEF OneLoad
<1>4. ASSUME NEW j \in Places, NEW u \in Users, Hear(u, j) PROVE OneLoad'
  <2> DEFINE list == ListOf(Head(net[u]))
  <2>1. list \in Lists
    BY DEF ListOf, Lists
  <2>2. shaken' = IF Loading(u, list) THEN shaken \union {u} ELSE shaken
    BY <1>4 DEF Hear
  <2>3. /\ \A k \in Places \ {j} : hand'[k] = hand[k]
        /\ hand'[j].user = u /\ hand'[j].live /\ hand'[j].kind = list
    BY <1>4, Listening
  <2> HIDE DEF list
  <2>4. \A l \in Lists : Loads(j, u, l)' => l = list
    BY <2>1, <2>3 DEF Loads, Lists
  <2> QED
    BY <1>3, <2>1, <2>2, <2>3, <2>4
<1>5. ASSUME NEW j \in Places, NEW u \in Users, NEW v \in Users \ {u},
             NEW status \in {"accepted", "blocked"}, Respond(u, v, status, j)
      PROVE  OneLoad'
  <2>1. shaken' = IF Loading(u, "incoming") THEN shaken \union {u} ELSE shaken
    BY <1>5 DEF Respond
  <2>2. /\ \A k \in Places \ {j} : hand'[k] = hand[k]
        /\ hand'[j].user = u /\ hand'[j].live = TRUE /\ hand'[j].kind = "respond"
    BY <1>5, Answered
  <2>3. \A l \in Lists : Loads(j, u, l)' => l = "incoming"
    BY <2>2 DEF Loads, Lists
  <2>4. "incoming" \in Lists
    BY DEF Lists
  <2> QED
    BY <1>3, <2>1, <2>2, <2>3, <2>4
<1>6. ASSUME NEW i \in Places, NEW j \in Places, NEW u \in Users, Visit(u, i, j)
      PROVE  OneLoad'
  <2>0. /\ i # j /\ hand[i].kind = "none" /\ hand[j].kind = "none"
        /\ hand'[i].kind = "incoming" /\ hand'[j].kind = "friends"
        /\ \A k \in {i, j} : hand'[k].user = u /\ hand'[k].at = "select" /\ hand'[k].live /\ hand'[k].got = {}
        /\ \A k \in Places \ {i, j} :
              /\ hand[k].user # u => hand'[k] = hand[k]
              /\ hand[k].user = u => /\ hand'[k].kind = hand[k].kind /\ hand'[k].at = hand[k].at
                                     /\ Same(hand'[k], hand[k]) /\ hand'[k].got = hand[k].got
                                     /\ hand'[k].live = FALSE
    BY <1>6, Visited
  <2>1. \A k \in Places : /\ Loads(k, u, "incoming")' => k = i
                          /\ Loads(k, u, "friends")' => k = j
    BY <2>0 DEF Loads, Same, Lists
  <2>2. \A k \in Places, w \in Users \ {u}, l \in Lists : Loads(k, w, l)' => Loads(k, w, l)
    BY <2>0 DEF Loads, Same, Lists
  <2>3. shaken \ {u} \subseteq shaken'
    BY <1>6 DEF Visit
  <2>4. OneLoad'
    BY <2>1, <2>2, <2>3 DEF OneLoad, Lists
  <2> QED
    BY <2>4
<1>7. ASSUME UNCHANGED hand, shaken \subseteq shaken' PROVE OneLoad'
  BY <1>7 DEF OneLoad, Loads
<1>8. ASSUME NEW u \in Users, Lose(u) \/ Connect(u) \/ \E s \in ghosts[u] : Notice(u, s)
      PROVE  OneLoad'
  BY <1>7, <1>8 DEF Lose, Connect, Notice, history
<1>9. CASE UNCHANGED vars
  BY <1>7, <1>9 DEF vars, history
<1> QED
  BY <1>2, <1>4, <1>5, <1>6, <1>8, <1>9 DEF Next

\* What is among the events of a queue, when one more comes ...
LEMMA HeardAppended ==
  ASSUME NEW q \in Seq(Events), NEW y \in Events
  PROVE  /\ \A x : HeardIn(q, x) => HeardIn(q \o <<y>>, x)
         /\ HeardIn(q \o <<y>>, y)
<1>1. Len(q) \in Nat /\ DOMAIN q = 1..Len(q)
  OBVIOUS
<1>2. /\ DOMAIN (q \o <<y>>) = 1..Len(q)+1
      /\ (q \o <<y>>)[Len(q) + 1] = y /\ \A i \in 1..Len(q) : (q \o <<y>>)[i] = q[i]
  OBVIOUS
<1> QED
  BY <1>1, <1>2 DEF HeardIn

\* ... and when the first goes, if it was another.
LEMMA HeardTail ==
  ASSUME NEW q \in Seq(Events), q # <<>>, NEW x, Head(q) # x, HeardIn(q, x)
  PROVE  HeardIn(Tail(q), x)
<1>1. Len(q) \in Nat /\ DOMAIN q = 1..Len(q)
  OBVIOUS
<1>2. PICK i \in DOMAIN q : q[i] = x
  BY DEF HeardIn
<1>3. i \in 1..Len(q) /\ i # 1
  BY <1>1, <1>2
<1>4. DOMAIN Tail(q) = 1..Len(q)-1 /\ \A k \in 1..Len(q)-1 : Tail(q)[k] = q[k + 1]
  OBVIOUS
<1>5. i - 1 \in 1..Len(q)-1 /\ Tail(q)[i - 1] = q[i]
  BY <1>1, <1>3, <1>4
<1> QED
  BY <1>2, <1>4, <1>5 DEF HeardIn

\* what: <<event>>, or <<>>
Grown(n, m) == \A w \in Users : \A x \in Events : HeardIn(n[w], x) => HeardIn(m[w], x)

\* emitToEmail takes no event away, and reaches a user who is registered.
LEMMA EmittedIs ==
  ASSUME NEW n \in [Users -> Seq(Events)], NEW u \in Users, NEW what \in Events,
         NEW m, m = Emitted(n, u, <<what>>)
  PROVE  /\ m \in [Users -> Seq(Events)]
         /\ Grown(n, m)
         /\ userSockets[u] # 0 /\ userSockets[u] = sock[u] => HeardIn(m[u], what)
<1>1. n[u] \in Seq(Events) /\ n[u] \o <<what>> \in Seq(Events)
  OBVIOUS
<1>2. /\ \A x : HeardIn(n[u], x) => HeardIn(n[u] \o <<what>>, x)
      /\ HeardIn(n[u] \o <<what>>, what)
  BY <1>1, HeardAppended
<1>3. CASE userSockets[u] # 0 /\ userSockets[u] = sock[u]
  <2>1. m = [n EXCEPT ![u] = n[u] \o <<what>>]
    BY <1>3 DEF Emitted
  <2>2. m \in [Users -> Seq(Events)] /\ m[u] = n[u] \o <<what>> /\ \A w \in Users \ {u} : m[w] = n[w]
    BY <1>1, <2>1
  <2> QED
    BY <1>2, <2>2 DEF Grown
<1>4. CASE ~(userSockets[u] # 0 /\ userSockets[u] = sock[u])
  <2>1. m = n
    BY <1>4 DEF Emitted
  <2> QED
    BY <1>4, <2>1 DEF Grown
<1> QED
  BY <1>3, <1>4

\* A calm user is registered.
LEMMA CalmConnected ==
  ASSUME Sockets, NEW u \in Users, Calm(u)
  PROVE  userSockets[u] # 0 /\ userSockets[u] = sock[u]
BY DEF Sockets, Calm

\* Only a visit makes a user calm.
LEMMA CalmStays ==
  ASSUME Sockets, [Next]_vars, NEW w \in Users, Calm(w)', \A i, j \in Places : ~Visit(w, i, j)
  PROVE  Calm(w)
<1> USE DEF Calm
<1>1. ASSUME shaken \subseteq shaken', cut \subseteq cut', twice \subseteq twice' PROVE Calm(w)
  BY <1>1
<1>2. ASSUME NEW j \in Places,
             \/ InsertRequest(j) \/ TellRequested(j) \/ UpdateStatus(j) \/ TellResponded(j)
             \/ FindReverse(j) \/ InsertReverse(j) \/ SelectList(j) \/ ShowList(j)
      PROVE  Calm(w)
  BY <1>1, <1>2
     DEF InsertRequest, TellRequested, UpdateStatus, TellResponded, FindReverse, InsertReverse, SelectList, ShowList,
         history
<1>3. ASSUME NEW j \in Places, NEW u \in Users,
             \/ Hear(u, j)
             \/ \E v \in Users \ {u} : Request(u, v, j)
             \/ \E v \in Users \ {u}, status \in {"accepted", "blocked"} : Respond(u, v, status, j)
             \/ \E v \in Users \ {u}, status \in Statuses \ {"none"} : RespondElsewhere(u, v, status, j)
      PROVE  Calm(w)
  BY <1>1, <1>3 DEF Hear, Request, Respond, RespondElsewhere, history
<1>4. ASSUME NEW i \in Places, NEW j \in Places, NEW u \in Users, Visit(u, i, j) PROVE Calm(w)
  BY <1>4 DEF Visit
<1>5. ASSUME NEW u \in Users, Connect(u) PROVE Calm(w)
  <2>1. u = w => w \in shaken /\ shaken' = shaken
    BY <1>5 DEF Connect, Sockets
  <2> QED
    BY <1>5, <2>1 DEF Connect
<1>6. ASSUME NEW u \in Users, Lose(u) \/ \E s \in ghosts[u] : Notice(u, s) PROVE Calm(w)
  BY <1>1, <1>6 DEF Lose, Notice, history
<1>7. CASE UNCHANGED vars
  BY <1>1, <1>7 DEF vars, history
<1> QED
  BY <1>2, <1>3, <1>4, <1>5, <1>6, <1>7 DEF Next

\* Only a visit forgets what happened to the friendships of a user.
LEMMA HistoryStays ==
  ASSUME [Next]_vars, NEW w \in Users, \A i, j \in Places : ~Visit(w, i, j)
  PROVE  (w \in parted => w \in parted') /\ (w \in untold => w \in untold')
<1> DEFINE Stays == (w \in parted => w \in parted') /\ (w \in untold => w \in untold')
<1>1. ASSUME parted \subseteq parted', untold \subseteq untold' PROVE Stays
  BY <1>1
<1>2. ASSUME NEW j \in Places,
             \/ InsertRequest(j) \/ TellRequested(j) \/ UpdateStatus(j) \/ TellResponded(j)
             \/ FindReverse(j) \/ InsertReverse(j) \/ SelectList(j) \/ ShowList(j)
      PROVE  Stays
  <2>1. CASE UpdateStatus(j)
    <3>1. parted \subseteq parted' /\ untold \subseteq untold'
      BY <2>1 DEF UpdateStatus
    <3> QED
      BY <1>1, <3>1
  <2>2. CASE ~UpdateStatus(j)
    BY <1>1, <1>2, <2>2
       DEF InsertRequest, TellRequested, TellResponded, FindReverse, InsertReverse, SelectList, ShowList, history
  <2> QED
    BY <2>1, <2>2
<1>3. ASSUME NEW j \in Places, NEW u \in Users,
             \/ Hear(u, j)
             \/ \E v \in Users \ {u} : Request(u, v, j)
             \/ \E v \in Users \ {u}, status \in {"accepted", "blocked"} : Respond(u, v, status, j)
             \/ \E v \in Users \ {u}, status \in Statuses \ {"none"} : RespondElsewhere(u, v, status, j)
      PROVE  Stays
  BY <1>1, <1>3 DEF Hear, Request, Respond, RespondElsewhere, history
<1>4. ASSUME NEW i \in Places, NEW j \in Places, NEW u \in Users, Visit(u, i, j) PROVE Stays
  BY <1>4 DEF Visit
<1>5. ASSUME NEW u \in Users, Connect(u) \/ Lose(u) \/ \E s \in ghosts[u] : Notice(u, s) PROVE Stays
  BY <1>1, <1>5 DEF Connect, Lose, Notice, history
<1>6. CASE UNCHANGED vars
  BY <1>1, <1>6 DEF vars, history
<1> QED
  BY <1>2, <1>3, <1>4, <1>5, <1>6 DEF Next

\* A step of one place that changes neither the requests of w nor the page of w,
\* and takes nothing away that will change it, leaves the requests right.
LEMMA IncomingStands ==
  ASSUME NEW w \in Users, IncomingRight(w), NEW j \in Places,
         Incoming(w)' = Incoming(w), page'[w].incoming = page[w].incoming,
         Heard(w, "created") => Heard(w, "created")',
         \A k \in Places \ {j} : hand'[k] = hand[k],
         ~(hand[j].kind = "request" /\ hand[j].at = "tell" /\ hand[j].other = w),
         ~Loads(j, w, "incoming"), ~Brings(j, w, "incoming")'
  PROVE  IncomingRight(w)'
<1>1. \A k \in Places \ {j} : /\ Loads(k, w, "incoming")' <=> Loads(k, w, "incoming")
                              /\ Brings(k, w, "incoming")' <=> Brings(k, w, "incoming")
  BY DEF Loads, Brings
<1>2. CASE DueIncoming(w)
  <2>1. DueIncoming(w)'
    <3>1. ASSUME NEW k \in Places, hand[k].kind = "request", hand[k].at = "tell", hand[k].other = w
          PROVE  DueIncoming(w)'
      BY <3>1 DEF DueIncoming
    <3>2. ASSUME NEW k \in Places, Loads(k, w, "incoming"), hand[k].at # "answer" PROVE DueIncoming(w)'
      BY <1>1, <3>2 DEF DueIncoming
    <3>3. ASSUME Heard(w, "created") PROVE DueIncoming(w)'
      BY <3>3 DEF DueIncoming
    <3> QED
      BY <1>2, <3>1, <3>2, <3>3 DEF DueIncoming
  <2> QED
    BY <2>1 DEF IncomingRight
<1>3. CASE ~DueIncoming(w)
  BY <1>1, <1>3 DEF IncomingRight, Brings
<1> QED
  BY <1>2, <1>3

\* Every step leaves the requests of every calm user right.
LEMMA IncomingKept ==
  TypeOK /\ Sockets /\ Steps /\ OneRows /\ Known /\ OneLoad /\ FreshIncoming /\ [Next]_vars
    => FreshIncoming'
<1> SUFFICES ASSUME TypeOK, Sockets, Steps, OneRows, Known, OneLoad, FreshIncoming, [Next]_vars,
                    NEW w \in Users, Calm(w)', w \notin untold'
             PROVE  IncomingRight(w)'
  BY DEF FreshIncoming
<1>0. /\ rows \in [Pairs -> Statuses] /\ net \in [Users -> Seq(Events)]
      /\ page \in [Users -> [incoming : SUBSET Users, friends : SUBSET Users]]
  BY DEF TypeOK
<1>e. "created" \in Events /\ "list" \in Events
  BY DEF Events
<1>1. ASSUME NEW i \in Places, NEW j \in Places, Visit(w, i, j) PROVE IncomingRight(w)'
  <2>1. Loads(i, w, "incoming")' /\ hand'[i].at # "answer"
    BY <1>1, Visited DEF Loads
  <2> QED
    BY <2>1 DEF IncomingRight, DueIncoming
<1> SUFFICES ASSUME \A i, j \in Places : ~Visit(w, i, j) PROVE IncomingRight(w)'
  BY <1>1
<1>c. Calm(w) /\ IncomingRight(w)
  BY CalmStays, HistoryStays DEF FreshIncoming
<1>l. userSockets[w] # 0 /\ userSockets[w] = sock[w] /\ w \notin shaken
  BY <1>c, CalmConnected DEF Calm
<1>r. ASSUME rows' = rows PROVE Incoming(w)' = Incoming(w)
  BY <1>r DEF Incoming
<1>s. ASSUME \A q \in Pairs : rows'[q] = "pending" <=> rows[q] = "pending" PROVE Incoming(w)' = Incoming(w)
  <2>1. \A x \in Users \ {w} : <<x, w>> \in Pairs
    BY DEF Pairs
  <2> QED
    BY <1>s, <2>1 DEF Incoming
<1>n. ASSUME net' = net PROVE Heard(w, "created") => Heard(w, "created")'
  BY <1>n DEF Heard
<1>j. ASSUME NEW j \in Places, Incoming(w)' = Incoming(w), page'[w].incoming = page[w].incoming,
             Heard(w, "created") => Heard(w, "created")',
             \A k \in Places \ {j} : hand'[k] = hand[k],
             ~(hand[j].kind = "request" /\ hand[j].at = "tell" /\ hand[j].other = w),
             ~Loads(j, w, "incoming"), ~Brings(j, w, "incoming")'
      PROVE  IncomingRight(w)'
  BY <1>c, <1>j, IncomingStands
<1>d. ASSUME NEW j \in Places, Loads(j, w, "incoming")', hand'[j].at # "answer" PROVE IncomingRight(w)'
  BY <1>d DEF IncomingRight, DueIncoming
<1>h. ASSUME Heard(w, "created")' PROVE IncomingRight(w)'
  BY <1>h DEF IncomingRight, DueIncoming
<1>2. ASSUME NEW j \in Places, InsertRequest(j) PROVE IncomingRight(w)'
  <2> DEFINE u == hand[j].user
             v == hand[j].other
  <2>0. hand[j].kind = "request" /\ hand[j].at = "insert" /\ page' = page /\ net' = net
    BY <1>2 DEF InsertRequest
  <2>1. u \in Users /\ v \in Users \ {u}
    BY <2>0, JobsAre
  <2>2. ~Loads(j, w, "incoming")
    BY <2>0 DEF Loads
  <2>3. CASE rows[<<u, v>>] # "none"
    <3>1. Done(j) /\ rows' = rows
      BY <1>2, <2>3 DEF InsertRequest
    <3>2. ~Brings(j, w, "incoming")' /\ \A k \in Places \ {j} : hand'[k] = hand[k]
      BY <3>1, Ended DEF Brings, Loads
    <3> QED
      BY <1>j, <1>r, <1>n, <2>0, <2>2, <3>1, <3>2
  <2>4. CASE rows[<<u, v>>] = "none"
    <3>1. Goes(j, "tell") /\ rows' = [rows EXCEPT ![<<u, v>>] = "pending"]
      BY <1>2, <2>4 DEF InsertRequest
    <3>2. /\ \A k \in Places \ {j} : hand'[k] = hand[k]
          /\ hand'[j].kind = "request" /\ hand'[j].at = "tell" /\ hand'[j].other = v
      BY <2>0, <3>1, Advanced DEF Same
    <3>3. CASE v = w
      BY <3>2, <3>3 DEF IncomingRight, DueIncoming
    <3>4. CASE v # w
      <4>1. \A x \in Users \ {w} : rows'[<<x, w>>] = rows[<<x, w>>]
        BY <1>0, <3>1, <3>4 DEF Pairs
      <4>2. Incoming(w)' = Incoming(w)
        BY <4>1 DEF Incoming
      <4>3. ~Brings(j, w, "incoming")'
        BY <3>2 DEF Brings
      <4> QED
        BY <1>j, <1>n, <2>0, <2>2, <3>2, <4>2, <4>3
    <3> QED
      BY <3>3, <3>4
  <2> QED
    BY <2>3, <2>4
<1>3. ASSUME NEW j \in Places, TellRequested(j) PROVE IncomingRight(w)'
  <2> DEFINE v == hand[j].other
  <2>0. /\ hand[j].kind = "request" /\ hand[j].at = "tell" /\ page' = page /\ rows' = rows
        /\ net' = Emitted(net, v, <<"created">>) /\ Done(j)
    BY <1>3 DEF TellRequested
  <2>1. v \in Users
    BY <2>0, JobsAre
  <2> HIDE DEF v
  <2>2. Grown(net, net') /\ (v = w => HeardIn(net'[w], "created"))
    BY <1>0, <1>e, <1>l, <2>0, <2>1, EmittedIs
  <2>3. CASE v = w
    BY <1>h, <2>2, <2>3 DEF Heard
  <2>4. CASE v # w
    <3>1. Heard(w, "created") => Heard(w, "created")'
      BY <1>e, <2>2 DEF Heard, Grown
    <3>2. ~Loads(j, w, "incoming") /\ ~Brings(j, w, "incoming")' /\ \A k \in Places \ {j} : hand'[k] = hand[k]
      BY <2>0, Ended DEF Loads, Brings
    <3> QED
      BY <1>j, <1>r, <2>0, <2>4, <3>1, <3>2 DEF v
  <2> QED
    BY <2>3, <2>4
<1>4. ASSUME NEW j \in Places, UpdateStatus(j) PROVE IncomingRight(w)'
  <2> DEFINE u == hand[j].user
             v == hand[j].other
             status == hand[j].status
  <2>0. hand[j].kind = "respond" /\ hand[j].at = "update" /\ page' = page /\ net' = net
    BY <1>4 DEF UpdateStatus
  <2>1. u \in Users /\ v \in Users \ {u}
    BY <2>0, JobsAre
  <2>2. CASE Either(u, v) = {}
    <3>1. Done(j) /\ rows' = rows
      BY <1>4, <2>2 DEF UpdateStatus
    <3>2. rows[<<v, u>>] = "none"
      BY <2>2 DEF Either
    <3>3. ~hand[j].live
      BY <2>0, <3>2 DEF Known
    <3>4. /\ \A k \in Places \ {j} : hand'[k] = hand[k]
          /\ ~Loads(j, w, "incoming") /\ ~Brings(j, w, "incoming")'
      BY <3>1, <3>3, Ended DEF Loads, Brings
    <3> QED
      BY <1>j, <1>r, <1>n, <2>0, <3>1, <3>4
  <2>3. CASE Either(u, v) # {}
    <3>1. PICK p \in Either(u, v) :
            /\ rows' = [rows EXCEPT ![p] = status]
            /\ untold' = IF "pending" \in {rows[p], status} /\ rows[p] # status
                              /\ ~(hand[j].live /\ p[2] = u)
                         THEN untold \union {p[2]} ELSE untold
            /\ Goes(j, IF status = "accepted" THEN "reverse" ELSE "tell")
      BY <1>4, <2>3, Zenon DEF UpdateStatus
    <3>2. PICK at : Goes(j, at) /\ at # "answer"
      BY <3>1
    <3>3. /\ \A k \in Places \ {j} : hand'[k] = hand[k]
          /\ hand'[j].at # "answer" /\ hand'[j].kind = "respond" /\ hand'[j].user = u /\ hand'[j].live = hand[j].live
      BY <2>0, <3>2, Advanced DEF Same
    <3>4. CASE u = w /\ hand[j].live
      <4>1. Loads(j, w, "incoming")'
        BY <3>3, <3>4 DEF Loads
      <4> QED
        BY <1>d, <3>3, <4>1
    <3>5. CASE ~(u = w /\ hand[j].live)
      <4>1. p = <<u, v>> \/ p = <<v, u>>
        BY <3>1 DEF Either
      <4>2. p \in Pairs /\ p = <<p[1], p[2]>>
        BY <2>1, <4>1 DEF Pairs
      <4>3. Incoming(w)' = Incoming(w)
        <5>1. CASE p[2] = w
          <6>1. ~(hand[j].live /\ p[2] = u)
            BY <3>5, <5>1
          <6>2. ~("pending" \in {rows[p], status} /\ rows[p] # status)
            BY <3>1, <5>1, <6>1
          <6>3. status = "pending" <=> rows[p] = "pending"
            BY <6>2
          <6> HIDE DEF status
          <6>4. \A x \in Pairs : rows'[x] = "pending" <=> rows[x] = "pending"
            BY <1>0, <3>1, <4>2, <6>3
          <6> QED
            BY <1>s, <6>4
        <5>2. CASE p[2] # w
          <6>1. \A x \in Users \ {w} : <<x, w>> \in Pairs /\ <<x, w>> # p
            BY <4>2, <5>2 DEF Pairs
          <6>2. \A x \in Users \ {w} : rows'[<<x, w>>] = rows[<<x, w>>]
            BY <1>0, <3>1, <6>1
          <6> QED
            BY <6>2 DEF Incoming
        <5> QED
          BY <5>1, <5>2
      <4>4. ~Loads(j, w, "incoming") /\ ~Brings(j, w, "incoming")'
        BY <3>3, <3>5 DEF Loads, Brings
      <4> QED
        BY <1>j, <1>n, <2>0, <3>3, <4>3, <4>4
    <3> QED
      BY <3>4, <3>5
  <2> QED
    BY <2>2, <2>3
<1>f. ASSUME NEW j \in Places, FindReverse(j) PROVE IncomingRight(w)'
  <2>0. page' = page /\ net' = net /\ rows' = rows
    BY <1>f DEF FindReverse
  <2>1. /\ \A k \in Places \ {j} : hand'[k] = hand[k]
        /\ hand[j].kind = "respond" /\ hand'[j].kind = "respond" /\ hand'[j].at # "answer"
        /\ hand'[j].user = hand[j].user /\ hand'[j].live = hand[j].live
    BY <1>f, Found DEF Same
  <2>2. CASE Loads(j, w, "incoming")
    <3>1. Loads(j, w, "incoming")'
      BY <2>1, <2>2 DEF Loads
    <3> QED
      BY <1>d, <2>1, <3>1
  <2>3. CASE ~Loads(j, w, "incoming")
    <3>1. ~Brings(j, w, "incoming")'
      BY <2>1 DEF Brings
    <3> QED
      BY <1>j, <1>r, <1>n, <2>0, <2>1, <2>3, <3>1
  <2> QED
    BY <2>2, <2>3
<1>g. ASSUME NEW j \in Places, InsertReverse(j) PROVE IncomingRight(w)'
  <2> DEFINE p == <<hand[j].other, hand[j].user>>
  <2>0. hand[j].at = "mirror" /\ page' = page /\ net' = net
    BY <1>g DEF InsertReverse
  <2>1. hand[j].kind = "respond" /\ ~hand[j].live
    BY <2>0, JobsAre DEF OneRows, Reversing
  <2>2. ~Loads(j, w, "incoming")
    BY <2>1 DEF Loads
  <2>3. CASE rows[p] = "none"
    <3>1. rows' = [rows EXCEPT ![p] = "accepted"] /\ Goes(j, "tell")
      BY <1>g, <2>3 DEF InsertReverse
    <3>2. \A x \in Pairs : rows'[x] = "pending" <=> rows[x] = "pending"
      BY <1>0, <2>3, <3>1
    <3>3. /\ \A k \in Places \ {j} : hand'[k] = hand[k]
          /\ hand'[j].at = "tell"
      BY <2>0, <3>1, Advanced
    <3>4. ~Brings(j, w, "incoming")'
      BY <3>3 DEF Brings
    <3> QED
      BY <1>j, <1>s, <1>n, <2>0, <2>1, <2>2, <3>2, <3>3, <3>4
  <2>4. CASE rows[p] # "none"
    <3>1. rows' = rows /\ Done(j)
      BY <1>g, <2>4 DEF InsertReverse
    <3>2. ~Brings(j, w, "incoming")' /\ \A k \in Places \ {j} : hand'[k] = hand[k]
      BY <3>1, Ended DEF Brings, Loads
    <3> QED
      BY <1>j, <1>r, <1>n, <2>0, <2>1, <2>2, <3>1, <3>2
  <2> QED
    BY <2>3, <2>4
<1>5. ASSUME NEW j \in Places, TellResponded(j) PROVE IncomingRight(w)'
  <2> DEFINE u == hand[j].user
             v == hand[j].other
  <2>0. /\ hand[j].kind = "respond" /\ hand[j].at = "tell" /\ page' = page /\ rows' = rows
        /\ net' = News(hand[j].status, net, u, v)
    BY <1>5 DEF TellResponded
  <2>1. u \in Users /\ v \in Users \ {u}
    BY <2>0, JobsAre
  <2>2. /\ \A k \in Places \ {j} : hand'[k] = hand[k]
        /\ hand[j].live => /\ hand'[j].kind = "incoming" /\ hand'[j].at = "select" /\ hand'[j].user = u
                           /\ hand'[j].live = hand[j].live
        /\ ~hand[j].live => ~hand'[j].live
    <3>1. CASE hand[j].live
      BY <1>5, <3>1, Reloads DEF Same
    <3>2. CASE ~hand[j].live
      <4>1. Done(j)
        BY <1>5, <3>2 DEF TellResponded
      <4> QED
        BY <3>2, <4>1, Ended
    <3> QED
      BY <3>1, <3>2
  <2>3. CASE u = w /\ hand[j].live
    <3>1. hand'[j].kind = "incoming" /\ hand'[j].at = "select" /\ hand'[j].user = w
      BY <2>2, <2>3
    <3>2. hand'[j].live
      BY <2>2, <2>3
    <3>3. Loads(j, w, "incoming")'
      BY <3>1, <3>2 DEF Loads
    <3>4. hand'[j].at # "answer"
      BY <3>1
    <3> QED
      BY <1>d, <3>3, <3>4
  <2>4. CASE ~(u = w /\ hand[j].live)
    <3>1. Grown(net, net')
      <4> DEFINE m == Emitted(net, u, <<"list">>)
      <4>1. m \in [Users -> Seq(Events)] /\ Grown(net, m)
        BY <1>0, <1>e, <2>1, EmittedIs
      <4>2. net' = net \/ net' = Emitted(m, v, <<"list">>)
        BY <2>0 DEF News
      <4> HIDE DEF m
      <4>3. net' = net \/ Grown(m, net')
        BY <1>e, <2>1, <4>1, <4>2, EmittedIs
      <4> QED
        BY <4>1, <4>3 DEF Grown
    <3>5. Heard(w, "created") => Heard(w, "created")'
      BY <1>e, <3>1 DEF Heard, Grown
    <3>6. ~Loads(j, w, "incoming") /\ ~Brings(j, w, "incoming")'
      BY <2>2, <2>4 DEF Loads, Brings
    <3> QED
      BY <1>j, <1>r, <2>0, <2>2, <3>5, <3>6
  <2> QED
    BY <2>3, <2>4
<1>6. ASSUME NEW j \in Places, SelectList(j) PROVE IncomingRight(w)'
  <2>0. /\ hand[j].kind \in {"incoming", "friends"} /\ hand[j].at = "select"
        /\ page' = page /\ net' = net /\ rows' = rows
    BY <1>6 DEF SelectList, Lists
  <2>1. /\ \A k \in Places \ {j} : hand'[k] = hand[k]
        /\ hand'[j].kind = hand[j].kind /\ hand'[j].at = "answer" /\ hand'[j].user = hand[j].user
        /\ hand'[j].live = hand[j].live /\ (hand[j].kind = "incoming" => hand'[j].got = Incoming(hand[j].user))
    BY <1>6, Selected DEF Same
  <2>2. CASE Loads(j, w, "incoming")
    <3>1. Brings(j, w, "incoming")' /\ hand'[j].got = Incoming(w)
      BY <2>0, <2>1, <2>2 DEF Brings, Loads
    <3>2. \A k \in Places \ {j} : ~Brings(k, w, "incoming")'
      BY <1>l, <2>1, <2>2 DEF OneLoad, Lists, Brings, Loads
    <3>3. Incoming(w)' = Incoming(w)
      BY <1>r, <2>0
    <3> QED
      BY <3>1, <3>2, <3>3 DEF IncomingRight
  <2>3. CASE ~Loads(j, w, "incoming")
    <3>1. ~Brings(j, w, "incoming")'
      BY <2>1, <2>3 DEF Brings, Loads
    <3> QED
      BY <1>j, <1>r, <1>n, <2>0, <2>1, <2>3, <3>1
  <2> QED
    BY <2>2, <2>3
<1>7. ASSUME NEW j \in Places, ShowList(j) PROVE IncomingRight(w)'
  <2>0. /\ hand[j].kind \in {"incoming", "friends"} /\ hand[j].at = "answer"
        /\ net' = net /\ rows' = rows /\ Done(j)
        /\ page' = IF hand[j].live THEN [page EXCEPT ![hand[j].user][hand[j].kind] = hand[j].got] ELSE page
    BY <1>7 DEF ShowList, Lists
  <2>1. ~Brings(j, w, "incoming")' /\ \A k \in Places \ {j} : hand'[k] = hand[k]
    BY <2>0, Ended DEF Brings, Loads
  <2>2. CASE Loads(j, w, "incoming")
    <3>1. Brings(j, w, "incoming") /\ hand[j].user = w /\ hand[j].live /\ hand[j].kind = "incoming"
      BY <2>0, <2>2 DEF Brings, Loads
    <3>2. \A k \in Places : ~Brings(k, w, "incoming")'
      BY <1>l, <2>1, <2>2 DEF OneLoad, Lists, Brings, Loads
    <3>3. page'[w].incoming = hand[j].got
      BY <1>0, <2>0, <3>1
    <3>4. Incoming(w)' = Incoming(w)
      BY <1>r, <2>0
    <3>5. CASE DueIncoming(w)
      <4>1. DueIncoming(w)'
        BY <1>n, <2>0, <2>1, <3>1, <3>5 DEF DueIncoming, Loads
      <4> QED
        BY <4>1 DEF IncomingRight
    <3>6. CASE ~DueIncoming(w)
      BY <1>c, <3>1, <3>2, <3>3, <3>4, <3>6 DEF IncomingRight
    <3> QED
      BY <3>5, <3>6
  <2>3. CASE ~Loads(j, w, "incoming")
    <3>1. page'[w].incoming = page[w].incoming
      BY <1>0, <2>0, <2>3 DEF Loads
    <3> QED
      BY <1>j, <1>r, <1>n, <2>0, <2>1, <2>3, <3>1
  <2> QED
    BY <2>2, <2>3
<1>8. ASSUME NEW j \in Places, NEW u \in Users, Hear(u, j) PROVE IncomingRight(w)'
  <2>0. /\ page' = page /\ rows' = rows /\ net[u] # <<>> /\ net' = [net EXCEPT ![u] = Tail(@)]
    BY <1>8 DEF Hear
  <2>1. /\ \A k \in Places \ {j} : hand'[k] = hand[k]
        /\ hand[j].kind = "none"
        /\ hand'[j].kind = ListOf(Head(net[u])) /\ hand'[j].user = u /\ hand'[j].at = "select"
        /\ hand'[j].live
    BY <1>8, Listening
  <2>2. CASE u = w /\ Head(net[u]) = "created"
    <3>1. Loads(j, w, "incoming")'
      BY <2>1, <2>2 DEF Loads, ListOf
    <3> QED
      BY <1>d, <2>1, <3>1
  <2>3. CASE ~(u = w /\ Head(net[u]) = "created")
    <3>1. Heard(w, "created") => Heard(w, "created")'
      <4>1. CASE u = w
        <5>1. net'[w] = Tail(net[w]) /\ net[w] # <<>> /\ Head(net[w]) # "created"
          BY <1>0, <2>0, <2>3, <4>1
        <5> QED
          BY <1>0, <5>1, HeardTail DEF Heard
      <4>2. CASE u # w
        BY <1>0, <2>0, <4>2 DEF Heard
      <4> QED
        BY <4>1, <4>2
    <3>2. ~Loads(j, w, "incoming") /\ ~Brings(j, w, "incoming")'
      BY <2>1 DEF Loads, Brings
    <3> QED
      BY <1>j, <1>r, <2>0, <2>1, <3>1, <3>2
  <2> QED
    BY <2>2, <2>3
<1>9. ASSUME NEW j \in Places, NEW u \in Users, NEW v \in Users \ {u}, Request(u, v, j) PROVE IncomingRight(w)'
  <2>1. page' = page /\ rows' = rows /\ net' = net /\ hand[j].kind = "none"
    BY <1>9, NoWorkFields DEF Request, Free
  <2>2. ~Loads(j, w, "incoming") /\ ~Brings(j, w, "incoming")' /\ \A k \in Places \ {j} : hand'[k] = hand[k]
    BY <1>9, <2>1, Asked DEF Loads, Brings
  <2> QED
    BY <1>j, <1>r, <1>n, <2>1, <2>2
<1>10. ASSUME NEW j \in Places, NEW u \in Users, NEW v \in Users \ {u},
              NEW status \in {"accepted", "blocked"}, Respond(u, v, status, j) PROVE IncomingRight(w)'
  <2>1. page' = page /\ rows' = rows /\ net' = net /\ hand[j].kind = "none"
    BY <1>10, NoWorkFields DEF Respond, Free
  <2>2. /\ \A k \in Places \ {j} : hand'[k] = hand[k]
        /\ hand'[j].kind = "respond" /\ hand'[j].at = "update" /\ hand'[j].live = TRUE /\ hand'[j].user = u
    BY <1>10, Answered
  <2>3. CASE u = w
    BY <1>d, <2>2, <2>3 DEF Loads
  <2>4. CASE u # w
    <3>1. ~Loads(j, w, "incoming") /\ ~Brings(j, w, "incoming")'
      BY <2>1, <2>2, <2>4 DEF Loads, Brings
    <3> QED
      BY <1>j, <1>r, <1>n, <2>1, <2>2, <3>1
  <2> QED
    BY <2>3, <2>4
<1>i. ASSUME NEW j \in Places, NEW u \in Users, NEW v \in Users \ {u}, NEW status \in Statuses \ {"none"},
             RespondElsewhere(u, v, status, j)
      PROVE  IncomingRight(w)'
  <2>1. page' = page /\ rows' = rows /\ net' = net /\ hand[j].kind = "none"
    BY <1>i, NoWorkFields DEF RespondElsewhere, Free
  <2>2. ~Loads(j, w, "incoming") /\ ~Brings(j, w, "incoming")' /\ \A k \in Places \ {j} : hand'[k] = hand[k]
    BY <1>i, <2>1, AnsweredElsewhere DEF Loads, Brings
  <2> QED
    BY <1>j, <1>r, <1>n, <2>1, <2>2
<1>11. ASSUME NEW i \in Places, NEW j \in Places, NEW u \in Users \ {w}, Visit(u, i, j) PROVE IncomingRight(w)'
  <2>0. /\ i # j /\ hand[i].kind = "none" /\ hand[j].kind = "none"
        /\ \A k \in {i, j} : hand'[k].user = u /\ hand'[k].at = "select" /\ hand'[k].live /\ hand'[k].got = {}
        /\ \A k \in Places \ {i, j} :
              /\ hand[k].user # u => hand'[k] = hand[k]
              /\ hand[k].user = u => /\ hand'[k].kind = hand[k].kind /\ hand'[k].at = hand[k].at
                                     /\ Same(hand'[k], hand[k]) /\ hand'[k].got = hand[k].got
                                     /\ hand'[k].live = FALSE
    BY <1>11, Visited
  <2>1. rows' = rows /\ net' = net /\ page'[w] = page[w]
    BY <1>0, <1>11 DEF Visit
  <2>2. \A k \in Places : /\ Loads(k, w, "incoming")' <=> Loads(k, w, "incoming")
                          /\ Loads(k, w, "incoming") => hand'[k] = hand[k]
    BY <2>0 DEF Loads, Same
  <2>3. \A k \in Places : hand[k].kind = "request" /\ hand[k].at = "tell" /\ hand[k].other = w =>
                            hand'[k].kind = "request" /\ hand'[k].at = "tell" /\ hand'[k].other = w
    BY <2>0 DEF Same
  <2>4. CASE DueIncoming(w)
    <3>1. DueIncoming(w)'
      BY <1>n, <2>1, <2>2, <2>3, <2>4 DEF DueIncoming
    <3> QED
      BY <3>1 DEF IncomingRight
  <2>5. CASE ~DueIncoming(w)
    <3>1. \A k \in Places : /\ Brings(k, w, "incoming")' <=> Brings(k, w, "incoming")
                            /\ Brings(k, w, "incoming") => hand'[k] = hand[k]
      BY <2>2 DEF Brings
    <3>2. Incoming(w)' = Incoming(w)
      BY <1>r, <2>1
    <3> QED
      BY <1>c, <2>1, <2>5, <3>1, <3>2 DEF IncomingRight
  <2> QED
    BY <2>4, <2>5
<1>12. ASSUME UNCHANGED <<rows, hand>>, page'[w] = page[w], net'[w] = net[w] PROVE IncomingRight(w)'
  BY <1>12, <1>c DEF IncomingRight, DueIncoming, Brings, Loads, Heard, Incoming
<1>13. ASSUME NEW u \in Users, Lose(u) \/ Connect(u) \/ \E s \in ghosts[u] : Notice(u, s) PROVE IncomingRight(w)'
  <2>1. UNCHANGED <<rows, hand, page>>
    BY <1>13 DEF Lose, Connect, Notice
  <2>2. net'[w] = net[w]
    <3>1. Lose(u) => u # w
      BY DEF Calm, Lose
    <3> QED
      BY <1>0, <1>13, <3>1 DEF Lose, Connect, Notice
  <2> QED
    BY <1>12, <2>1, <2>2
<1>14. CASE UNCHANGED vars
  BY <1>12, <1>14 DEF vars
<1> QED
  BY <1>2, <1>3, <1>4, <1>f, <1>g, <1>5, <1>6, <1>7, <1>8, <1>9, <1>10, <1>i, <1>11, <1>13, <1>14 DEF Next

\* The friends of w are those his accepted rows say.
LEMMA AcceptedSame ==
  ASSUME NEW w \in Users,
         \A v \in Users \ {w} : /\ rows'[<<w, v>>] = "accepted" <=> rows[<<w, v>>] = "accepted"
                                /\ rows'[<<v, w>>] = "accepted" <=> rows[<<v, w>>] = "accepted"
  PROVE  Accepted(w)' = Accepted(w)
<1>1. Accepted(w) = {v \in Users \ {w} : rows[<<w, v>>] = "accepted" \/ rows[<<v, w>>] = "accepted"}
  BY DEF Accepted, Either
<1>2. Accepted(w)' = {v \in Users \ {w} : rows'[<<w, v>>] = "accepted" \/ rows'[<<v, w>>] = "accepted"}
  BY DEF Accepted, Either
<1> QED
  BY <1>1, <1>2

\* The same as IncomingStands, for the friends.
LEMMA FriendsStands ==
  ASSUME NEW w \in Users, FriendsRight(w), NEW j \in Places,
         Accepted(w)' = Accepted(w), page'[w].friends = page[w].friends,
         Heard(w, "list") => Heard(w, "list")',
         \A k \in Places \ {j} : hand'[k] = hand[k],
         ~Tells(j, w), \A k \in Places \ {j} : Tells(k, w) => Tells(k, w)',
         ~Loads(j, w, "friends"), ~Brings(j, w, "friends")'
  PROVE  FriendsRight(w)'
<1>1. \A k \in Places \ {j} : /\ Loads(k, w, "friends")' <=> Loads(k, w, "friends")
                              /\ Brings(k, w, "friends")' <=> Brings(k, w, "friends")
  BY DEF Loads, Brings
<1>2. CASE DueFriends(w)
  <2>1. DueFriends(w)'
    <3>1. ASSUME NEW k \in Places, Tells(k, w) PROVE DueFriends(w)'
      BY <3>1 DEF DueFriends
    <3>2. ASSUME NEW k \in Places, Loads(k, w, "friends"), hand[k].at # "answer" PROVE DueFriends(w)'
      BY <1>1, <3>2 DEF DueFriends
    <3>3. ASSUME Heard(w, "list") PROVE DueFriends(w)'
      BY <3>3 DEF DueFriends
    <3> QED
      BY <1>2, <3>1, <3>2, <3>3 DEF DueFriends
  <2> QED
    BY <2>1 DEF FriendsRight
<1>3. CASE ~DueFriends(w)
  BY <1>1, <1>3 DEF FriendsRight, Brings
<1> QED
  BY <1>2, <1>3

\* Every step leaves the friends of every calm user right.
LEMMA FriendsKept ==
  TypeOK /\ Sockets /\ Steps /\ OneRows /\ OneLoad /\ FreshFriends /\ [Next]_vars
    => FreshFriends'
<1> SUFFICES ASSUME TypeOK, Sockets, Steps, OneRows, OneLoad, FreshFriends, [Next]_vars,
                    NEW w \in Users, Calm(w)', w \notin parted'
             PROVE  FriendsRight(w)'
  BY DEF FreshFriends
<1>0. /\ rows \in [Pairs -> Statuses] /\ net \in [Users -> Seq(Events)]
      /\ page \in [Users -> [incoming : SUBSET Users, friends : SUBSET Users]]
  BY DEF TypeOK
<1>e. "created" \in Events /\ "list" \in Events
  BY DEF Events
<1>1. ASSUME NEW i \in Places, NEW j \in Places, Visit(w, i, j) PROVE FriendsRight(w)'
  <2>1. Loads(j, w, "friends")' /\ hand'[j].at # "answer"
    BY <1>1, Visited DEF Loads
  <2> QED
    BY <2>1 DEF FriendsRight, DueFriends
<1> SUFFICES ASSUME \A i, j \in Places : ~Visit(w, i, j) PROVE FriendsRight(w)'
  BY <1>1
<1>c. Calm(w) /\ FriendsRight(w)
  BY CalmStays, HistoryStays DEF FreshFriends
<1>l. userSockets[w] # 0 /\ userSockets[w] = sock[w] /\ w \notin shaken
  BY <1>c, CalmConnected DEF Calm
<1>r. ASSUME rows' = rows PROVE Accepted(w)' = Accepted(w)
  BY <1>r DEF Accepted, Either
<1>n. ASSUME net' = net PROVE Heard(w, "list") => Heard(w, "list")'
  BY <1>n DEF Heard
<1>j. ASSUME NEW j \in Places, Accepted(w)' = Accepted(w), page'[w].friends = page[w].friends,
             Heard(w, "list") => Heard(w, "list")',
             \A k \in Places \ {j} : hand'[k] = hand[k],
             ~Tells(j, w), \A k \in Places \ {j} : Tells(k, w) => Tells(k, w)',
             ~Loads(j, w, "friends"), ~Brings(j, w, "friends")'
      PROVE  FriendsRight(w)'
  BY <1>c, <1>j, FriendsStands
<1>k. ASSUME NEW j \in Places, \A k \in Places \ {j} : hand'[k] = hand[k]
      PROVE  /\ rows' = rows => \A k \in Places \ {j} : Tells(k, w) => Tells(k, w)'
             /\ (\A q \in Pairs : rows'[q] = "none" <=> rows[q] = "none")
                  => \A k \in Places \ {j} : Tells(k, w) => Tells(k, w)'
  <2>1. \A k \in Places : Telling(k) => <<hand[k].other, hand[k].user>> \in Pairs
    BY JobsAre DEF Telling, Pairs
  <2> QED
    BY <1>k, <2>1 DEF Tells, Telling
<1>t. ASSUME NEW j \in Places, Tells(j, w)' PROVE FriendsRight(w)'
  BY <1>t DEF FriendsRight, DueFriends
<1>d. ASSUME NEW j \in Places, Loads(j, w, "friends")', hand'[j].at # "answer" PROVE FriendsRight(w)'
  BY <1>d DEF FriendsRight, DueFriends
<1>h. ASSUME Heard(w, "list")' PROVE FriendsRight(w)'
  BY <1>h DEF FriendsRight, DueFriends
<1>2. ASSUME NEW j \in Places, InsertRequest(j) PROVE FriendsRight(w)'
  <2> DEFINE u == hand[j].user
             v == hand[j].other
  <2>0. hand[j].kind = "request" /\ hand[j].at = "insert" /\ page' = page /\ net' = net
    BY <1>2 DEF InsertRequest
  <2>1. u \in Users /\ v \in Users \ {u}
    BY <2>0, JobsAre
  <2>2. ~Loads(j, w, "friends") /\ ~Tells(j, w)
    BY <2>0 DEF Loads, Tells, Telling
  <2>3. CASE rows[<<u, v>>] # "none"
    <3>1. Done(j) /\ rows' = rows
      BY <1>2, <2>3 DEF InsertRequest
    <3>2. ~Brings(j, w, "friends")' /\ \A k \in Places \ {j} : hand'[k] = hand[k]
      BY <3>1, Ended DEF Brings, Loads
    <3> QED
      BY <1>j, <1>k, <1>r, <1>n, <2>0, <2>2, <3>1, <3>2
  <2>4. CASE rows[<<u, v>>] = "none"
    <3>1. Goes(j, "tell") /\ rows' = [rows EXCEPT ![<<u, v>>] = "pending"]
      BY <1>2, <2>4 DEF InsertRequest
    <3>2. /\ \A k \in Places \ {j} : hand'[k] = hand[k]
          /\ hand'[j].kind = "request" /\ hand'[j].at = "tell" /\ hand'[j].other = v
      BY <2>0, <3>1, Advanced DEF Same
    <3>3. Accepted(w)' = Accepted(w)
      <4>1. \A p \in Pairs : rows'[p] = "accepted" <=> rows[p] = "accepted"
        BY <1>0, <2>4, <3>1
      <4> QED
        BY <4>1, AcceptedSame DEF Pairs
    <3>4. ~Brings(j, w, "friends")'
      BY <3>2 DEF Brings
    <3>5. ASSUME NEW k \in Places \ {j}, Tells(k, w) PROVE Tells(k, w)'
      <4>1. /\ hand[k].user \in Users /\ hand[k].other \in Users \ {hand[k].user}
            /\ <<hand[k].other, hand[k].user>> \in Pairs
        BY <3>5, JobsAre DEF Tells, Telling, Pairs
      <4>2. CASE <<hand[k].other, hand[k].user>> # <<u, v>>
        <5>1. rows'[<<hand[k].other, hand[k].user>>] = rows[<<hand[k].other, hand[k].user>>]
          BY <1>0, <3>1, <4>1, <4>2
        <5> QED
          BY <3>2, <3>5, <5>1 DEF Tells, Telling
      <4>3. CASE hand[k].at # "mirror"
        BY <3>2, <3>5, <4>3 DEF Tells, Telling
      <4>4. CASE hand[k].at = "mirror" /\ <<hand[k].other, hand[k].user>> = <<u, v>>
        <5>1. hand[k].other = u /\ hand[k].user = v
          BY <4>4
        <5>2. rows[<<v, u>>] # "none"
          BY <4>4, <5>1 DEF OneRows, Reversing, Forces
        <5>3. Inserting(j, v, u) /\ v # u
          BY <2>0, <2>1 DEF Inserting
        <5>4. {v, u} \in twice
          BY <2>1, <5>2, <5>3 DEF OneRows, Unasked
        <5>5. w \in {v, u}
          BY <3>5, <5>1 DEF Tells
        <5> QED
          BY <1>c, <5>4, <5>5 DEF Calm
      <4> QED
        BY <4>2, <4>3, <4>4
    <3> QED
      BY <1>j, <1>n, <2>0, <2>2, <3>2, <3>3, <3>4, <3>5
  <2> QED
    BY <2>3, <2>4
<1>3. ASSUME NEW j \in Places, TellRequested(j) PROVE FriendsRight(w)'
  <2> DEFINE v == hand[j].other
  <2>0. /\ hand[j].kind = "request" /\ hand[j].at = "tell" /\ page' = page /\ rows' = rows
        /\ net' = Emitted(net, v, <<"created">>) /\ Done(j)
    BY <1>3 DEF TellRequested
  <2>1. v \in Users
    BY <2>0, JobsAre
  <2> HIDE DEF v
  <2>2. Grown(net, net')
    BY <1>0, <1>e, <2>0, <2>1, EmittedIs
  <2>3. Heard(w, "list") => Heard(w, "list")'
    BY <1>e, <2>2 DEF Heard, Grown
  <2>4. /\ ~Loads(j, w, "friends") /\ ~Brings(j, w, "friends")' /\ ~Tells(j, w)
        /\ \A k \in Places \ {j} : hand'[k] = hand[k]
    BY <2>0, Ended DEF Loads, Brings, Tells, Telling
  <2> QED
    BY <1>j, <1>k, <1>r, <2>0, <2>3, <2>4
<1>4. ASSUME NEW j \in Places, UpdateStatus(j) PROVE FriendsRight(w)'
  <2> DEFINE u == hand[j].user
             v == hand[j].other
             status == hand[j].status
  <2>0. hand[j].kind = "respond" /\ hand[j].at = "update" /\ page' = page /\ net' = net
    BY <1>4 DEF UpdateStatus
  <2>1. u \in Users /\ v \in Users \ {u} /\ status \in Statuses \ {"none"}
    BY <2>0, JobsAre
  <2>2. ~Loads(j, w, "friends") /\ ~Tells(j, w)
    BY <2>0 DEF Loads, Tells, Telling
  <2>3. CASE Either(u, v) = {}
    <3>1. Done(j) /\ rows' = rows
      BY <1>4, <2>3 DEF UpdateStatus
    <3>2. ~Brings(j, w, "friends")' /\ \A k \in Places \ {j} : hand'[k] = hand[k]
      BY <3>1, Ended DEF Brings, Loads
    <3> QED
      BY <1>j, <1>k, <1>r, <1>n, <2>0, <2>2, <3>1, <3>2
  <2>4. CASE Either(u, v) # {}
    <3>1. PICK p \in Either(u, v) :
            /\ rows' = [rows EXCEPT ![p] = status]
            /\ parted' = IF rows[p] = "accepted" /\ status # "accepted"
                         THEN parted \union {u, v} ELSE parted
            /\ Goes(j, IF status = "accepted" THEN "reverse" ELSE "tell")
      BY <1>4, <2>4, Zenon DEF UpdateStatus
    <3>2. PICK at : Goes(j, at) /\ at # "answer" /\ (status = "accepted" => at = "reverse")
      BY <3>1
    <3>3. /\ \A k \in Places \ {j} : hand'[k] = hand[k]
          /\ hand'[j].at = at /\ hand'[j].kind = "respond" /\ hand'[j].user = u /\ hand'[j].other = v
          /\ hand'[j].status = status
      BY <2>0, <3>2, Advanced DEF Same
    <3>4. CASE status = "accepted" /\ w \in {u, v}
      <4>1. Tells(j, w)'
        BY <3>2, <3>3, <3>4 DEF Tells, Telling
      <4> QED
        BY <1>t, <4>1
    <3>5. CASE ~(status = "accepted" /\ w \in {u, v})
      <4>1. (p = <<u, v>> \/ p = <<v, u>>) /\ rows[p] # "none"
        BY <3>1 DEF Either
      <4>2. p \in Pairs
        BY <2>1, <4>1 DEF Pairs
      <4>3. Accepted(w)' = Accepted(w)
        <5>1. CASE w \notin {u, v}
          <6>1. \A x \in Users \ {w} : /\ <<x, w>> \in Pairs /\ <<x, w>> # p
                                       /\ <<w, x>> \in Pairs /\ <<w, x>> # p
            BY <4>1, <5>1 DEF Pairs
          <6>2. \A x \in Users \ {w} : rows'[<<x, w>>] = rows[<<x, w>>] /\ rows'[<<w, x>>] = rows[<<w, x>>]
            BY <1>0, <3>1, <6>1
          <6> QED
            BY <6>2, AcceptedSame
        <5>2. CASE w \in {u, v}
          <6>1. status # "accepted"
            BY <3>5, <5>2
          <6>2. rows[p] # "accepted"
            BY <3>1, <5>2, <6>1
          <6> HIDE DEF status
          <6>3. \A x \in Pairs : rows'[x] = "accepted" <=> rows[x] = "accepted"
            BY <1>0, <3>1, <4>2, <6>1, <6>2
          <6> QED
            BY <6>3, AcceptedSame DEF Pairs
        <5> QED
          BY <5>1, <5>2
      <4>4. ~Brings(j, w, "friends")'
        BY <3>2, <3>3 DEF Brings
      <4>5. \A q \in Pairs : rows'[q] = "none" <=> rows[q] = "none"
        BY <1>0, <2>1, <3>1, <4>1, <4>2
      <4> QED
        BY <1>j, <1>k, <1>n, <2>0, <2>2, <3>3, <4>3, <4>4, <4>5
    <3> QED
      BY <3>4, <3>5
  <2> QED
    BY <2>3, <2>4
<1>f. ASSUME NEW j \in Places, FindReverse(j) PROVE FriendsRight(w)'
  <2>0. page' = page /\ net' = net /\ rows' = rows /\ hand[j].at = "reverse"
    BY <1>f DEF FindReverse
  <2>1. /\ \A k \in Places \ {j} : hand'[k] = hand[k]
        /\ hand'[j].at = IF rows[<<hand[j].other, hand[j].user>>] = "none" THEN "mirror" ELSE "tell"
        /\ hand[j].kind = "respond" /\ hand'[j].kind = "respond"
        /\ hand'[j].user = hand[j].user /\ hand'[j].other = hand[j].other /\ hand'[j].status = hand[j].status
    BY <1>f, Found DEF Same
  <2>2. hand[j].status = "accepted"
    BY <2>0, JobsAre
  <2>3. CASE w \in {hand[j].user, hand[j].other}
    <3>1. Tells(j, w)'
      BY <2>0, <2>1, <2>2, <2>3 DEF Tells, Telling
    <3> QED
      BY <1>t, <3>1
  <2>4. CASE w \notin {hand[j].user, hand[j].other}
    <3>1. ~Loads(j, w, "friends") /\ ~Brings(j, w, "friends")' /\ ~Tells(j, w)
      BY <2>1, <2>4 DEF Loads, Brings, Tells
    <3> QED
      BY <1>j, <1>k, <1>r, <1>n, <2>0, <2>1, <3>1
  <2> QED
    BY <2>3, <2>4
<1>g. ASSUME NEW j \in Places, InsertReverse(j) PROVE FriendsRight(w)'
  <2> DEFINE u == hand[j].user
             v == hand[j].other
  <2>0. hand[j].at = "mirror" /\ page' = page /\ net' = net
    BY <1>g DEF InsertReverse
  <2>1. /\ hand[j].kind = "respond" /\ hand[j].status = "accepted"
        /\ u \in Users /\ v \in Users \ {u} /\ <<v, u>> \in Pairs
    BY <2>0, JobsAre DEF Pairs
  <2>2. ~Loads(j, w, "friends")
    BY <2>1 DEF Loads
  <2>3. CASE rows[<<v, u>>] = "none"
    <3>1. rows' = [rows EXCEPT ![<<v, u>>] = "accepted"] /\ Goes(j, "tell")
      BY <1>g, <2>3 DEF InsertReverse
    <3>2. /\ \A k \in Places \ {j} : hand'[k] = hand[k]
          /\ hand'[j].at = "tell" /\ hand'[j].kind = "respond" /\ hand'[j].status = "accepted"
          /\ hand'[j].user = u /\ hand'[j].other = v
      BY <2>0, <2>1, <3>1, Advanced DEF Same
    <3>3. CASE w \in {u, v}
      <4>1. Tells(j, w)'
        BY <3>2, <3>3 DEF Tells, Telling
      <4> QED
        BY <1>t, <4>1
    <3>4. CASE w \notin {u, v}
      <4>1. \A x \in Users \ {w} : /\ <<x, w>> \in Pairs /\ <<x, w>> # <<v, u>>
                                   /\ <<w, x>> \in Pairs /\ <<w, x>> # <<v, u>>
        BY <3>4 DEF Pairs
      <4>2. \A x \in Users \ {w} : rows'[<<x, w>>] = rows[<<x, w>>] /\ rows'[<<w, x>>] = rows[<<w, x>>]
        BY <1>0, <3>1, <4>1
      <4>3. Accepted(w)' = Accepted(w)
        BY <4>2, AcceptedSame
      <4>4. ~Tells(j, w) /\ ~Brings(j, w, "friends")'
        BY <3>2, <3>4 DEF Tells, Brings
      <4>5. ASSUME NEW k \in Places \ {j}, Tells(k, w) PROVE Tells(k, w)'
        <5>1. hand[k].user \in Users /\ hand[k].other \in Users \ {hand[k].user} /\ w \in {hand[k].user, hand[k].other}
          BY <4>5, JobsAre DEF Tells, Telling
        <5>2. rows'[<<hand[k].other, hand[k].user>>] = rows[<<hand[k].other, hand[k].user>>]
          BY <4>2, <5>1
        <5> QED
          BY <3>2, <4>5, <5>2 DEF Tells, Telling
      <4> QED
        BY <1>j, <1>n, <2>0, <2>2, <3>2, <4>3, <4>4, <4>5
    <3> QED
      BY <3>3, <3>4
  <2>4. CASE rows[<<v, u>>] # "none"
    <3>1. rows' = rows /\ Done(j)
      BY <1>g, <2>4 DEF InsertReverse
    <3>2. /\ ~Brings(j, w, "friends")' /\ ~Tells(j, w)
          /\ \A k \in Places \ {j} : hand'[k] = hand[k]
      BY <2>0, <2>4, <3>1, Ended DEF Brings, Loads, Tells, Telling
    <3> QED
      BY <1>j, <1>k, <1>r, <1>n, <2>0, <2>2, <3>1, <3>2
  <2> QED
    BY <2>3, <2>4
<1>5. ASSUME NEW j \in Places, TellResponded(j) PROVE FriendsRight(w)'
  <2> DEFINE u == hand[j].user
             v == hand[j].other
             m == Emitted(net, u, <<"list">>)
  <2>0. /\ hand[j].kind = "respond" /\ hand[j].at = "tell" /\ page' = page /\ rows' = rows
        /\ net' = News(hand[j].status, net, u, v)
    BY <1>5 DEF TellResponded
  <2>1. u \in Users /\ v \in Users \ {u}
    BY <2>0, JobsAre
  <2>2. /\ \A k \in Places \ {j} : hand'[k] = hand[k]
        /\ hand'[j].kind # "friends" /\ hand'[j].kind # "respond"
    <3>1. CASE hand[j].live
      BY <1>5, <3>1, Reloads
    <3>2. CASE ~hand[j].live
      <4>1. Done(j)
        BY <1>5, <3>2 DEF TellResponded
      <4> QED
        BY <4>1, Ended
    <3> QED
      BY <3>1, <3>2
  <2>3. net' = IF hand[j].status = "accepted" THEN Emitted(m, v, <<"list">>) ELSE net
    BY <2>0 DEF News
  <2>4. m \in [Users -> Seq(Events)] /\ Grown(net, m) /\ (u = w => HeardIn(m[w], "list"))
    BY <1>0, <1>e, <1>l, <2>1, EmittedIs
  <2> HIDE DEF m
  <2>5. /\ Grown(net, net')
        /\ hand[j].status = "accepted" /\ w \in {u, v} => Heard(w, "list")'
    <3>1. CASE hand[j].status = "accepted"
      <4>1. Grown(m, net') /\ (v = w => HeardIn(net'[w], "list"))
        BY <1>e, <1>l, <2>1, <2>3, <2>4, <3>1, EmittedIs
      <4> QED
        BY <1>e, <2>4, <4>1 DEF Grown, Heard
    <3>2. CASE hand[j].status # "accepted"
      BY <2>3, <3>2 DEF Grown
    <3> QED
      BY <3>1, <3>2
  <2>6. CASE hand[j].status = "accepted" /\ w \in {u, v}
    BY <1>h, <2>5, <2>6
  <2>7. CASE ~(hand[j].status = "accepted" /\ w \in {u, v})
    <3>1. Heard(w, "list") => Heard(w, "list")'
      BY <1>e, <2>5 DEF Heard, Grown
    <3>2. ~Loads(j, w, "friends") /\ ~Brings(j, w, "friends")' /\ ~Tells(j, w)
      BY <2>0, <2>2, <2>7 DEF Loads, Brings, Tells, Telling
    <3> QED
      BY <1>j, <1>k, <1>r, <2>0, <2>2, <3>1, <3>2
  <2> QED
    BY <2>6, <2>7
<1>6. ASSUME NEW j \in Places, SelectList(j) PROVE FriendsRight(w)'
  <2>0. /\ hand[j].kind \in {"incoming", "friends"} /\ hand[j].at = "select"
        /\ page' = page /\ net' = net /\ rows' = rows
    BY <1>6 DEF SelectList, Lists
  <2>1. /\ \A k \in Places \ {j} : hand'[k] = hand[k]
        /\ hand'[j].kind = hand[j].kind /\ hand'[j].at = "answer" /\ hand'[j].user = hand[j].user
        /\ hand'[j].live = hand[j].live /\ (hand[j].kind = "friends" => hand'[j].got = Accepted(hand[j].user))
    BY <1>6, Selected DEF Same
  <2>2. CASE Loads(j, w, "friends")
    <3>1. Brings(j, w, "friends")' /\ hand'[j].got = Accepted(w)
      BY <2>0, <2>1, <2>2 DEF Brings, Loads
    <3>2. \A k \in Places \ {j} : ~Brings(k, w, "friends")'
      BY <1>l, <2>1, <2>2 DEF OneLoad, Lists, Brings, Loads
    <3>3. Accepted(w)' = Accepted(w)
      BY <1>r, <2>0
    <3> QED
      BY <3>1, <3>2, <3>3 DEF FriendsRight
  <2>3. CASE ~Loads(j, w, "friends")
    <3>1. ~Brings(j, w, "friends")' /\ ~Tells(j, w)
      BY <2>0, <2>1, <2>3 DEF Brings, Loads, Tells, Telling
    <3> QED
      BY <1>j, <1>k, <1>r, <1>n, <2>0, <2>1, <2>3, <3>1
  <2> QED
    BY <2>2, <2>3
<1>7. ASSUME NEW j \in Places, ShowList(j) PROVE FriendsRight(w)'
  <2>0. /\ hand[j].kind \in {"incoming", "friends"} /\ hand[j].at = "answer"
        /\ net' = net /\ rows' = rows /\ Done(j)
        /\ page' = IF hand[j].live THEN [page EXCEPT ![hand[j].user][hand[j].kind] = hand[j].got] ELSE page
    BY <1>7 DEF ShowList, Lists
  <2>1. ~Brings(j, w, "friends")' /\ \A k \in Places \ {j} : hand'[k] = hand[k]
    BY <2>0, Ended DEF Brings, Loads
  <2>2. CASE Loads(j, w, "friends")
    <3>1. Brings(j, w, "friends") /\ hand[j].user = w /\ hand[j].live /\ hand[j].kind = "friends"
      BY <2>0, <2>2 DEF Brings, Loads
    <3>2. \A k \in Places : ~Brings(k, w, "friends")'
      BY <1>l, <2>1, <2>2 DEF OneLoad, Lists, Brings, Loads
    <3>3. page'[w].friends = hand[j].got
      BY <1>0, <2>0, <3>1
    <3>4. Accepted(w)' = Accepted(w)
      BY <1>r, <2>0
    <3>5. CASE DueFriends(w)
      <4>1. DueFriends(w)'
        BY <1>n, <2>0, <2>1, <3>1, <3>5 DEF DueFriends, Loads, Tells, Telling
      <4> QED
        BY <4>1 DEF FriendsRight
    <3>6. CASE ~DueFriends(w)
      BY <1>c, <3>1, <3>2, <3>3, <3>4, <3>6 DEF FriendsRight
    <3> QED
      BY <3>5, <3>6
  <2>3. CASE ~Loads(j, w, "friends")
    <3>1. page'[w].friends = page[w].friends /\ ~Tells(j, w)
      BY <1>0, <2>0, <2>3 DEF Loads, Tells, Telling
    <3> QED
      BY <1>j, <1>k, <1>r, <1>n, <2>0, <2>1, <2>3, <3>1
  <2> QED
    BY <2>2, <2>3
<1>8. ASSUME NEW j \in Places, NEW u \in Users, Hear(u, j) PROVE FriendsRight(w)'
  <2>0. /\ page' = page /\ rows' = rows /\ net[u] # <<>> /\ net' = [net EXCEPT ![u] = Tail(@)]
    BY <1>8 DEF Hear
  <2>1. /\ \A k \in Places \ {j} : hand'[k] = hand[k]
        /\ hand[j].kind = "none"
        /\ hand'[j].kind = ListOf(Head(net[u])) /\ hand'[j].user = u /\ hand'[j].at = "select"
        /\ hand'[j].live
    BY <1>8, Listening
  <2>2. CASE u = w /\ Head(net[u]) = "list"
    <3>1. Loads(j, w, "friends")'
      BY <2>1, <2>2 DEF Loads, ListOf
    <3> QED
      BY <1>d, <2>1, <3>1
  <2>3. CASE ~(u = w /\ Head(net[u]) = "list")
    <3>1. Heard(w, "list") => Heard(w, "list")'
      <4>1. CASE u = w
        <5>1. net'[w] = Tail(net[w]) /\ net[w] # <<>> /\ Head(net[w]) # "list"
          BY <1>0, <2>0, <2>3, <4>1
        <5> QED
          BY <1>0, <5>1, HeardTail DEF Heard
      <4>2. CASE u # w
        BY <1>0, <2>0, <4>2 DEF Heard
      <4> QED
        BY <4>1, <4>2
    <3>2. ~Loads(j, w, "friends") /\ ~Brings(j, w, "friends")' /\ ~Tells(j, w)
      BY <2>1 DEF Loads, Brings, Tells, Telling
    <3> QED
      BY <1>j, <1>k, <1>r, <2>0, <2>1, <3>1, <3>2
  <2> QED
    BY <2>2, <2>3
<1>9. ASSUME NEW j \in Places, NEW u \in Users, NEW v \in Users \ {u}, Request(u, v, j) PROVE FriendsRight(w)'
  <2>1. page' = page /\ rows' = rows /\ net' = net /\ hand[j].kind = "none"
    BY <1>9, NoWorkFields DEF Request, Free
  <2>2. /\ ~Loads(j, w, "friends") /\ ~Brings(j, w, "friends")' /\ ~Tells(j, w)
        /\ \A k \in Places \ {j} : hand'[k] = hand[k]
    BY <1>9, <2>1, Asked DEF Loads, Brings, Tells, Telling
  <2> QED
    BY <1>j, <1>k, <1>r, <1>n, <2>1, <2>2
<1>10. ASSUME NEW j \in Places, NEW u \in Users, NEW v \in Users \ {u},
              NEW status \in {"accepted", "blocked"}, Respond(u, v, status, j) PROVE FriendsRight(w)'
  <2>1. page' = page /\ rows' = rows /\ net' = net /\ hand[j].kind = "none"
    BY <1>10, NoWorkFields DEF Respond, Free
  <2>2. /\ \A k \in Places \ {j} : hand'[k] = hand[k]
        /\ hand'[j].kind = "respond" /\ hand'[j].at = "update" /\ hand'[j].live = TRUE /\ hand'[j].user = u
    BY <1>10, Answered
  <2>3. ~Loads(j, w, "friends") /\ ~Brings(j, w, "friends")' /\ ~Tells(j, w)
    BY <2>1, <2>2 DEF Loads, Brings, Tells, Telling
  <2> QED
    BY <1>j, <1>k, <1>r, <1>n, <2>1, <2>2, <2>3
<1>i. ASSUME NEW j \in Places, NEW u \in Users, NEW v \in Users \ {u}, NEW status \in Statuses \ {"none"},
             RespondElsewhere(u, v, status, j)
      PROVE  FriendsRight(w)'
  <2>1. page' = page /\ rows' = rows /\ net' = net /\ hand[j].kind = "none"
    BY <1>i, NoWorkFields DEF RespondElsewhere, Free
  <2>2. /\ ~Loads(j, w, "friends") /\ ~Brings(j, w, "friends")' /\ ~Tells(j, w)
        /\ \A k \in Places \ {j} : hand'[k] = hand[k]
    BY <1>i, <2>1, AnsweredElsewhere DEF Loads, Brings, Tells, Telling
  <2> QED
    BY <1>j, <1>k, <1>r, <1>n, <2>1, <2>2
<1>11. ASSUME NEW i \in Places, NEW j \in Places, NEW u \in Users \ {w}, Visit(u, i, j) PROVE FriendsRight(w)'
  <2>0. /\ i # j /\ hand[i].kind = "none" /\ hand[j].kind = "none"
        /\ \A k \in {i, j} : hand'[k].user = u /\ hand'[k].at = "select" /\ hand'[k].live /\ hand'[k].got = {}
        /\ \A k \in Places \ {i, j} :
              /\ hand[k].user # u => hand'[k] = hand[k]
              /\ hand[k].user = u => /\ hand'[k].kind = hand[k].kind /\ hand'[k].at = hand[k].at
                                     /\ Same(hand'[k], hand[k]) /\ hand'[k].got = hand[k].got
                                     /\ hand'[k].live = FALSE
    BY <1>11, Visited
  <2>1. rows' = rows /\ net' = net /\ page'[w] = page[w]
    BY <1>0, <1>11 DEF Visit
  <2>2. \A k \in Places : /\ Loads(k, w, "friends")' <=> Loads(k, w, "friends")
                          /\ Loads(k, w, "friends") => hand'[k] = hand[k]
    BY <2>0 DEF Loads, Same
  <2>3. \A k \in Places : hand[k].kind = "respond" =>
                            /\ hand'[k].kind = "respond" /\ hand'[k].at = hand[k].at /\ hand'[k].user = hand[k].user
                            /\ hand'[k].other = hand[k].other /\ hand'[k].status = hand[k].status
    BY <2>0 DEF Same
  <2>4. CASE DueFriends(w)
    <3>1. DueFriends(w)'
      <4>1. ASSUME NEW k \in Places, Tells(k, w) PROVE Tells(k, w)'
        BY <2>1, <2>3, <4>1 DEF Tells, Telling
      <4> QED
        BY <1>n, <2>1, <2>2, <2>4, <4>1 DEF DueFriends
    <3> QED
      BY <3>1 DEF FriendsRight
  <2>5. CASE ~DueFriends(w)
    <3>1. \A k \in Places : /\ Brings(k, w, "friends")' <=> Brings(k, w, "friends")
                            /\ Brings(k, w, "friends") => hand'[k] = hand[k]
      BY <2>2 DEF Brings
    <3>2. Accepted(w)' = Accepted(w)
      BY <1>r, <2>1
    <3> QED
      BY <1>c, <2>1, <2>5, <3>1, <3>2 DEF FriendsRight
  <2> QED
    BY <2>4, <2>5
<1>12. ASSUME UNCHANGED <<rows, hand>>, page'[w] = page[w], net'[w] = net[w] PROVE FriendsRight(w)'
  BY <1>12, <1>c DEF FriendsRight, DueFriends, Brings, Loads, Heard, Tells, Telling, Accepted, Either
<1>13. ASSUME NEW u \in Users, Lose(u) \/ Connect(u) \/ \E s \in ghosts[u] : Notice(u, s) PROVE FriendsRight(w)'
  <2>1. UNCHANGED <<rows, hand, page>>
    BY <1>13 DEF Lose, Connect, Notice
  <2>2. net'[w] = net[w]
    <3>1. Lose(u) => u # w
      BY DEF Calm, Lose
    <3> QED
      BY <1>0, <1>13, <3>1 DEF Lose, Connect, Notice
  <2> QED
    BY <1>12, <2>1, <2>2
<1>14. CASE UNCHANGED vars
  BY <1>12, <1>14 DEF vars
<1> QED
  BY <1>2, <1>3, <1>4, <1>f, <1>g, <1>5, <1>6, <1>7, <1>8, <1>9, <1>10, <1>i, <1>11, <1>13, <1>14 DEF Next

\* The invariant holds at first.
LEMMA InitInv == Init => Inv
<1> SUFFICES ASSUME Init PROVE Inv
  OBVIOUS
<1>0. /\ \A j \in Places : hand[j] = NoWork
      /\ \A u \in Users : page[u] = NoPage /\ net[u] = <<>> /\ sock[u] = 1 /\ ghosts[u] = {}
                          /\ userSockets[u] = 1
      /\ rows \in [Pairs -> Statuses]
      /\ \A p \in Pairs : "none" \in {rows[p], rows[<<p[2], p[1]>>]}
  BY DEF Init
<1>1. TypeOK
  BY <1>0, NoWorkFields DEF Init, TypeOK, NoPage, Statuses, Lists
<1>2. Sockets
  BY <1>0 DEF Init, Sockets
<1>3. Steps
  BY <1>0 DEF Init, Steps, JobOK
<1>4. OneRows /\ OneLoad
  <2>1. OneInsert /\ Unasked /\ Reversing /\ OneLoad
    BY <1>0, NoWorkFields DEF OneInsert, Unasked, Reversing, OneLoad, Inserting, Loads
  <2>2. ASSUME NEW u \in Users, NEW v \in Users, u # v PROVE "none" \in {rows[<<u, v>>], rows[<<v, u>>]}
    <3>1. <<u, v>> \in Pairs /\ <<u, v>>[1] = u /\ <<u, v>>[2] = v
      BY <2>2 DEF Pairs
    <3> QED
      BY <1>0, <3>1
  <2>3. CalmOneRow
    BY <2>2 DEF CalmOneRow
  <2> QED
    BY <2>1, <2>3 DEF OneRows
<1>5. Known
  BY <1>0, NoWorkFields DEF Known, NoPage
<1>6. FreshIncoming /\ FreshFriends
  BY DEF FreshIncoming, FreshFriends, Calm, Init
<1> QED
  BY <1>1, <1>2, <1>3, <1>4, <1>5, <1>6 DEF Inv

\* The invariant holds always.
LEMMA Invariant == Spec => []Inv
<1>1. Inv /\ [Next]_vars => Inv'
  <2> SUFFICES ASSUME Inv, [Next]_vars PROVE Inv'
    OBVIOUS
  <2>1. TypeOK' /\ Steps' /\ Sockets'
    BY TypesKept, StepsKept, SocketsKept DEF Inv
  <2>2. OneRows' /\ Known' /\ OneLoad'
    BY <2>1, OneRowsKept, KnownKept, LoadsKept DEF Inv
  <2>3. FreshIncoming' /\ FreshFriends'
    BY IncomingKept, FriendsKept DEF Inv
  <2> QED
    BY <2>1, <2>2, <2>3 DEF Inv
<1> QED
  BY InitInv, <1>1, PTL DEF Spec

\* The variables of the friend service, of the gateway and of the pages keep their
\* types (friend.service.ts, friend.gateway.ts, friend-requests.component.ts,
\* my-friends.component.ts).
THEOREM FriendsTypeCorrect == Spec => []TypeOK
BY Invariant, PTL DEF Inv

\* Two users have one row of user_friend between them, unless both asked at once, or
\* the one who asked was the one to accept (friend.service.ts: createFriendRequest
\* looks for a row before it inserts one, updateFriendshipStatus for that of the other
\* one before it inserts it, and finds the very row it has accepted).
THEOREM OneFriendship == Spec => []CalmOneRow
<1>1. Inv => CalmOneRow
  BY DEF Inv, OneRows
<1> QED
  BY <1>1, Invariant, PTL

\* A page on which nothing is under way shows the requests and the friends of the
\* database, but for the histories CalmListsFresh names: the events that
\* friend.gateway.ts sends, after the rows are stored, bring every change.
THEOREM ListsStayFresh == Spec => []CalmListsFresh
<1>1. Inv => CalmListsFresh
  <2> SUFFICES ASSUME Inv, NEW u \in Users \ (shaken \union cut \union UNION twice), Settled(u)
               PROVE  /\ u \in untold \/ page[u].incoming = Incoming(u)
                      /\ u \in parted \/ page[u].friends = Accepted(u)
    BY DEF CalmListsFresh
  <2>1. Calm(u)
    BY DEF Calm
  <2>2. ~Heard(u, "created") /\ ~Heard(u, "list")
    BY DEF Heard, HeardIn, Settled
  <2>3. \A j \in Places : ~Loads(j, u, "incoming") /\ ~Loads(j, u, "friends")
    BY DEF Settled, Loading, Loads
  <2>4. ~DueIncoming(u) /\ ~DueFriends(u)
    BY <2>2, <2>3 DEF Settled, DueIncoming, DueFriends, Tells, Telling
  <2>5. u \in untold \/ page[u].incoming = Incoming(u)
    BY <2>1, <2>3, <2>4 DEF Inv, FreshIncoming, IncomingRight, Brings
  <2>6. u \in parted \/ page[u].friends = Accepted(u)
    BY <2>1, <2>3, <2>4 DEF Inv, FreshFriends, FriendsRight, Brings
  <2> QED
    BY <2>5, <2>6
<1> QED
  BY <1>1, Invariant, PTL
=============================================================================
