------------------------------- MODULE Browser -------------------------------
(***************************************************************************)
(* One tab of the Angular front end: the route it is at, and the HTTP      *)
(* calls its pages and services have made.  The modules that extend this   *)
(* one are the pages.                                                      *)
(*                                                                         *)
(* The tab runs one callback at a time.  A call is sent, served at some    *)
(* moment by the server, and answered later; calls overtake one another on *)
(* every leg.  A page that is left unsubscribes from the answers to its    *)
(* calls, but a write that is under way is still carried out.              *)
(*                                                                         *)
(* The whole tab has one socket, made with websocket.service: events that  *)
(* are published while it is down are not sent again.  It reconnects by    *)
(* itself when the connection is lost, and never when it was closed.  A    *)
(* gateway of the server that keeps a map from e-mails to sockets drops    *)
(* the new one when it is told late that the old one is gone.              *)
(***************************************************************************)
EXTENDS Integers, Sequences, FiniteSets, SequencesExt

CONSTANTS
  MaxActs,     \* bound: clicks of the user in a behaviour, pages gone to included
  MaxCalls,    \* bound: calls of one page or service under way at once
  MaxFailures, \* bound: calls that fail and connections that are lost
  MaxNews      \* bound: what other people do

ASSUME BrowserAssumption ==
  MaxActs \in Nat /\ MaxCalls \in Nat /\ MaxFailures \in Nat /\ MaxNews \in Nat

VARIABLES
  route,     \* the page the tab shows, and the story of a viewer or the letter
  acts,      \* clicks so far
  failures,  \* calls that failed and connections that were lost so far
  news,      \* what other people have done so far
  connected  \* the socket: "up", "lost" or, for good, "closed"; "shadowed" while
             \* the server has not missed the one before it, then "mute"

browserVars == <<route, acts, failures, news, connected>>

At(page, story) == [page |-> page, story |-> story]

Shows(page) == route.page = page

\* Whoever leaves the mailbox closes the socket of the whole tab.
SocketAfter(place) == IF Shows("mail") /\ place.page # "mail" THEN "closed" ELSE connected

\* The user clicks, and stays on the page or is taken to another one.
Click ==
  /\ acts < MaxActs
  /\ acts' = acts + 1
  /\ UNCHANGED <<route, failures, news, connected>>

Goes(place) ==
  /\ route' = place
  /\ connected' = SocketAfter(place)
  /\ UNCHANGED news

ClickTo(place) ==
  /\ acts < MaxActs
  /\ acts' = acts + 1
  /\ Goes(place)
  /\ UNCHANGED failures

\* Nobody clicks: an answer, an event, a timer.
Unprompted == UNCHANGED browserVars

UnpromptedTo(place) ==
  /\ Goes(place)
  /\ UNCHANGED <<acts, failures>>

Failing ==
  /\ failures < MaxFailures
  /\ failures' = failures + 1
  /\ UNCHANGED <<route, acts, news, connected>>

FailingTo(place) ==
  /\ failures < MaxFailures
  /\ failures' = failures + 1
  /\ Goes(place)
  /\ UNCHANGED acts

\* Somebody else does something.
Happens ==
  /\ news < MaxNews
  /\ news' = news + 1
  /\ UNCHANGED <<route, acts, failures, connected>>

\* What is sent to everybody, or to the room of the user, reaches the tab.
Online == connected \in {"up", "shadowed", "mute"}

\* The maps of the gateways have the socket of the tab.
Reachable == connected \in {"up", "shadowed"}

-----------------------------------------------------------------------------
\* What a sequence has at these places, in order.
Part(seq, places) ==
  [k \in 1..Cardinality(places) |->
     seq[CHOOSE i \in places : Cardinality({j \in places : j <= i}) = k]]

\* A sequence without the members that are e.
Without(seq, e) == Part(seq, {i \in 1..Len(seq) : seq[i] # e})

-----------------------------------------------------------------------------
(***************************************************************************)
(* Calls, as a sequence: the ones served come in the order in which they   *)
(* were served.                                                            *)
(***************************************************************************)
\* arg: what is asked; got: what the answer says; late: the things the page
\* has meanwhile learned from a call served later; deaf: nobody listens.
Call(kind, arg) ==
  [kind |-> kind, arg |-> arg, at |-> "sent", got |-> <<>>, late |-> {}, deaf |-> FALSE]

Sent(calls, more) == calls \o more

\* The server has done what the call asks.
Served(calls, j, got) ==
  Append(RemoveAt(calls, j), [calls[j] EXCEPT !.at = "served", !.got = got])

\* What a kind of call is about, where tells has the pairs of the two.
About(tells, kind) == {pair[2] : pair \in {t \in tells : t[1] = kind}}

\* Call j is answered: what it tells makes older news of the same stale. Of
\* calls whose answer is the same whenever they are served only the order in
\* which they were sent counts, and they are answered as they are.
Answered(calls, j, tells) ==
  LET both(i) == About(tells, calls[i].kind) \intersect About(tells, calls[j].kind)
  IN  RemoveAt([i \in 1..Len(calls) |->
                  IF i < j /\ calls[i].at = calls[j].at
                  THEN [calls[i] EXCEPT !.late = @ \union both(i)]
                  ELSE calls[i]], j)

Deafened(calls) == [i \in 1..Len(calls) |-> [calls[i] EXCEPT !.deaf = TRUE]]

\* The page is left: answers are dropped, and calls that only read with them.
Unheard(calls, writes) ==
  Deafened(Part(calls, {i \in 1..Len(calls) : calls[i].at = "sent" /\ calls[i].kind \in writes}))

BrowserInit ==
  /\ route = At("elsewhere", 0)
  /\ acts = 0 /\ failures = 0 /\ news = 0
  /\ connected = "up"
=============================================================================
