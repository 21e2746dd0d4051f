-------------------------------- MODULE Chat --------------------------------
(***************************************************************************)
(* Conversations: services/chat.service.ts, chat:send and Grok's answers   *)
(* of gateways/chat.gateway.ts, and the page of a conversation in the      *)
(* browser, chat/chat.component.ts of the front end.                       *)
(*                                                                         *)
(* The page asks for the conversation and for its messages over HTTP, and  *)
(* is told of new messages over its socket: nothing orders the answers of  *)
(* the one and the events of the other.  A page that turns to another      *)
(* conversation does not wait for the answers of the first any more.       *)
(*                                                                         *)
(* Left out: contents, the lists beside the page, unreadCount of a         *)
(* participant, which nothing reads, and lastOnline.  Grok is external.    *)
(***************************************************************************)
EXTENDS Integers, Sequences, FiniteSets, SequencesExt

CONSTANTS
  People,       \* users with a browser
  Grok,         \* the user that answers by itself
  Nobody,       \* no user
  Openers,      \* bound: who opens the first conversation, the second, ...
  MaxMessages,  \* bound: messages sent in a behaviour, answers included
  MaxHand,      \* bound: requests the server has in hand at once
  MaxDrops      \* bound: connections lost and queries failed in a behaviour

ASSUME ChatAssumption ==
  /\ Grok \notin People /\ Nobody \notin People \union {Grok}
  /\ Openers \in Seq(People) /\ MaxMessages \in Nat /\ MaxHand \in Nat /\ MaxDrops \in Nat

VARIABLES
  convs,    \* the participants of each conversation, by id
  msgs,     \* the messages, by id
  hand,     \* the requests the server has in hand, until they are answered
  page,     \* the ChatComponent of each browser
  net,      \* the messages the server has published to each browser
  online,   \* the socket of each browser is connected
  opens,    \* conversations opened so far
  sends,    \* messages sent so far, the answers still to come included
  drops,    \* connections lost and queries failed so far
  twice,    \* history: the pairs two conversations were being created for at once
  mute      \* history: the conversations with a message that was never published

vars == <<convs, msgs, hand, page, net, online, opens, sends, drops, twice, mute>>

Users == People \union {Grok}

MaxOpens == Len(Openers)

\* to and hasty are history: whom the sender had in mind, and that his page
\* still had the id of the conversation before.
Messages == [conv : Nat, from : Users, to : Users, hasty : BOOLEAN]

NoPage == [with |-> Nobody, conv |-> 0, sub |-> 0, view |-> <<>>, load |-> "none", shaken |-> FALSE]

\* conv: conversationId.  sub: the conversation whose events it hears.
\* shaken is history: a message was on its way while the page was loading.
Pages == [with : Users \union {Nobody}, conv : Nat, sub : Nat,
          view : Seq(Nat), load : {"none", "open", "history"}, shaken : BOOLEAN]

\* live: the page still waits for the answer, or Grok has not apologised.
NoWork == [kind |-> "none", user |-> Nobody, to |-> Nobody, conv |-> 0, at |-> "idle",
           got |-> <<>>, live |-> FALSE, hasty |-> FALSE]

Work == [kind : {"open", "history", "send", "reply"}, user : Users, to : Users \union {Nobody},
         conv : Nat, at : {"sent", "look", "create", "select", "insert", "count", "answer"},
         got : Seq(Nat), live : BOOLEAN, hasty : BOOLEAN]

Init ==
  /\ convs = <<>> /\ msgs = <<>>
  /\ hand = [j \in 1..MaxHand |-> NoWork]
  /\ page = [u \in People |-> NoPage]
  /\ net = [u \in People |-> <<>>]
  /\ online = [u \in People |-> TRUE]
  /\ opens = 0 /\ sends = 0 /\ drops = 0
  /\ twice = {} /\ mute = {}

-----------------------------------------------------------------------------
Free(j) == hand[j] = NoWork /\ \A i \in 1..j-1 : hand[i] # NoWork

Done(j) == hand' = [hand EXCEPT ![j] = NoWork]

MessagesOf(c) == {m \in DOMAIN msgs : msgs[m].conv = c}

\* Mutant: a conversation without messages does not count.
BetweenSpoken(u, v) == {c \in DOMAIN convs : {u, v} \subseteq convs[c] /\ MessagesOf(c) # {}}

\* The conversations of two users: each of them has both as participants.
Between(u, v) == {c \in DOMAIN convs : {u, v} \subseteq convs[c]}

\* A message of c is stored, and not yet heard by u or not yet published.
UnderWay(c, u) ==
  \/ \E j \in 1..MaxHand : hand[j].at = "count" /\ hand[j].conv = c
  \/ \E i \in DOMAIN net[u] : msgs[net[u][i]].conv = c

-----------------------------------------------------------------------------
(***************************************************************************)
(* The page.                                                               *)
(***************************************************************************)
\* Mutant: the requests of the page before are still listened to.
StillHeard(u) == hand

\* conversationSubscription$.next(): what the page waited for is dropped.
Unheard(u) ==
  [j \in 1..MaxHand |->
     IF hand[j].user = u /\ hand[j].kind \in {"open", "history"}
     THEN [hand[j] EXCEPT !.live = FALSE]
     ELSE hand[j]]

\* loadConversation: conversationId keeps the id it had.
LoadConversation(u, v, j) ==
  /\ opens < MaxOpens /\ u = Openers[opens + 1] /\ Free(j) /\ v # u
  /\ opens' = opens + 1
  /\ page' = [page EXCEPT ![u] = [NoPage EXCEPT !.with = v, !.conv = page[u].conv, !.load = "open"]]
  /\ hand' = [Unheard(u) EXCEPT ![j] = [NoWork EXCEPT !.kind = "open", !.user = u, !.to = v,
                                                      !.at = "look", !.live = TRUE]]
  /\ UNCHANGED <<convs, msgs, net, online, sends, drops, twice, mute>>

\* ngOnInit of a new page.
Enter(u, v, j) == page[u].with = Nobody /\ LoadConversation(u, v, j)

\* ngOnChanges, and the route's parameter: the page turns to another user.
TurnTo(u, v, j) == page[u].with \notin {Nobody, v} /\ LoadConversation(u, v, j)

\* A click in the list of conversations, perhaps on the one that is shown.
OpenConversation(u, v, j) == page[u].with # Nobody /\ LoadConversation(u, v, j)

\* ngOnDestroy: the page waits for nothing any more. Only of interest where
\* the user comes back.
Leave(u) ==
  /\ page[u].with # Nobody
  /\ opens < MaxOpens /\ u = Openers[opens + 1]
  /\ page' = [page EXCEPT ![u] = NoPage]
  /\ hand' = Unheard(u)
  /\ UNCHANGED <<convs, msgs, net, online, opens, sends, drops, twice, mute>>

\* The conversation is known: its messages are asked for, and its events are
\* heard from now on.
Opened(j) ==
  /\ hand[j].kind = "open" /\ hand[j].at = "answer"
  /\ LET u == hand[j].user
         c == hand[j].conv
     IN  IF hand[j].live
         THEN /\ page' = [page EXCEPT ![u].conv = c, ![u].sub = c, ![u].load = "history",
                                      ![u].shaken = @ \/ UnderWay(c, u)]
              /\ hand' = [hand EXCEPT ![j].kind = "history", ![j].at = "select"]
         ELSE page' = page /\ Done(j)
  /\ UNCHANGED <<convs, msgs, net, online, opens, sends, drops, twice, mute>>

\* The messages replace what the page has shown meanwhile.
Loaded(j) ==
  /\ hand[j].kind = "history" /\ hand[j].at = "answer"
  /\ page' = IF hand[j].live
             THEN [page EXCEPT ![hand[j].user].view = hand[j].got, ![hand[j].user].load = "none"]
             ELSE page
  /\ Done(j)
  /\ UNCHANGED <<convs, msgs, net, online, opens, sends, drops, twice, mute>>

\* sendMessage: the id the page has goes with the user it shows.
Send(u, j) ==
  /\ page[u].with # Nobody /\ Free(j)
  /\ LET cost == IF page[u].with = Grok THEN 2 ELSE 1
     IN  sends + cost <= MaxMessages /\ sends' = sends + cost
  /\ hand' = [hand EXCEPT ![j] =
       [NoWork EXCEPT !.kind = "send", !.user = u, !.to = page[u].with, !.conv = page[u].conv,
                      !.at = "sent",
                      !.hasty = page[u].sub = 0 /\ page[u].conv # 0]]
  /\ UNCHANGED <<convs, msgs, page, net, online, opens, drops, twice, mute>>

\* Mutant: the events of every conversation are shown.
HearsAll(u, c) == page[u].sub # 0

HearsOf(u, c) == page[u].sub = c

Hear(u) ==
  /\ net[u] # <<>>
  /\ net' = [net EXCEPT ![u] = Tail(@)]
  /\ LET m == Head(net[u])
     IN  page' = IF HearsOf(u, msgs[m].conv)
                 THEN [page EXCEPT ![u].view = Append(@, m)]
                 ELSE page
  /\ UNCHANGED <<convs, msgs, hand, online, opens, sends, drops, twice, mute>>

-----------------------------------------------------------------------------
(***************************************************************************)
(* The server.                                                             *)
(***************************************************************************)
\* A message reaches the gateway, with the id of a conversation or without.
Arrives(j, known) ==
  /\ hand[j].at = "sent" /\ online[hand[j].user]
  /\ known = (hand[j].conv # 0)

\* getOrCreateConversation looks for one ...
LookUp(j) ==
  /\ hand[j].at = "look" \/ Arrives(j, FALSE)
  /\ LET u == hand[j].user
         v == hand[j].to
         next == IF hand[j].kind = "send" THEN "insert" ELSE "answer"
         rival == \E i \in 1..MaxHand : hand[i].at = "create" /\ {hand[i].user, hand[i].to} = {u, v}
     IN  IF Between(u, v) = {}
         THEN /\ hand' = [hand EXCEPT ![j].at = "create"]
              /\ twice' = IF rival THEN twice \union {{u, v}} ELSE twice
         ELSE /\ \E c \in Between(u, v) : hand' = [hand EXCEPT ![j].conv = c, ![j].at = next]
              /\ twice' = twice
  /\ UNCHANGED <<convs, msgs, page, net, online, opens, sends, drops, mute>>

Participants(u, v) == {u, v}

\* ... and creates it, with both participants, in a transaction.
CreateConversation(j) ==
  /\ hand[j].at = "create"
  /\ convs' = Append(convs, Participants(hand[j].user, hand[j].to))
  /\ hand' = [hand EXCEPT ![j].conv = Len(convs) + 1,
                          ![j].at = IF hand[j].kind = "send" THEN "insert" ELSE "answer"]
  /\ UNCHANGED <<msgs, page, net, online, opens, sends, drops, twice, mute>>

\* ORDER BY of a set of ids.
InOrder(S) ==
  CHOOSE q \in [1..Cardinality(S) -> S] : \A i, k \in 1..Cardinality(S) : i < k => q[i] < q[k]

\* getMessagesForConversation, in the order of their ids.
SelectMessages(j) ==
  /\ hand[j].at = "select"
  /\ hand' = [hand EXCEPT ![j].got = InOrder(MessagesOf(hand[j].conv)), ![j].at = "answer"]
  /\ UNCHANGED <<convs, msgs, page, net, online, opens, sends, drops, twice, mute>>

\* sendMessage stores the message ...
InsertMessage(j) ==
  /\ hand[j].at = "insert" \/ Arrives(j, TRUE)
  /\ LET w == hand[j]
     IN  /\ msgs' = Append(msgs, [conv |-> w.conv, from |-> w.user, to |-> w.to, hasty |-> w.hasty])
         /\ page' = [u \in People |->
                       IF page[u].load = "history" /\ page[u].sub = w.conv
                       THEN [page[u] EXCEPT !.shaken = TRUE]
                       ELSE page[u]]
  /\ hand' = [hand EXCEPT ![j].at = "count", ![j].got = <<Len(msgs) + 1>>]
  /\ UNCHANGED <<convs, net, online, opens, sends, drops, twice, mute>>

\* ... counts it, and the gateway publishes it to every browser there is.
Publish(j) ==
  /\ hand[j].at = "count"
  /\ net' = [u \in People |-> IF online[u] THEN net[u] \o hand[j].got ELSE net[u]]
  /\ page' = [u \in People |-> IF online[u] THEN page[u] ELSE [page[u] EXCEPT !.shaken = TRUE]]
  /\ UNCHANGED <<convs, msgs, online, opens, sends, drops, twice, mute>>

HandleSend(j) == hand[j].kind = "send" /\ hand[j].to # Grok /\ Publish(j) /\ Done(j)

\* What Grok is told it answers, in the conversation the message went to.
HandleGrokMessage(j) ==
  /\ hand[j].kind = "send" /\ hand[j].to = Grok
  /\ Publish(j)
  /\ hand' = [hand EXCEPT ![j] =
       [NoWork EXCEPT !.kind = "reply", !.user = Grok, !.to = hand[j].user, !.conv = hand[j].conv,
                      !.at = "insert", !.live = TRUE, !.hasty = hand[j].hasty]]

ProcessGrokResponse(j) == hand[j].kind = "reply" /\ Publish(j) /\ Done(j)

\* A query fails; it may be the one that counts a message that is stored.
Fails(j) ==
  /\ hand[j].at \in {"look", "create", "select", "insert", "count"}
  /\ drops < MaxDrops
  /\ drops' = drops + 1
  /\ mute' = IF hand[j].at = "count" THEN mute \union {hand[j].conv} ELSE mute
  /\ UNCHANGED <<convs, msgs, net, online, opens, twice>>

\* The page is told, and shows nothing.
LoadFails(j) ==
  /\ hand[j].kind \in {"open", "history"}
  /\ Fails(j) /\ Done(j)
  /\ page' = IF hand[j].live
             THEN [page EXCEPT ![hand[j].user].load = "none", ![hand[j].user].shaken = TRUE]
             ELSE page
  /\ UNCHANGED sends

\* The page does not look at the answer to what it has sent.
SendFails(j) ==
  /\ hand[j].kind = "send" \/ (hand[j].kind = "reply" /\ ~hand[j].live)
  /\ Fails(j) /\ Done(j)
  /\ UNCHANGED <<page, sends>>

\* An answer of Grok's is replaced by an apology, even when it is stored.
GrokApologises(j) ==
  /\ hand[j].kind = "reply" /\ hand[j].live
  /\ Fails(j)
  /\ hand' = [hand EXCEPT ![j].at = "insert", ![j].got = <<>>, ![j].live = FALSE]
  /\ sends' = IF hand[j].at = "count" THEN sends + 1 ELSE sends
  /\ sends' <= MaxMessages
  /\ UNCHANGED page

\* The socket is lost, with what is under way to the browser, and perhaps
\* from it.  What is sent later waits for the next connection.
Drop(u) ==
  /\ online[u] /\ drops < MaxDrops
  /\ drops' = drops + 1
  /\ online' = [online EXCEPT ![u] = FALSE]
  /\ net' = [net EXCEPT ![u] = <<>>]
  /\ page' = [page EXCEPT ![u].shaken = TRUE]
  /\ \E lost \in SUBSET {j \in 1..MaxHand : hand[j].user = u /\ hand[j].at = "sent"} :
       hand' = [j \in 1..MaxHand |-> IF j \in lost THEN NoWork ELSE hand[j]]
  /\ UNCHANGED <<convs, msgs, opens, sends, twice, mute>>

Reconnect(u) ==
  /\ ~online[u]
  /\ online' = [online EXCEPT ![u] = TRUE]
  /\ UNCHANGED <<convs, msgs, hand, page, net, opens, sends, drops, twice, mute>>

-----------------------------------------------------------------------------
Server(j) ==
  \/ LookUp(j) \/ CreateConversation(j) \/ SelectMessages(j)
  \/ InsertMessage(j) \/ HandleSend(j) \/ HandleGrokMessage(j) \/ ProcessGrokResponse(j)
  \/ LoadFails(j) \/ SendFails(j) \/ GrokApologises(j)

Next ==
  \/ \E j \in 1..MaxHand :
       \/ Server(j) \/ Opened(j) \/ Loaded(j)
       \/ \E u \in People : Send(u, j) \/ \E v \in Users : Enter(u, v, j) \/ TurnTo(u, v, j) \/ OpenConversation(u, v, j)
  \/ \E u \in People : Leave(u) \/ Hear(u) \/ Drop(u) \/ Reconnect(u)

Spec == Init /\ [][Next]_vars

-----------------------------------------------------------------------------
\* Types; every message that is stored, shown or under way has a conversation
\* of two.
TypeOK ==
  /\ convs \in Seq(SUBSET Users)
  /\ msgs \in Seq(Messages)
  /\ hand \in [1..MaxHand -> Work \union {NoWork}]
  /\ page \in [People -> Pages]
  /\ net \in [People -> Seq(DOMAIN msgs)]
  /\ online \in [People -> BOOLEAN]
  /\ opens \in 0..MaxOpens /\ sends \in 0..MaxMessages /\ drops \in 0..MaxDrops
  /\ twice \subseteq SUBSET Users /\ mute \subseteq DOMAIN convs
  /\ \A m \in DOMAIN msgs : msgs[m].conv \in DOMAIN convs
  /\ \A c \in DOMAIN convs : Cardinality(convs[c]) = 2

\* Two users have one conversation, unless two requests created it at once.
CalmOneConversation ==
  \A c, d \in DOMAIN convs : c # d /\ convs[c] = convs[d] => convs[c] \in twice

\* A message goes to whom its sender sees, unless he sent it before the page
\* knew the conversation he had turned to.
CalmAddressed ==
  \A m \in DOMAIN msgs : msgs[m].hasty \/ {msgs[m].from, msgs[m].to} = convs[msgs[m].conv]

\* A page that has heard all there is shows the messages of its conversation,
\* each once, unless one was on its way while the page was loading, the
\* connection was lost, or a message was stored and never published.
CalmViewExact ==
  \A u \in People :
    LET p == page[u]
    IN  p.sub # 0 /\ p.load = "none" /\ ~p.shaken /\ p.sub \notin mute /\ ~UnderWay(p.sub, u)
          => Len(p.view) = Cardinality(MessagesOf(p.sub)) /\ ToSet(p.view) = MessagesOf(p.sub)
=============================================================================
