-------------------------------- MODULE ChatList --------------------------------
(***************************************************************************)
(* The list of conversations beside the chat: chat.service of the front    *)
(* end, shown by chat-home.component, and getConversationsForUser it is    *)
(* filled from.                                                            *)
(*                                                                         *)
(* The service lives as long as the tab and loads the list once, when it   *)
(* is made; from then on it follows the chat:message events, which the     *)
(* server sends to everybody.  There are three conversations: the user's   *)
(* with ann and with bob, and one between those two.  A message is known   *)
(* by its place among all that were said.  Left out: the text, gifts, the  *)
(* view of one conversation (Chat has it), avatars, and names.             *)
(***************************************************************************)
EXTENDS Browser

VARIABLES
  said,      \* the server: the messages, in order
  wire,      \* the events on their way to this tab
  chats,     \* the fields of ChatService
  chatCalls, \* the call of the service
  chatMet    \* history: the conversations an accident has touched

chatVars == <<said, wire, chats, chatCalls, chatMet>>

Talks == {"ann", "bob", "theirs"}

Mine == {"ann", "bob"}

Says(talk) == CASE talk = "theirs" -> {"ann", "bob"} [] OTHER -> {"me", talk}

Said(talk, by) == [talk |-> talk, by |-> by]

\* The chat with ann exists from the start, without messages or with some.
ChatInit ==
  /\ said \in {<<>>, <<Said("ann", "ann"), Said("ann", "me"), Said("bob", "bob")>>}
  /\ wire = <<>>
  /\ chats = [made |-> FALSE, list |-> <<>>, since |-> 0]
  /\ chatCalls = <<>>
  /\ chatMet = {}

-----------------------------------------------------------------------------
(***************************************************************************)
(* The server, when n messages had been said.                              *)
(***************************************************************************)
In(talk, n) == {i \in 1..n : said[i].talk = talk}

LastIn(talk, n) == Max({0} \union In(talk, n))

\* The rows are in the order of their messages, newest first, conversations
\* without any before all others.
Order(n) ==
  LET known == {t \in Mine : t = "ann" \/ In(t, n) # {}}
      upTo(t) == {s \in known : s = t \/ In(s, n) = {} \/ (In(t, n) # {} /\ LastIn(s, n) > LastIn(t, n))}
  IN  [k \in 1..Cardinality(known) |-> CHOOSE t \in known : Cardinality(upTo(t)) = k]

\* No message is ever marked as read, so all count, the user's own too. The
\* last of the messages, which come newest first, is taken for the last one said.
Mapped(talk, n) ==
  [id |-> talk, partner |-> talk, unread |-> Cardinality(In(talk, n)),
   last |-> IF In(talk, n) = {} THEN 0 ELSE Min(In(talk, n))]

Conversations(n) == [i \in 1..Len(Order(n)) |-> Mapped(Order(n)[i], n)]

\* Somebody says something; the user from another tab.
Speaks(talk, by) ==
  /\ chats.made
  /\ said' = Append(said, Said(talk, by))
  /\ IF Online
     THEN wire' = Append(wire, Len(said) + 1) /\ UNCHANGED chatMet
     ELSE chatMet' = chatMet \union {talk} /\ UNCHANGED wire
  /\ Happens
  /\ UNCHANGED <<chats, chatCalls>>

\* What is on its way when the socket goes down is not sent again.
EventsLost ==
  /\ wire' = <<>>
  /\ chatMet' = chatMet \union {said[wire[i]].talk : i \in 1..Len(wire)}
  /\ UNCHANGED <<said, chats, chatCalls>>

-----------------------------------------------------------------------------
(***************************************************************************)
(* The service.                                                            *)
(***************************************************************************)
\* It is made for the first page of the chat.
MakeChatService ==
  /\ chats' = [chats EXCEPT !.made = TRUE]
  /\ chatCalls' = <<Call("talks", 0)>>
  /\ UNCHANGED <<said, wire, chatMet>>

ServeConversations(j) ==
  /\ chatCalls[j].at = "sent"
  /\ chatCalls' = Served(chatCalls, j, Len(said))
  /\ Unprompted
  /\ UNCHANGED <<said, wire, chats, chatMet>>

\* The events that have come before are forgotten, those that come later count
\* once more what the answer has counted.
ConversationsLoaded(j) ==
  LET n == chatCalls[j].got
  IN  /\ chatCalls[j].at = "served"
      /\ chats' = [chats EXCEPT !.list = Conversations(n), !.since = n]
      /\ chatCalls' = RemoveAt(chatCalls, j)
      /\ chatMet' = {said[i].talk : i \in (n + 1..Len(said)) \ ToSet(wire)}
                      \union {said[i].talk : i \in (1..n) \intersect ToSet(wire)}
      /\ Unprompted
      /\ UNCHANGED <<said, wire>>

\* The list stays as the events have made it.
ConversationsFailed(j) ==
  /\ chatCalls' = RemoveAt(chatCalls, j)
  /\ chatMet' = Talks
  /\ Failing
  /\ UNCHANGED <<said, wire, chats>>

\* The user's own first message in a conversation does not tell with whom.
Listed(talk, by) ==
  [id |-> talk, partner |-> IF by = "me" THEN "nobody" ELSE by, unread |-> 0, last |-> 0]

Entry(talk) == CHOOSE i \in 1..Len(chats.list) : chats.list[i].id = talk

Has(talk) == \E i \in 1..Len(chats.list) : chats.list[i].id = talk

Updated(i) ==
  LET m == said[i]
      old == IF Has(m.talk) THEN chats.list[Entry(m.talk)] ELSE Listed(m.talk, m.by)
  IN  [old EXCEPT !.last = i, !.unread = IF m.by = "me" THEN @ ELSE @ + 1]

\* Mutant: the conversation keeps its place in the list.
HeardInPlace ==
  /\ wire # <<>>
  /\ wire' = Tail(wire)
  /\ LET i == Head(wire)
         t == said[i].talk
     IN  /\ chats' = [chats EXCEPT !.list = IF Has(t) THEN [@ EXCEPT ![Entry(t)] = Updated(i)]
                                            ELSE @ \o <<Updated(i)>>]
         /\ chatMet' = chatMet \union IF Updated(i).partner = "nobody" THEN {t} ELSE {}
  /\ Unprompted
  /\ UNCHANGED <<said, chatCalls>>

\* chat:message, whoever it is for: the conversation moves to the front.
MessageHeard ==
  /\ wire # <<>>
  /\ wire' = Tail(wire)
  /\ LET i == Head(wire)
         t == said[i].talk
     IN  /\ chats' = [chats EXCEPT !.list =
                        <<Updated(i)>> \o Part(@, {k \in 1..Len(@) : @[k].id # t})]
         /\ chatMet' = chatMet \union IF Updated(i).partner = "nobody" THEN {t} ELSE {}
  /\ Unprompted
  /\ UNCHANGED <<said, chatCalls>>

ChatNext ==
  \/ \E talk \in Talks : \E by \in Says(talk) : Speaks(talk, by)
  \/ \E j \in 1..Len(chatCalls) :
       ServeConversations(j) \/ ConversationsLoaded(j) \/ ConversationsFailed(j)
  \/ MessageHeard

-----------------------------------------------------------------------------
\* The list of conversations at rest has each of the user's once and with the
\* right partner, the one spoken in last before the others; it shows the last
\* message of one that was spoken in since it was loaded, and counts every
\* message of the partner and at most the user's own besides. It fails for
\* what was said while the list was loaded or the socket was down, and for a
\* conversation the user has opened himself since.
ChatsShown ==
  chats.made /\ chatCalls = <<>> /\ wire = <<>> =>
    LET calm == {t \in Mine : t \notin chatMet /\ (t = "ann" \/ In(t, Len(said)) # {})}
        entry == [t \in calm |-> Entry(t)]
        shown(t) == chats.list[entry[t]]
        all(t) == In(t, Len(said))
        lastIn(t) == LastIn(t, Len(said))
    IN  /\ \A t \in calm :
             /\ Cardinality({i \in 1..Len(chats.list) : chats.list[i].id = t}) = 1
             /\ shown(t).partner = t
             /\ lastIn(t) > chats.since => shown(t).last = lastIn(t)
             /\ shown(t).unread \in Cardinality({i \in all(t) : said[i].by = t})..Cardinality(all(t))
        /\ \A s, t \in calm : lastIn(s) > lastIn(t) /\ lastIn(t) > 0 => entry[s] < entry[t]
=============================================================================
