------------------------------ MODULE PrivatePages ------------------------------
(***************************************************************************)
(* The tab of one user: the pages of ProfilePage, MailPage and ChatList    *)
(* behind one router and on one socket.                                    *)
(***************************************************************************)
EXTENDS ProfilePage, MailPage, ChatList

privateVars == <<browserVars, profileVars, mailVars, chatVars>>

PrivateInit == BrowserInit /\ ProfileInit /\ MailInit /\ ChatInit

-----------------------------------------------------------------------------
InMail(page) == page \in {"mail", "letter", "compose"}

\* A letter is opened from the mailbox, which shows none while it is loading.
PrivatePlaces ==
  {At(page, 0) : page \in {"profile", "visit", "mail", "compose", "chat"}}
    \union (IF Shows("mail") /\ ~box.loading THEN {At("letter", id) : id \in box.list} ELSE {})

\* The router leaves one page and makes the other.
PrivateGo ==
  \E place \in PrivatePlaces :
    /\ route.page # place.page
    /\ ClickTo(place)
    /\ IF place.page \in {"profile", "visit"} THEN EnterProfile(place.page)
       ELSE IF OnProfile THEN LeaveProfile ELSE UNCHANGED profileVars
    /\ IF InMail(route.page) \/ InMail(place.page) THEN EnterMail(place) ELSE UNCHANGED mailVars
    /\ IF place.page = "chat" /\ ~chats.made THEN MakeChatService
       ELSE IF connected' # connected THEN EventsLost ELSE UNCHANGED chatVars

ConnectionLost ==
  /\ Online
  /\ failures < MaxFailures
  /\ connected' = "lost"
  /\ failures' = failures + 1
  /\ EventsLost
  /\ UNCHANGED <<route, acts, news, profileVars, mailVars>>

\* The server may have noticed already.
Reconnects ==
  /\ connected = "lost"
  /\ connected' \in {"up", "shadowed"}
  /\ UNCHANGED <<route, acts, failures, news, profileVars, mailVars, chatVars>>

\* handleDisconnect, late: what it deletes is the entry of the new socket.
DisconnectNoticed ==
  /\ connected = "shadowed"
  /\ connected' = "mute"
  /\ UNCHANGED <<route, acts, failures, news, profileVars, mailVars, chatVars>>

\* An answer takes the tab to the mailbox.
PulledToMail ==
  /\ \E j \in 1..Len(mailCalls) : LeadsToMail(j)
  /\ IF OnProfile THEN LeaveProfile ELSE UNCHANGED profileVars
  /\ UNCHANGED chatVars

PrivateNext ==
  \/ ProfileNext /\ UNCHANGED <<mailVars, chatVars>>
  \/ MailNext /\ UNCHANGED <<profileVars, chatVars>>
  \/ ChatNext /\ UNCHANGED <<profileVars, mailVars>>
  \/ PrivateGo \/ ConnectionLost \/ Reconnects \/ DisconnectNoticed \/ PulledToMail

PrivateSpec == PrivateInit /\ [][PrivateNext]_privateVars
=============================================================================
