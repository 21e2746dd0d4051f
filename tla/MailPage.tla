-------------------------------- MODULE MailPage --------------------------------
(***************************************************************************)
(* The mail pages of the front end, messages/*.component: the mailbox with *)
(* its three tabs, a letter, and the form for a new one; and what          *)
(* message.service and message.gateway do for them.                        *)
(*                                                                         *)
(* A call is sent, served and answered, and none is cancelled.  When a     *)
(* read was served only matters when the letters have changed since: every *)
(* change lets any of the reads under way be served just before it, and    *)
(* the others are served when they are answered.  Left out: the order and  *)
(* the text of the letters, attachments, the choice of recipients, and the *)
(* user's own letters, which are in nobody's mailbox but the recipients'.  *)
(***************************************************************************)
EXTENDS Browser

VARIABLES
  letters,    \* the server: the letters to this user, by id
  box,        \* the fields of the three components
  mailCalls,  \* the calls of the pages
  mailMet     \* history: what an accident has put out of date

mailVars == <<letters, box, mailCalls, mailMet>>

Tabs == {"unread", "read", "vip"}

Letter(vip, read) == [vip |-> vip, read |-> read, archived |-> FALSE, deleted |-> FALSE]

\* The mailbox, the letter that is shown or 0, and whether one is being sent.
NoBox ==
  [tab |-> "unread", list |-> {}, unread |-> 0, loading |-> FALSE, shown |-> 0, sending |-> FALSE]

MailInit ==
  /\ letters = <<Letter(TRUE, FALSE), Letter(FALSE, TRUE)>>
  /\ box = NoBox
  /\ mailCalls = <<>>
  /\ mailMet = {}

-----------------------------------------------------------------------------
(***************************************************************************)
(* The server.                                                             *)
(***************************************************************************)
InTab(tab) ==
  {i \in 1..Len(letters) :
     /\ ~letters[i].deleted /\ ~letters[i].archived
     /\ CASE tab = "unread" -> ~letters[i].read
          [] tab = "read" -> letters[i].read
          [] tab = "vip" -> letters[i].vip}

\* There is one row for all who get a letter, with one set of flags.
Flagged(id, flag) ==
  CASE flag = "mark" -> [letters EXCEPT ![id].read = TRUE]
    [] flag = "archive" -> [letters EXCEPT ![id].archived = TRUE]
    [] flag = "delete" -> [letters EXCEPT ![id].deleted = TRUE]

-----------------------------------------------------------------------------
(***************************************************************************)
(* Calls.                                                                  *)
(***************************************************************************)
Mailed(calls) ==
  /\ Len(mailCalls) + Len(calls) <= MaxCalls
  /\ mailCalls' = Sent(mailCalls, calls)

LoadMessagesByTab(tab) == Call("tab", tab)

LoadUnreadCount == Call("count", 0)

MailReads == {"tab", "count", "letter"}

\* What a read finds: what it found, or what there is.
Finds(call) ==
  IF call.at = "served" THEN call.got
  ELSE CASE call.kind = "tab" -> InTab(call.arg)
         [] call.kind = "count" -> InTab("unread")
         [] call.kind = "letter" -> {call.arg} \ {i \in 1..Len(letters) : letters[i].deleted}

\* The reads that may have been served by now.
UnservedMail(calls) == {i \in 1..Len(calls) : calls[i].at = "sent" /\ calls[i].kind \in MailReads}

\* The calls when these were, each after the ones served before.
MailServedFirst(calls, early) ==
  Part(calls, (1..Len(calls)) \ early)
    \o Part([i \in 1..Len(calls) |-> [calls[i] EXCEPT !.at = "served", !.got = Finds(calls[i])]], early)

\* The lists an answer is about; the count is that of the unread.
Concerns(call) ==
  CASE call.kind = "tab" -> {call.arg}
    [] call.kind = "count" -> {"unread"}
    [] call.kind \in {"archive", "delete"} -> IF call.at = "served" THEN Tabs ELSE {}
    [] OTHER -> {}

\* After n of the calls were served there is news of these lists, and what the
\* ones that are not answered yet say of them is old.
MailOutdated(calls, n, things) ==
  [i \in 1..Len(calls) |->
     IF i <= n /\ calls[i].at = "served"
     THEN [calls[i] EXCEPT !.late = @ \union (Concerns(calls[i]) \intersect things)]
     ELSE calls[i]]

\* The letters change, of which nobody tells the mailbox; some of these reads
\* were served before.
Untold(calls) ==
  /\ \E early \in SUBSET UnservedMail(calls) :
       LET served == MailServedFirst(calls, early)
       IN  mailCalls' = IF Shows("mail") THEN MailOutdated(served, Len(served), Tabs) ELSE served
  /\ mailMet' = mailMet \union (IF Shows("mail") THEN {"list", "count"} ELSE {})

\* The component of the page is gone. What its answers set is lost with it,
\* what else they lead to is not.
Gone(calls) ==
  Deafened(Part(calls, {i \in 1..Len(calls) : calls[i].kind \notin {"tab", "count"}}))

EnterMail(place) ==
  /\ box' = [NoBox EXCEPT !.loading = place.page \in {"mail", "letter"}]
  /\ mailCalls' = Gone(mailCalls) \o CASE place.page = "mail" -> <<LoadMessagesByTab("unread"), LoadUnreadCount>>
                            [] place.page = "letter" -> <<Call("letter", place.story)>>
                            [] OTHER -> <<>>
  /\ mailMet' = {}
  /\ UNCHANGED letters

\* Mutant: a change of the tab keeps the letters of the old one.
TabOnly(tab) ==
  /\ Shows("mail") /\ Click
  /\ box' = [box EXCEPT !.tab = tab, !.loading = TRUE]
  /\ Mailed(<<LoadMessagesByTab(box.tab)>>)
  /\ UNCHANGED <<letters, mailMet>>

OnTabChange(tab) ==
  /\ Shows("mail") /\ Click
  /\ box' = [box EXCEPT !.tab = tab, !.loading = TRUE]
  /\ Mailed(<<LoadMessagesByTab(tab)>>)
  /\ UNCHANGED <<letters, mailMet>>

\* archiveMessage and deleteMessage of a letter in the list, which is not shown
\* while it is loaded, or of the letter that is open.
PutAway(id, how) ==
  /\ \/ Shows("mail") /\ ~box.loading /\ id \in box.list
     \/ Shows("letter") /\ box.shown = id
  /\ Click
  /\ Mailed(<<Call(how, [id |-> id, from |-> route.page])>>)
  /\ UNCHANGED <<letters, box, mailMet>>

\* The button waits for the answer.
OnSubmit ==
  /\ Shows("compose") /\ ~box.sending /\ Click
  /\ box' = [box EXCEPT !.sending = TRUE]
  /\ Mailed(<<Call("create", 0)>>)
  /\ UNCHANGED <<letters, mailMet>>

-----------------------------------------------------------------------------
(***************************************************************************)
(* What other people do while a mail page is shown.                        *)
(***************************************************************************)
OnMail == Shows("mail") \/ Shows("letter")

\* Only those in cc are told, at the socket the gateway has for them: the others
\* are looked up by the array they are in.
LetterArrives(via) ==
  /\ OnMail
  /\ letters' = Append(letters, Letter(FALSE, FALSE))
  /\ Happens
  /\ IF Shows("mail") /\ via = "cc" /\ Reachable
     THEN /\ Len(mailCalls) + 2 <= MaxCalls
          /\ \E early \in SUBSET UnservedMail(mailCalls) :
               mailCalls' = Sent(MailServedFirst(mailCalls, early),
                                 <<LoadMessagesByTab(box.tab), LoadUnreadCount>>)
          /\ box' = [box EXCEPT !.loading = TRUE]
          /\ UNCHANGED mailMet
     ELSE Untold(mailCalls) /\ UNCHANGED box

\* Another one who got the letter reads it or puts it away, for all of them.
FellowFlags(id, flag) ==
  /\ OnMail
  /\ Flagged(id, flag) # letters
  /\ letters' = Flagged(id, flag)
  /\ Happens
  /\ Untold(mailCalls)
  /\ UNCHANGED box

\* archive and delete on the server; the mailbox will hear of its own.
ServePutAway(j) ==
  LET c == mailCalls[j]
      others == RemoveAt(mailCalls, j)
      done == [c EXCEPT !.at = "served"]
  IN  /\ c.at = "sent" /\ c.kind \in {"archive", "delete"}
      /\ letters' = Flagged(c.arg.id, c.kind)
      /\ IF c.arg.from = "mail" /\ ~c.deaf
         THEN /\ \E early \in SUBSET UnservedMail(others) :
                   mailCalls' = Append(MailServedFirst(others, early), done)
              /\ UNCHANGED mailMet
         ELSE Untold(IF c.deaf /\ c.arg.from = "mail" THEN others ELSE Append(others, done))
      /\ Unprompted
      /\ UNCHANGED box

\* markAsRead, which nobody waits for.
Marked(j) ==
  /\ mailCalls[j].kind = "mark"
  /\ letters' = Flagged(mailCalls[j].arg, "mark")
  /\ Untold(RemoveAt(mailCalls, j))
  /\ Unprompted
  /\ UNCHANGED box

-----------------------------------------------------------------------------
(***************************************************************************)
(* Answers.                                                                *)
(***************************************************************************)
\* A read that was not served yet is served after all that were.
MailServedBefore(j) == IF mailCalls[j].at = "served" THEN j - 1 ELSE Len(mailCalls)

Mail(j, kinds) ==
  LET c == mailCalls[j]
  IN  /\ c.kind \in kinds
      /\ c.kind \in MailReads \/ c.at = "served"
      /\ mailCalls' = RemoveAt(MailOutdated(mailCalls, MailServedBefore(j), Concerns(c)), j)
      /\ UNCHANGED letters

\* The answer for a tab that was left is shown under the one that is open; when
\* it comes last it stays.
TabLoaded(j) ==
  LET c == mailCalls[j]
      unread == c.arg = "unread"
      late == c.arg \in c.late
      old == {thing \in {"list", "count"} : IF thing = "list" THEN late \/ c.arg # box.tab ELSE unread /\ late}
      new == {thing \in {"list", "count"} : thing = "list" \/ unread}
  IN  /\ Mail(j, {"tab"}) /\ Unprompted
      /\ box' = [box EXCEPT !.list = Finds(c), !.loading = FALSE,
                            !.unread = IF unread THEN Cardinality(Finds(c)) ELSE @]
      /\ mailMet' = (mailMet \ new) \union old

CountLoaded(j) ==
  LET c == mailCalls[j]
  IN  /\ Mail(j, {"count"}) /\ Unprompted
      /\ box' = [box EXCEPT !.unread = Cardinality(Finds(c))]
      /\ mailMet' = (mailMet \ {"count"}) \union (IF "unread" \in c.late THEN {"count"} ELSE {})

\* The list loses the letter, the count stays as it was.
PutAwayFromList(j) ==
  LET c == mailCalls[j]
  IN  /\ Mail(j, {"archive", "delete"}) /\ Unprompted
      /\ c.arg.from = "mail"
      /\ box' = IF c.deaf THEN box ELSE [box EXCEPT !.list = @ \ {c.arg.id}]
      /\ mailMet' = IF c.deaf THEN mailMet ELSE mailMet \union {"count"}

\* An open letter that was put away and a new one that was sent give way to the
\* mailbox, whatever the tab shows by then.
Leads(call) ==
  \/ call.kind = "create"
  \/ call.kind \in {"archive", "delete"} /\ call.at = "served" /\ call.arg.from = "letter"

LeadsNowhere(j) ==
  /\ Leads(mailCalls[j]) /\ Shows("mail")
  /\ mailCalls' = RemoveAt(mailCalls, j)
  /\ Unprompted
  /\ UNCHANGED <<letters, box, mailMet>>

LeadsToMail(j) ==
  /\ Leads(mailCalls[j]) /\ ~Shows("mail")
  /\ box' = [NoBox EXCEPT !.loading = TRUE]
  /\ mailCalls' = Gone(RemoveAt(mailCalls, j)) \o <<LoadMessagesByTab("unread"), LoadUnreadCount>>
  /\ mailMet' = {}
  /\ UnpromptedTo(At("mail", 0))
  /\ UNCHANGED letters

\* A letter that was deleted is not found, and marked all the same.
LetterLoaded(j) ==
  LET c == mailCalls[j]
  IN  /\ c.kind = "letter"
      /\ mailCalls' = Append(RemoveAt(mailCalls, j), [Call("mark", c.arg) EXCEPT !.deaf = c.deaf])
      /\ box' = IF c.deaf THEN box
                ELSE [box EXCEPT !.loading = FALSE, !.shown = IF Finds(c) = {} THEN 0 ELSE c.arg]
      /\ Unprompted
      /\ UNCHANGED <<letters, mailMet>>

\* A call breaks on its way there, or its answer on the way back: there is no
\* news of what it would have told.
MailFailed(j) ==
  LET c == mailCalls[j]
  IN  /\ Failing
      /\ mailCalls' = RemoveAt(MailOutdated(mailCalls, Len(mailCalls), Concerns(c)), j)
      /\ mailMet' = mailMet \union
           (IF c.at = "served" /\ Shows("mail") THEN {"list", "count"}
            ELSE CASE c.kind = "tab" -> {"list"}
                   [] c.kind = "count" -> {"count"}
                   [] c.kind = "mark" /\ ~c.deaf -> {"mark"}
                   [] OTHER -> {})
      /\ box' = IF c.deaf THEN box ELSE
                CASE c.kind \in {"tab", "letter"} -> [box EXCEPT !.loading = FALSE]
                  [] c.kind = "count" -> [box EXCEPT !.unread = 0]
                  [] c.kind = "create" -> [box EXCEPT !.sending = FALSE]
                  [] OTHER -> box
      /\ UNCHANGED letters

MailNext ==
  \/ \E tab \in Tabs : OnTabChange(tab)
  \/ \E id \in 1..Len(letters) :
       \/ \E how \in {"archive", "delete"} : PutAway(id, how)
       \/ \E flag \in {"mark", "archive", "delete"} : FellowFlags(id, flag)
  \/ OnSubmit
  \/ \E via \in {"to", "cc"} : LetterArrives(via)
  \/ \E j \in 1..Len(mailCalls) :
       \/ ServePutAway(j) \/ Marked(j)
       \/ TabLoaded(j) \/ CountLoaded(j) \/ PutAwayFromList(j) \/ LeadsNowhere(j)
       \/ LetterLoaded(j) \/ MailFailed(j)

-----------------------------------------------------------------------------
\* The mail pages at rest: the mailbox shows the letters of the open tab and
\* counts the unread ones, an open letter is no longer unread, and nothing
\* waits; except after a failed call, news nobody told the page of, an answer
\* for a tab that was left or that came after a newer one, and a count a letter
\* was put away from.
MailShown ==
  (\A j \in 1..Len(mailCalls) : mailCalls[j].deaf) =>
    /\ Shows("mail") =>
         /\ ~box.loading
         /\ "list" \in mailMet \/ box.list = InTab(box.tab)
         /\ "count" \in mailMet \/ box.unread = Cardinality(InTab("unread"))
    /\ Shows("letter") =>
         /\ ~box.loading
         /\ box.shown = 0 \/ "mark" \in mailMet \/ letters[box.shown].read
    /\ Shows("compose") => ~box.sending
=============================================================================
