----------------------------- MODULE GrokService -----------------------------
(***************************************************************************)
(* What Grok remembers of each user: services/grok.service.ts, asked by    *)
(* processGrokResponse of gateways/chat.gateway.ts.                        *)
(*                                                                         *)
(* The messages sent to the model are an array in the memory of the        *)
(* process, one for each user.  A call holds on to the array it found and  *)
(* appends the answer to it, whatever became of it while the model was     *)
(* thinking: an array that has grown too long is replaced by a copy of its *)
(* end, and the calls under way go on with the old one.                    *)
(*                                                                         *)
(* Chat stores and publishes the messages.  The system message, which      *)
(* stays in front, is left out, and so are the texts: an entry is a        *)
(* question or the answer to it.  clearConversation has no caller.         *)
(***************************************************************************)
EXTENDS Handlers, SequencesExt

CONSTANTS
  Askers,        \* users who write to Grok
  Remembered     \* messages a context is cut to, 20 in the code

ASSUME GrokAssumption == Remembered \in Nat \ {0}

VARIABLES
  arrays,        \* the arrays of messages, by the order they were made in
  conversations, \* the array of each user, 0 when there is none
  asking,        \* the array and the question of each call under way
  talk           \* history: all each user and Grok have said since the start

grokVars == <<arrays, conversations, asking, talk>>

NoCall == [array |-> 0, question |-> 0]

Question(n) == [role |-> "user", nr |-> n]
Answer(n) == [role |-> "assistant", nr |-> n]

GrokInit ==
  /\ arrays = <<>>
  /\ conversations = [u \in Askers |-> 0]
  /\ asking = [p \in Slots |-> NoCall]
  /\ talk = [u \in Askers |-> <<>>]

-----------------------------------------------------------------------------
\* The array of a user and the arrays there are then: the first is made empty.
GetConversationContext(u) ==
  IF conversations[u] = 0
  THEN [array |-> Len(arrays) + 1, all |-> Append(arrays, <<>>)]
  ELSE [array |-> conversations[u], all |-> arrays]

\* A user writes to Grok: the question is in the context before the model is
\* called with it.
Ask(p) ==
  \E u \in Askers :
    LET context == GetConversationContext(u)
        question == Question(sent + 1)
    IN  /\ Start(p, "fetch", [NoReq EXCEPT !.kind = "ask", !.user = u], {})
        /\ arrays' = [context.all EXCEPT ![context.array] = Append(@, question)]
        /\ conversations' = [conversations EXCEPT ![u] = context.array]
        /\ asking' = [asking EXCEPT ![p] = [array |-> context.array, question |-> sent + 1]]
        /\ talk' = [talk EXCEPT ![u] = Append(@, question)]

\* slice: the last messages.
Recent(messages) == SubSeq(messages, Len(messages) - Remembered + 1, Len(messages))

Forgets(p) == asking' = [asking EXCEPT ![p] = NoCall]

\* The answer goes to the array the call began with; cut, it is the user's
\* again, even if another has been put in its place.
Answered(p) ==
  LET u == req[p].user
      a == asking[p].array
      answer == Answer(asking[p].question)
      longer == Append(arrays[a], answer)
      cut == Len(longer) > Remembered
      others == {q \in Slots \ {p} : req[q].kind = "ask" /\ req[q].user = u}
  IN  /\ pc[p] = "fetch"
      /\ arrays' = [arrays EXCEPT ![a] = longer] \o (IF cut THEN <<Recent(longer)>> ELSE <<>>)
      /\ conversations' = IF cut THEN [conversations EXCEPT ![u] = Len(arrays) + 1] ELSE conversations
      /\ talk' = [talk EXCEPT ![u] = Append(@, answer)]
      /\ met' = IF cut /\ others # {} THEN met \union {"context"} ELSE met
      /\ Forgets(p) /\ Finish(p)
      /\ UNCHANGED faults

\* Mutant: a call that failed takes back the last message, not its own.
TakesBack(p) ==
  /\ pc[p] = "fetch"
  /\ Fault
  /\ arrays' = [arrays EXCEPT ![asking[p].array] = Front(@)]
  /\ talk' = [talk EXCEPT ![req[p].user] = SelectSeq(@, LAMBDA e : e # Question(asking[p].question))]
  /\ Forgets(p) /\ Finish(p)
  /\ UNCHANGED conversations

\* The model cannot be reached or refuses: the user is sent an apology, and the
\* question stays in the context.
Unanswered(p) ==
  /\ pc[p] = "fetch"
  /\ Fault
  /\ Forgets(p) /\ Finish(p)
  /\ UNCHANGED <<arrays, conversations, talk>>

GrokNext == \E p \in Slots : Ask(p) \/ Answered(p) \/ Unanswered(p)

-----------------------------------------------------------------------------
GrokTypeOK ==
  /\ conversations \in [Askers -> 0..Len(arrays)]
  /\ \A p \in Slots : (req[p].kind = "ask") <=> (asking[p] # NoCall)
  /\ \A p \in Slots : asking[p].array \in 0..Len(arrays) /\ asking[p].question \in 0..MaxRequests

\* What the model is told with a question is the end of what the user and Grok
\* have said since the server was started, apologies apart, in its order and
\* never less than the messages that are to be remembered; unless a context
\* was cut while another question of the user was being answered.
CalmRemembers ==
  "context" \notin met =>
    \A u \in Askers :
      LET known == IF conversations[u] = 0 THEN <<>> ELSE arrays[conversations[u]]
      IN  /\ IsSuffix(known, talk[u])
          /\ Len(known) < Remembered => known = talk[u]
=============================================================================
