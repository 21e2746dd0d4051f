----------------------------- MODULE UserServer -----------------------------
(***************************************************************************)
(* The accounts and the stories of the users and their talks with Grok,    *)
(* served by one process: the requests of all take turns between awaits,   *)
(* and a restart of the process drops the handlers and the compressions    *)
(* where they are, and what Grok remembered.  Nothing resumes them.        *)
(***************************************************************************)
EXTENDS Accounts, StoryFiles, GrokService

vars == <<handlerVars, accountVars, storyVars, grokVars>>

Init == HandlersInit /\ AccountsInit /\ StoriesInit /\ GrokInit

\* The process stops and comes back: what was awaited is lost.
Restart ==
  /\ Fault
  /\ \E p \in Slots : Busy(p)
     \/ \E s \in StoryIds : tasks[s] # "none"
  /\ Dropped
  /\ held' = [p \in Slots |-> Nothing]
  /\ tasks' = [s \in StoryIds |-> "none"]
  /\ doomed' = [p \in Slots |-> {}]
  /\ arrays' = <<>>
  /\ conversations' = [u \in Askers |-> 0]
  /\ asking' = [p \in Slots |-> NoCall]
  /\ talk' = [u \in Askers |-> <<>>]
  /\ UNCHANGED <<accountTables, stories, disk>>

Next ==
  \/ AccountsNext /\ UNCHANGED <<storyVars, grokVars>>
  \/ StoriesNext /\ UNCHANGED <<accountVars, grokVars>>
  \/ GrokNext /\ UNCHANGED <<accountVars, storyVars>>
  \/ Restart

Spec == Init /\ [][Next]_vars

\* Every table, file and task has its type; a handler that is over keeps
\* nothing of its request, and one that removes stories knows which.
TypeOK ==
  /\ \A p \in Slots :
       /\ Busy(p) <=> req[p].kind \in AccountKinds \union StoryKinds \union {"ask"}
       /\ ~Busy(p) => held[p] = Nothing /\ doomed[p] = {}
       /\ pc[p] \in {"unlink", "unlinkThumbnail", "deleteRow"} <=> doomed[p] # {}
  /\ sent \in 0..MaxRequests /\ faults \in 0..MaxFaults
  /\ AccountsTypeOK
  /\ StoriesTypeOK
  /\ GrokTypeOK
=============================================================================
