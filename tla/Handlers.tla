------------------------------ MODULE Handlers ------------------------------
(***************************************************************************)
(* The requests the one node process of the server has in hand.            *)
(*                                                                         *)
(* A handler runs alone between two awaits; at an await any other handler  *)
(* may run.  The modules that extend this one give the steps: each is one  *)
(* query, file operation or external program, with the code up to the next *)
(* await.  A restart drops every handler where it stands.                  *)
(***************************************************************************)
EXTENDS Integers, FiniteSets, Sequences

CONSTANTS
  Slots,         \* requests the server has in hand at once
  MaxRequests,   \* bound: requests in a behaviour
  MaxFaults      \* bound: restarts, and queries or programs that fail

ASSUME SlotsAssumption == IsFiniteSet(Slots)
ASSUME RequestsAssumption == MaxRequests \in Nat /\ MaxFaults \in Nat

VARIABLES
  pc,      \* where the handler of each slot stands
  req,     \* what it was asked: [kind, user, id, word]
  sent,    \* requests so far
  faults,  \* faults so far
  met      \* history: the troubles that have happened

handlerVars == <<pc, req, sent, faults, met>>

NoReq == [kind |-> "none", user |-> 0, id |-> 0, word |-> ""]

Busy(p) == pc[p] # "idle"
Quiet == \A p \in Slots : ~Busy(p)

\* A request arrives; the troubles it makes are remembered.
Start(p, at, r, troubles) ==
  /\ ~Busy(p)
  /\ sent < MaxRequests
  /\ sent' = sent + 1
  /\ pc' = [pc EXCEPT ![p] = at]
  /\ req' = [req EXCEPT ![p] = r]
  /\ met' = met \union troubles
  /\ UNCHANGED faults

\* The handler waits for its next query.
Goto(p, at) ==
  /\ pc' = [pc EXCEPT ![p] = at]
  /\ UNCHANGED <<req, sent>>

\* The handler returns or throws.
Finish(p) ==
  /\ pc' = [pc EXCEPT ![p] = "idle"]
  /\ req' = [req EXCEPT ![p] = NoReq]
  /\ UNCHANGED sent

\* A fault, while the bound allows one.
Fault ==
  /\ faults < MaxFaults
  /\ faults' = faults + 1
  /\ met' = met \union {"fault"}

\* Every handler is gone.
Dropped ==
  /\ pc' = [p \in Slots |-> "idle"]
  /\ req' = [p \in Slots |-> NoReq]
  /\ UNCHANGED sent

HandlersInit ==
  /\ pc = [p \in Slots |-> "idle"]
  /\ req = [p \in Slots |-> NoReq]
  /\ sent = 0
  /\ faults = 0
  /\ met = {}
=============================================================================
