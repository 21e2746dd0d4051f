----------------------------- MODULE VideoCall -----------------------------
(***************************************************************************)
(* A video call between two browsers: services/video-call.service.ts,      *)
(* components/incoming-call and video-call/video-call.component.ts of the  *)
(* front end, the video-call handlers of gateways/chat.gateway.ts, and the *)
(* rows of SessionTable.                                                   *)
(*                                                                         *)
(* A handler of the gateway runs alone between its queries; the queries of *)
(* two messages are in no order, not even of one client, because the pool  *)
(* gives them different connections.  So a message a browser sends is a    *)
(* job of the server at once, and its first query may come at any time.    *)
(* What the server sends to a browser arrives in order, or is lost with    *)
(* its connection.                                                         *)
(*                                                                         *)
(* Left out: ICE candidates (they are forwarded like offers and change     *)
(* nothing the browser keeps), mute and video toggles, names, the timer of *)
(* the call page.  The media devices and RTCPeerConnection are external.   *)
(***************************************************************************)
EXTENDS SessionTable, Sequences, FiniteSetsExt

CONSTANTS
  Dials,      \* bound: who may dial the first call, the second, ... of a behaviour
  Load,       \* bound: messages the server has in hand at once, from each call on
  MaxDrops    \* bound: connections lost and queries failed in a behaviour

MaxCalls == Len(Dials)

MaxJobs == Max({Load[c] : c \in DOMAIN Load})

ASSUME BoundsAssumption ==
  Dials \in Seq(SUBSET Users) /\ Load \in [1..Len(Dials) -> Nat] /\ MaxDrops \in Nat

VARIABLES
  jobs,     \* the messages the server has in hand
  down,     \* what the server has sent to each browser and is under way
  online,   \* the socket of each browser is connected
  fe,       \* the VideoCallService of each browser
  dialled,  \* calls dialled so far
  drops,    \* connections lost so far
  calm      \* history: the browsers that only ever had one thing to do at a time

callVars == <<rows, jobs, down, online, fe, dialled, drops, calm, crossed>>
callHistory == <<calm, crossed>>

Kinds == {"start", "accept", "reject", "end", "offer", "answer"}

NoJob == [kind |-> "none", user |-> Nobody, to |-> Nobody, call |-> 0,
          at |-> "idle", seen |-> NoSession, cols |-> {}]

Jobs == [kind : Kinds, user : Users, to : Users \union {Nobody}, call : Nat,
         at : {"sent", "insert", "select", "update", "notify"},
         seen : Sessions \union {NoSession}, cols : SUBSET Columns]

Messages == [what : {"incoming", "accepted", "rejected", "ended", "offer", "answer"},
             call : Nat]

\* The call, dialled or accepted, for which the browser asks for the camera.
Waits == [to : Users \union {Nobody}, call : Nat]

\* What endCall leaves when all went well.  peer: the service holds a peer
\* connection.  camera: it holds a stream in localStream, or a stream runs
\* that localStream has lost.
Idle == [status |-> "idle", callId |-> 0, isIncoming |-> FALSE, camera |-> "off",
         peer |-> FALSE, waits |-> {}]

Browsers == [status : {"idle", "initiating", "ringing", "connecting", "active"},
             callId : Nat, isIncoming : BOOLEAN, camera : {"off", "held", "lost"},
             peer : BOOLEAN, waits : SUBSET Waits]

CallInit ==
  /\ rows = <<>>
  /\ jobs = [j \in 1..MaxJobs |-> NoJob]
  /\ down = [u \in Users |-> <<>>]
  /\ online = [u \in Users |-> TRUE]
  /\ fe = [u \in Users |-> Idle]
  /\ dialled = 0
  /\ drops = 0
  /\ calm = Users
  /\ crossed = {}

-----------------------------------------------------------------------------
(***************************************************************************)
(* Sending.                                                                *)
(***************************************************************************)
FreeJobs(hand) == {j \in 1..MaxJobs : hand[j] = NoJob}

InHand(hand) == {j \in 1..MaxJobs : hand[j] # NoJob}

HasRoom(hand) == FreeJobs(hand) # {} /\ Cardinality(InHand(hand)) < Load[dialled]

\* websocket.service: emit, without waiting for an answer.
With(hand, kind, u, to, call) ==
  [hand EXCEPT ![Min(FreeJobs(hand))] =
     [kind |-> kind, user |-> u, to |-> to, call |-> call,
      at |-> "sent", seen |-> NoSession, cols |-> {}]]

Emit(kind, u, to, call) == HasRoom(jobs) /\ jobs' = With(jobs, kind, u, to, call)

Without(lost) == [j \in 1..MaxJobs |-> IF j \in lost THEN NoJob ELSE jobs[j]]

\* server.to("user:...").emit: nobody gets it when no socket is in the room.
Notify(u, what, call) ==
  down' = IF u \in Users /\ online[u]
          THEN [down EXCEPT ![u] = Append(@, [what |-> what, call |-> call])]
          ELSE down

JobDone(j) == jobs' = [jobs EXCEPT ![j] = NoJob]

JobGoes(j, at) == jobs' = [jobs EXCEPT ![j].at = at]

-----------------------------------------------------------------------------
(***************************************************************************)
(* The gateway.                                                            *)
(***************************************************************************)
Received(j, kinds) == jobs[j].kind \in kinds /\ jobs[j].at = "sent" /\ online[jobs[j].user]

\* video-call:start: the users exist, and no call of theirs is on.
CheckStart(j) ==
  /\ Received(j, {"start"})
  /\ IF Busy({rows[c] : c \in DOMAIN rows}, jobs[j].user, jobs[j].to)
     THEN JobDone(j)
     ELSE JobGoes(j, "insert")
  /\ UNCHANGED <<rows, down, online, fe, dialled, drops, callHistory>>

InsertStart(j) ==
  /\ jobs[j].at = "insert"
  /\ rows' = Append(rows, NewSession(jobs[j].user, jobs[j].to, FALSE))
  /\ Notify(jobs[j].to, "incoming", Len(rows) + 1)
  /\ JobDone(j)
  /\ UNCHANGED <<online, fe, dialled, drops, callHistory>>

StatusOf(kind) ==
  CASE kind = "accept" -> "active"
    [] kind = "reject" -> "rejected"
    [] kind = "end"    -> "ended"

\* video-call:accept, reject and end load the session ...
LoadCall(j) ==
  /\ Received(j, {"accept", "reject", "end"})
  /\ jobs' = [jobs EXCEPT ![j].at = "select", ![j].seen = rows[jobs[j].call]]
  /\ crossed' = crossed \union
       {c \in {jobs[j].call} : \E i \in 1..MaxJobs : jobs[i].call = c /\ jobs[i].at \in {"select", "update"}}
  /\ UNCHANGED <<rows, down, online, fe, dialled, drops, calm>>

\* ... the save reads the row again ...
SelectCall(j) ==
  /\ jobs[j].at = "select"
  /\ LET cols == Differing(rows[jobs[j].call], jobs[j].seen, StatusOf(jobs[j].kind))
     IN  jobs' = [jobs EXCEPT ![j].at = "update", ![j].cols = cols]
  /\ UNCHANGED <<rows, down, online, fe, dialled, drops, callHistory>>

\* ... and writes.
Writes(j, kind) ==
  /\ jobs[j].kind = kind /\ jobs[j].at = "update"
  /\ rows' = [rows EXCEPT ![jobs[j].call] = Saved(@, jobs[j].seen, StatusOf(kind), jobs[j].cols)]
  /\ UNCHANGED <<online, fe, dialled, drops, callHistory>>

OtherParty(job) == OtherSide(rows[job.call], job.user)

Accepted(j) ==
  /\ Writes(j, "accept")
  /\ Notify(OtherParty(jobs[j]), "accepted", jobs[j].call)
  /\ JobDone(j)

CallEnded(j) ==
  /\ Writes(j, "end")
  /\ Notify(OtherParty(jobs[j]), "ended", 0)
  /\ JobDone(j)

\* A rejection looks the session up once more before it tells the initiator.
CallRejected(j) ==
  /\ Writes(j, "reject")
  /\ JobGoes(j, "notify")
  /\ down' = down

NotifyRejected(j) ==
  /\ jobs[j].at = "notify"
  /\ Notify(rows[jobs[j].call].initiator, "rejected", 0)
  /\ JobDone(j)
  /\ UNCHANGED <<rows, online, fe, dialled, drops, callHistory>>

\* video-call:webrtc:offer and answer.
Forward(j, kind) ==
  /\ Received(j, {kind})
  /\ Notify(OtherParty(jobs[j]), kind, jobs[j].call)
  /\ JobDone(j)
  /\ UNCHANGED <<rows, online, fe, dialled, drops, callHistory>>

ForwardOffer(j) == Forward(j, "offer")

ForwardAnswer(j) == Forward(j, "answer")

\* A query fails: the error goes to an answer the browser does not ask for.
Fail(j) ==
  /\ jobs[j] # NoJob
  /\ drops < MaxDrops
  /\ drops' = drops + 1
  /\ JobDone(j)
  /\ UNCHANGED <<rows, down, online, fe, dialled, callHistory>>

Gateway(j) ==
  \/ CheckStart(j) \/ InsertStart(j)
  \/ LoadCall(j) \/ SelectCall(j)
  \/ Accepted(j) \/ CallEnded(j) \/ CallRejected(j) \/ NotifyRejected(j)
  \/ ForwardOffer(j) \/ ForwardAnswer(j)

-----------------------------------------------------------------------------
(***************************************************************************)
(* The browser.                                                            *)
(***************************************************************************)
Wait(to, call) == [to |-> to, call |-> call]

\* What happens to browser u is what it is ready for.
Keeps(u, ready) ==
  /\ calm' = IF ready THEN calm ELSE calm \ {u}
  /\ crossed' = crossed

\* createPeerConnection overwrites the field; what is open stays open.
WithPeer(f) == [f EXCEPT !.peer = TRUE]

\* localStream is overwritten; a stream it held keeps running.
WithCamera(f) == [f EXCEPT !.camera = IF @ = "off" THEN "held" ELSE "lost"]

\* Mutant: the tracks of the stream are not stopped.
EndedFilming(f) == [Idle EXCEPT !.camera = f.camera, !.waits = f.waits]

\* endCall closes the connection, stops the stream it knows and forgets the
\* call; a camera that is asked for will still be given.
Ended(f) ==
  [Idle EXCEPT !.camera = IF f.camera = "lost" THEN "lost" ELSE "off",
               !.waits = f.waits]

\* An offer or an answer that a peer connection makes and one that is sent
\* are the same here: when the connection is closed it may not be sent.
EndCall(u) ==
  /\ fe' = [fe EXCEPT ![u] = Ended(@)]
  /\ Keeps(u, fe[u].waits = {})
  /\ \E lost \in SUBSET {j \in 1..MaxJobs : /\ fe[u].peer /\ jobs[j].user = u
                                           /\ jobs[j].kind \in {"offer", "answer"}
                                           /\ jobs[j].at = "sent"} :
       IF fe[u].callId = 0
       THEN jobs' = Without(lost)
       ELSE /\ HasRoom(Without(lost))
            /\ jobs' = With(Without(lost), "end", u, Nobody, fe[u].callId)

\* The page of a call is opened: initiateCall, whatever is going on.
InitiateCall(u, v) ==
  /\ dialled < MaxCalls /\ u \in Dials[dialled + 1]
  /\ dialled' = dialled + 1
  /\ fe' = [fe EXCEPT ![u].status = "initiating", ![u].waits = @ \union {Wait(v, 0)}]
  /\ Keeps(u, fe[u] = Idle)
  /\ UNCHANGED <<rows, jobs, down, online, drops>>

\* The incoming-call dialog shows.
Rings(f) == f.isIncoming /\ f.status = "ringing" /\ f.callId # 0

AcceptCall(u) ==
  /\ Rings(fe[u])
  /\ fe' = [fe EXCEPT ![u].status = "connecting",
                      ![u].waits = @ \union {Wait(Nobody, fe[u].callId)}]
  /\ UNCHANGED <<rows, jobs, down, online, dialled, drops, callHistory>>

\* rejectCall keeps the streams and the peer connection.
Rejected(f) == [f EXCEPT !.status = "idle", !.isIncoming = FALSE, !.callId = 0]

RejectCall(u) ==
  /\ Rings(fe[u])
  /\ Emit("reject", u, Nobody, fe[u].callId)
  /\ fe' = [fe EXCEPT ![u] = Rejected(@)]
  /\ UNCHANGED <<rows, down, online, dialled, drops, callHistory>>

\* The user hangs up: endCall of the page.
HangUp(u) ==
  /\ fe[u].status # "idle"
  /\ EndCall(u)
  /\ UNCHANGED <<rows, down, online, dialled, drops>>

\* getUserMedia settles for a call that is dialled ...
DialGranted(u, w) ==
  /\ w \in fe[u].waits /\ w.call = 0
  /\ fe' = [fe EXCEPT ![u] = [WithCamera(@) EXCEPT !.waits = fe[u].waits \ {w}, !.status = "ringing"]]
  /\ Emit("start", u, w.to, 0)
  /\ UNCHANGED <<rows, down, online, dialled, drops, callHistory>>

DialDenied(u, w) ==
  /\ w \in fe[u].waits /\ w.call = 0
  /\ fe' = [fe EXCEPT ![u].waits = @ \ {w}, ![u].status = "idle"]
  /\ UNCHANGED <<rows, jobs, down, online, dialled, drops, callHistory>>

\* ... or accepted.
AcceptGranted(u, w) ==
  /\ w \in fe[u].waits /\ w.call # 0
  /\ fe' = [fe EXCEPT ![u] = [WithCamera(@) EXCEPT !.waits = fe[u].waits \ {w}, !.callId = w.call]]
  /\ Emit("accept", u, Nobody, w.call)
  /\ UNCHANGED <<rows, down, online, dialled, drops, callHistory>>

AcceptDenied(u, w) ==
  /\ w \in fe[u].waits /\ w.call # 0
  /\ fe' = [fe EXCEPT ![u] = [Rejected(@) EXCEPT !.waits = fe[u].waits \ {w}]]
  /\ Emit("reject", u, Nobody, w.call)
  /\ UNCHANGED <<rows, down, online, dialled, drops, callHistory>>

\* The connection state becomes disconnected or failed.
PeerFails(u) ==
  /\ fe[u].peer
  /\ EndCall(u)
  /\ UNCHANGED <<rows, down, online, dialled, drops>>

Hears(u, what) == down[u] # <<>> /\ Head(down[u]).what \in what

Taken(u) == down' = [down EXCEPT ![u] = Tail(@)]

\* handleIncomingCall: the call that is going on is forgotten.
HearIncoming(u) ==
  /\ Hears(u, {"incoming"})
  /\ Taken(u)
  /\ fe' = [fe EXCEPT ![u].callId = Head(down[u]).call, ![u].isIncoming = TRUE,
                      ![u].status = "ringing"]
  /\ Keeps(u, fe[u] = Idle)
  /\ UNCHANGED <<rows, jobs, online, dialled, drops>>

\* handleCallAccepted, even when nobody waits for it any more: a peer
\* connection is created, and makes an offer.
HearAccepted(u) ==
  /\ Hears(u, {"accepted"})
  /\ Taken(u)
  /\ LET call == Head(down[u]).call
     IN  /\ fe' = [fe EXCEPT ![u] = WithPeer([@ EXCEPT !.callId = call, !.status = "connecting"])]
         /\ Emit("offer", u, Nobody, call)
  /\ Keeps(u, fe[u].status = "ringing" /\ ~fe[u].isIncoming)
  /\ UNCHANGED <<rows, online, dialled, drops>>

\* video-call:rejected and ended do not say which call they are about.
HearOver(u) ==
  /\ Hears(u, {"rejected", "ended"})
  /\ Taken(u)
  /\ EndCall(u)
  /\ UNCHANGED <<rows, online, dialled, drops>>

\* handleOffer, even without a call: the remote stream that comes with the
\* offer may start it, and an answer is made.
HearOffer(u) ==
  /\ Hears(u, {"offer"})
  /\ Taken(u)
  /\ Emit("answer", u, Nobody, Head(down[u]).call)
  /\ \E status \in {fe[u].status, "active"} :
       fe' = [fe EXCEPT ![u] = WithPeer([@ EXCEPT !.status = status])]
  /\ UNCHANGED <<rows, online, dialled, drops, callHistory>>

\* The remote stream may start the call.
HearAnswer(u) ==
  /\ Hears(u, {"answer"})
  /\ Taken(u)
  /\ \E status \in {fe[u].status} \union (IF fe[u].peer THEN {"active"} ELSE {}) :
       fe' = [fe EXCEPT ![u].status = status]
  /\ UNCHANGED <<rows, jobs, online, dialled, drops, callHistory>>

\* The socket is lost with what is under way in either direction; what the
\* browser sends before it connects again is kept by socket.io.
Drop(u) ==
  /\ online[u]
  /\ drops < MaxDrops
  /\ drops' = drops + 1
  /\ online' = [online EXCEPT ![u] = FALSE]
  /\ down' = [down EXCEPT ![u] = <<>>]
  /\ \E lost \in SUBSET {j \in 1..MaxJobs : jobs[j].user = u /\ jobs[j].at = "sent"} :
       jobs' = Without(lost)
  /\ UNCHANGED <<rows, fe, dialled, callHistory>>

Reconnect(u) ==
  /\ ~online[u]
  /\ online' = [online EXCEPT ![u] = TRUE]
  /\ UNCHANGED <<rows, jobs, down, fe, dialled, drops, callHistory>>

-----------------------------------------------------------------------------
Hear(u) == HearIncoming(u) \/ HearAccepted(u) \/ HearOver(u) \/ HearOffer(u) \/ HearAnswer(u)

Settle(u) ==
  \E w \in fe[u].waits :
    DialGranted(u, w) \/ DialDenied(u, w) \/ AcceptGranted(u, w) \/ AcceptDenied(u, w)

CallNext ==
  \/ \E j \in 1..MaxJobs : Gateway(j) \/ Fail(j)
  \/ \E u \in Users :
       \/ \E v \in Users \ {u} : InitiateCall(u, v)
       \/ AcceptCall(u) \/ RejectCall(u) \/ HangUp(u) \/ PeerFails(u)
       \/ Hear(u) \/ Settle(u) \/ Drop(u) \/ Reconnect(u)

CallSpec == CallInit /\ [][CallNext]_callVars

-----------------------------------------------------------------------------
\* Types; every call a message or a browser names exists, and the dialog of an
\* incoming call always knows which one it is.
CallTypeOK ==
  /\ rows \in Seq(Sessions)
  /\ jobs \in [1..MaxJobs -> Jobs \union {NoJob}]
  /\ down \in [Users -> Seq(Messages)]
  /\ online \in [Users -> BOOLEAN]
  /\ fe \in [Users -> Browsers]
  /\ dialled \in 0..MaxCalls
  /\ drops \in 0..MaxDrops
  /\ calm \subseteq Users
  /\ crossed \subseteq DOMAIN rows
  /\ \A j \in 1..MaxJobs : jobs[j].call \in DOMAIN rows \union {0}
  /\ \A u \in Users : fe[u].callId \in DOMAIN rows \union {0}
  /\ \A u \in Users : fe[u].isIncoming => fe[u].callId # 0

\* The camera is off when the browser shows no call, unless a second call, or
\* the end of one, came while a call was going on or waited for the camera.
CalmCameraReleased ==
  \A u \in Users : u \in calm /\ fe[u].status = "idle" => fe[u].camera = "off"

CallsQuiet == \A j \in 1..MaxJobs : jobs[j] = NoJob

\* When nothing is under way any more, no browser shows a call that is over:
\* whoever ends a call tells the other side, whose own endCall tells back.
\* Connections lost and queries failed may leave one, and so may a side of the
\* call that had more than one thing to do at a time: a call that is accepted
\* twice comes back when the second acceptance is heard after the end.
ToldWhenQuiet ==
  drops = 0 /\ CallsQuiet /\ (\A u \in Users : down[u] = <<>>)
    => \A u \in Users :
         fe[u].callId # 0 /\ Parties(rows[fe[u].callId]) \subseteq calm
           => rows[fe[u].callId].status \notin Final

\* A time that a session has got stays, and so does its duration, unless two
\* updates of the session overlapped.
CalmTimesStay ==
  [][\A c \in DOMAIN rows \ crossed' : \A t \in Columns \ {"status"} : rows[c][t] => rows'[c][t]]_callVars
=============================================================================
