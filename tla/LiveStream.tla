----------------------------- MODULE LiveStream -----------------------------
(***************************************************************************)
(* gateways/live-stream-session.gateway.ts and the endpoints of            *)
(* controllers/live-stream-session over the rows of SessionTable and the   *)
(* MediaServer: calls and live-stream rooms whose media go through the     *)
(* server.                                                                 *)
(*                                                                         *)
(* A handler runs alone between its queries and its requests to the        *)
(* worker.  Left out: what only answers or notifies (consume's answer,     *)
(* session-answer, the socket rooms, sessionParticipants, which only the   *)
(* answer of a join reads) and userSockets, a registry like that of        *)
(* Friends.                                                                *)
(***************************************************************************)
EXTENDS MediaServer, Sequences, FiniteSetsExt

CONSTANTS
  Starters,     \* bound: who starts the first session, the second, ...
  Tabs,         \* bound: the user of the first socket, the second, ...
  MaxHand,      \* bound: handlers under way at once
  MaxRequests,  \* bound: messages and HTTP requests in a behaviour, but consume
  MaxCrashes    \* bound: deaths of the worker in a behaviour

ASSUME TabsAssumption ==
  Starters \in [CallIds -> Users] /\ Tabs \in Seq(Users) /\ MaxHand \in Nat /\ MaxRequests \in Nat /\ MaxCrashes \in Nat

VARIABLES
  hand,              \* the handlers under way
  used,              \* sockets connected so far
  up,                \* the sockets that are connected
  userTransports,    \* transports to close when the user disconnects
  userProducers,     \* producers to close when the user disconnects
  asked,             \* messages and requests so far
  crashes,           \* deaths so far
  raced,             \* history: calls whose router two handlers were creating
  late,              \* history: users who disconnected while an object was made for them
  left               \* history: the sessions that were on when a user's disconnection was handled

liveHistory == <<raced, late, left, crossed>>
bounds == <<asked, crashes>>
tracked == <<userTransports, userProducers>>
liveVars == <<media, tracked, rows, hand, used, up, bounds, liveHistory>>

Sockets == 1..Len(Tabs)

Nothing == [id |-> 0, call |-> 0, owner |-> Nobody, router |-> 0]

\* user: for whom, where that matters later; source: the router a transport is
\* made on, or the producer to consume.
NoWork == [kind |-> "none", user |-> Nobody, to |-> Nobody, call |-> 0, at |-> "idle",
           source |-> 0, transport |-> Nothing, seen |-> NoSession, cols |-> {}]

Work == [kind : {"start", "join", "create", "produce", "consume", "reject", "end"},
         user : Users \union {Nobody}, to : Users \union {Nobody}, call : 0..MaxSessions,
         at : {"insert", "router", "transport", "object", "session", "active", "load",
               "select", "update"},
         source : 0..MaxObjects, transport : Transports \union {Nothing},
         seen : Sessions \union {NoSession}, cols : SUBSET Columns]

LiveInit ==
  /\ NoMedia /\ made = 0
  /\ rows = <<>>
  /\ hand = [j \in 1..MaxHand |-> NoWork]
  /\ used = 0 /\ up = {}
  /\ userTransports = [u \in Users |-> {}]
  /\ userProducers = [u \in Users |-> {}]
  /\ asked = 0 /\ crashes = 0
  /\ raced = {} /\ late = {} /\ crossed = {}
  /\ left = [u \in Users |-> {}]

-----------------------------------------------------------------------------
OnLine(u) == \E s \in up : Tabs[s] = u

\* A message of u whose handler asks the database first may have come before
\* his socket was lost.
WasOnLine(u) == \E s \in 1..used : Tabs[s] = u

Asks == asked < MaxRequests /\ asked' = asked + 1

Free(j) == hand[j] = NoWork /\ \A i \in 1..j-1 : hand[i] # NoWork

Takes(j, work) == hand' = [hand EXCEPT ![j] = work]

Goes(j, at) == hand' = [hand EXCEPT ![j].at = at]

Done(j) == hand' = [hand EXCEPT ![j] = NoWork]

At(j, kind, at) == hand[j].kind = kind /\ hand[j].at = at

For(kind, u, c, at) ==
  [NoWork EXCEPT !.kind = kind, !.user = u, !.call = c, !.at = at]

Updating == {"load", "select", "update"}

\* A handler turns to the row of session c.
Crosses(c) ==
  crossed' = crossed \union {d \in {c} : \E i \in 1..MaxHand : hand[i].call = d /\ hand[i].at \in Updating}

-----------------------------------------------------------------------------
(***************************************************************************)
(* Sessions.                                                               *)
(***************************************************************************)
\* Nobody calls who is in a session, and nobody who is in one is called.
MayStart(u, v) ==
  /\ Len(rows) < MaxSessions /\ u = Starters[Len(rows) + 1]
  /\ ~Busy({rows[c] : c \in DOMAIN rows}, u, v)

\* POST start: the check of startSession ...
StartSession(j, u, v) ==
  /\ Asks
  /\ Free(j)
  /\ MayStart(u, v)
  /\ Takes(j, [For("start", u, 0, "insert") EXCEPT !.to = v])
  /\ UNCHANGED <<media, tracked, rows, used, up, crashes, liveHistory>>

\* ... and the insert.
InsertSession(j) ==
  /\ At(j, "start", "insert")
  /\ Len(rows) < MaxSessions /\ hand[j].user = Starters[Len(rows) + 1]
  /\ rows' = Append(rows, NewSession(hand[j].user, hand[j].to, FALSE))
  /\ Done(j)
  /\ UNCHANGED <<media, tracked, used, up, bounds, liveHistory>>

\* A room has a streamer and no other side, and is active at once.
NewRoom(u) == NewSession(u, Nobody, TRUE)

\* POST live-stream-rooms.
CreateRoom(u) ==
  /\ Asks
  /\ Len(rows) < MaxSessions /\ u = Starters[Len(rows) + 1]
  /\ rows' = Append(rows, NewRoom(u))
  /\ UNCHANGED <<media, tracked, hand, used, up, crashes, liveHistory>>

MayJoin(u, c) == rows[c].isLiveStream \/ u \in Parties(rows[c])

\* join-session: a pending session is made to ring.
JoinSession(j, u, c) ==
  /\ Asks
  /\ Free(j) /\ WasOnLine(u)
  /\ MayJoin(u, c) /\ rows[c].status = "pending"
  /\ Takes(j, For("join", u, c, "load"))
  /\ Crosses(c)
  /\ UNCHANGED <<media, tracked, rows, used, up, crashes, raced, late, left>>

\* session-reject: whoever sends it, and whatever the session is.
RejectSession(j, u, c) ==
  /\ Asks
  /\ Free(j) /\ WasOnLine(u)
  /\ Takes(j, [For("reject", Nobody, c, "select") EXCEPT !.seen = rows[c]])
  /\ Crosses(c)
  /\ UNCHANGED <<media, tracked, rows, used, up, crashes, raced, late, left>>

Ends(j, c) ==
  /\ Asks
  /\ Free(j)
  /\ Takes(j, [For("end", Nobody, c, "select") EXCEPT !.seen = rows[c]])
  /\ Crosses(c)
  /\ UNCHANGED <<media, tracked, rows, used, up, crashes, raced, late, left>>

\* PATCH end: whoever sends it.
EndSession(j, c) == Ends(j, c)

\* A room ends when its streamer leaves it.
EndsRoom(u, c) == rows[c].isLiveStream /\ rows[c].initiator = u

\* POST live-stream-rooms/leave, for which no socket is needed.
LeaveRoom(j, u, c) == EndsRoom(u, c) /\ Ends(j, c)

\* leave-live-stream-room.
LeaveLiveStreamRoom(j, u, c) == WasOnLine(u) /\ EndsRoom(u, c) /\ Ends(j, c)

NewStatus(kind) ==
  CASE kind = "join"    -> "ringing"
    [] kind = "produce" -> "active"
    [] kind = "reject"  -> "rejected"
    [] kind = "end"     -> "ended"

\* updateSessionStatus loads the row ...
LoadSession(j) ==
  /\ hand[j].at = "load"
  /\ hand' = [hand EXCEPT ![j].at = "select", ![j].seen = rows[hand[j].call]]
  /\ UNCHANGED <<media, tracked, rows, used, up, bounds, liveHistory>>

\* ... its save reads it again ...
SelectSession(j) ==
  /\ hand[j].at = "select"
  /\ LET w == hand[j]
         cols == Differing(rows[w.call], w.seen, NewStatus(w.kind))
     IN  hand' = [hand EXCEPT ![j].at = "update", ![j].cols = cols]
  /\ UNCHANGED <<media, tracked, rows, used, up, bounds, liveHistory>>

\* ... and writes.  A rejection goes on to clean the call up.
SaveSession(j) ==
  /\ hand[j].at = "update"
  /\ LET w == hand[j]
     IN  /\ rows' = [rows EXCEPT ![w.call] = Saved(@, w.seen, NewStatus(w.kind), w.cols)]
         /\ IF w.kind = "reject" THEN CleanedUp(w.call) ELSE UNCHANGED media
  /\ Done(j)
  /\ UNCHANGED <<tracked, used, up, bounds, liveHistory>>

-----------------------------------------------------------------------------
(***************************************************************************)
(* Media.                                                                  *)
(***************************************************************************)
\* create-transport: the first of a call has a router created.
CreateTransport(j, u, c) ==
  /\ Asks
  /\ Free(j) /\ OnLine(u)
  /\ Takes(j, [For("create", u, c, IF routers[c] = 0 THEN "router" ELSE "transport")
                 EXCEPT !.source = routers[c]])
  /\ raced' = raced \union
       {d \in {c} : routers[c] = 0 /\ \E i \in 1..MaxHand : hand[i].call = d /\ hand[i].at = "router"}
  /\ UNCHANGED <<media, tracked, rows, used, up, crashes, late, left, crossed>>

RouterCreated(j) ==
  /\ hand[j].at = "router"
  /\ RouterMade(hand[j].call)
  /\ hand' = [hand EXCEPT ![j].at = "transport", ![j].source = made + 1]
  /\ UNCHANGED <<tracked, rows, used, up, bounds, liveHistory>>

\* Mutant: only the last transport of a user is remembered.
TrackedLast(ids, id) == {id}

Tracked(ids, id) == ids \union {id}

\* The gateway tracks the transport, also for a user who has gone meanwhile.
TransportCreated(j) ==
  /\ At(j, "create", "transport")
  /\ TransportMade(hand[j].call, hand[j].user, hand[j].source)
  /\ userTransports' = [userTransports EXCEPT ![hand[j].user] = Tracked(@, made + 1)]
  /\ Done(j)
  /\ UNCHANGED <<userProducers, rows, used, up, bounds, liveHistory>>

\* The worker refuses when the router or the transport was closed meanwhile.
Refused(j) ==
  /\ \/ At(j, "create", "transport") /\ ~RouterIsOpen(hand[j].source)
     \/ hand[j].at = "object" /\ hand[j].transport \notin transports
  /\ Done(j)
  /\ UNCHANGED <<media, tracked, rows, used, up, bounds, liveHistory>>

\* produce, on whatever transport and for whatever session.
Produce(j, u, c, t) ==
  /\ Asks
  /\ Free(j) /\ OnLine(u)
  /\ Takes(j, [For("produce", u, c, "object") EXCEPT !.transport = t])
  /\ UNCHANGED <<media, tracked, rows, used, up, crashes, liveHistory>>

ProducerCreated(j) ==
  /\ At(j, "produce", "object")
  /\ ProducerMade(hand[j].transport, hand[j].call, hand[j].user)
  /\ userProducers' = [userProducers EXCEPT ![hand[j].user] = Tracked(@, made + 1)]
  /\ Goes(j, "session")
  /\ UNCHANGED <<userTransports, rows, used, up, bounds, liveHistory>>

\* Mutant: a producer makes any session active.
StartsAlways(status) == status # "active"

StartsActive(status) == status \in {"ringing", "pending"}

\* The first producer makes a session that waits active.
CheckProduced(j) ==
  /\ At(j, "produce", "session")
  /\ IF StartsActive(rows[hand[j].call].status)
     THEN Goes(j, "load") /\ Crosses(hand[j].call)
     ELSE Done(j) /\ crossed' = crossed
  /\ UNCHANGED <<media, tracked, rows, used, up, bounds, raced, late, left>>

\* consume, likewise.
Consume(j, u, c, t, p) ==
  /\ Free(j) /\ OnLine(u)
  /\ CanConsume(c, t, p)
  /\ Takes(j, [For("consume", Nobody, c, "object") EXCEPT !.transport = t, !.source = p.id])
  /\ UNCHANGED <<media, tracked, rows, used, up, bounds, liveHistory>>

ConsumerCreated(j) ==
  /\ At(j, "consume", "object")
  /\ ConsumerMade(hand[j].transport, hand[j].source)
  /\ Done(j)
  /\ UNCHANGED <<tracked, rows, used, up, bounds, liveHistory>>

-----------------------------------------------------------------------------
(***************************************************************************)
(* Connections.                                                            *)
(***************************************************************************)
Connect ==
  /\ used < Len(Tabs)
  /\ used' = used + 1
  /\ up' = up \union {used + 1}
  /\ UNCHANGED <<media, tracked, rows, hand, bounds, liveHistory>>

Making(u) ==
  \E j \in 1..MaxHand : hand[j].user = u /\ hand[j].at \in {"router", "transport", "object"}

\* handleDisconnect closes all the user has, also what another of his sockets
\* uses, and then looks for a session to end.
Disconnect(j, s) ==
  /\ s \in up /\ Free(j)
  /\ up' = up \ {s}
  /\ LET u == Tabs[s]
     IN  /\ Closed(userTransports[u], userProducers[u])
         /\ userTransports' = [userTransports EXCEPT ![u] = {}]
         /\ userProducers' = [userProducers EXCEPT ![u] = {}]
         /\ Takes(j, For("end", u, 0, "active"))
         /\ late' = late \union {v \in {u} : Making(v)}
  /\ UNCHANGED <<rows, used, bounds, raced, left, crossed>>

\* One of the sessions that are on is ended.
FindActive(j) ==
  /\ At(j, "end", "active")
  /\ LET u == hand[j].user
         on == {c \in DOMAIN rows : OnFor(rows[c], u)}
     IN  /\ left' = [left EXCEPT ![u] = {c \in DOMAIN rows : u \in Parties(rows[c])
                                          /\ rows[c].status \in {"active", "ringing"}}]
         /\ \/ on = {} /\ Done(j) /\ crossed' = crossed
            \/ \E c \in on : Takes(j, For("end", u, c, "load")) /\ Crosses(c)
  /\ UNCHANGED <<media, tracked, rows, used, up, bounds, raced, late>>

\* The process exits with the worker and is started again: the rows stay.
Crash ==
  /\ crashes < MaxCrashes
  /\ crashes' = crashes + 1
  /\ WorkerDied
  /\ hand' = [j \in 1..MaxHand |-> NoWork]
  /\ up' = {}
  /\ userTransports' = [u \in Users |-> {}]
  /\ userProducers' = [u \in Users |-> {}]
  /\ raced' = {} /\ late' = {} /\ left' = [u \in Users |-> {}]
  /\ UNCHANGED <<rows, used, asked, crossed>>

-----------------------------------------------------------------------------
Handler(j) ==
  \/ InsertSession(j) \/ LoadSession(j) \/ SelectSession(j) \/ SaveSession(j)
  \/ RouterCreated(j) \/ TransportCreated(j) \/ Refused(j)
  \/ ProducerCreated(j) \/ CheckProduced(j) \/ ConsumerCreated(j) \/ FindActive(j)

Request(j) ==
  \E u \in Users :
    \/ \E v \in Users \ {u} : StartSession(j, u, v)
    \/ \E c \in DOMAIN rows :
         \/ JoinSession(j, u, c) \/ RejectSession(j, u, c) \/ EndSession(j, c)
         \/ LeaveRoom(j, u, c) \/ LeaveLiveStreamRoom(j, u, c)
         \/ CreateTransport(j, u, c)
         \/ \E t \in transports : Produce(j, u, c, t)
         \/ \E t \in transports, p \in producers : Consume(j, u, c, t, p)

LiveNext ==
  \/ \E j \in 1..MaxHand :
       \/ Handler(j) \/ Request(j)
       \/ \E s \in up : Disconnect(j, s)
  \/ \E u \in Users : CreateRoom(u)
  \/ Connect \/ Crash

LiveSpec == LiveInit /\ [][LiveNext]_liveVars

-----------------------------------------------------------------------------
\* Types; what a user has to close was made.
LiveTypeOK ==
  /\ routers \in [CallIds -> 0..MaxObjects]
  /\ openRouters \subseteq Routers /\ transports \subseteq Transports
  /\ producers \subseteq Producers /\ consumers \subseteq Consumers
  /\ made \in 0..MaxObjects
  /\ rows \in Seq(Sessions) /\ Len(rows) <= MaxSessions
  /\ hand \in [1..MaxHand -> Work \union {NoWork}]
  /\ asked \in 0..MaxRequests /\ crashes \in 0..MaxCrashes
  /\ used \in 0..Len(Tabs) /\ up \subseteq 1..used
  /\ userTransports \in [Users -> SUBSET (1..made)]
  /\ userProducers \in [Users -> SUBSET (1..made)]
  /\ raced \subseteq CallIds /\ late \subseteq Users /\ crossed \subseteq CallIds
  /\ left \in [Users -> SUBSET CallIds]

\* A router that is open can still be closed: it is the one its call has,
\* unless two handlers were creating a router of that call at once.
CalmRoutersKnown ==
  \A o \in openRouters : o.call \in raced \/ routers[o.call] = o.id

\* A user who has gone holds no transport and no producer, unless one was
\* being made when he went.
GoneReleased ==
  \A u \in Users \ late :
    ~OnLine(u) /\ ~Making(u) => \A m \in transports \union producers : m.owner # u

Quiet == \A j \in 1..MaxHand : hand[j] = NoWork

\* The session a user was in when he disconnected is over once nothing is under
\* way, unless he was in more than one, or two updates of it overlapped.
GoneEnds ==
  Quiet => \A u \in Users : \A c \in left[u] \ crossed :
             left[u] = {c} => rows[c].status \in Final

\* No handler revives a session that is over, unless two overlapped.
CalmFinalStays ==
  [][\A c \in DOMAIN rows \ crossed' :
       rows[c].status \in Final => rows'[c].status \in Final]_liveVars
=============================================================================
