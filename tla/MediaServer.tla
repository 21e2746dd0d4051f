---------------------------- MODULE MediaServer ----------------------------
(***************************************************************************)
(* services/mediasoup.service.ts: the routers, transports, producers and   *)
(* consumers of the mediasoup worker, and the maps in which the service    *)
(* keeps them.  The worker is external: it answers a request some time     *)
(* later, and a handler that waits for it may meet another one.  Closing   *)
(* asks the worker for no answer, so closeTransport, closeProducer and     *)
(* cleanupCall run in one step.                                            *)
(*                                                                         *)
(* The ids of transports and producers start with the id of their call.    *)
(* Two of one user and direction made in the same millisecond, which would *)
(* share an id, are left out; codecs, ports and connectTransport, which    *)
(* nothing calls, too.                                                     *)
(***************************************************************************)
EXTENDS SessionTable

CONSTANTS
  MaxSessions,  \* bound: sessions started in a behaviour
  MaxObjects    \* bound: routers, transports and producers made in a behaviour

ASSUME MediaAssumption == MaxSessions \in Nat /\ MaxObjects \in Nat

CallIds == 1..MaxSessions

VARIABLES
  routers,      \* Map of the service: the router of each call, 0 for none
  openRouters,  \* the routers the worker keeps open, with their calls
  transports,   \* Map: the open transports
  producers,    \* Map: the open producers
  consumers,    \* Map: the consumers, the closed ones included
  made          \* routers, transports and producers made so far

media == <<routers, openRouters, transports, producers, consumers, made>>

Ids == 1..MaxObjects

Routers == [id : Ids, call : CallIds]

Transports == [id : Ids, call : CallIds, owner : Users, router : Ids]

Producers == [id : Ids, call : CallIds, owner : Users, router : Ids, transport : Ids]

Consumers == [transport : Ids, producer : Ids]

NoMedia ==
  /\ routers = [c \in CallIds |-> 0]
  /\ openRouters = {} /\ transports = {} /\ producers = {} /\ consumers = {}

MayMake == made < MaxObjects

\* createRouter, whatever router the call has got meanwhile.
RouterMade(c) ==
  /\ MayMake
  /\ made' = made + 1
  /\ routers' = [routers EXCEPT ![c] = made + 1]
  /\ openRouters' = openRouters \union {[id |-> made + 1, call |-> c]}
  /\ UNCHANGED <<transports, producers, consumers>>

RouterIsOpen(r) == \E o \in openRouters : o.id = r

\* createWebRtcTransport, when the worker has answered.
TransportMade(c, u, r) ==
  /\ MayMake
  /\ made' = made + 1
  /\ transports' = transports \union {[id |-> made + 1, call |-> c, owner |-> u, router |-> r]}
  /\ UNCHANGED <<routers, openRouters, producers, consumers>>

\* createProducer: t is the transport it found before it waited; the id starts
\* with the session the caller names, whatever the transport was made for.
ProducerMade(t, c, u) ==
  /\ MayMake
  /\ made' = made + 1
  /\ producers' = producers \union
       {[id |-> made + 1, call |-> c, owner |-> u, router |-> t.router, transport |-> t.id]}
  /\ UNCHANGED <<routers, openRouters, transports, consumers>>

\* createConsumer refuses a producer of another router, and the worker a
\* transport of another.
CanConsume(c, t, p) ==
  /\ routers[c] # 0
  /\ t \in transports /\ p \in producers
  /\ p.router = routers[c] /\ t.router = p.router

ConsumerMade(t, p) ==
  /\ consumers' = consumers \union {[transport |-> t.id, producer |-> p]}
  /\ UNCHANGED <<routers, openRouters, transports, producers, made>>

\* closeTransport and closeProducer of the ids a user has.  Closing a
\* transport does not take its producers out of their map.
Closed(ts, ps) ==
  /\ transports' = {t \in transports : t.id \notin ts}
  /\ producers' = {p \in producers : p.id \notin ps}
  /\ UNCHANGED <<routers, openRouters, consumers, made>>

\* Mutant: the router is forgotten, not closed.
ForgottenUp(c) ==
  /\ routers' = [routers EXCEPT ![c] = 0]
  /\ transports' = {t \in transports : t.call # c}
  /\ producers' = {p \in producers : p.call # c}
  /\ UNCHANGED <<openRouters, consumers, made>>

\* cleanupCall: the consumers stay, since their producers' ids, which are the
\* worker's own, do not start with the call's.
CleanedUp(c) ==
  /\ routers' = [routers EXCEPT ![c] = 0]
  /\ openRouters' = {o \in openRouters : o.id # routers[c]}
  /\ transports' = {t \in transports : t.call # c}
  /\ producers' = {p \in producers : p.call # c}
  /\ UNCHANGED <<consumers, made>>

\* The worker dies: the process exits with all it holds.
WorkerDied ==
  /\ routers' = [c \in CallIds |-> 0]
  /\ openRouters' = {} /\ transports' = {} /\ producers' = {} /\ consumers' = {}
  /\ made' = made
=============================================================================
