----------------------------- MODULE BusClient -----------------------------
(***************************************************************************)
(* The MQTT client of one instance (mylife-home-common/src/bus/client.ts)  *)
(* with its session at the broker.                                         *)
(*                                                                         *)
(* Every 'connect' event fires an async function that clears the presence  *)
(* flag, sleeps while resident state is cleaned, publishes the presence    *)
(* flag, declares the client online and subscribes.  The function outlives *)
(* its connection: several may be in progress, each at its own await.      *)
(* Promise continuations run before the next event (Idle).                 *)
(*                                                                         *)
(* The broker and the mqtt library are external: FIFO channels per         *)
(* connection, clean sessions, retained messages, a last will that clears  *)
(* the presence flag, session takeover, publishes queued while             *)
(* disconnected, subscribe / unsubscribe promises rejected by a close.     *)
(***************************************************************************)
EXTENDS Naturals, Sequences, SequencesExt, FiniteSets

CONSTANTS
  Topics,       \* the retained topics of the instance, its presence topic excluded
  Filters,      \* what the rest of the program subscribes to
  Presence,     \* the topic <instance>/online
  SelfState,    \* the filter <instance>/#
  MaxConnects,  \* bound: connections
  MaxRuns,      \* bound: runs of the process
  MaxOps        \* bound: calls of the rest of the program

ASSUME BusAssumption ==
  /\ IsFiniteSet(Topics) /\ Presence \notin Topics /\ SelfState \notin Filters
  /\ MaxConnects \in Nat /\ MaxRuns \in Nat \ {0} /\ MaxOps \in Nat

VARIABLES
  proc,           \* "up", "ending" (in terminate) or "down"
  run,            \* number of the run of the process: the payload of what it publishes
  connected,      \* client.connected
  online,         \* _online
  subscriptions,  \* subscriptions
  handler,        \* where the async function of each connection is
  ending,         \* where terminate() is
  app,            \* the retained topics the rest of the program wants published
  queue,          \* packets the library holds while disconnected
  clean,          \* history: terminate() began online and the connection held and answered since
  late,           \* history: a connection closed while its connect function was in progress
  connects, ops,  \* bounds
  up, down,       \* packets in flight, to and from the broker
  session,        \* the broker has a session for the client
  brokerSubs,     \* the filters of that session
  retained        \* retained payload per topic, 0 when there is none

clientVars == <<connected, online, subscriptions, handler, ending, queue>>
brokerVars == <<session, brokerSubs, retained>>
vars == <<proc, run, app, clean, late, connects, ops, up, down, clientVars, brokerVars>>

-----------------------------------------------------------------------------
Owned     == Topics \cup {Presence}
Handlers  == 1..MaxConnects
Terminate == 0                  \* the owner of what terminate() sends
Nobody    == MaxConnects + 1    \* the owner of what nobody awaits

PubPacket(t, v)     == [type |-> "publish", topic |-> t, value |-> v]
SubPacket(F, w)   == [type |-> "subscribe", filters |-> F, owner |-> w]
UnsubPacket(F, w) == [type |-> "unsubscribe", filters |-> F, owner |-> w]
clearRetain(t)    == PubPacket(t, 0)

Packets == [type : {"publish"}, topic : Owned, value : 0..MaxRuns]
           \cup [type : {"subscribe", "unsubscribe"},
                 filters : SUBSET (Filters \cup {SelfState}), owner : 0..Nobody]
Answers == [type : {"suback", "unsuback"}, owner : 0..Nobody]
           \cup [type : {"message"}, topic : Owned, value : 1..MaxRuns]

(* Where an async function awaits; "start", "publish" and "online" are     *)
(* points where its promise is already resolved.                           *)
Runnable == {"start", "publish", "online"}
Points   == Runnable \cup {"none", "suback", "sleep", "unsuback", "queued", "failed"}

Idle == \A h \in Handlers : handler[h] \notin Runnable

(* clearTopic listens between client.on and client.off; a subscription     *)
(* that is rejected leaves it registered ("failed").                       *)
Listening == {"suback", "sleep", "failed"}

TypeOK ==
  /\ proc \in {"up", "ending", "down"} /\ run \in 1..MaxRuns
  /\ connected \in BOOLEAN /\ online \in BOOLEAN /\ session \in BOOLEAN /\ clean \in BOOLEAN
  /\ late \in BOOLEAN
  /\ subscriptions \subseteq Filters \cup {SelfState}
  /\ brokerSubs \subseteq Filters \cup {SelfState}
  /\ handler \in [Handlers -> Points] /\ ending \in Points
  /\ app \subseteq Topics /\ retained \in [Owned -> 0..MaxRuns]
  /\ queue \in Seq(Packets) /\ up \in Seq(Packets) /\ down \in Seq(Answers)

Init ==
  /\ proc = "up" /\ run = 1 /\ connected = FALSE /\ online = FALSE /\ session = FALSE
  /\ subscriptions = {} /\ brokerSubs = {} /\ app = {}
  /\ clean = FALSE /\ late = FALSE
  /\ handler = [h \in Handlers |-> "none"] /\ ending = "none"
  /\ queue = <<>> /\ up = <<>> /\ down = <<>> /\ connects = 0 /\ ops = 0
  /\ retained = [t \in Owned |-> 0]

-----------------------------------------------------------------------------
(* The connect sequence.                                                   *)

(* The will of the constructor: an empty retained presence flag.            *)
LastWillNone(r) == r

LastWill(r) == [r EXCEPT ![Presence] = 0]

(* 'connect': the library sends what it queued, whose promises resolve,    *)
(* then the function of this connection starts by clearing the presence    *)
(* flag.  A session the broker still had is taken over, with or without    *)
(* its last will.                                                          *)
Connect ==
  /\ proc # "down" /\ ~connected /\ Idle
  /\ connects < MaxConnects
  /\ connects' = connects + 1
  /\ connected' = TRUE
  /\ up' = Append(queue, clearRetain(Presence))
  /\ down' = <<>> /\ queue' = <<>>
  /\ handler' = [h \in Handlers |-> IF h = connects + 1 THEN "start"
                                    ELSE IF handler[h] = "queued" THEN "online"
                                    ELSE handler[h]]
  /\ session' = TRUE /\ brokerSubs' = {}
  /\ \/ retained' = retained
     \/ session /\ retained' = LastWill(retained)
  /\ UNCHANGED <<proc, run, online, subscriptions, ending, app, clean, late, ops>>

(* clearResidentState up to its first await: listen, subscribe to the own  *)
(* state.  subscribe() reaches the broker only when online.                *)
subscribeSelf(w) ==
  /\ subscriptions' = subscriptions \cup {SelfState}
  /\ up' = IF online THEN Append(up, SubPacket({SelfState}, w)) ELSE up

clearResidentState(h) ==
  /\ handler[h] = "start"
  /\ subscribeSelf(h)
  /\ handler' = [handler EXCEPT ![h] = IF online THEN "suback" ELSE "sleep"]
  /\ UNCHANGED <<proc, run, connected, online, ending, queue, app, clean, late, connects, ops,
                 down, brokerVars>>

(* The sleep ends: off, unsubscribe.  The sleeps have one duration and are *)
(* reset by the same messages: they end in the order they began.           *)
unsubscribeSelf(w) ==
  /\ subscriptions' = subscriptions \ {SelfState}
  /\ up' = IF online THEN Append(up, UnsubPacket({SelfState}, w)) ELSE up

(* Every answer arrived within residentStateDelay.                         *)
Answered == connected => up = <<>> /\ down = <<>>

SleepOver(h) ==
  /\ proc # "down" /\ handler[h] = "sleep" /\ Idle
  /\ \A g \in 1..(h - 1) : handler[g] # "sleep"
  /\ unsubscribeSelf(h)
  /\ handler' = [handler EXCEPT ![h] = IF online THEN "unsuback" ELSE "publish"]
  /\ clean' = (clean /\ Answered)
  /\ UNCHANGED <<proc, run, connected, online, ending, queue, app, late, connects, ops, down,
                 brokerVars>>

(* publish(online, true): sent, or queued by the library.                  *)
publishOnline(h) ==
  LET packet == PubPacket(Presence, run)
  IN  /\ handler[h] = "publish"
      /\ \/ /\ connected
            /\ up' = Append(up, packet)
            /\ handler' = [handler EXCEPT ![h] = "online"]
            /\ UNCHANGED queue
         \/ /\ ~connected
            /\ queue' = Append(queue, packet)
            /\ handler' = [handler EXCEPT ![h] = "queued"]
            /\ UNCHANGED up
      /\ UNCHANGED <<proc, run, connected, online, subscriptions, ending, app, clean, late,
                     connects, ops, down, brokerVars>>

(* onlineChange(true): its listeners publish what the program has to       *)
(* publish; then every subscription is sent.                               *)
PublishAll == SetToSeq({PubPacket(t, run) : t \in app})

SubscribeNone(h) == <<>>

SubscribeAll(h) == IF subscriptions = {} THEN <<>> ELSE <<SubPacket(subscriptions, h)>>

onlineChange(h) ==
  /\ handler[h] = "online"
  /\ handler' = [handler EXCEPT ![h] = "none"]
  /\ online' = TRUE
  /\ up' = up \o (IF online THEN <<>> ELSE PublishAll) \o SubscribeAll(h)
  /\ UNCHANGED <<proc, run, connected, subscriptions, ending, queue, app, clean, late, connects,
                 ops, down, brokerVars>>

-----------------------------------------------------------------------------
(* What is lost with a connection: a suffix of what was sent, the answers, *)
(* and the promises of subscriptions in flight, which are rejected.        *)
LoseChannels == /\ \E k \in 0..Len(up) : up' = SubSeq(up, 1, k)
                /\ down' = <<>>

Rejected(p) == CASE p = "suback" -> "failed" [] p = "unsuback" -> "none" [] OTHER -> p

(* 'close': offline.  terminate() whose promise is rejected fails and the  *)
(* process exits.                                                          *)
Close ==
  /\ proc # "down" /\ connected /\ Idle
  /\ LoseChannels
  /\ connected' = FALSE /\ online' = FALSE /\ clean' = FALSE
  /\ late' = (late \/ \E h \in Handlers : handler[h] \in {"suback", "sleep", "unsuback"})
  /\ handler' = [h \in Handlers |-> Rejected(handler[h])]
  /\ proc' = IF ending \in {"suback", "unsuback"} THEN "down" ELSE proc
  /\ UNCHANGED <<run, subscriptions, ending, queue, app, connects, ops, brokerVars>>

(* The process dies, or client.end(true) drops the connection.             *)
Stop ==
  /\ proc' = "down" /\ connected' = FALSE /\ online' = FALSE
  /\ LoseChannels
  /\ UNCHANGED <<run, subscriptions, handler, queue, app, late, connects, ops, brokerVars>>

Crash == proc # "down" /\ Idle /\ Stop /\ clean' = FALSE /\ UNCHANGED ending

(* terminate(): clears the presence flag and the resident state first when *)
(* connected.                                                              *)
terminate ==
  /\ proc = "up" /\ Idle
  /\ \/ /\ ~connected
        /\ Stop
        /\ clean' = FALSE /\ UNCHANGED ending
     \/ /\ connected
        /\ proc' = "ending" /\ clean' = online
        /\ ending' = IF online THEN "suback" ELSE "sleep"
        /\ subscriptions' = subscriptions \cup {SelfState}
        /\ up' = Append(up, clearRetain(Presence))
                 \o (IF online THEN <<SubPacket({SelfState}, Terminate)>> ELSE <<>>)
        /\ UNCHANGED <<run, connected, online, handler, queue, app, late, connects, ops, down,
                       brokerVars>>

terminateSleepOver ==
  /\ proc = "ending" /\ ending = "sleep" /\ Idle
  /\ clean' = (clean /\ Answered)
  /\ \/ /\ ~online
        /\ Stop
        /\ ending' = "none"
     \/ /\ online
        /\ unsubscribeSelf(Terminate)
        /\ ending' = "unsuback"
        /\ UNCHANGED <<proc, run, connected, online, handler, queue, app, late, connects,
                       ops, down, brokerVars>>

(* A new run of the program.                                               *)
Start ==
  /\ proc = "down" /\ run < MaxRuns
  /\ proc' = "up" /\ run' = run + 1
  /\ subscriptions' = {} /\ app' = {} /\ queue' = <<>>
  /\ clean' = FALSE /\ late' = FALSE
  /\ handler' = [h \in Handlers |-> "none"] /\ ending' = "none"
  /\ UNCHANGED <<connected, online, connects, ops, up, down, brokerVars>>

-----------------------------------------------------------------------------
(* A packet from the broker.                                               *)
Answer == Head(down)

Advance(p, type) == IF p = type THEN (IF type = "suback" THEN "sleep" ELSE "publish") ELSE p

Acknowledged ==
  /\ Answer.type \in {"suback", "unsuback"}
  /\ \/ /\ Answer.owner \in Handlers
        /\ handler' = [handler EXCEPT ![Answer.owner] = Advance(@, Answer.type)]
        /\ down' = Tail(down)
        /\ UNCHANGED <<proc, run, connected, online, subscriptions, ending, queue, app, clean, late,
                       connects, ops, up, brokerVars>>
     \/ /\ Answer.owner = Terminate /\ Answer.type = "suback"
        /\ ending' = "sleep" /\ down' = Tail(down)
        /\ UNCHANGED <<proc, run, connected, online, subscriptions, handler, queue, app, clean, late,
                       connects, ops, up, brokerVars>>
     \/ /\ Answer.owner = Terminate /\ Answer.type = "unsuback"
        /\ ending' = "none"
        /\ Stop
        /\ UNCHANGED clean

(* clearTopic: a real retained message of the instance is cleared.         *)
clearTopicOnConnectOnly ==
  /\ Answer.type = "message"
  /\ down' = Tail(down)
  /\ up' = IF \E h \in Handlers : handler[h] \in Listening
           THEN Append(up, clearRetain(Answer.topic)) ELSE up
  /\ UNCHANGED <<proc, run, connected, online, subscriptions, handler, ending, queue, app,
                 clean, late, connects, ops, brokerVars>>

clearTopic ==
  /\ Answer.type = "message"
  /\ down' = Tail(down)
  /\ up' = IF ending \in Listening \/ \E h \in Handlers : handler[h] \in Listening
           THEN Append(up, clearRetain(Answer.topic)) ELSE up
  /\ UNCHANGED <<proc, run, connected, online, subscriptions, handler, ending, queue, app,
                 clean, late, connects, ops, brokerVars>>

Receive ==
  /\ proc # "down" /\ connected /\ Idle
  /\ down # <<>>
  /\ Acknowledged \/ clearTopic

-----------------------------------------------------------------------------
(* The rest of the program.                                                *)
Call ==
  /\ proc = "up" /\ Idle /\ ops < MaxOps
  /\ ops' = ops + 1
  /\ UNCHANGED <<proc, run, connected, online, handler, ending, clean, late, connects, down,
                 brokerVars>>

subscribe(f) ==
  /\ Call
  /\ subscriptions' = subscriptions \cup {f}
  /\ up' = IF online THEN Append(up, SubPacket({f}, Nobody)) ELSE up
  /\ UNCHANGED <<app, queue>>

unsubscribe(f) ==
  /\ Call /\ f \in subscriptions
  /\ subscriptions' = subscriptions \ {f}
  /\ up' = IF online THEN Append(up, UnsubPacket({f}, Nobody)) ELSE up
  /\ UNCHANGED <<app, queue>>

(* A retained topic is published when online, now or on the next           *)
(* onlineChange(true); metadata is cleared without looking at online.      *)
Announce(t) ==
  /\ Call /\ t \notin app
  /\ app' = app \cup {t}
  /\ up' = IF online THEN Append(up, PubPacket(t, run)) ELSE up
  /\ UNCHANGED <<subscriptions, queue>>

Retract(t) ==
  /\ Call /\ t \in app
  /\ app' = app \ {t}
  /\ IF connected THEN up' = Append(up, clearRetain(t)) /\ UNCHANGED queue
                  ELSE queue' = Append(queue, clearRetain(t)) /\ UNCHANGED up
  /\ UNCHANGED subscriptions

-----------------------------------------------------------------------------
(* The broker.  A message that is not retained does not concern the client *)
(* (clearTopic tests packet.retain), so live forwards are left out.        *)
Resident == SetToSeq({[type |-> "message", topic |-> t, value |-> retained[t]] :
                        t \in {u \in Owned : retained[u] # 0}})
Ack(kind, w) == IF w = Nobody THEN <<>> ELSE <<[type |-> kind, owner |-> w]>>

BrokerReceive ==
  /\ session /\ up # <<>>
  /\ up' = Tail(up)
  /\ LET p == Head(up)
         Reply(s) == down' = IF connected THEN down \o s ELSE down
     IN  \/ /\ p.type = "publish"
            /\ retained' = [retained EXCEPT ![p.topic] = p.value]
            /\ UNCHANGED <<down, brokerSubs>>
         \/ /\ p.type = "subscribe"
            /\ brokerSubs' = brokerSubs \cup p.filters
            /\ Reply(Ack("suback", p.owner)
                     \o (IF SelfState \in p.filters THEN Resident ELSE <<>>))
            /\ UNCHANGED retained
         \/ /\ p.type = "unsubscribe"
            /\ brokerSubs' = brokerSubs \ p.filters
            /\ Reply(Ack("unsuback", p.owner))
            /\ UNCHANGED retained
  /\ UNCHANGED <<proc, run, app, clean, late, connects, ops, clientVars, session>>

(* The broker notices that the connection is gone: last will.              *)
BrokerNotice ==
  /\ session /\ ~connected
  /\ session' = FALSE /\ brokerSubs' = {} /\ up' = <<>>
  /\ retained' = LastWill(retained)
  /\ UNCHANGED <<proc, run, app, clean, late, connects, ops, down, clientVars>>

-----------------------------------------------------------------------------
HandlerStep(h) == clearResidentState(h) \/ publishOnline(h) \/ onlineChange(h)

Next ==
  \/ Connect \/ Close \/ Crash \/ terminate \/ terminateSleepOver \/ Start
  \/ Receive \/ BrokerReceive \/ BrokerNotice
  \/ \E h \in Handlers : HandlerStep(h) \/ SleepOver(h)
  \/ \E f \in Filters : subscribe(f) \/ unsubscribe(f)
  \/ \E t \in Topics : Announce(t) \/ Retract(t)

Spec == Init /\ [][Next]_vars

(* Promises that are resolved run, timers expire, the broker works and     *)
(* notices dead connections.  Connecting and staying connected is not      *)
(* assumed.                                                                *)
Fairness ==
  /\ \A h \in Handlers : WF_vars(HandlerStep(h)) /\ WF_vars(SleepOver(h))
  /\ WF_vars(Receive) /\ WF_vars(BrokerReceive) /\ WF_vars(BrokerNotice)
  /\ WF_vars(terminateSleepOver)

FairSpec == Spec /\ Fairness
-----------------------------------------------------------------------------
Settled == Idle /\ \A h \in Handlers : handler[h] \in {"none", "failed"}

(* The client never believes it is online without a connection, although   *)
(* the function that sets the flag was fired by an earlier connection.     *)
OnlineMeansConnected == online => connected

(* Once the broker has read what was sent, an online client is subscribed  *)
(* at the broker to exactly what it holds in its subscription set, however *)
(* calls of subscribe / unsubscribe, reconnections and the subscriptions   *)
(* of the connect functions interleave.                                    *)
SubscriptionsEffective ==
  online /\ Idle /\ up = <<>> => brokerSubs = subscriptions

(* The client and the broker: the types, an online client has a connection *)
(* and is subscribed at the broker to exactly what it holds in its set     *)
(* (client.ts subscribe, unsubscribe and the connect handler).             *)
SubscriptionsSound == TypeOK /\ OnlineMeansConnected /\ SubscriptionsEffective

(* An online client whose connect functions are over and whose packets     *)
(* were read is seen online: neither its own clearing of the flag nor the  *)
(* last will of an earlier session comes after its announcement.           *)
PresenceTrue ==
  proc = "up" /\ online /\ Settled /\ up = <<>> => retained[Presence] = run

(* An online client whose connect functions are over has every topic of    *)
(* the program retained at the broker with this run's payload.             *)
RepublishedAfterDisconnection ==
  proc = "up" /\ online /\ Settled /\ up = <<>> /\ down = <<>>
    => \A t \in app : retained[t] = run

(* That holds when no connection closed before its connect function ended, *)
(* whatever is published, retracted or lost, across crashes and restarts.  *)
StatePublished == ~late => RepublishedAfterDisconnection

(* A terminate() that begins online, keeps its connection and gets every   *)
(* answer within residentStateDelay leaves no topic of the instance        *)
(* retained, earlier runs' topics included.                                *)
CleanExit == proc = "down" /\ clean => \A t \in Topics : retained[t] = 0

(* A client that stays connected comes online.                             *)
ComesOnline == <>[](proc = "up" /\ connected) => <>[]online

(* A dead process is seen offline unless it is started again.              *)
WillClears == proc = "down" ~> (retained[Presence] = 0 \/ proc = "up")
=============================================================================
