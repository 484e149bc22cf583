----------------------------- MODULE RpcProofs -----------------------------
(***************************************************************************)
(* The safety of remote calls, for any number of calls, services, drops    *)
(* and crashes: the steps of a server and of its connection keep the       *)
(* invariant of Rpc, and the theorem follows.                              *)
(***************************************************************************)
EXTENDS Rpc, FiniteSetTheorems

(* What a step leaves of the caller's part when the requests under way and *)
(* executed stay.                                                          *)
LEMMA CallerStays ==
  ASSUME NEW d \in Calls, RequestOk(d), SubscribeOk(d),
         UNCHANGED <<phase, result, subscriptions, callerQueue, callerUp, callerDown, executed>>,
         UNCHANGED serverDown
  PROVE  RequestOk(d)' /\ SubscribeOk(d)'
BY DEF RequestOk, SubscribeOk

LEMMA ServeHolds == ASSUME CallsInv, serve PROVE CallsInv'
<1> DEFINE p == [type |-> "subscribe"]
<1>0. /\ Typed /\ ServiceInv /\ \A q \in Reply : ReplyOk(q)
      /\ \A d \in Calls : RequestOk(d) /\ SubscribeOk(d) /\ OutcomeOk(d)
  BY DEF CallsInv
<1>1. /\ serverUp' = Append(serverUp, p) \/ serverUp' = serverUp
      /\ service = None /\ service' = created + 1 /\ listening' = listening \cup {created + 1}
      /\ created' = created + 1
      /\ UNCHANGED <<phase, result, subscriptions, callerQueue, callerUp, callerDown, executed>>
      /\ UNCHANGED <<serverDown, callerConn, serverConn, unserving, serverQueue, running, outcome>>
  BY DEF serve, SendServer, ServerIdle, callVars
<1>2. /\ p \in ServerPackets /\ p # Unsubscribe /\ \A r \in Reply : p # r
  BY Packets, Replies
<1> HIDE DEF p
<1>3. /\ serverUp' \in Seq(ServerPackets)
      /\ \A x : x # p => /\ Contains(serverUp', x) <=> Contains(serverUp, x)
                         /\ Once(serverUp, x) => Once(serverUp', x)
  <2>1. CASE serverUp' = Append(serverUp, p)
    BY <1>0, <1>2, <2>1, AppendQueue DEF Typed
  <2>2. CASE serverUp' = serverUp
    BY <1>0, <2>2 DEF Typed
  <2> QED BY <1>1, <2>1, <2>2
<1>4. Typed'
  BY <1>0, <1>1, <1>3 DEF Typed
<1>5. ServiceInv'
  BY <1>0, <1>1, <1>2, <1>3 DEF Typed, ServiceInv, None
<1>6. ASSUME NEW d \in Calls PROVE RequestOk(d)' /\ SubscribeOk(d)'
  BY <1>0, <1>1, CallerStays
<1>7. ASSUME NEW d \in Calls PROVE OutcomeOk(d)'
  BY <1>0, <1>1 DEF OutcomeOk
<1>8. ASSUME NEW q \in Reply PROVE ReplyOk(q)'
  BY <1>0, <1>1, <1>2, <1>3 DEF ReplyOk
<1> QED BY <1>4, <1>5, <1>6, <1>7, <1>8 DEF CallsInv

LEMMA UnserveHolds == ASSUME CallsInv, unserve PROVE CallsInv'
<1>0. /\ Typed /\ ServiceInv /\ \A q \in Reply : ReplyOk(q)
      /\ \A d \in Calls : RequestOk(d) /\ SubscribeOk(d) /\ OutcomeOk(d)
  BY DEF CallsInv
<1>1. /\ service # None /\ unserving = None
      /\ \/ /\ serverUp' = Append(serverUp, Unsubscribe)
            /\ unserving' = service /\ UNCHANGED <<service, listening>>
         \/ /\ serverUp' = serverUp /\ service' = None /\ listening' = listening \ {service}
            /\ UNCHANGED unserving
      /\ UNCHANGED <<phase, result, subscriptions, callerQueue, callerUp, callerDown, executed>>
      /\ UNCHANGED <<serverDown, callerConn, serverConn, created, serverQueue, running, outcome>>
  BY DEF unserve, SendServer, ServerIdle, callVars, Unsubscribe
<1>2. /\ Unsubscribe \in ServerPackets /\ \A r \in Reply : r # Unsubscribe
  BY Packets, Replies
<1>3. /\ serverUp' \in Seq(ServerPackets)
      /\ \A x : x # Unsubscribe => (Contains(serverUp', x) <=> Contains(serverUp, x))
      /\ ~Contains(serverUp, Unsubscribe) /\ Once(serverUp', Unsubscribe)
      /\ serverUp' = serverUp => ~Contains(serverUp', Unsubscribe)
  <2>0. ~Contains(serverUp, Unsubscribe) /\ Once(serverUp, Unsubscribe)
    BY <1>0, <1>1 DEF ServiceInv
  <2>1. CASE serverUp' = Append(serverUp, Unsubscribe)
    BY <1>0, <1>2, <2>0, <2>1, AppendQueue DEF Typed
  <2>2. CASE serverUp' = serverUp
    BY <1>0, <2>0, <2>2 DEF Typed
  <2> QED BY <1>1, <2>1, <2>2
<1>4. Typed'
  BY <1>0, <1>1, <1>3 DEF Typed
<1>5. ServiceInv'
  BY <1>0, <1>1, <1>3 DEF ServiceInv, None
<1>6. ASSUME NEW d \in Calls PROVE RequestOk(d)' /\ SubscribeOk(d)'
  BY <1>0, <1>1, CallerStays
<1>7. ASSUME NEW d \in Calls PROVE OutcomeOk(d)'
  BY <1>0, <1>1 DEF OutcomeOk
<1>8. ASSUME NEW q \in Reply PROVE ReplyOk(q)'
  BY <1>0, <1>1, <1>2, <1>3 DEF ReplyOk
<1> QED BY <1>4, <1>5, <1>6, <1>7, <1>8 DEF CallsInv

LEMMA ServerReceiveHolds == ASSUME CallsInv, ServerReceive PROVE CallsInv'
<1> DEFINE p == Head(serverDown)
<1>0. /\ Typed /\ ServiceInv /\ \A q \in Reply : ReplyOk(q)
      /\ \A d \in Calls : RequestOk(d) /\ SubscribeOk(d) /\ OutcomeOk(d)
  BY DEF CallsInv
<1>1. /\ serverDown # <<>> /\ serverDown' = Tail(serverDown)
      /\ UNCHANGED <<phase, result, subscriptions, callerQueue, callerUp, callerDown>>
      /\ UNCHANGED <<callerConn, serverConn, created, serverQueue, serverUp, outcome>>
  BY DEF ServerReceive, ServerIdle, callVars
<1>2. /\ p \in ServerAnswers /\ serverDown' \in Seq(ServerAnswers)
      /\ \A x : Contains(serverDown, x) <=> p = x \/ Contains(serverDown', x)
      /\ \A x : Once(serverDown, x) => Once(serverDown', x) /\ (p = x => ~Contains(serverDown', x))
  BY <1>0, <1>1, TailQueue DEF Typed
<1>3. /\ p.type \in {"request", "unsuback"}
      /\ p.type = "request" => p.call \in Calls /\ p = Packet("request", p.call)
      /\ p.type = "unsuback" => p = Unsuback
  BY <1>2, ServerAnswer
<1> HIDE DEF p
<1>4. ASSUME NEW q \in Reply PROVE ReplyOk(q)'
  BY <1>0, <1>1 DEF ReplyOk
<1>5. ASSUME NEW d \in Calls PROVE SubscribeOk(d)'
  BY <1>0, <1>1 DEF SubscribeOk
<1>6. CASE p.type = "request"
  <2> DEFINE c == p.call
             n == Cardinality(listening)
  <2>1. /\ running' = running \cup (listening \X {c})
        /\ executed' = [executed EXCEPT ![c] = @ + n]
        /\ UNCHANGED <<service, listening, unserving>>
    BY <1>6 DEF p, ServerReceive
  <2>2. c \in Calls /\ p = Packet("request", c) /\ Contains(serverDown, p)
    BY <1>2, <1>3, <1>6
  <2>3. /\ n \in {0, 1} /\ (n = 0 => listening = {})
        /\ \A o, x : o \in listening /\ x \in listening => o = x
    <3>1. CASE service = None
      BY <1>0, <3>1, FS_EmptySet DEF ServiceInv
    <3>2. CASE service # None
      <4>1. listening = {service}
        BY <1>0, <3>2 DEF ServiceInv
      <4>2. n = 1
        BY <4>1, FS_Singleton
      <4> QED BY <4>1, <4>2
    <3> QED BY <3>1, <3>2
  <2> HIDE DEF c, n
  <2>4. /\ executed[c] = 0 /\ ~Contains(callerUp, Packet("request", c))
        /\ phase[c] \notin {"idle", "subscribing", "publishing"}
        /\ ~Contains(serverDown', Packet("request", c))
    BY <1>0, <1>2, <2>2 DEF RequestOk
  <2>5. /\ executed' \in [Calls -> Nat]
        /\ \A d \in Calls : executed'[d] = IF d = c THEN n ELSE executed[d]
    BY <1>0, <2>1, <2>2, <2>3, <2>4 DEF Typed
  <2>6. Typed'
    BY <1>0, <1>1, <1>2, <2>5 DEF Typed
  <2>7. ServiceInv'
    <3>1. /\ Contains(serverDown', Unsuback) => Contains(serverDown, Unsuback)
          /\ Once(serverDown, Unsuback) => Once(serverDown', Unsuback)
      BY <1>2
    <3> QED BY <1>0, <1>1, <2>1, <3>1 DEF ServiceInv
  <2>8. ASSUME NEW d \in Calls PROVE RequestOk(d)'
    <3>1. \A x : /\ Contains(serverDown', x) => Contains(serverDown, x)
                 /\ Once(serverDown, x) => Once(serverDown', x)
      BY <1>2
    <3>2. CASE d = c
      <4>1. /\ RequestOk(d) /\ executed'[d] \in {0, 1}
            /\ phase[d] \notin {"idle", "subscribing", "publishing"}
            /\ ~Contains(callerUp, Packet("request", d))
            /\ ~Contains(serverDown', Packet("request", d))
        BY <1>0, <2>3, <2>4, <2>5, <3>2
      <4>2. executed'[d] <= 1
        BY <4>1
      <4> QED BY <1>1, <3>1, <4>1, <4>2 DEF RequestOk
    <3>3. CASE d # c
      <4>1. executed'[d] = executed[d] /\ RequestOk(d)
        BY <1>0, <2>5, <3>3
      <4> QED BY <1>1, <3>1, <4>1 DEF RequestOk
    <3> QED BY <3>2, <3>3
  <2>9. ASSUME NEW d \in Calls PROVE OutcomeOk(d)'
    <3>1. /\ OutcomeOk(d) /\ OutcomeOk(c) /\ UNCHANGED <<result, outcome>>
          /\ executed'[d] = IF d = c THEN n ELSE executed[d]
      BY <1>0, <1>1, <2>2, <2>5
    <3>2. \A o : <<o, d>> \in running' <=> <<o, d>> \in running \/ (d = c /\ o \in listening)
      BY <2>1
    <3> QED BY <2>3, <2>4, <3>1, <3>2 DEF OutcomeOk
  <2> QED BY <1>4, <1>5, <2>6, <2>7, <2>8, <2>9 DEF CallsInv
<1>7. CASE p.type = "unsuback"
  <2>1. /\ listening' = listening \ {unserving} /\ service' = None /\ unserving' = None
        /\ UNCHANGED <<running, executed>>
    BY <1>7 DEF p, ServerReceive
  <2>2. /\ Contains(serverDown, Unsuback) /\ ~Contains(serverDown', Unsuback)
        /\ Once(serverDown', Unsuback)
    BY <1>0, <1>2, <1>3, <1>7 DEF ServiceInv
  <2>3. Typed'
    BY <1>0, <1>1, <1>2, <2>1 DEF Typed
  <2>4. ServiceInv'
    BY <1>0, <1>1, <2>1, <2>2 DEF ServiceInv, None
  <2>5. ASSUME NEW d \in Calls PROVE RequestOk(d)'
    <3>1. \A x : /\ Contains(serverDown', x) => Contains(serverDown, x)
                 /\ Once(serverDown, x) => Once(serverDown', x)
      BY <1>2
    <3> QED BY <1>0, <1>1, <2>1, <3>1 DEF RequestOk
  <2>6. ASSUME NEW d \in Calls PROVE OutcomeOk(d)'
    BY <1>0, <1>1, <2>1 DEF OutcomeOk
  <2> QED BY <1>4, <1>5, <2>3, <2>4, <2>5, <2>6 DEF CallsInv
<1> QED BY <1>3, <1>6, <1>7

LEMMA HandleHolds ==
  ASSUME CallsInv, NEW o \in Objects, NEW c \in Calls, handle(o, c)
  PROVE  CallsInv'
<1>0. /\ Typed /\ ServiceInv /\ \A q \in Reply : ReplyOk(q)
      /\ \A d \in Calls : RequestOk(d) /\ SubscribeOk(d) /\ OutcomeOk(d)
  BY DEF CallsInv
<1>1. PICK r \in Outcomes :
        LET reply == [type |-> "reply", call |-> c, outcome |-> r]
        IN  /\ outcome' = [outcome EXCEPT ![c] = r]
            /\ \/ serverUp' = Append(serverUp, reply) /\ UNCHANGED serverQueue
               \/ serverQueue' = Append(serverQueue, reply) /\ UNCHANGED serverUp
  BY DEF handle
<1> DEFINE reply == [type |-> "reply", call |-> c, outcome |-> r]
<1>2. /\ <<o, c>> \in running /\ running' = running \ {<<o, c>>}
      /\ UNCHANGED <<phase, result, subscriptions, callerQueue, callerUp, callerDown, executed>>
      /\ UNCHANGED <<serverDown, callerConn, serverConn, created, service, listening, unserving>>
  BY DEF handle, ServerIdle, callVars
<1>3. reply \in Reply /\ reply.call = c /\ reply.outcome = r /\ reply # Unsubscribe
  BY Packets DEF Reply
<1>4. \/ serverUp' = Append(serverUp, reply) /\ UNCHANGED serverQueue
      \/ serverQueue' = Append(serverQueue, reply) /\ UNCHANGED serverUp
  BY <1>1
<1> HIDE DEF reply
<1>5. /\ serverUp' \in Seq(ServerPackets) /\ serverQueue' \in Seq(Reply)
      /\ \A x : Contains(serverUp', x) => Contains(serverUp, x) \/ x = reply
      /\ \A x : Contains(serverQueue', x) => Contains(serverQueue, x) \/ x = reply
      /\ Once(serverUp, Unsubscribe) => Once(serverUp', Unsubscribe)
  <2>0. reply \in ServerPackets /\ serverUp \in Seq(ServerPackets) /\ serverQueue \in Seq(Reply)
    BY <1>0, <1>3, ReplyIsPacket DEF Typed
  <2>1. CASE serverUp' = Append(serverUp, reply) /\ UNCHANGED serverQueue
    BY <1>3, <2>0, <2>1, AppendQueue
  <2>2. CASE serverQueue' = Append(serverQueue, reply) /\ UNCHANGED serverUp
    BY <1>3, <2>0, <2>2, AppendQueue
  <2> QED BY <1>4, <2>1, <2>2
<1>6. /\ outcome' \in [Calls -> Outcomes \cup {"none"}] /\ outcome[c] = "none"
      /\ \A d \in Calls : outcome'[d] = IF d = c THEN r ELSE outcome[d]
      /\ result[c] \notin Outcomes /\ executed[c] # 0
  BY <1>0, <1>1, <1>2 DEF Typed, OutcomeOk, Outcomes
<1>7. Typed'
  BY <1>0, <1>2, <1>5, <1>6 DEF Typed
<1>8. ServiceInv'
  BY <1>0, <1>2, <1>3, <1>5 DEF ServiceInv
<1>9. ASSUME NEW d \in Calls PROVE RequestOk(d)' /\ SubscribeOk(d)'
  BY <1>0, <1>2, CallerStays
<1>10. ASSUME NEW d \in Calls PROVE OutcomeOk(d)'
  BY <1>0, <1>2, <1>6 DEF OutcomeOk
<1>11. ASSUME NEW q \in Reply PROVE ReplyOk(q)'
  <2>1. ReplyOk(q) /\ q.call \in Calls /\ q.outcome \in Outcomes /\ "none" \notin Outcomes
    BY <1>0, Replies DEF Outcomes
  <2>2. CASE q = reply
    BY <1>3, <1>6, <2>2 DEF ReplyOk
  <2>3. CASE q # reply
    BY <1>2, <1>5, <1>6, <2>1, <2>3 DEF ReplyOk
  <2> QED BY <2>2, <2>3
<1> QED BY <1>7, <1>8, <1>9, <1>10, <1>11 DEF CallsInv

LEMMA ServerToBrokerHolds == ASSUME CallsInv, ServerToBroker PROVE CallsInv'
<1> DEFINE p == Head(serverUp)
<1>0. /\ Typed /\ ServiceInv /\ \A q \in Reply : ReplyOk(q)
      /\ \A d \in Calls : RequestOk(d) /\ SubscribeOk(d) /\ OutcomeOk(d)
  BY DEF CallsInv
<1>1. /\ serverUp # <<>> /\ serverUp' = Tail(serverUp)
      /\ UNCHANGED <<phase, result, subscriptions, callerQueue, callerUp, executed>>
      /\ UNCHANGED <<callerConn, serverConn, created, service, listening, unserving, serverQueue,
                     running, outcome>>
  BY DEF ServerToBroker, callVars, serverVars
<1>2. /\ p \in ServerPackets /\ serverUp' \in Seq(ServerPackets)
      /\ \A x : Contains(serverUp, x) <=> p = x \/ Contains(serverUp', x)
      /\ \A x : Once(serverUp, x) => Once(serverUp', x) /\ (p = x => ~Contains(serverUp', x))
  BY <1>0, <1>1, TailQueue DEF Typed
<1>3. /\ p.type \in {"subscribe", "unsubscribe", "reply"}
      /\ p.type = "unsubscribe" => p = Unsubscribe
      /\ p.type = "reply" => p \in Reply
  BY <1>2, ServerPacket
<1>4. /\ p.type = "subscribe" => UNCHANGED <<serverDown, callerDown>>
      /\ p.type = "unsubscribe" => serverDown' = Append(serverDown, Unsuback) /\ UNCHANGED callerDown
      /\ p.type = "reply" =>
           (callerDown' = Append(callerDown, p) \/ UNCHANGED callerDown) /\ UNCHANGED serverDown
  BY DEF ServerToBroker, Unsuback
<1> HIDE DEF p
<1>5. ASSUME NEW d \in Calls PROVE OutcomeOk(d)'
  BY <1>0, <1>1 DEF OutcomeOk
<1>6. CASE p.type = "subscribe"
  <2>1. Typed'
    BY <1>0, <1>1, <1>2, <1>4, <1>6 DEF Typed
  <2>2. ServiceInv'
    BY <1>0, <1>1, <1>2, <1>4, <1>6 DEF ServiceInv
  <2>3. ASSUME NEW d \in Calls PROVE RequestOk(d)' /\ SubscribeOk(d)'
    BY <1>0, <1>1, <1>4, <1>6, CallerStays
  <2>4. ASSUME NEW q \in Reply PROVE ReplyOk(q)'
    BY <1>0, <1>1, <1>2, <1>4, <1>6 DEF ReplyOk
  <2> QED BY <1>5, <2>1, <2>2, <2>3, <2>4 DEF CallsInv
<1>7. CASE p.type = "unsubscribe"
  <2>1. /\ p = Unsubscribe /\ serverDown' = Append(serverDown, Unsuback) /\ UNCHANGED callerDown
        /\ Unsuback \in ServerAnswers /\ \A d : Unsuback # Packet("request", d)
    BY <1>3, <1>4, <1>7, Packets
  <2>2. /\ Contains(serverUp, Unsubscribe) /\ ~Contains(serverUp', Unsubscribe)
        /\ Once(serverUp', Unsubscribe) /\ ~Contains(serverDown, Unsuback) /\ unserving # None
    BY <1>0, <1>2, <2>1 DEF ServiceInv
  <2>3. /\ serverDown' \in Seq(ServerAnswers)
        /\ \A x : x # Unsuback => (Contains(serverDown', x) <=> Contains(serverDown, x))
        /\ \A x : Once(serverDown, x) => Once(serverDown', x)
    BY <1>0, <2>1, <2>2, AppendQueue DEF Typed
  <2>4. Typed'
    BY <1>0, <1>1, <1>2, <2>1, <2>3 DEF Typed
  <2>5. ServiceInv'
    BY <1>0, <1>1, <2>2, <2>3 DEF ServiceInv
  <2>6. ASSUME NEW d \in Calls PROVE RequestOk(d)'
    <3>1. /\ Contains(serverDown', Packet("request", d)) <=> Contains(serverDown, Packet("request", d))
          /\ Once(serverDown, Packet("request", d)) => Once(serverDown', Packet("request", d))
      BY <2>1, <2>3
    <3> QED BY <1>0, <1>1, <3>1 DEF RequestOk
  <2>7. ASSUME NEW d \in Calls PROVE SubscribeOk(d)'
    BY <1>0, <1>1, <2>1 DEF SubscribeOk
  <2>8. ASSUME NEW q \in Reply PROVE ReplyOk(q)'
    BY <1>0, <1>1, <1>2, <2>1 DEF ReplyOk
  <2> QED BY <1>5, <2>4, <2>5, <2>6, <2>7, <2>8 DEF CallsInv
<1>8. CASE p.type = "reply"
  <2>1. /\ p \in Reply /\ p \in CallerAnswers /\ UNCHANGED serverDown
        /\ \A t \in {"suback", "unsuback"} : \A d : p # Packet(t, d)
    BY <1>3, <1>4, <1>8, Packets, ReplyIsPacket
  <2>2. /\ callerDown' \in Seq(CallerAnswers)
        /\ \A x : Contains(callerDown', x) => Contains(callerDown, x) \/ x = p
        /\ \A x : x # p /\ Once(callerDown, x) => Once(callerDown', x)
    <3>1. CASE callerDown' = Append(callerDown, p)
      BY <1>0, <2>1, <3>1, AppendQueue DEF Typed
    <3>2. CASE UNCHANGED callerDown
      BY <1>0, <3>2 DEF Typed
    <3> QED BY <1>4, <1>8, <3>1, <3>2
  <2>3. Typed'
    BY <1>0, <1>1, <1>2, <2>1, <2>2 DEF Typed
  <2>4. ServiceInv'
    BY <1>0, <1>1, <1>2, <2>1 DEF ServiceInv
  <2>5. ASSUME NEW d \in Calls PROVE RequestOk(d)'
    BY <1>0, <1>1, <2>1 DEF RequestOk
  <2>6. ASSUME NEW d \in Calls PROVE SubscribeOk(d)'
    <3>1. \A t \in {"suback", "unsuback"} :
            /\ Contains(callerDown', Packet(t, d)) => Contains(callerDown, Packet(t, d))
            /\ Once(callerDown, Packet(t, d)) => Once(callerDown', Packet(t, d))
      BY <2>1, <2>2
    <3> QED BY <1>0, <1>1, <3>1 DEF SubscribeOk
  <2>7. ASSUME NEW q \in Reply PROVE ReplyOk(q)'
    BY <1>0, <1>1, <1>2, <2>2 DEF ReplyOk
  <2> QED BY <1>5, <2>3, <2>4, <2>5, <2>6, <2>7 DEF CallsInv
<1> QED BY <1>3, <1>6, <1>7, <1>8

(* What a server that loses its connection, or dies, leaves of a call.     *)
LEMMA ServerGone ==
  ASSUME NEW d \in Calls, RequestOk(d), SubscribeOk(d), serverDown' = <<>>,
         UNCHANGED <<phase, result, subscriptions, callerQueue, callerUp, callerDown, executed>>
  PROVE  RequestOk(d)' /\ SubscribeOk(d)'
<1>1. \A x : ~Contains(serverDown', x) /\ Once(serverDown', x)
  BY EmptyQueue
<1>2. RequestOk(d)'
  BY <1>1 DEF RequestOk
<1>3. SubscribeOk(d)'
  BY DEF SubscribeOk
<1> QED BY <1>2, <1>3

LEMMA ServerDropHolds == ASSUME CallsInv, ServerDrop PROVE CallsInv'
<1>0. /\ Typed /\ ServiceInv /\ \A q \in Reply : ReplyOk(q)
      /\ \A d \in Calls : RequestOk(d) /\ SubscribeOk(d) /\ OutcomeOk(d)
  BY DEF CallsInv
<1>1. /\ serverConn' = "down" /\ serverUp' = <<>> /\ serverDown' = <<>> /\ unserving' = None
      /\ UNCHANGED <<phase, result, subscriptions, callerQueue, callerUp, callerDown, executed>>
      /\ UNCHANGED <<callerConn, service, listening, created, serverQueue, running, outcome>>
  BY DEF ServerDrop, callVars
<1>2. \A x : /\ ~Contains(serverUp', x) /\ Once(serverUp', x)
             /\ ~Contains(serverDown', x) /\ Once(serverDown', x)
  BY <1>1, EmptyQueue
<1>3. Typed'
  BY <1>0, <1>1 DEF Typed, Conns
<1>4. ServiceInv'
  BY <1>0, <1>1, <1>2 DEF ServiceInv
<1>5. ASSUME NEW d \in Calls PROVE RequestOk(d)' /\ SubscribeOk(d)'
  BY <1>0, <1>1, ServerGone
<1>6. ASSUME NEW d \in Calls PROVE OutcomeOk(d)'
  BY <1>0, <1>1 DEF OutcomeOk
<1>7. ASSUME NEW q \in Reply PROVE ReplyOk(q)'
  BY <1>0, <1>1, <1>2 DEF ReplyOk
<1> QED BY <1>3, <1>4, <1>5, <1>6, <1>7 DEF CallsInv

LEMMA ServerConnectHolds == ASSUME CallsInv, ServerConnect PROVE CallsInv'
<1>0. /\ Typed /\ ServiceInv /\ \A q \in Reply : ReplyOk(q)
      /\ \A d \in Calls : RequestOk(d) /\ SubscribeOk(d) /\ OutcomeOk(d)
  BY DEF CallsInv
<1>1. /\ serverConn' = "connected" /\ serverUp' = serverQueue /\ serverQueue' = <<>>
      /\ UNCHANGED <<phase, result, subscriptions, callerQueue, callerUp, callerDown, executed>>
      /\ UNCHANGED <<callerConn, service, listening, created, unserving, running, outcome, serverDown>>
  BY DEF ServerConnect, callVars
<1>2. /\ serverUp' \in Seq(ServerPackets) /\ ~Contains(serverUp', Unsubscribe)
      /\ Once(serverUp', Unsubscribe)
  <2>1. \A k \in 1..Len(serverQueue) : serverQueue[k] \in Reply
    BY <1>0 DEF Typed
  <2>2. serverQueue \in Seq(ServerPackets)
    BY <1>0, ReplyIsPacket DEF Typed
  <2>3. \A k \in 1..Len(serverQueue) : serverQueue[k] # Unsubscribe
    BY <2>1, Replies, Packets
  <2> QED BY <1>1, <2>2, <2>3 DEF Contains, Once
<1>3. \A x : ~Contains(serverQueue', x)
  BY <1>1, EmptyQueue
<1>4. Typed'
  BY <1>0, <1>1, <1>2 DEF Typed, Conns
<1>5. ServiceInv'
  BY <1>0, <1>1, <1>2 DEF ServiceInv
<1>6. ASSUME NEW d \in Calls PROVE RequestOk(d)' /\ SubscribeOk(d)'
  BY <1>0, <1>1, CallerStays
<1>7. ASSUME NEW d \in Calls PROVE OutcomeOk(d)'
  BY <1>0, <1>1 DEF OutcomeOk
<1>8. ASSUME NEW q \in Reply PROVE ReplyOk(q)'
  BY <1>0, <1>1, <1>3 DEF ReplyOk
<1> QED BY <1>4, <1>5, <1>6, <1>7, <1>8 DEF CallsInv

LEMMA ServerOnlineHolds == ASSUME CallsInv, ServerOnline PROVE CallsInv'
<1> DEFINE p == [type |-> "subscribe"]
<1>0. /\ Typed /\ ServiceInv /\ \A q \in Reply : ReplyOk(q)
      /\ \A d \in Calls : RequestOk(d) /\ SubscribeOk(d) /\ OutcomeOk(d)
  BY DEF CallsInv
<1>1. /\ serverConn' = "online" /\ (serverUp' = Append(serverUp, p) \/ serverUp' = serverUp)
      /\ UNCHANGED <<phase, result, subscriptions, callerQueue, callerUp, callerDown, executed>>
      /\ UNCHANGED <<callerConn, service, listening, created, unserving, serverQueue, running, outcome,
                     serverDown>>
  BY DEF ServerOnline, callVars, serverVars
<1>2. /\ p \in ServerPackets /\ p # Unsubscribe /\ \A r \in Reply : p # r
  BY Packets, Replies
<1> HIDE DEF p
<1>3. /\ serverUp' \in Seq(ServerPackets)
      /\ \A x : x # p => /\ Contains(serverUp', x) <=> Contains(serverUp, x)
                         /\ Once(serverUp, x) => Once(serverUp', x)
  <2>1. CASE serverUp' = Append(serverUp, p)
    BY <1>0, <1>2, <2>1, AppendQueue DEF Typed
  <2>2. CASE serverUp' = serverUp
    BY <1>0, <2>2 DEF Typed
  <2> QED BY <1>1, <2>1, <2>2
<1>4. Typed'
  BY <1>0, <1>1, <1>3 DEF Typed, Conns
<1>5. ServiceInv'
  BY <1>0, <1>1, <1>2, <1>3 DEF ServiceInv
<1>6. ASSUME NEW d \in Calls PROVE RequestOk(d)' /\ SubscribeOk(d)'
  BY <1>0, <1>1, CallerStays
<1>7. ASSUME NEW d \in Calls PROVE OutcomeOk(d)'
  BY <1>0, <1>1 DEF OutcomeOk
<1>8. ASSUME NEW q \in Reply PROVE ReplyOk(q)'
  BY <1>0, <1>1, <1>2, <1>3 DEF ReplyOk
<1> QED BY <1>4, <1>5, <1>6, <1>7, <1>8 DEF CallsInv

LEMMA ServerCrashHolds == ASSUME CallsInv, ServerCrash PROVE CallsInv'
<1>0. /\ Typed /\ \A q \in Reply : ReplyOk(q)
      /\ \A d \in Calls : RequestOk(d) /\ SubscribeOk(d) /\ OutcomeOk(d)
  BY DEF CallsInv
<1>1. /\ serverConn' = "down" /\ serverUp' = <<>> /\ serverDown' = <<>> /\ serverQueue' = <<>>
      /\ service' = None /\ listening' = {} /\ unserving' = None /\ running' = {}
      /\ UNCHANGED <<phase, result, subscriptions, callerQueue, callerUp, callerDown, executed>>
      /\ UNCHANGED <<callerConn, created, outcome>>
  BY DEF ServerCrash, callVars
<1>2. \A x : /\ ~Contains(serverUp', x) /\ Once(serverUp', x) /\ ~Contains(serverQueue', x)
             /\ ~Contains(serverDown', x) /\ Once(serverDown', x)
  BY <1>1, EmptyQueue
<1>3. Typed'
  BY <1>0, <1>1 DEF Typed, Conns
<1>4. ServiceInv'
  BY <1>1, <1>2 DEF ServiceInv, None
<1>5. ASSUME NEW d \in Calls PROVE RequestOk(d)' /\ SubscribeOk(d)'
  BY <1>0, <1>1, ServerGone
<1>6. ASSUME NEW d \in Calls PROVE OutcomeOk(d)'
  BY <1>0, <1>1 DEF OutcomeOk
<1>7. ASSUME NEW q \in Reply PROVE ReplyOk(q)'
  BY <1>0, <1>1, <1>2 DEF ReplyOk
<1> QED BY <1>3, <1>4, <1>5, <1>6, <1>7 DEF CallsInv

LEMMA CallsStep == CallsInv /\ [Next]_vars => CallsInv'
<1> SUFFICES ASSUME CallsInv, [Next]_vars PROVE CallsInv'
  OBVIOUS
<1>1. ASSUME NEW c \in Calls, call(c) PROVE CallsInv'
  BY <1>1, CallHolds
<1>2. ASSUME NEW c \in Calls, Timeout(c) PROVE CallsInv'
  BY <1>2, TimeoutHolds
<1>3. ASSUME NEW c \in Calls, NEW o \in Objects, handle(o, c) PROVE CallsInv'
  BY <1>3, HandleHolds
<1>4. CASE CallerReceive \/ CallerToBroker \/ CallerDrop \/ CallerConnect \/ CallerOnline
  BY <1>4, CallerReceiveHolds, CallerToBrokerHolds, CallerDropHolds, CallerConnectHolds,
     CallerOnlineHolds
<1>5. CASE serve \/ unserve \/ ServerReceive \/ ServerToBroker
  BY <1>5, ServeHolds, UnserveHolds, ServerReceiveHolds, ServerToBrokerHolds
<1>6. CASE ServerDrop \/ ServerConnect \/ ServerOnline \/ ServerCrash
  BY <1>6, ServerDropHolds, ServerConnectHolds, ServerOnlineHolds, ServerCrashHolds
<1>7. CASE UNCHANGED vars
  <2>1. /\ UNCHANGED <<callerConn, serverConn, phase, result, subscriptions, callerQueue, callerUp>>
        /\ UNCHANGED <<callerDown, serverUp, serverDown, service, listening, created, unserving>>
        /\ UNCHANGED <<serverQueue, running, executed, outcome>>
    BY <1>7 DEF vars, callVars, serverVars
  <2>2. Typed' /\ ServiceInv'
    BY <2>1 DEF CallsInv, Typed, ServiceInv
  <2>3. ASSUME NEW d \in Calls PROVE RequestOk(d)' /\ SubscribeOk(d)' /\ OutcomeOk(d)'
    BY <2>1 DEF CallsInv, RequestOk, SubscribeOk, OutcomeOk
  <2>4. ASSUME NEW q \in Reply PROVE ReplyOk(q)'
    BY <2>1 DEF CallsInv, ReplyOk
  <2> QED BY <2>2, <2>3, <2>4 DEF CallsInv
<1> QED BY <1>1, <1>2, <1>3, <1>4, <1>5, <1>6, <1>7 DEF Next, CallStep

LEMMA CallsImply == CallsInv => AtMostOnce /\ OwnReply /\ RepliesReleased
<1> SUFFICES ASSUME CallsInv PROVE AtMostOnce /\ OwnReply /\ RepliesReleased
  OBVIOUS
<1>0. Typed /\ \A d \in Calls : RequestOk(d) /\ SubscribeOk(d) /\ OutcomeOk(d)
  BY DEF CallsInv
<1>1. AtMostOnce
  BY <1>0 DEF AtMostOnce, RequestOk
<1>2. OwnReply
  BY <1>0 DEF OwnReply, OutcomeOk, Typed, Outcomes
<1>3. RepliesReleased
  BY <1>0 DEF RepliesReleased, SubscribeOk, Active, Typed
<1> QED BY <1>1, <1>2, <1>3

(* A remote call is executed once at most; it returns, or fails with a     *)
(* remote error, only with what the execution of its own request gave; and *)
(* it leaves the subscription set when it is over, unless the connection   *)
(* closed while it subscribed (rpc.ts call, waitForMessage and             *)
(* Service.handle): for any set of calls and any number of services,       *)
(* connection losses and crashes.                                          *)
THEOREM CallsAreSound == Spec => [](AtMostOnce /\ OwnReply /\ RepliesReleased)
BY InitCalls, CallsStep, CallsImply, PTL DEF Spec
=============================================================================
