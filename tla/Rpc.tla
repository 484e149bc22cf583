-------------------------------- MODULE Rpc --------------------------------
(***************************************************************************)
(* Remote calls over the bus (mylife-home-common/src/bus/rpc.ts): one      *)
(* caller, one server, one address.                                        *)
(*                                                                         *)
(* A call subscribes to a reply topic of its own, publishes the request,   *)
(* waits for the reply or a timer, and unsubscribes.  Each of these is an  *)
(* await during which either side may lose its connection and the server   *)
(* may crash, stop serving or serve again.  A client is "connected" until  *)
(* its connect function sets it "online" (BusClient): before that it       *)
(* publishes, but its subscriptions only enter its set.                    *)
(***************************************************************************)
EXTENDS Naturals, Sequences, FiniteSets, Functions, TLAPS

CONSTANTS
  Calls,        \* the calls, each with its reply topic
  MaxServices,  \* bound: Service objects
  MaxDrops,     \* bound: connection losses, on both sides
  MaxCrashes    \* bound: crashes of the server

VARIABLES
  callerConn, serverConn,   \* "down", "connected" or "online"
  phase,                    \* where each call is
  result,                   \* how it ended, or is about to
  subscriptions,            \* reply topics in the caller's subscription set
  brokerReplies,            \* reply topics the caller is subscribed to at the broker
  callerQueue,              \* requests the caller's library holds while disconnected
  callerUp, callerDown,     \* packets between the caller and the broker
  service,                  \* services.get(address): a Service object or None
  listening,                \* Service objects whose onMessage is registered
  created,                  \* Service objects created
  unserving,                \* the object an unserve awaits, or None
  served,                   \* the service topic is in the server's subscription set
  brokerServed,             \* the server is subscribed to the service topic at the broker
  serverQueue,              \* replies the server's library holds while disconnected
  serverUp, serverDown,     \* packets between the server and the broker
  running,                  \* executions of the implementation: <<object, call>>
  executed, outcome,        \* history: executions begun for a call, and how the last ended
  disturbed,                \* history: a side was not reachable during the call
  early,                    \* history: the timer ended before an answer on its way arrived
  drops, crashes            \* bounds

callVars   == <<phase, result, subscriptions, callerQueue, early>>
serverVars == <<service, listening, created, unserving, served, serverQueue, running, executed, outcome>>
bounds     == <<drops, crashes>>
vars == <<callerConn, serverConn, callVars, serverVars, brokerReplies, brokerServed, callerUp,
          callerDown, serverUp, serverDown, disturbed, bounds>>

None == 0
Objects  == 1..MaxServices
Conns    == {"down", "connected", "online"}
Outcomes == {"output", "error"}
Phases   == {"idle", "subscribing", "publishing", "waiting", "unsubscribing", "done"}
Results  == Outcomes \cup {"none", "timeout", "rejected"}
Active(c) == phase[c] \notin {"idle", "done"}

TypeOK ==
  /\ callerConn \in Conns /\ serverConn \in Conns
  /\ phase \in [Calls -> Phases] /\ result \in [Calls -> Results]
  /\ subscriptions \subseteq Calls /\ brokerReplies \subseteq Calls
  /\ callerQueue \in Seq(Calls)
  /\ Range(callerQueue) = {c \in Calls : phase[c] = "publishing"}
  /\ created \in 0..MaxServices /\ service \in 0..created /\ listening \subseteq 1..created
  /\ unserving \in 0..created
  /\ served \in BOOLEAN /\ brokerServed \in BOOLEAN /\ running \subseteq Objects \X Calls
  /\ executed \in [Calls -> Nat] /\ outcome \in [Calls -> Outcomes \cup {"none"}]
  /\ disturbed \subseteq Calls /\ early \subseteq Calls

Init ==
  /\ callerConn = "online" /\ serverConn = "online"
  /\ phase = [c \in Calls |-> "idle"] /\ result = [c \in Calls |-> "none"]
  /\ subscriptions = {} /\ brokerReplies = {} /\ callerQueue = <<>>
  /\ callerUp = <<>> /\ callerDown = <<>>
  /\ service = None /\ listening = {} /\ created = 0 /\ unserving = None
  /\ served = FALSE
  /\ brokerServed = FALSE /\ serverQueue = <<>> /\ serverUp = <<>> /\ serverDown = <<>>
  /\ running = {} /\ executed = [c \in Calls |-> 0] /\ outcome = [c \in Calls |-> "none"]
  /\ disturbed = {} /\ early = {} /\ drops = 0 /\ crashes = 0

-----------------------------------------------------------------------------
(* The caller.                                                             *)
Packet(type, c) == [type |-> type, call |-> c]

(* The request is published: sent, or held by the library; only a request  *)
(* that is sent starts the timer.                                          *)
publishRequest(c) ==
  \/ /\ callerConn # "down"
     /\ phase' = [phase EXCEPT ![c] = "waiting"]
     /\ callerUp' = Append(callerUp, Packet("request", c))
     /\ UNCHANGED callerQueue
  \/ /\ callerConn = "down"
     /\ phase' = [phase EXCEPT ![c] = "publishing"]
     /\ callerQueue' = Append(callerQueue, c)
     /\ UNCHANGED callerUp

Unreachable ==
  callerConn # "online" \/ serverConn # "online" \/ ~brokerServed \/ unserving # None

(* call, up to its first await that is not resolved at once.               *)
call(c) ==
  /\ phase[c] = "idle"
  /\ subscriptions' = subscriptions \cup {c}
  /\ disturbed' = IF Unreachable THEN disturbed \cup {c} ELSE disturbed
  /\ \/ /\ callerConn = "online"
        /\ phase' = [phase EXCEPT ![c] = "subscribing"]
        /\ callerUp' = Append(callerUp, Packet("subscribe", c))
        /\ UNCHANGED callerQueue
     \/ callerConn # "online" /\ publishRequest(c)
  /\ UNCHANGED <<callerConn, serverConn, result, early, serverVars, brokerReplies, brokerServed,
                 callerDown, serverUp, serverDown, bounds>>

(* The finally of call: unsubscribe, which is awaited when online.         *)
endKeepsTopic(c, r) ==
  /\ result' = [result EXCEPT ![c] = r]
  /\ phase' = [phase EXCEPT ![c] = "done"]
  /\ UNCHANGED <<subscriptions, callerUp>>

end(c, r) ==
  /\ result' = [result EXCEPT ![c] = r]
  /\ subscriptions' = subscriptions \ {c}
  /\ \/ /\ callerConn = "online"
        /\ phase' = [phase EXCEPT ![c] = "unsubscribing"]
        /\ callerUp' = Append(callerUp, Packet("unsubscribe", c))
     \/ /\ callerConn # "online"
        /\ phase' = [phase EXCEPT ![c] = "done"]
        /\ UNCHANGED callerUp

(* What carries the request or the reply of a call.                        *)
OnItsWay(c) ==
  \/ \E p \in Range(callerUp) : p.type = "request" /\ p.call = c
  \/ \E p \in Range(serverDown) : p.type = "request" /\ p.call = c
  \/ \E e \in running : e[2] = c
  \/ \E p \in Range(serverUp) \cup Range(serverQueue) : p.type = "reply" /\ p.call = c
  \/ \E p \in Range(callerDown) : p.type = "reply" /\ p.call = c

(* The timer of waitForMessage.                                            *)
Timeout(c) ==
  /\ phase[c] = "waiting"
  /\ early' = IF OnItsWay(c) THEN early \cup {c} ELSE early
  /\ end(c, "timeout")
  /\ UNCHANGED <<callerConn, serverConn, callerQueue, serverVars, brokerReplies, brokerServed,
                 callerDown, serverUp, serverDown, disturbed, bounds>>

(* messageCb: a reply for a call that does not wait any more is ignored.   *)
messageCb(p) ==
  \/ phase[p.call] = "waiting" /\ end(p.call, p.outcome)
  \/ phase[p.call] # "waiting" /\ UNCHANGED <<phase, result, subscriptions, callerUp>>

CallerReceive ==
  /\ callerConn # "down" /\ callerDown # <<>>
  /\ callerDown' = Tail(callerDown)
  /\ LET p == Head(callerDown)
     IN  \/ p.type = "reply" /\ messageCb(p) /\ UNCHANGED callerQueue
         \/ /\ p.type = "suback"
            /\ publishRequest(p.call)
            /\ UNCHANGED <<result, subscriptions>>
         \/ /\ p.type = "unsuback"
            /\ phase' = [phase EXCEPT ![p.call] = "done"]
            /\ UNCHANGED <<result, subscriptions, callerQueue, callerUp>>
  /\ UNCHANGED <<callerConn, serverConn, early, serverVars, brokerReplies, brokerServed, serverUp,
                 serverDown, disturbed, bounds>>

-----------------------------------------------------------------------------
(* The server.  The program makes one unserve at a time.                   *)
ServerIdle == UNCHANGED <<callerConn, serverConn, callVars, brokerReplies, callerUp, callerDown,
                          bounds>>

SendServer(p) == serverUp' = IF serverConn = "online" THEN Append(serverUp, p) ELSE serverUp

(* serve throws when the address has a service.                            *)
serve ==
  /\ service = None /\ created < MaxServices
  /\ created' = created + 1
  /\ service' = created + 1 /\ listening' = listening \cup {created + 1}
  /\ served' = TRUE
  /\ SendServer([type |-> "subscribe"])
  /\ ServerIdle
  /\ UNCHANGED <<unserving, serverQueue, running, executed, outcome, brokerServed, serverDown,
                 disturbed>>

(* unserve: the service listens and keeps its address until the            *)
(* unsubscription is acknowledged.                                         *)
unserve ==
  /\ service # None /\ unserving = None
  /\ disturbed' = disturbed \cup {c \in Calls : Active(c)}
  /\ served' = FALSE
  /\ SendServer([type |-> "unsubscribe"])
  /\ \/ /\ serverConn = "online"
        /\ unserving' = service
        /\ UNCHANGED <<service, listening>>
     \/ /\ serverConn # "online"
        /\ service' = None /\ listening' = listening \ {service}
        /\ UNCHANGED unserving
  /\ ServerIdle
  /\ UNCHANGED <<created, serverQueue, running, executed, outcome, brokerServed, serverDown>>

(* A packet for the server: a request starts an execution in every Service *)
(* that listens; the answer to an unserve ends it.                         *)
ServerReceive ==
  /\ serverConn # "down" /\ serverDown # <<>>
  /\ serverDown' = Tail(serverDown)
  /\ LET p == Head(serverDown)
     IN  \/ /\ p.type = "request"
            /\ running' = running \cup (listening \X {p.call})
            /\ executed' = [executed EXCEPT ![p.call] = @ + Cardinality(listening)]
            /\ UNCHANGED <<service, listening, unserving>>
         \/ /\ p.type = "unsuback"
            /\ listening' = listening \ {unserving} /\ service' = None /\ unserving' = None
            /\ UNCHANGED <<running, executed>>
  /\ ServerIdle
  /\ UNCHANGED <<created, served, serverQueue, outcome, brokerServed, serverUp, disturbed>>

(* handle: the implementation returns or throws, and the reply is          *)
(* published, whatever became of the Service meanwhile.                    *)
handle(o, c) ==
  /\ <<o, c>> \in running
  /\ running' = running \ {<<o, c>>}
  /\ \E r \in Outcomes :
       LET reply == [type |-> "reply", call |-> c, outcome |-> r]
       IN  /\ outcome' = [outcome EXCEPT ![c] = r]
           /\ \/ /\ serverConn # "down"
                 /\ serverUp' = Append(serverUp, reply) /\ UNCHANGED serverQueue
              \/ /\ serverConn = "down"
                 /\ serverQueue' = Append(serverQueue, reply) /\ UNCHANGED serverUp
  /\ ServerIdle
  /\ UNCHANGED <<service, listening, created, unserving, served, executed, brokerServed, serverDown,
                 disturbed>>

-----------------------------------------------------------------------------
(* The broker routes a packet of either side.                              *)
CallerToBroker ==
  /\ callerConn # "down" /\ callerUp # <<>>
  /\ callerUp' = Tail(callerUp)
  /\ LET p == Head(callerUp)
     IN  \/ /\ p.type = "subscribe"
            /\ brokerReplies' = brokerReplies \cup {p.call}
            /\ callerDown' = Append(callerDown, Packet("suback", p.call))
            /\ UNCHANGED serverDown
         \/ /\ p.type = "resubscribe"
            /\ brokerReplies' = brokerReplies \cup p.calls
            /\ UNCHANGED <<callerDown, serverDown>>
         \/ /\ p.type = "unsubscribe"
            /\ brokerReplies' = brokerReplies \ {p.call}
            /\ callerDown' = Append(callerDown, Packet("unsuback", p.call))
            /\ UNCHANGED serverDown
         \/ /\ p.type = "request"
            /\ serverDown' = IF brokerServed THEN Append(serverDown, p) ELSE serverDown
            /\ UNCHANGED <<brokerReplies, callerDown>>
  /\ UNCHANGED <<callerConn, serverConn, callVars, serverVars, brokerServed, serverUp, disturbed,
                 bounds>>

ServerToBroker ==
  /\ serverConn # "down" /\ serverUp # <<>>
  /\ serverUp' = Tail(serverUp)
  /\ LET p == Head(serverUp)
     IN  \/ /\ p.type = "subscribe"
            /\ brokerServed' = TRUE
            /\ UNCHANGED <<serverDown, callerDown>>
         \/ /\ p.type = "unsubscribe"
            /\ brokerServed' = FALSE
            /\ serverDown' = Append(serverDown, [type |-> "unsuback"])
            /\ UNCHANGED callerDown
         \/ /\ p.type = "reply"
            /\ callerDown' = IF p.call \in brokerReplies THEN Append(callerDown, p)
                             ELSE callerDown
            /\ UNCHANGED <<brokerServed, serverDown>>
  /\ UNCHANGED <<callerConn, serverConn, callVars, serverVars, brokerReplies, callerUp, disturbed,
                 bounds>>

-----------------------------------------------------------------------------
(* Connections.  A drop loses what is in flight and rejects the promises   *)
(* of subscriptions; a rejection in the finally replaces the result.       *)
Interrupted(c) == phase[c] \in {"subscribing", "unsubscribing"}

CallerDrop ==
  /\ callerConn # "down" /\ drops < MaxDrops
  /\ drops' = drops + 1
  /\ callerConn' = "down"
  /\ callerUp' = <<>> /\ callerDown' = <<>> /\ brokerReplies' = {}
  /\ phase'  = [c \in Calls |-> IF Interrupted(c) THEN "done" ELSE phase[c]]
  /\ result' = [c \in Calls |-> IF Interrupted(c) THEN "rejected" ELSE result[c]]
  /\ disturbed' = disturbed \cup {c \in Calls : Active(c)}
  /\ UNCHANGED <<serverConn, subscriptions, callerQueue, early, serverVars, brokerServed,
                 serverUp, serverDown, crashes>>

(* The library connects again and sends what it held; the calls it held    *)
(* begin to wait.                                                          *)
CallerConnect ==
  /\ callerConn = "down"
  /\ callerConn' = "connected"
  /\ callerUp' = [k \in DOMAIN callerQueue |-> Packet("request", callerQueue[k])]
  /\ callerQueue' = <<>>
  /\ phase' = [c \in Calls |-> IF phase[c] = "publishing" THEN "waiting" ELSE phase[c]]
  /\ UNCHANGED <<serverConn, result, subscriptions, early, serverVars, brokerReplies,
                 brokerServed, callerDown, serverUp, serverDown, disturbed, bounds>>

CallerOnline ==
  /\ callerConn = "connected"
  /\ callerConn' = "online"
  /\ callerUp' = IF subscriptions = {} THEN callerUp
                 ELSE Append(callerUp, [type |-> "resubscribe", calls |-> subscriptions])
  /\ UNCHANGED <<serverConn, callVars, serverVars, brokerReplies, brokerServed, callerDown,
                 serverUp, serverDown, disturbed, bounds>>

ServerDrop ==
  /\ serverConn # "down" /\ drops < MaxDrops
  /\ drops' = drops + 1
  /\ serverConn' = "down"
  /\ serverUp' = <<>> /\ serverDown' = <<>> /\ brokerServed' = FALSE
  /\ unserving' = None
  /\ disturbed' = disturbed \cup {c \in Calls : Active(c)}
  /\ UNCHANGED <<callerConn, callVars, service, listening, created, served, serverQueue, running,
                 executed, outcome, brokerReplies, callerUp, callerDown, crashes>>

ServerConnect ==
  /\ serverConn = "down"
  /\ serverConn' = "connected"
  /\ serverUp' = serverQueue /\ serverQueue' = <<>>
  /\ UNCHANGED <<callerConn, callVars, service, listening, created, unserving, served, running, executed,
                 outcome, brokerReplies, brokerServed, callerUp, callerDown, serverDown,
                 disturbed, bounds>>

ServerOnline ==
  /\ serverConn = "connected"
  /\ serverConn' = "online"
  /\ serverUp' = IF served THEN Append(serverUp, [type |-> "subscribe"]) ELSE serverUp
  /\ UNCHANGED <<callerConn, callVars, serverVars, brokerReplies, brokerServed, callerUp,
                 callerDown, serverDown, disturbed, bounds>>

(* The server dies; its next run comes up disconnected and serves again.   *)
ServerCrash ==
  /\ crashes < MaxCrashes
  /\ crashes' = crashes + 1
  /\ serverConn' = "down"
  /\ serverUp' = <<>> /\ serverDown' = <<>> /\ brokerServed' = FALSE /\ serverQueue' = <<>>
  /\ service' = None /\ listening' = {} /\ unserving' = None /\ running' = {}
  /\ served' = FALSE
  /\ disturbed' = disturbed \cup {c \in Calls : Active(c)}
  /\ UNCHANGED <<callerConn, callVars, created, executed, outcome, brokerReplies, callerUp,
                 callerDown, drops>>

-----------------------------------------------------------------------------
CallStep(c) == call(c) \/ Timeout(c)

Next ==
  \/ \E c \in Calls : CallStep(c) \/ \E o \in Objects : handle(o, c)
  \/ CallerReceive \/ serve \/ unserve \/ ServerReceive
  \/ CallerToBroker \/ ServerToBroker
  \/ CallerDrop \/ CallerConnect \/ CallerOnline
  \/ ServerDrop \/ ServerConnect \/ ServerOnline \/ ServerCrash

Spec == Init /\ [][Next]_vars

(* Timers expire, the broker and the caller's event loop work, and the     *)
(* caller's library reconnects.  Nothing is assumed of the server.         *)
Fairness ==
  /\ \A c \in Calls : WF_vars(Timeout(c))
  /\ WF_vars(CallerReceive) /\ WF_vars(CallerToBroker) /\ WF_vars(CallerConnect)

FairSpec == Spec /\ Fairness

-----------------------------------------------------------------------------
(* The implementation runs at most once for a call, through reconnections  *)
(* and subscriptions that are sent again, and services that come and go.   *)
AtMostOnce == \A c \in Calls : executed[c] <= 1

(* A call that returns, or fails with a remote error, does so with what    *)
(* the execution of its own request gave, never with a late answer to      *)
(* another call.                                                           *)
OwnReply == \A c \in Calls : result[c] \in Outcomes => executed[c] > 0 /\ result[c] = outcome[c]

(* A timeout has a cause: the timer was shorter than the round trip, or    *)
(* one side was unreachable or stopped serving during the call.  No reply  *)
(* is lost between the subscription, the request and the listener.         *)
TimeoutHasCause == \A c \in Calls : result[c] = "timeout" => c \in early \cup disturbed

(* A call that is over has left the subscription set, unless the           *)
(* connection closed while it was subscribing.                             *)
RepliesReleased == \A c \in subscriptions : Active(c) \/ result[c] = "rejected"

(* Every call ends, also when it was made while disconnected.              *)
CallEnds == \A c \in Calls : Active(c) ~> phase[c] = "done"
-----------------------------------------------------------------------------
(***************************************************************************)
(* The invariant of the proof that calls are sound (RpcProofs), and that   *)
(* the steps of a caller and of its connection keep it.                    *)
(***************************************************************************)
(* Element p is at a position of q; it is at one at most.                              *)
Contains(q, p) == \E k \in 1..Len(q) : q[k] = p
Once(q, p) == \A j, k \in 1..Len(q) : q[j] = p /\ q[k] = p => j = k

LEMMA EmptyQueue == ASSUME NEW p PROVE ~Contains(<<>>, p) /\ Once(<<>>, p)
BY DEF Contains, Once

LEMMA AppendQueue ==
  ASSUME NEW S, NEW q \in Seq(S), NEW x \in S
  PROVE  /\ Append(q, x) \in Seq(S)
         /\ \A p : Contains(Append(q, x), p) <=> Contains(q, p) \/ p = x
         /\ \A p : Once(q, p) /\ (p = x => ~Contains(q, p)) => Once(Append(q, x), p)
<1>1. /\ Append(q, x) \in Seq(S) /\ Len(Append(q, x)) = Len(q) + 1 /\ Len(q) \in Nat
      /\ \A k \in 1..Len(q) : Append(q, x)[k] = q[k]
      /\ Append(q, x)[Len(q) + 1] = x
  OBVIOUS
<1> DEFINE a == Append(q, x)
<1> HIDE DEF a
<1>2. /\ Len(a) = Len(q) + 1 /\ \A k \in 1..Len(q) : a[k] = q[k]
      /\ a[Len(q) + 1] = x
  BY <1>1 DEF a
<1>3. \A p : Contains(a, p) <=> Contains(q, p) \/ p = x
  BY <1>1, <1>2 DEF Contains
<1>4. \A p : Once(q, p) /\ (p = x => ~Contains(q, p)) => Once(a, p)
  BY <1>1, <1>2 DEF Contains, Once
<1> QED BY <1>1, <1>3, <1>4 DEF a

LEMMA TailQueue ==
  ASSUME NEW S, NEW q \in Seq(S), q # <<>>
  PROVE  /\ Head(q) \in S /\ Tail(q) \in Seq(S)
         /\ \A p : Contains(q, p) <=> Head(q) = p \/ Contains(Tail(q), p)
         /\ \A p : Once(q, p) => Once(Tail(q), p) /\ (Head(q) = p => ~Contains(Tail(q), p))
<1>1. /\ Head(q) \in S /\ Tail(q) \in Seq(S) /\ Len(q) \in Nat \ {0}
      /\ Len(Tail(q)) = Len(q) - 1 /\ Head(q) = q[1]
      /\ \A k \in 1..Len(Tail(q)) : Tail(q)[k] = q[k + 1]
  OBVIOUS
<1> DEFINE t == Tail(q)
<1> HIDE DEF t
<1>2. Len(t) = Len(q) - 1 /\ \A k \in 1..Len(t) : t[k] = q[k + 1]
  BY <1>1 DEF t
<1>3. ASSUME NEW p
      PROVE  Contains(q, p) <=> q[1] = p \/ Contains(t, p)
  <2>1. ASSUME NEW k \in 1..Len(q), q[k] = p, k # 1
        PROVE  k - 1 \in 1..Len(t) /\ t[k - 1] = p
    BY <1>1, <1>2, <2>1
  <2>2. ASSUME NEW k \in 1..Len(t), t[k] = p
        PROVE  k + 1 \in 1..Len(q) /\ q[k + 1] = p
    BY <1>1, <1>2, <2>2
  <2> QED BY <1>1, <2>1, <2>2 DEF Contains
<1>4. ASSUME NEW p, Once(q, p)
      PROVE  Once(t, p) /\ (q[1] = p => ~Contains(t, p))
  <2>1. ASSUME NEW k \in 1..Len(t)
        PROVE  k + 1 \in 1..Len(q) /\ k + 1 # 1 /\ t[k] = q[k + 1]
    BY <1>1, <1>2
  <2> QED BY <1>1, <1>4, <2>1 DEF Contains, Once
<1> QED BY <1>1, <1>3, <1>4 DEF t

-----------------------------------------------------------------------------
(* The packets of each direction.                                          *)

Reply == [type : {"reply"}, call : Calls, outcome : Outcomes]
CallerPackets ==
  [type : {"subscribe", "unsubscribe", "request"}, call : Calls]
    \cup [type : {"resubscribe"}, calls : SUBSET Calls]
CallerAnswers  == [type : {"suback", "unsuback"}, call : Calls] \cup Reply
ServerPackets  == [type : {"subscribe", "unsubscribe"}] \cup Reply
ServerAnswers  == [type : {"request"}, call : Calls] \cup [type : {"unsuback"}]
Unsubscribe == [type |-> "unsubscribe"]
Unsuback == [type |-> "unsuback"]

LEMMA Packets ==
  /\ \A t, c : Packet(t, c).type = t /\ Packet(t, c).call = c
  /\ Unsubscribe.type = "unsubscribe" /\ Unsuback.type = "unsuback"
  /\ \A c \in Calls :
       /\ \A t \in {"subscribe", "unsubscribe", "request"} : Packet(t, c) \in CallerPackets
       /\ \A t \in {"suback", "unsuback"} : Packet(t, c) \in CallerAnswers
       /\ Packet("request", c) \in ServerAnswers
  /\ Unsubscribe \in ServerPackets /\ Unsuback \in ServerAnswers
  /\ [type |-> "subscribe"] \in ServerPackets /\ [type |-> "subscribe"].type = "subscribe"
BY DEF Packet, Unsubscribe, Unsuback, CallerPackets, CallerAnswers, ServerPackets, ServerAnswers

LEMMA AppendPacket ==
  ASSUME NEW S, NEW q \in Seq(S), NEW t, NEW c, Packet(t, c) \in S
  PROVE  LET a == Append(q, Packet(t, c)) IN
         /\ a \in Seq(S)
         /\ \A u, d : Contains(a, Packet(u, d)) <=> Contains(q, Packet(u, d)) \/ (u = t /\ d = c)
         /\ \A u, d : Once(q, Packet(u, d)) /\ (u = t /\ d = c => ~Contains(q, Packet(t, c)))
                        => Once(a, Packet(u, d))
         /\ \A r \in Reply : Contains(a, r) <=> Contains(q, r) \/ r = Packet(t, c)
<1> DEFINE a == Append(q, Packet(t, c))
<1>1. /\ a \in Seq(S)
      /\ \A x : Contains(a, x) <=> Contains(q, x) \/ x = Packet(t, c)
      /\ \A x : Once(q, x) /\ (x = Packet(t, c) => ~Contains(q, x)) => Once(a, x)
  BY AppendQueue
<1> HIDE DEF a
<1>2. \A u, d : Packet(u, d) = Packet(t, c) <=> u = t /\ d = c
  BY Packets
<1>3. \A u, d : Contains(a, Packet(u, d)) <=> Contains(q, Packet(u, d)) \/ (u = t /\ d = c)
  BY <1>1, <1>2
<1>4. \A u, d : Once(q, Packet(u, d)) /\ (u = t /\ d = c => ~Contains(q, Packet(t, c)))
                  => Once(a, Packet(u, d))
  BY <1>1, <1>2
<1> QED BY <1>1, <1>3, <1>4 DEF a

LEMMA CallerPacket ==
  ASSUME NEW p \in CallerPackets
  PROVE  /\ p.type \in {"subscribe", "unsubscribe", "request", "resubscribe"}
         /\ p.type # "resubscribe" => p.call \in Calls /\ p = Packet(p.type, p.call)
BY DEF CallerPackets, Packet

LEMMA Replies ==
  ASSUME NEW p \in Reply
  PROVE  p.type = "reply" /\ p.call \in Calls /\ p.outcome \in Outcomes
BY DEF Reply

LEMMA CallerAnswer ==
  ASSUME NEW p \in CallerAnswers
  PROVE  /\ p.type \in {"suback", "unsuback", "reply"} /\ p.call \in Calls
         /\ p.type # "reply" => p = Packet(p.type, p.call)
         /\ p.type = "reply" => p \in Reply
BY DEF CallerAnswers, Reply, Packet

LEMMA ServerPacket ==
  ASSUME NEW p \in ServerPackets
  PROVE  /\ p.type \in {"subscribe", "unsubscribe", "reply"}
         /\ p.type = "unsubscribe" => p = Unsubscribe
         /\ p.type = "reply" => p \in Reply
BY DEF ServerPackets, Reply, Unsubscribe

LEMMA ServerAnswer ==
  ASSUME NEW p \in ServerAnswers
  PROVE  /\ p.type \in {"request", "unsuback"}
         /\ p.type = "request" => p.call \in Calls /\ p = Packet("request", p.call)
         /\ p.type = "unsuback" => p = Unsuback
BY DEF ServerAnswers, Packet, Unsuback

LEMMA ReplyIsPacket == Reply \subseteq CallerAnswers /\ Reply \subseteq ServerPackets
BY DEF CallerAnswers, ServerPackets

-----------------------------------------------------------------------------
(* The invariant.                                                          *)

Typed ==
  /\ callerConn \in Conns /\ serverConn \in Conns
  /\ phase \in [Calls -> Phases] /\ result \in [Calls -> Results]
  /\ subscriptions \subseteq Calls
  /\ callerQueue \in Seq(Calls) /\ serverQueue \in Seq(Reply)
  /\ callerUp \in Seq(CallerPackets) /\ callerDown \in Seq(CallerAnswers)
  /\ serverUp \in Seq(ServerPackets) /\ serverDown \in Seq(ServerAnswers)
  /\ created \in Nat
  /\ executed \in [Calls -> Nat] /\ outcome \in [Calls -> Outcomes \cup {"none"}]

(* One Service listens, the one that has the address; the answer to an     *)
(* unserve is expected once, and only while the unserve awaits it.         *)
ServiceInv ==
  /\ service \in Nat /\ unserving \in {None, service}
  /\ listening = IF service = None THEN {} ELSE {service}
  /\ Once(serverUp, Unsubscribe) /\ Once(serverDown, Unsuback)
  /\ Contains(serverUp, Unsubscribe) => ~Contains(serverDown, Unsuback) /\ unserving # None
  /\ Contains(serverDown, Unsuback) => unserving # None

(* The request of a call exists once at most, held by the library, on its  *)
(* way to the broker or to the server, or executed.                        *)
RequestOk(c) ==
  /\ phase[c] \in {"idle", "subscribing", "publishing"} =>
       /\ ~Contains(callerUp, Packet("request", c))
       /\ ~Contains(serverDown, Packet("request", c))
       /\ executed[c] = 0
  /\ Contains(callerQueue, c) => phase[c] = "publishing"
  /\ Once(callerQueue, c)
  /\ Once(callerUp, Packet("request", c)) /\ Once(serverDown, Packet("request", c))
  /\ Contains(callerUp, Packet("request", c)) =>
       ~Contains(serverDown, Packet("request", c)) /\ executed[c] = 0
  /\ Contains(serverDown, Packet("request", c)) => executed[c] = 0
  /\ executed[c] <= 1

(* A subscription is acknowledged once, while the call awaits it.          *)
SubscribeOk(c) ==
  /\ Contains(callerUp, Packet("subscribe", c)) =>
       phase[c] = "subscribing" /\ ~Contains(callerDown, Packet("suback", c))
  /\ Contains(callerDown, Packet("suback", c)) => phase[c] = "subscribing"
  /\ Once(callerUp, Packet("subscribe", c)) /\ Once(callerDown, Packet("suback", c))
  /\ Contains(callerUp, Packet("unsubscribe", c)) => phase[c] \in {"unsubscribing", "done"}
  /\ Contains(callerDown, Packet("unsuback", c)) => phase[c] \in {"unsubscribing", "done"}
  /\ c \in subscriptions =>
       phase[c] \in {"subscribing", "publishing", "waiting"} \/ result[c] = "rejected"

(* A call is executed before it has an outcome, once, and its result is    *)
(* that outcome.                                                           *)
OutcomeOk(c) ==
  /\ executed[c] = 0 => outcome[c] = "none" /\ \A o : <<o, c>> \notin running
  /\ \A o, x : <<o, c>> \in running /\ <<x, c>> \in running => o = x
  /\ \A o : <<o, c>> \in running => outcome[c] = "none"
  /\ result[c] \in Outcomes => result[c] = outcome[c]

(* Every reply carries the outcome of its call.                            *)
ReplyOk(p) ==
  Contains(serverQueue, p) \/ Contains(serverUp, p) \/ Contains(callerDown, p) =>
    p.outcome = outcome[p.call]

CallsInv ==
  /\ Typed /\ ServiceInv
  /\ \A c \in Calls : RequestOk(c) /\ SubscribeOk(c) /\ OutcomeOk(c)
  /\ \A p \in Reply : ReplyOk(p)

LEMMA InitCalls == Init => CallsInv
<1> SUFFICES ASSUME Init PROVE CallsInv
  OBVIOUS
<1>1. Typed
  BY DEF Init, Typed, Conns, Phases, Results
<1>2. ServiceInv
  BY EmptyQueue DEF Init, ServiceInv, None
<1>3. ASSUME NEW c \in Calls PROVE RequestOk(c) /\ SubscribeOk(c) /\ OutcomeOk(c)
  BY EmptyQueue DEF Init, RequestOk, SubscribeOk, OutcomeOk, Outcomes
<1>4. ASSUME NEW p \in Reply PROVE ReplyOk(p)
  BY EmptyQueue DEF Init, ReplyOk
<1> QED BY <1>1, <1>2, <1>3, <1>4 DEF CallsInv

(* What is left of a queue once some of its elements are gone.             *)
Shrinks(q, left) == \A p : (Contains(left, p) => Contains(q, p)) /\ (Once(q, p) => Once(left, p))

LEMMA Shrinking ==
  /\ \A q : Shrinks(q, q) /\ Shrinks(q, <<>>)
  /\ \A S : \A q \in Seq(S) : q # <<>> => Shrinks(q, Tail(q))
BY EmptyQueue, TailQueue DEF Shrinks

-----------------------------------------------------------------------------
(* The steps of a call, over any step of what the broker sent it.          *)

LEMMA PublishHolds ==
  ASSUME Typed, \A d \in Calls : RequestOk(d), NEW c \in Calls, publishRequest(c),
         phase[c] \in {"idle", "subscribing"}, UNCHANGED <<serverDown, executed>>
  PROVE  /\ callerUp' \in Seq(CallerPackets) /\ callerQueue' \in Seq(Calls)
         /\ phase' \in [Calls -> Phases] /\ phase'[c] \in {"publishing", "waiting"}
         /\ \A d \in Calls : RequestOk(d)' /\ (d # c => phase'[d] = phase[d])
         /\ \A u, d : u # "request" =>
              /\ Contains(callerUp', Packet(u, d)) <=> Contains(callerUp, Packet(u, d))
              /\ Once(callerUp, Packet(u, d)) => Once(callerUp', Packet(u, d))
<1>1. CASE callerConn # "down"
  <2>1. /\ phase' = [phase EXCEPT ![c] = "waiting"] /\ UNCHANGED callerQueue
        /\ callerUp' = Append(callerUp, Packet("request", c))
    BY <1>1 DEF publishRequest
  <2>2. /\ callerUp' \in Seq(CallerPackets)
        /\ \A u, d : Contains(callerUp', Packet(u, d)) <=>
                       Contains(callerUp, Packet(u, d)) \/ (u = "request" /\ d = c)
        /\ \A u, d : Once(callerUp, Packet(u, d))
                       /\ (u = "request" /\ d = c => ~Contains(callerUp, Packet("request", c)))
                         => Once(callerUp', Packet(u, d))
    BY <2>1, Packets, AppendPacket DEF Typed
  <2>3. /\ phase' \in [Calls -> Phases] /\ phase'[c] = "waiting"
        /\ \A d \in Calls : d # c => phase'[d] = phase[d]
    BY <2>1 DEF Typed, Phases
  <2>4. ASSUME NEW d \in Calls PROVE RequestOk(d)'
    <3>1. RequestOk(d) /\ RequestOk(c) /\ phase'[d] = IF d = c THEN "waiting" ELSE phase[d]
      BY <2>3
    <3> QED BY <3>1, <2>1, <2>2 DEF RequestOk
  <2>5. callerQueue' \in Seq(Calls)
    BY <2>1 DEF Typed
  <2>6. ASSUME NEW u, NEW d, u # "request"
        PROVE  /\ Contains(callerUp', Packet(u, d)) <=> Contains(callerUp, Packet(u, d))
               /\ Once(callerUp, Packet(u, d)) => Once(callerUp', Packet(u, d))
    BY <2>2, <2>6
  <2> QED BY <2>2, <2>3, <2>4, <2>5, <2>6
<1>2. CASE callerConn = "down"
  <2>1. /\ phase' = [phase EXCEPT ![c] = "publishing"] /\ UNCHANGED callerUp
        /\ callerQueue' = Append(callerQueue, c)
    BY <1>2 DEF publishRequest
  <2>2. /\ callerQueue' \in Seq(Calls)
        /\ \A d : Contains(callerQueue', d) <=> Contains(callerQueue, d) \/ d = c
        /\ \A d : Once(callerQueue, d) /\ (d = c => ~Contains(callerQueue, d)) => Once(callerQueue', d)
    BY <2>1, AppendQueue DEF Typed
  <2>3. /\ phase' \in [Calls -> Phases] /\ phase'[c] = "publishing"
        /\ \A d \in Calls : d # c => phase'[d] = phase[d]
    BY <2>1 DEF Typed, Phases
  <2>4. ASSUME NEW d \in Calls PROVE RequestOk(d)'
    <3>1. RequestOk(d) /\ RequestOk(c) /\ phase'[d] = IF d = c THEN "publishing" ELSE phase[d]
      BY <2>3
    <3> QED BY <3>1, <2>1, <2>2 DEF RequestOk
  <2>5. callerUp' \in Seq(CallerPackets)
    BY <2>1 DEF Typed
  <2> QED BY <2>1, <2>2, <2>3, <2>4, <2>5
<1> QED BY <1>1, <1>2 DEF publishRequest

LEMMA EndHolds ==
  ASSUME CallsInv, NEW c \in Calls, NEW r \in Results, phase[c] = "waiting", end(c, r),
         Shrinks(callerDown, callerDown'), UNCHANGED <<callerQueue, serverDown, executed>>
  PROVE  /\ callerUp' \in Seq(CallerPackets) /\ phase' \in [Calls -> Phases]
         /\ result' \in [Calls -> Results] /\ subscriptions' \subseteq Calls
         /\ \A d \in Calls : RequestOk(d)' /\ SubscribeOk(d)'
         /\ \A d \in Calls : result'[d] = IF d = c THEN r ELSE result[d]
<1> DEFINE over == phase'[c]
<1>0. Typed /\ \A d \in Calls : RequestOk(d) /\ SubscribeOk(d)
  BY DEF CallsInv
<1>1. /\ phase' = [phase EXCEPT ![c] = "unsubscribing"] \/ phase' = [phase EXCEPT ![c] = "done"]
      /\ result' = [result EXCEPT ![c] = r] /\ subscriptions' = subscriptions \ {c}
      /\ UNCHANGED <<callerQueue, serverDown, executed>>
  BY DEF end
<1>2. /\ phase' \in [Calls -> Phases] /\ over \in {"unsubscribing", "done"}
      /\ \A d \in Calls : d # c => phase'[d] = phase[d]
      /\ result' \in [Calls -> Results]
      /\ \A d \in Calls : result'[d] = IF d = c THEN r ELSE result[d]
      /\ subscriptions' \subseteq Calls
  BY <1>0, <1>1 DEF Typed, Phases
<1>3. /\ callerUp' \in Seq(CallerPackets)
      /\ \A u, d : Contains(callerUp', Packet(u, d)) =>
                     Contains(callerUp, Packet(u, d)) \/ (u = "unsubscribe" /\ d = c)
      /\ \A u, d : u # "unsubscribe" /\ Once(callerUp, Packet(u, d)) => Once(callerUp', Packet(u, d))
  <2>1. CASE callerUp' = Append(callerUp, Packet("unsubscribe", c))
    BY <1>0, <2>1, Packets, AppendPacket DEF Typed
  <2>2. CASE UNCHANGED callerUp
    BY <1>0, <2>2 DEF Typed
  <2> QED BY <2>1, <2>2 DEF end
<1>4. \A u, d : /\ Contains(callerDown', Packet(u, d)) => Contains(callerDown, Packet(u, d))
                /\ Once(callerDown, Packet(u, d)) => Once(callerDown', Packet(u, d))
  BY DEF Shrinks
<1>5. ASSUME NEW d \in Calls PROVE RequestOk(d)' /\ SubscribeOk(d)'
  <2>1. /\ RequestOk(d) /\ SubscribeOk(d) /\ phase'[d] = IF d = c THEN over ELSE phase[d]
        /\ d = c => phase[d] = "waiting"
    BY <1>0, <1>2
  <2>2. RequestOk(d)'
    BY <2>1, <1>1, <1>2, <1>3 DEF RequestOk
  <2>3. SubscribeOk(d)'
    BY <2>1, <1>1, <1>2, <1>3, <1>4 DEF SubscribeOk
  <2> QED BY <2>2, <2>3
<1> QED BY <1>2, <1>3, <1>5

LEMMA CallHolds == ASSUME CallsInv, NEW c \in Calls, call(c) PROVE CallsInv'
<1> USE DEF CallsInv
<1>1. /\ Typed /\ ServiceInv /\ RequestOk(c) /\ SubscribeOk(c)
  OBVIOUS
<1>2. CASE callerConn = "online"
  <2>1. /\ phase' = [phase EXCEPT ![c] = "subscribing"]
        /\ callerUp' = Append(callerUp, Packet("subscribe", c))
        /\ subscriptions' = subscriptions \cup {c} /\ phase[c] = "idle"
        /\ UNCHANGED <<callerQueue, callerDown, serverDown, executed, result>>
    BY <1>2 DEF call, serverVars
  <2>2. /\ callerUp' \in Seq(CallerPackets)
        /\ \A u, d : Contains(callerUp', Packet(u, d)) <=>
                       Contains(callerUp, Packet(u, d)) \/ (u = "subscribe" /\ d = c)
        /\ \A u, d : Once(callerUp, Packet(u, d))
                       /\ (u = "subscribe" /\ d = c => ~Contains(callerUp, Packet("subscribe", c)))
                         => Once(callerUp', Packet(u, d))
    BY <1>1, <2>1, Packets, AppendPacket DEF Typed
  <2>3. Typed'
    BY <1>1, <2>1, <2>2 DEF Typed, call, Phases, serverVars
  <2>4. ServiceInv'
    BY <1>1 DEF ServiceInv, call, serverVars
  <2>5. ASSUME NEW d \in Calls PROVE RequestOk(d)' /\ SubscribeOk(d)'
    <3>1. RequestOk(d) /\ SubscribeOk(d) /\ phase \in [Calls -> Phases]
      BY <1>1 DEF Typed
    <3>2. phase'[d] = IF d = c THEN "subscribing" ELSE phase[d]
      BY <2>1, <3>1
    <3>3. RequestOk(d)'
      BY <3>1, <3>2, <2>1, <2>2 DEF RequestOk
    <3>4. SubscribeOk(d)'
      BY <3>1, <3>2, <2>1, <2>2 DEF SubscribeOk
    <3> QED BY <3>3, <3>4
  <2>7. ASSUME NEW d \in Calls PROVE OutcomeOk(d)'
    BY DEF OutcomeOk, call, serverVars
  <2>8. ASSUME NEW q \in Reply PROVE ReplyOk(q)'
    BY DEF ReplyOk, call, serverVars
  <2> QED BY <2>3, <2>4, <2>5, <2>7, <2>8
<1>3. CASE callerConn # "online"
  <2>1. /\ publishRequest(c) /\ phase[c] = "idle" /\ subscriptions' = subscriptions \cup {c}
        /\ UNCHANGED <<callerDown, serverDown, executed, result>>
    BY <1>3 DEF call, serverVars
  <2>2. /\ callerUp' \in Seq(CallerPackets) /\ callerQueue' \in Seq(Calls)
        /\ phase' \in [Calls -> Phases] /\ phase'[c] \in {"publishing", "waiting"}
        /\ \A d \in Calls : RequestOk(d)' /\ (d # c => phase'[d] = phase[d])
        /\ \A u, d : u # "request" =>
             /\ Contains(callerUp', Packet(u, d)) <=> Contains(callerUp, Packet(u, d))
             /\ Once(callerUp, Packet(u, d)) => Once(callerUp', Packet(u, d))
    BY <1>1, <2>1, PublishHolds
  <2>3. Typed'
    BY <1>1, <2>1, <2>2 DEF Typed, call, serverVars
  <2>4. ServiceInv'
    BY <1>1 DEF ServiceInv, call, serverVars
  <2>5. ASSUME NEW d \in Calls PROVE SubscribeOk(d)'
    <3>1. SubscribeOk(d) /\ (d # c => phase'[d] = phase[d]) /\ (d = c => phase[d] = "idle")
      BY <2>1, <2>2
    <3> QED BY <3>1, <2>1, <2>2 DEF SubscribeOk
  <2>7. ASSUME NEW d \in Calls PROVE OutcomeOk(d)'
    BY DEF OutcomeOk, call, serverVars
  <2>8. ASSUME NEW q \in Reply PROVE ReplyOk(q)'
    BY DEF ReplyOk, call, serverVars
  <2> QED BY <2>2, <2>3, <2>4, <2>5, <2>7, <2>8
<1> QED BY <1>2, <1>3

LEMMA TimeoutHolds == ASSUME CallsInv, NEW c \in Calls, Timeout(c) PROVE CallsInv'
<1>0. Typed /\ ServiceInv /\ \A d \in Calls : OutcomeOk(d)
  BY DEF CallsInv
<1>1. /\ phase[c] = "waiting" /\ end(c, "timeout") /\ "timeout" \in Results
      /\ UNCHANGED <<callerQueue, serverDown, executed>> /\ Shrinks(callerDown, callerDown')
  BY Shrinking DEF Timeout, serverVars, Results
<1>2. /\ callerUp' \in Seq(CallerPackets) /\ phase' \in [Calls -> Phases]
      /\ result' \in [Calls -> Results] /\ subscriptions' \subseteq Calls
      /\ \A d \in Calls : RequestOk(d)' /\ SubscribeOk(d)'
      /\ \A d \in Calls : result'[d] = IF d = c THEN "timeout" ELSE result[d]
  BY <1>1, EndHolds
<1>3. Typed'
  BY <1>0, <1>2 DEF Timeout, Typed, serverVars
<1>4. ServiceInv'
  BY <1>0 DEF Timeout, ServiceInv, serverVars
<1>5. ASSUME NEW d \in Calls PROVE OutcomeOk(d)'
  <2>1. OutcomeOk(d) /\ (result'[d] = "timeout" \/ result'[d] = result[d])
    BY <1>0, <1>2
  <2> QED BY <2>1 DEF Timeout, OutcomeOk, serverVars, Outcomes
<1>6. ASSUME NEW q \in Reply PROVE ReplyOk(q)'
  BY DEF CallsInv, Timeout, ReplyOk, serverVars
<1> QED BY <1>2, <1>3, <1>4, <1>5, <1>6 DEF CallsInv

LEMMA CallerReceiveHolds == ASSUME CallsInv, CallerReceive PROVE CallsInv'
<1> DEFINE p == Head(callerDown)
<1>0. /\ Typed /\ ServiceInv /\ \A q \in Reply : ReplyOk(q)
      /\ \A d \in Calls : RequestOk(d) /\ SubscribeOk(d) /\ OutcomeOk(d)
  BY DEF CallsInv
<1>1. /\ callerDown # <<>> /\ callerDown' = Tail(callerDown)
      /\ UNCHANGED <<callerConn, serverConn, serverVars, serverUp, serverDown>>
  BY DEF CallerReceive
<1>2. /\ p \in CallerAnswers /\ callerDown' \in Seq(CallerAnswers)
      /\ \A x : Contains(callerDown, x) <=> p = x \/ Contains(callerDown', x)
      /\ \A x : Once(callerDown, x) => Once(callerDown', x) /\ (p = x => ~Contains(callerDown', x))
      /\ Shrinks(callerDown, callerDown')
  BY <1>0, <1>1, TailQueue, Shrinking DEF Typed
<1>3. /\ p.type \in {"suback", "unsuback", "reply"} /\ p.call \in Calls
      /\ p.type # "reply" => p = Packet(p.type, p.call)
      /\ p.type = "reply" => p \in Reply
  BY <1>2, CallerAnswer
<1> HIDE DEF p
<1>4. ServiceInv'
  BY <1>0, <1>1 DEF ServiceInv, serverVars
<1>5. ASSUME NEW q \in Reply PROVE ReplyOk(q)'
  BY <1>0, <1>1, <1>2 DEF ReplyOk, serverVars
<1>6. CASE p.type = "reply" /\ phase[p.call] = "waiting"
  <2>1. /\ end(p.call, p.outcome) /\ p.outcome \in Results
        /\ UNCHANGED <<callerQueue, serverDown, executed>>
    BY <1>1, <1>3, <1>6, Replies DEF p, CallerReceive, messageCb, serverVars, Results
  <2>2. /\ callerUp' \in Seq(CallerPackets) /\ phase' \in [Calls -> Phases]
        /\ result' \in [Calls -> Results] /\ subscriptions' \subseteq Calls
        /\ \A d \in Calls : RequestOk(d)' /\ SubscribeOk(d)'
        /\ \A d \in Calls : result'[d] = IF d = p.call THEN p.outcome ELSE result[d]
    BY <1>2, <1>3, <1>6, <2>1, EndHolds
  <2>3. Typed'
    BY <1>0, <1>1, <1>2, <2>1, <2>2 DEF Typed, serverVars
  <2>4. p.outcome = outcome[p.call]
    BY <1>0, <1>2, <1>3, <1>6 DEF ReplyOk
  <2>5. ASSUME NEW d \in Calls PROVE OutcomeOk(d)'
    BY <1>0, <1>1, <2>2, <2>4 DEF OutcomeOk, serverVars
  <2> QED BY <1>4, <1>5, <2>2, <2>3, <2>5 DEF CallsInv
<1>7. CASE p.type = "reply" /\ phase[p.call] # "waiting"
  <2>1. UNCHANGED <<phase, result, subscriptions, callerUp, callerQueue>>
    BY <1>7 DEF p, CallerReceive, messageCb
  <2>2. Typed'
    BY <1>0, <1>1, <1>2, <2>1 DEF Typed, serverVars
  <2>3. ASSUME NEW d \in Calls PROVE RequestOk(d)' /\ SubscribeOk(d)' /\ OutcomeOk(d)'
    <3>1. RequestOk(d)'
      BY <1>0, <1>1, <2>1 DEF RequestOk, serverVars
    <3>2. SubscribeOk(d)'
      BY <1>0, <1>2, <2>1 DEF SubscribeOk
    <3>3. OutcomeOk(d)'
      BY <1>0, <1>1, <2>1 DEF OutcomeOk, serverVars
    <3> QED BY <3>1, <3>2, <3>3
  <2> QED BY <1>4, <1>5, <2>2, <2>3 DEF CallsInv
<1>8. CASE p.type = "suback"
  <2> DEFINE c == p.call
  <2>1. publishRequest(c) /\ UNCHANGED <<result, subscriptions, serverDown, executed>>
    BY <1>1, <1>8 DEF p, CallerReceive, serverVars
  <2>2. p = Packet("suback", c) /\ Contains(callerDown, p) /\ c \in Calls
    BY <1>2, <1>3, <1>8
  <2> HIDE DEF c
  <2>3. phase[c] = "subscribing" /\ ~Contains(callerUp, Packet("subscribe", c))
    BY <1>0, <2>2 DEF SubscribeOk
  <2>4. /\ callerUp' \in Seq(CallerPackets) /\ callerQueue' \in Seq(Calls)
        /\ phase' \in [Calls -> Phases] /\ phase'[c] \in {"publishing", "waiting"}
        /\ \A d \in Calls : RequestOk(d)' /\ (d # c => phase'[d] = phase[d])
        /\ \A u, d : u # "request" =>
             /\ Contains(callerUp', Packet(u, d)) <=> Contains(callerUp, Packet(u, d))
             /\ Once(callerUp, Packet(u, d)) => Once(callerUp', Packet(u, d))
    BY <1>0, <2>1, <2>2, <2>3, PublishHolds
  <2>5. Typed'
    BY <1>0, <1>1, <1>2, <2>1, <2>4 DEF Typed, serverVars
  <2>6. ASSUME NEW d \in Calls PROVE SubscribeOk(d)'
    <3>1. /\ SubscribeOk(d) /\ (d # c => phase'[d] = phase[d])
          /\ d = c => phase[d] = "subscribing" /\ ~Contains(callerUp, Packet("subscribe", d))
                        /\ ~Contains(callerDown', Packet("suback", d))
      BY <1>0, <1>2, <2>2, <2>3, <2>4 DEF SubscribeOk
    <3>2. \A u : /\ Contains(callerDown', Packet(u, d)) => Contains(callerDown, Packet(u, d))
                 /\ Once(callerDown, Packet(u, d)) => Once(callerDown', Packet(u, d))
      BY <1>2
    <3> QED BY <3>1, <3>2, <2>1, <2>4 DEF SubscribeOk
  <2>7. ASSUME NEW d \in Calls PROVE OutcomeOk(d)'
    BY <1>0, <1>1, <2>1 DEF OutcomeOk, serverVars
  <2> QED BY <1>4, <1>5, <2>4, <2>5, <2>6, <2>7 DEF CallsInv
<1>9. CASE p.type = "unsuback"
  <2> DEFINE c == p.call
  <2>1. /\ phase' = [phase EXCEPT ![c] = "done"]
        /\ UNCHANGED <<result, subscriptions, callerQueue, callerUp>>
    BY <1>9 DEF p, CallerReceive
  <2>2. p = Packet("unsuback", c) /\ Contains(callerDown, p) /\ c \in Calls
    BY <1>2, <1>3, <1>9
  <2> HIDE DEF c
  <2>3. phase[c] \in {"unsubscribing", "done"}
    BY <1>0, <2>2 DEF SubscribeOk
  <2>4. /\ phase' \in [Calls -> Phases]
        /\ \A d \in Calls : phase'[d] = IF d = c THEN "done" ELSE phase[d]
    BY <1>0, <2>1, <2>2 DEF Typed, Phases
  <2>5. Typed'
    BY <1>0, <1>1, <1>2, <2>1, <2>4 DEF Typed, serverVars
  <2>6. ASSUME NEW d \in Calls PROVE RequestOk(d)' /\ SubscribeOk(d)' /\ OutcomeOk(d)'
    <3>1. RequestOk(d)'
      <4>1. /\ RequestOk(d) /\ phase'[d] = IF d = c THEN "done" ELSE phase[d]
            /\ d = c => phase[d] \in {"unsubscribing", "done"}
            /\ UNCHANGED <<callerQueue, callerUp, serverDown, executed>>
        BY <1>0, <1>1, <2>1, <2>3, <2>4 DEF serverVars
      <4> QED BY <4>1 DEF RequestOk
    <3>2. \A u : /\ Contains(callerDown', Packet(u, d)) => Contains(callerDown, Packet(u, d))
                 /\ Once(callerDown, Packet(u, d)) => Once(callerDown', Packet(u, d))
      BY <1>2
    <3>3. SubscribeOk(d)'
      BY <1>0, <3>2, <2>1, <2>3, <2>4 DEF SubscribeOk
    <3>4. OutcomeOk(d)'
      BY <1>0, <1>1, <2>1 DEF OutcomeOk, serverVars
    <3> QED BY <3>1, <3>3, <3>4
  <2> QED BY <1>4, <1>5, <2>5, <2>6 DEF CallsInv
<1> QED BY <1>3, <1>6, <1>7, <1>8, <1>9

-----------------------------------------------------------------------------
(* The steps of the server.                                                *)

LEMMA CallerToBrokerHolds == ASSUME CallsInv, CallerToBroker PROVE CallsInv'
<1> DEFINE p == Head(callerUp)
           c == p.call
<1>0. /\ Typed /\ ServiceInv /\ \A q \in Reply : ReplyOk(q)
      /\ \A d \in Calls : RequestOk(d) /\ SubscribeOk(d) /\ OutcomeOk(d)
  BY DEF CallsInv
<1>1. /\ callerUp # <<>> /\ callerUp' = Tail(callerUp)
      /\ UNCHANGED <<callerConn, serverConn, callVars, serverVars, serverUp>>
  BY DEF CallerToBroker
<1>2. /\ p \in CallerPackets /\ callerUp' \in Seq(CallerPackets)
      /\ \A x : Contains(callerUp, x) <=> p = x \/ Contains(callerUp', x)
      /\ \A x : Once(callerUp, x) => Once(callerUp', x) /\ (p = x => ~Contains(callerUp', x))
  BY <1>0, <1>1, TailQueue DEF Typed
<1>3. /\ p.type \in {"subscribe", "unsubscribe", "request", "resubscribe"}
      /\ p.type # "resubscribe" => c \in Calls /\ p = Packet(p.type, c)
  BY <1>2, CallerPacket
<1>4. /\ p.type = "subscribe" => callerDown' = Append(callerDown, Packet("suback", c))
      /\ p.type = "unsubscribe" => callerDown' = Append(callerDown, Packet("unsuback", c))
      /\ p.type \in {"request", "resubscribe"} => callerDown' = callerDown
      /\ p.type = "request" => serverDown' = Append(serverDown, p) \/ serverDown' = serverDown
      /\ p.type # "request" => serverDown' = serverDown
  BY DEF CallerToBroker
<1> HIDE DEF p, c
<1>5. /\ \A x : /\ Contains(callerUp', x) => Contains(callerUp, x)
                /\ Once(callerUp, x) => Once(callerUp', x)
  BY <1>2
<1>6. CASE p.type = "request"
  <2>1. /\ Packet("request", c) \in ServerAnswers /\ c \in Calls /\ p = Packet("request", c)
        /\ Unsuback # p
    BY <1>3, <1>6, Packets
  <2>2. /\ ~Contains(callerUp', p) /\ ~Contains(serverDown, p) /\ executed[c] = 0
        /\ phase[c] \notin {"idle", "subscribing", "publishing"}
    BY <1>0, <1>2, <2>1 DEF RequestOk
  <2>3. /\ serverDown' \in Seq(ServerAnswers)
        /\ \A x : Contains(serverDown', x) => Contains(serverDown, x) \/ x = p
        /\ \A x : Once(serverDown, x) => Once(serverDown', x)
    <3>1. CASE serverDown' = Append(serverDown, p)
      BY <1>0, <2>1, <2>2, <3>1, AppendQueue DEF Typed
    <3>2. CASE serverDown' = serverDown
      BY <1>0, <3>2 DEF Typed
    <3> QED BY <1>4, <1>6, <3>1, <3>2
  <2>4. Typed'
    BY <1>0, <1>1, <1>2, <1>4, <1>6, <2>3 DEF Typed, callVars, serverVars
  <2>5. ServiceInv'
    BY <1>0, <1>1, <2>1, <2>3 DEF ServiceInv, serverVars
  <2>6. ASSUME NEW d \in Calls PROVE RequestOk(d)'
    <3>1. /\ RequestOk(d) /\ UNCHANGED <<phase, callerQueue, executed>>
      BY <1>0, <1>1 DEF callVars, serverVars
    <3>2. Packet("request", d) = p => d = c
      BY <2>1, Packets
    <3> QED BY <1>5, <2>1, <2>2, <2>3, <3>1, <3>2 DEF RequestOk
  <2>7. ASSUME NEW d \in Calls PROVE SubscribeOk(d)'
    BY <1>0, <1>1, <1>4, <1>5, <1>6 DEF SubscribeOk, callVars
  <2>8. ASSUME NEW d \in Calls PROVE OutcomeOk(d)'
    BY <1>0, <1>1 DEF OutcomeOk, callVars, serverVars
  <2>9. ASSUME NEW q \in Reply PROVE ReplyOk(q)'
    BY <1>0, <1>1, <1>4, <1>6 DEF ReplyOk, serverVars
  <2> QED BY <2>4, <2>5, <2>6, <2>7, <2>8, <2>9 DEF CallsInv
<1>7. CASE p.type # "request"
  <2>1. UNCHANGED <<serverDown, phase, callerQueue, executed, result, subscriptions>>
    BY <1>1, <1>4, <1>7 DEF callVars, serverVars
  <2>2. ServiceInv'
    BY <1>0, <1>1, <2>1 DEF ServiceInv, serverVars
  <2>3. ASSUME NEW d \in Calls PROVE RequestOk(d)' /\ OutcomeOk(d)'
    <3>1. RequestOk(d)'
      BY <1>0, <1>5, <2>1 DEF RequestOk
    <3>2. OutcomeOk(d)'
      BY <1>0, <1>1 DEF OutcomeOk, callVars, serverVars
    <3> QED BY <3>1, <3>2
  <2>4. CASE p.type = "resubscribe"
    <3>1. Typed'
      BY <1>0, <1>1, <1>2, <1>4, <2>4 DEF Typed, callVars, serverVars
    <3>2. ASSUME NEW d \in Calls PROVE SubscribeOk(d)'
      BY <1>0, <1>4, <1>5, <2>1, <2>4 DEF SubscribeOk
    <3>3. ASSUME NEW q \in Reply PROVE ReplyOk(q)'
      BY <1>0, <1>1, <1>4, <2>4 DEF ReplyOk, serverVars
    <3> QED BY <2>2, <2>3, <3>1, <3>2, <3>3 DEF CallsInv
  <2>5. ASSUME NEW t \in {"suback", "unsuback"}, c \in Calls, callerDown' = Append(callerDown, Packet(t, c))
        PROVE  /\ Typed'
               /\ \A q \in Reply : ReplyOk(q)'
               /\ \A u, d : Contains(callerDown', Packet(u, d)) <=>
                              Contains(callerDown, Packet(u, d)) \/ (u = t /\ d = c)
               /\ \A u, d : Once(callerDown, Packet(u, d))
                              /\ (u = t /\ d = c => ~Contains(callerDown, Packet(t, c)))
                                => Once(callerDown', Packet(u, d))
    <3>1. Packet(t, c) \in CallerAnswers /\ \A q \in Reply : q # Packet(t, c)
      BY <2>5, Packets, Replies
    <3>2. /\ callerDown' \in Seq(CallerAnswers)
          /\ \A q \in Reply : Contains(callerDown', q) => Contains(callerDown, q)
      BY <1>0, <2>5, <3>1, AppendPacket DEF Typed
    <3>3. Typed'
      BY <1>0, <1>1, <1>2, <2>1, <3>2 DEF Typed, callVars, serverVars
    <3>4. ASSUME NEW q \in Reply PROVE ReplyOk(q)'
      BY <1>0, <1>1, <3>2 DEF ReplyOk, serverVars
    <3>5. /\ \A u, d : Contains(callerDown', Packet(u, d)) <=>
                         Contains(callerDown, Packet(u, d)) \/ (u = t /\ d = c)
          /\ \A u, d : Once(callerDown, Packet(u, d))
                         /\ (u = t /\ d = c => ~Contains(callerDown, Packet(t, c)))
                           => Once(callerDown', Packet(u, d))
      BY <1>0, <2>5, <3>1, AppendPacket DEF Typed
    <3> QED BY <3>3, <3>4, <3>5
  <2>6. CASE p.type = "subscribe"
    <3>1. c \in Calls /\ p = Packet("subscribe", c) /\ callerDown' = Append(callerDown, Packet("suback", c))
      BY <1>3, <1>4, <2>6
    <3>2. /\ Typed' /\ \A q \in Reply : ReplyOk(q)'
          /\ \A u, d : Contains(callerDown', Packet(u, d)) <=>
                         Contains(callerDown, Packet(u, d)) \/ (u = "suback" /\ d = c)
          /\ \A u, d : Once(callerDown, Packet(u, d))
                         /\ (u = "suback" /\ d = c => ~Contains(callerDown, Packet("suback", c)))
                           => Once(callerDown', Packet(u, d))
      BY <2>5, <3>1
    <3>3. /\ phase[c] = "subscribing" /\ ~Contains(callerDown, Packet("suback", c))
          /\ ~Contains(callerUp', Packet("subscribe", c))
      BY <1>0, <1>2, <3>1 DEF SubscribeOk
    <3>4. ASSUME NEW d \in Calls PROVE SubscribeOk(d)'
      BY <1>0, <1>5, <2>1, <3>2, <3>3 DEF SubscribeOk
    <3> QED BY <2>2, <2>3, <3>2, <3>4 DEF CallsInv
  <2>7. CASE p.type = "unsubscribe"
    <3>1. /\ c \in Calls /\ p = Packet("unsubscribe", c)
          /\ callerDown' = Append(callerDown, Packet("unsuback", c))
      BY <1>3, <1>4, <2>7
    <3>2. /\ Typed' /\ \A q \in Reply : ReplyOk(q)'
          /\ \A u, d : Contains(callerDown', Packet(u, d)) <=>
                         Contains(callerDown, Packet(u, d)) \/ (u = "unsuback" /\ d = c)
          /\ \A u, d : u # "unsuback" /\ Once(callerDown, Packet(u, d)) => Once(callerDown', Packet(u, d))
      BY <2>5, <3>1
    <3>3. phase[c] \in {"unsubscribing", "done"}
      BY <1>0, <1>2, <3>1 DEF SubscribeOk
    <3>4. ASSUME NEW d \in Calls PROVE SubscribeOk(d)'
      BY <1>0, <1>5, <2>1, <3>2, <3>3 DEF SubscribeOk
    <3> QED BY <2>2, <2>3, <3>2, <3>4 DEF CallsInv
  <2> QED BY <1>3, <1>7, <2>4, <2>6, <2>7
<1> QED BY <1>6, <1>7

LEMMA CallerDropHolds == ASSUME CallsInv, CallerDrop PROVE CallsInv'
<1>0. /\ Typed /\ ServiceInv /\ \A q \in Reply : ReplyOk(q)
      /\ \A d \in Calls : RequestOk(d) /\ SubscribeOk(d) /\ OutcomeOk(d)
  BY DEF CallsInv
<1>1. /\ callerConn' = "down" /\ callerUp' = <<>> /\ callerDown' = <<>>
      /\ phase'  = [c \in Calls |-> IF Interrupted(c) THEN "done" ELSE phase[c]]
      /\ result' = [c \in Calls |-> IF Interrupted(c) THEN "rejected" ELSE result[c]]
      /\ UNCHANGED <<serverConn, subscriptions, callerQueue, serverVars, serverUp, serverDown>>
  BY DEF CallerDrop
<1>2. \A x : /\ ~Contains(callerUp', x) /\ Once(callerUp', x)
             /\ ~Contains(callerDown', x) /\ Once(callerDown', x)
  BY <1>1, EmptyQueue
<1>3. Typed'
  BY <1>0, <1>1 DEF Typed, serverVars, Conns, Phases, Results
<1>4. ServiceInv'
  BY <1>0, <1>1 DEF ServiceInv, serverVars
<1>5. ASSUME NEW d \in Calls PROVE RequestOk(d)' /\ SubscribeOk(d)' /\ OutcomeOk(d)'
  <2>1. /\ RequestOk(d) /\ SubscribeOk(d) /\ OutcomeOk(d)
        /\ UNCHANGED <<callerQueue, serverDown, executed, subscriptions, running, outcome>>
    BY <1>0, <1>1 DEF serverVars
  <2>2. \/ phase[d] \in {"subscribing", "unsubscribing"} /\ phase'[d] = "done" /\ result'[d] = "rejected"
        \/ /\ phase[d] \notin {"subscribing", "unsubscribing"}
           /\ phase'[d] = phase[d] /\ result'[d] = result[d]
    BY <1>1 DEF Interrupted
  <2>3. RequestOk(d)'
    BY <1>2, <2>1, <2>2 DEF RequestOk
  <2>4. SubscribeOk(d)'
    BY <1>2, <2>1, <2>2 DEF SubscribeOk
  <2>5. OutcomeOk(d)'
    BY <2>1, <2>2 DEF OutcomeOk, Outcomes
  <2> QED BY <2>3, <2>4, <2>5
<1>6. ASSUME NEW q \in Reply PROVE ReplyOk(q)'
  BY <1>0, <1>1, <1>2 DEF ReplyOk, serverVars
<1> QED BY <1>3, <1>4, <1>5, <1>6 DEF CallsInv

(* What the library sends on a connection: the requests it held.           *)
LEMMA SentRequests ==
  ASSUME NEW q \in Seq(Calls)
  PROVE  LET sent == [k \in DOMAIN q |-> Packet("request", q[k])] IN
         /\ sent \in Seq(CallerPackets)
         /\ \A u, d : Contains(sent, Packet(u, d)) <=> u = "request" /\ Contains(q, d)
         /\ \A d : Once(q, d) => Once(sent, Packet("request", d))
         /\ \A u, d : u # "request" => Once(sent, Packet(u, d))
<1> DEFINE sent == [k \in DOMAIN q |-> Packet("request", q[k])]
<1>1. Len(q) \in Nat /\ DOMAIN q = 1..Len(q) /\ \A k \in 1..Len(q) : q[k] \in Calls
  OBVIOUS
<1>2. \A k \in 1..Len(q) : Packet("request", q[k]) \in CallerPackets
  BY <1>1, Packets
<1>3. sent \in [1..Len(q) -> CallerPackets]
  BY <1>1, <1>2
<1>4. sent \in Seq(CallerPackets) /\ Len(sent) = Len(q)
  BY <1>1, <1>3
<1>5. \A k \in 1..Len(q) : sent[k] = Packet("request", q[k])
  BY <1>1
<1> HIDE DEF sent
<1>6. \A u, d : \A k \in 1..Len(q) : sent[k] = Packet(u, d) <=> u = "request" /\ q[k] = d
  BY <1>5, Packets
<1>7. \A u, d : Contains(sent, Packet(u, d)) <=> u = "request" /\ Contains(q, d)
  BY <1>4, <1>6 DEF Contains
<1>8. \A d : Once(q, d) => Once(sent, Packet("request", d))
  BY <1>4, <1>6 DEF Once
<1>9. \A u, d : u # "request" => Once(sent, Packet(u, d))
  BY <1>4, <1>6 DEF Once
<1> QED BY <1>4, <1>7, <1>8, <1>9 DEF sent

LEMMA CallerConnectHolds == ASSUME CallsInv, CallerConnect PROVE CallsInv'
<1>0. /\ Typed /\ ServiceInv /\ \A q \in Reply : ReplyOk(q)
      /\ \A d \in Calls : RequestOk(d) /\ SubscribeOk(d) /\ OutcomeOk(d)
  BY DEF CallsInv
<1>1. /\ callerConn' = "connected" /\ callerQueue' = <<>>
      /\ callerUp' = [k \in DOMAIN callerQueue |-> Packet("request", callerQueue[k])]
      /\ phase' = [c \in Calls |-> IF phase[c] = "publishing" THEN "waiting" ELSE phase[c]]
      /\ UNCHANGED <<serverConn, result, subscriptions, serverVars, callerDown, serverUp, serverDown>>
  BY DEF CallerConnect
<1>2. /\ callerUp' \in Seq(CallerPackets)
      /\ \A u, d : Contains(callerUp', Packet(u, d)) <=> u = "request" /\ Contains(callerQueue, d)
      /\ \A d : Once(callerQueue, d) => Once(callerUp', Packet("request", d))
      /\ \A u, d : u # "request" => Once(callerUp', Packet(u, d))
  BY <1>0, <1>1, SentRequests DEF Typed
<1>3. \A x : ~Contains(callerQueue', x) /\ Once(callerQueue', x)
  BY <1>1, EmptyQueue
<1>4. Typed'
  BY <1>0, <1>1, <1>2 DEF Typed, serverVars, Conns, Phases
<1>5. ServiceInv'
  BY <1>0, <1>1 DEF ServiceInv, serverVars
<1>6. ASSUME NEW d \in Calls PROVE RequestOk(d)' /\ SubscribeOk(d)' /\ OutcomeOk(d)'
  <2>1. /\ RequestOk(d) /\ SubscribeOk(d) /\ OutcomeOk(d)
        /\ UNCHANGED <<callerDown, serverDown, executed, subscriptions, running, outcome, result>>
        /\ phase'[d] = IF phase[d] = "publishing" THEN "waiting" ELSE phase[d]
    BY <1>0, <1>1 DEF serverVars
  <2>2. RequestOk(d)'
    BY <1>2, <1>3, <2>1 DEF RequestOk
  <2>3. SubscribeOk(d)'
    BY <1>2, <2>1 DEF SubscribeOk
  <2>4. OutcomeOk(d)'
    BY <2>1 DEF OutcomeOk
  <2> QED BY <2>2, <2>3, <2>4
<1>7. ASSUME NEW q \in Reply PROVE ReplyOk(q)'
  BY <1>0, <1>1 DEF ReplyOk, serverVars
<1> QED BY <1>4, <1>5, <1>6, <1>7 DEF CallsInv

LEMMA CallerOnlineHolds == ASSUME CallsInv, CallerOnline PROVE CallsInv'
<1> DEFINE p == [type |-> "resubscribe", calls |-> subscriptions]
<1>0. /\ Typed /\ ServiceInv /\ \A q \in Reply : ReplyOk(q)
      /\ \A d \in Calls : RequestOk(d) /\ SubscribeOk(d) /\ OutcomeOk(d)
  BY DEF CallsInv
<1>1. /\ callerConn' = "online" /\ (callerUp' = Append(callerUp, p) \/ callerUp' = callerUp)
      /\ UNCHANGED <<serverConn, callVars, serverVars, callerDown, serverUp, serverDown>>
  BY DEF CallerOnline
<1>2. p \in CallerPackets /\ p.type = "resubscribe"
  BY <1>0 DEF CallerPackets, Typed
<1> HIDE DEF p
<1>3. \A t \in {"request", "subscribe", "unsubscribe"} : \A d : Packet(t, d) # p
  BY <1>2, Packets
<1>4. /\ callerUp' \in Seq(CallerPackets)
      /\ \A x : x # p => /\ Contains(callerUp', x) <=> Contains(callerUp, x)
                         /\ Once(callerUp, x) => Once(callerUp', x)
  <2>1. CASE callerUp' = Append(callerUp, p)
    BY <1>0, <1>2, <2>1, AppendQueue DEF Typed
  <2>2. CASE callerUp' = callerUp
    BY <1>0, <2>2 DEF Typed
  <2> QED BY <1>1, <2>1, <2>2
<1>5. Typed'
  BY <1>0, <1>1, <1>4 DEF Typed, callVars, serverVars, Conns
<1>6. ServiceInv'
  BY <1>0, <1>1 DEF ServiceInv, serverVars
<1>7. ASSUME NEW d \in Calls PROVE RequestOk(d)' /\ SubscribeOk(d)' /\ OutcomeOk(d)'
  <2>1. \A t \in {"request", "subscribe", "unsubscribe"} :
          /\ Contains(callerUp', Packet(t, d)) <=> Contains(callerUp, Packet(t, d))
          /\ Once(callerUp, Packet(t, d)) => Once(callerUp', Packet(t, d))
    BY <1>3, <1>4
  <2>2. RequestOk(d)'
    BY <1>0, <1>1, <2>1 DEF RequestOk, callVars, serverVars
  <2>3. SubscribeOk(d)'
    BY <1>0, <1>1, <2>1 DEF SubscribeOk, callVars, serverVars
  <2>4. OutcomeOk(d)'
    BY <1>0, <1>1 DEF OutcomeOk, callVars, serverVars
  <2> QED BY <2>2, <2>3, <2>4
<1>8. ASSUME NEW q \in Reply PROVE ReplyOk(q)'
  BY <1>0, <1>1 DEF ReplyOk, serverVars
<1> QED BY <1>5, <1>6, <1>7, <1>8 DEF CallsInv
=============================================================================
