---------------------------- MODULE RemoteMirror ----------------------------
(***************************************************************************)
(* How an instance mirrors the components of another one in its registry:  *)
(* mylife-home-common/src/components/bus-publisher.ts over bus/presence.ts *)
(* and bus/metadata.ts.                                                    *)
(*                                                                         *)
(* A presence message creates a BusInstance, which awaits a metadata view  *)
(* (a subscription), then listens to it and reads what it holds already.   *)
(* The presence may go, come back, or the observer may lose its own        *)
(* connection before the view is there.  A handler that throws on a        *)
(* message kills the observer; in an async function it is only logged.     *)
(*                                                                         *)
(* One remote instance, with one plugin and the components of that plugin, *)
(* is modelled; BusInstances are numbered in order of creation.            *)
(***************************************************************************)
EXTENDS Naturals, Sequences, SequencesExt, FiniteSets

CONSTANTS
  Plugin,        \* the metadata path of the plugin
  Components,    \* the metadata paths of the components
  MaxViews,      \* bound: BusInstances
  MaxEvents,     \* bound: what the remote instance does
  MaxDrops       \* bound: disconnections of the observer

Paths == Components \cup {Plugin}
Views == 1..MaxViews
None  == 0

VARIABLES
  presence, retained,   \* the broker: presence flag and metadata of the remote instance
  alive,                \* the observer runs
  online,               \* its client is online
  onlineInstance,       \* onlineInstances has the remote instance
  instance,             \* the BusInstance of the remote instance, or None
  views,                \* BusInstances created so far
  phase,                \* where the view of each BusInstance is
  viewPaths,            \* what each view has read
  registry,             \* the remote plugin and components in the registry
  subscribed,           \* the metadata topic is in the client's set
  brokerSubscribed,     \* and subscribed at the broker
  up, down,             \* packets in flight, from and to the observer
  rushed,               \* history: a BusInstance was closed before its view was there, or
                        \* created before the view of an earlier one was closed
  disordered,           \* history: the broker sent a retained component before its plugin
  events, drops         \* bounds

remoteVars   == <<presence, retained, events>>
observerVars == <<online, onlineInstance, instance, views, phase, viewPaths, registry,
                  subscribed, rushed, drops>>
vars == <<alive, remoteVars, observerVars, brokerSubscribed, disordered, up, down>>

(* creating: awaits the subscription; ready: it is acknowledged, the       *)
(* continuation is due; open: listens; closing: awaits the unsubscription; *)
(* lost: its subscription was rejected.                                    *)
Phases == {"none", "creating", "ready", "open", "closing", "closed", "lost"}

(* A view reads messages until its unsubscription is acknowledged.         *)
Reads(v) == phase[v] \in {"creating", "ready", "open", "closing", "lost"}
Open     == {v \in Views : phase[v] = "open"}

TypeOK ==
  /\ presence \in BOOLEAN /\ retained \subseteq Paths /\ alive \in BOOLEAN
  /\ online \in BOOLEAN /\ onlineInstance \in BOOLEAN
  /\ instance \in 0..views /\ views \in 0..MaxViews
  /\ phase \in [Views -> Phases] /\ viewPaths \in [Views -> SUBSET Paths]
  /\ registry \subseteq Paths /\ rushed \in BOOLEAN /\ disordered \in BOOLEAN
  /\ subscribed \in BOOLEAN /\ brokerSubscribed \in BOOLEAN
  /\ onlineInstance <=> instance # None

Init ==
  /\ presence = FALSE /\ retained = {} /\ alive = TRUE
  /\ online = TRUE /\ onlineInstance = FALSE /\ instance = None /\ views = 0
  /\ phase = [v \in Views |-> "none"] /\ viewPaths = [v \in Views |-> {}]
  /\ registry = {} /\ subscribed = FALSE /\ brokerSubscribed = FALSE
  /\ up = <<>> /\ down = <<>> /\ rushed = FALSE /\ disordered = FALSE
  /\ events = 0 /\ drops = 0

-----------------------------------------------------------------------------
(* The remote instance and the broker, as the publishing side uses them:   *)
(* presence, then the plugin, then components; a crash leaves the metadata *)
(* retained, a terminate clears it after the presence.                     *)
PresenceMsg(on)  == [type |-> "presence", online |-> on]
MetaMsg(p, set)  == [type |-> "metadata", path |-> p, set |-> set]

Forward(msgs) == IF online THEN msgs ELSE <<>>
ForwardMeta(msgs) == IF online /\ brokerSubscribed THEN msgs ELSE <<>>

Remote ==
  /\ events < MaxEvents /\ events' = events + 1
  /\ UNCHANGED <<alive, observerVars, brokerSubscribed, disordered, up>>

RemoteOnline ==
  /\ Remote /\ ~presence
  /\ presence' = TRUE
  /\ down' = down \o Forward(<<PresenceMsg(TRUE)>>)
  /\ UNCHANGED retained

RemoteSet(p) ==
  /\ Remote /\ presence
  /\ p = Plugin \/ Plugin \in retained
  /\ retained' = retained \cup {p}
  /\ down' = down \o ForwardMeta(<<MetaMsg(p, TRUE)>>)
  /\ UNCHANGED presence

RemoteClear(p) ==
  /\ Remote /\ presence
  /\ p \in retained \ {Plugin}
  /\ retained' = retained \ {p}
  /\ down' = down \o ForwardMeta(<<MetaMsg(p, FALSE)>>)
  /\ UNCHANGED presence

RemoteCrash ==
  /\ Remote /\ presence
  /\ presence' = FALSE
  /\ down' = down \o Forward(<<PresenceMsg(FALSE)>>)
  /\ UNCHANGED retained

RemoteTerminate ==
  /\ Remote /\ presence
  /\ presence' = FALSE /\ retained' = {}
  /\ \E cleared \in SetToSeqs(retained) :
       down' = down \o Forward(<<PresenceMsg(FALSE)>>)
                    \o ForwardMeta([k \in DOMAIN cleared |-> MetaMsg(cleared[k], FALSE)])

(* Each subscription makes the broker send what is retained, in any order  *)
(* of topics, before or after the acknowledgement.                         *)
Resident == {[k \in DOMAIN s |-> MetaMsg(s[k], TRUE)] : s \in SetToSeqs(retained)}

NoteOrder(r) ==
  disordered' = (disordered \/ (r # <<>> /\ Plugin \in retained /\ r[1].path # Plugin))

BrokerReceive ==
  /\ up # <<>>
  /\ up' = Tail(up)
  /\ LET p == Head(up)
         ack == <<[type |-> "ack", view |-> p.view]>>
     IN  \/ /\ p.type = "subscribe"
            /\ brokerSubscribed' = TRUE
            /\ \E r \in Resident : /\ down' \in {down \o ack \o r, down \o r \o ack}
                                  /\ NoteOrder(r)
         \/ /\ p.type = "unsubscribe"
            /\ brokerSubscribed' = FALSE
            /\ down' = down \o ack
            /\ UNCHANGED disordered
  /\ UNCHANGED <<alive, remoteVars, observerVars>>

-----------------------------------------------------------------------------
(* BusInstance.set.  Its outcome: the registry, and whether it throws (the *)
(* plugin of a new component is not known).                                *)
set(reg, p) ==
  [registry |-> IF p = Plugin \/ Plugin \in reg THEN reg \cup {p} ELSE reg,
   throws   |-> p \in Components \ reg /\ Plugin \notin reg]

(* BusInstance.clear throws when the path is not in the registry.          *)
clear(reg, p) == [registry |-> reg \ {p}, throws |-> p \notin reg]

(* A metadata message: every view notes it; those that are open hand it to *)
(* their BusInstance, one after the other.                                 *)
onMetadata(m) ==
  /\ m.type = "metadata"
  /\ viewPaths' = [v \in Views |-> IF ~Reads(v) THEN viewPaths[v]
                                   ELSE IF m.set THEN viewPaths[v] \cup {m.path}
                                   ELSE viewPaths[v] \ {m.path}]
  /\ LET first  == IF m.set THEN set(registry, m.path) ELSE clear(registry, m.path)
         again  == IF m.set THEN set(first.registry, m.path)
                   ELSE clear(first.registry, m.path)
     IN  \/ /\ Open = {}
            /\ UNCHANGED <<alive, registry>>
         \/ /\ Open # {}
            /\ registry' = first.registry
            /\ alive' = ~(first.throws \/ (Cardinality(Open) > 1 /\ again.throws))
  /\ UNCHANGED <<onlineInstance, instance, views, phase, subscribed, up, rushed>>

-----------------------------------------------------------------------------
(* onInstanceChange(false) and the synchronous part of BusInstance.close:  *)
(* the remote components and plugins leave the registry.                   *)
close == onlineInstance' = FALSE /\ instance' = None /\ registry' = {}

(* Its asynchronous part, online: the view is closed; when it is not there *)
(* yet the attempt fails and nobody closes it.                             *)
closeView(v) ==
  \/ /\ phase[v] = "open"
     /\ phase' = [phase EXCEPT ![v] = "closing"]
     /\ subscribed' = FALSE
     /\ up' = Append(up, [type |-> "unsubscribe", view |-> v])
     /\ UNCHANGED rushed
  \/ /\ phase[v] # "open"
     /\ rushed' = TRUE
     /\ UNCHANGED <<phase, subscribed, up>>

(* A new BusInstance: createView subscribes.                               *)
createView ==
  /\ views < MaxViews
  /\ onlineInstance' = TRUE
  /\ views' = views + 1 /\ instance' = views + 1
  /\ phase' = [phase EXCEPT ![views + 1] = "creating"]
  /\ subscribed' = TRUE
  /\ up' = Append(up, [type |-> "subscribe", view |-> views + 1])
  /\ rushed' = (rushed \/ \E v \in Views : phase[v] = "closing")
  /\ UNCHANGED registry

(* presence.onMessage, instanceChange and onInstanceChange.                *)
onPresence(m) ==
  /\ m.type = "presence"
  /\ \/ /\ m.online = onlineInstance
        /\ UNCHANGED <<onlineInstance, instance, views, phase, registry, subscribed, rushed, up>>
     \/ m.online /\ ~onlineInstance /\ createView
     \/ /\ ~m.online /\ onlineInstance
        /\ close /\ closeView(instance)
        /\ UNCHANGED views
  /\ UNCHANGED <<alive, viewPaths>>

(* An acknowledgement resolves the promise of createView or closeView.     *)
onAck(m) ==
  /\ m.type = "ack"
  /\ phase' = [phase EXCEPT ![m.view] = CASE @ = "creating" -> "ready"
                                          [] @ = "closing" -> "closed"
                                          [] OTHER -> @]
  /\ UNCHANGED <<alive, onlineInstance, instance, views, viewPaths, registry, subscribed, up,
                 rushed>>

Receive ==
  /\ alive /\ online /\ down # <<>>
  /\ down' = Tail(down)
  /\ onMetadata(Head(down)) \/ onPresence(Head(down)) \/ onAck(Head(down))
  /\ UNCHANGED <<remoteVars, online, brokerSubscribed, disordered, drops>>

(* The continuation of the constructor: listen, then set what the view has *)
(* read, plugins first.  A throw ends it there.                            *)
OpenedReadsNothing(v) ==
  /\ alive /\ phase[v] = "ready"
  /\ phase' = [phase EXCEPT ![v] = "open"]
  /\ UNCHANGED <<alive, remoteVars, online, onlineInstance, instance, views, viewPaths,
                 registry, subscribed, rushed, drops, brokerSubscribed, disordered, up, down>>

Opened(v) ==
  /\ alive /\ phase[v] = "ready"
  /\ phase' = [phase EXCEPT ![v] = "open"]
  /\ LET known == registry \cup (viewPaths[v] \cap {Plugin})
     IN  registry' = known \cup (IF Plugin \in known THEN viewPaths[v] ELSE {})
  /\ UNCHANGED <<alive, remoteVars, online, onlineInstance, instance, views, viewPaths,
                 subscribed, rushed, drops, brokerSubscribed, disordered, up, down>>

(* The observer loses its connection: promises of subscriptions are        *)
(* rejected, and every instance goes offline; closing its view now awaits  *)
(* nothing.                                                                *)
GoOffline ==
  /\ alive /\ online /\ drops < MaxDrops
  /\ \A v \in Views : phase[v] # "ready"
  /\ online' = FALSE /\ drops' = drops + 1
  /\ up' = <<>> /\ down' = <<>> /\ brokerSubscribed' = FALSE
  /\ phase' = [v \in Views |-> CASE phase[v] \in {"creating", "closing"} -> "lost"
                                [] phase[v] = "open" /\ v = instance -> "closed"
                                [] OTHER -> phase[v]]
  /\ subscribed' = (subscribed /\ instance \notin Open)
  /\ \/ onlineInstance /\ close
     \/ ~onlineInstance /\ UNCHANGED <<onlineInstance, instance, registry>>
  /\ UNCHANGED <<alive, remoteVars, views, viewPaths, rushed, disordered>>

(* It comes back: the presence topic is subscribed again, and the metadata *)
(* topic when a view that was lost left it in the set.                     *)
GoOnline ==
  /\ alive /\ ~online
  /\ online' = TRUE
  /\ brokerSubscribed' = subscribed
  /\ \E r \in IF subscribed THEN Resident ELSE {<<>>} :
       /\ down' = (IF presence THEN <<PresenceMsg(TRUE)>> ELSE <<>>) \o r
       /\ NoteOrder(r)
  /\ UNCHANGED <<alive, remoteVars, onlineInstance, instance, views, phase, viewPaths,
                 registry, subscribed, rushed, drops, up>>

-----------------------------------------------------------------------------
RemoteNext ==
  \/ RemoteOnline \/ RemoteCrash \/ RemoteTerminate
  \/ \E p \in Paths : RemoteSet(p) \/ RemoteClear(p)

ObserverNext ==
  \/ Receive \/ \E v \in Views : Opened(v)

Next == RemoteNext \/ ObserverNext \/ BrokerReceive \/ GoOffline \/ GoOnline

Spec == Init /\ [][Next]_vars

(* The broker and the event loop run, and the observer reconnects.  The    *)
(* remote instance does what it wants.                                     *)
Fairness ==
  /\ WF_vars(Receive) /\ WF_vars(BrokerReceive) /\ WF_vars(GoOnline)
  /\ \A v \in Views : WF_vars(Opened(v))

FairSpec == Spec /\ Fairness

-----------------------------------------------------------------------------
Expected == IF presence THEN retained ELSE {}

(* Nothing is in flight or awaited.                                        *)
Settled ==
  /\ alive /\ online /\ up = <<>> /\ down = <<>>
  /\ \A v \in Views : phase[v] \notin {"creating", "ready", "closing"}

(* Once nothing is in flight, the registry holds exactly what the remote   *)
(* instance publishes while it is online, and nothing of it otherwise,     *)
(* through crashes, restarts and disconnections on either side, as long as *)
(* presence does not flip faster than the view is subscribed (rushed) and  *)
(* the broker sends the retained plugin before its components.             *)
MirrorExact == ~rushed /\ ~disordered /\ Settled => registry = Expected

(* No message makes a handler throw, which would end the observer, as long *)
(* as presence does not flip faster than the view is subscribed and the    *)
(* broker sends the retained plugin before its components: a path is never *)
(* cleared twice, and what is set again is not added again.                *)
NoHandlerThrows == ~alive => rushed \/ disordered

(* Once the remote instance stops changing the registry holds what it      *)
(* publishes for good, whether it appeared before or after the view was    *)
(* read, and the components of an instance that went away leave it.        *)
EventuallyMirrored == [](~rushed /\ ~disordered) => <>[](registry = Expected)

(* No component of an instance that went offline is left in the registry   *)
(* (the test 'should handle remote disconnection').                        *)
OfflineForgotten == Settled /\ ~presence => registry = {}
=============================================================================
