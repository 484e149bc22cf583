----------------------------- MODULE MCRuntime -----------------------------
(* Three parts of an instance that do not touch each other, side by side:  *)
(* the mirror of a remote instance, the publication of a component, and a  *)
(* remote call.  One of them moves in a behaviour (focus), the others stay *)
(* in their initial state.                                                 *)
EXTENDS TLC, Naturals, FiniteSets

CONSTANTS
  pluginPath, pathA, pathB,      \* metadata paths of a remote instance
  call1, call2,                  \* remote calls
  Plugins,                       \* the plugins of the component: members in the order of their metadata
  MaxDrops                       \* bound: connection losses of its publisher

StateLast == <<"action", "action", "state">>
ActionLast == <<"state", "action", "action">>
EitherLast == {StateLast, ActionLast}
OnlyActionLast == {ActionLast}

VARIABLES
  focus,
  presence, retained, alive, online, onlineInstance, instance, views, viewPhase, viewPaths,
  mirrored, subscribed, brokerSubscribed, up, down, rushed, disordered, remoteEvents, viewDrops,
  pubMembers, pubOnline, pubComponent, pubCount, pubValue, pubTransportComponent,
  pubLocalComponent, pubAttached, pubRegistered, pubAwaiting, pubOfflines, pubSubscriptions,
  pubThrown, pubHurried, pubLate,
  pubDrops, pubChanges, pubIdle, pubUp, pubDown, pubBrokerSubs, pubMeta, pubState,
  callerConn, serverConn, phase, result, subscriptions, brokerReplies, callerQueue, callerUp,
  callerDown, service, listening, created, unserving, served, brokerServed, serverQueue,
  serverUp, serverDown, running, executed, outcome, disturbed, early, drops, crashes

(* An observer of a remote instance with a plugin and two components.      *)
M == INSTANCE RemoteMirror WITH
       Plugin <- pluginPath, Components <- {pathA, pathB},
       MaxViews <- 4, MaxEvents <- 5, MaxDrops <- 1,
       phase <- viewPhase, registry <- mirrored, events <- remoteEvents, drops <- viewDrops

(* A component with two actions and a state, in either order, added up to  *)
(* three times.                                                            *)
P == INSTANCE Publisher WITH
       Callers <- 2, MaxObjects <- 3, MaxChanges <- 1,
       members <- pubMembers, late <- pubLate,
       online <- pubOnline, component <- pubComponent, count <- pubCount, value <- pubValue,
       transportComponent <- pubTransportComponent, localComponent <- pubLocalComponent,
       attached <- pubAttached, registered <- pubRegistered, awaiting <- pubAwaiting,
       offlines <- pubOfflines, subscriptions <- pubSubscriptions, thrown <- pubThrown,
       hurried <- pubHurried, drops <- pubDrops, changes <- pubChanges, idle <- pubIdle,
       up <- pubUp, down <- pubDown, brokerSubs <- pubBrokerSubs, meta <- pubMeta,
       state <- pubState

(* Two calls of one service, with a connection loss and a server crash.    *)
R == INSTANCE Rpc WITH Calls <- {call1, call2}, MaxServices <- 2, MaxDrops <- 1, MaxCrashes <- 1

mirrorVars == <<presence, retained, alive, online, onlineInstance, instance, views, viewPhase,
  viewPaths, mirrored, subscribed, brokerSubscribed, up, down, rushed, disordered, remoteEvents,
  viewDrops>>
pubVars == <<
  pubMembers, pubOnline, pubComponent, pubCount, pubValue, pubTransportComponent,
  pubLocalComponent, pubAttached, pubRegistered, pubAwaiting, pubOfflines, pubSubscriptions,
  pubThrown, pubHurried, pubLate,
  pubDrops, pubChanges, pubIdle, pubUp, pubDown, pubBrokerSubs, pubMeta, pubState>>
rpcVars == <<callerConn, serverConn, phase, result, subscriptions, brokerReplies, callerQueue,
  callerUp, callerDown, service, listening, created, unserving, served, brokerServed,
  serverQueue, serverUp, serverDown, running, executed, outcome, disturbed, early, drops, crashes>>
vars == <<focus, mirrorVars, pubVars, rpcVars>>

Init ==
  /\ focus \in {"mirror", "publisher", "rpc"} /\ M!Init /\ P!Init /\ R!Init
  /\ focus # "publisher" => pubComponent = 1 /\ pubMembers = ActionLast

Next ==
  \/ focus = "mirror" /\ M!Next /\ UNCHANGED <<focus, pubVars, rpcVars>>
  \/ focus = "publisher" /\ P!Next /\ UNCHANGED <<focus, mirrorVars, rpcVars>>
  \/ focus = "rpc" /\ R!Next /\ UNCHANGED <<focus, mirrorVars, pubVars>>

(* No fair action of the mirror is enabled in its initial state: its       *)
(* fairness asks nothing when another part moves.  The publisher's is that *)
(* of its module, when it moves.                                           *)
Fairness ==
  /\ M!Fairness
  /\ WF_pubVars(focus = "publisher" /\ P!BrokerReceive)
  /\ WF_pubVars(focus = "publisher" /\ P!GoOnline)
  /\ WF_pubVars(focus = "publisher" /\ P!Registered)
  /\ WF_pubVars(focus = "publisher" /\ P!Unregistered)
  /\ WF_pubVars(focus = "publisher" /\ (P!onComponentAdd \/ P!onComponentRemove \/ P!Refuse))

Spec == Init /\ [][Next]_vars /\ Fairness

-----------------------------------------------------------------------------
(* The mirror: the types; once nothing is in flight, the registry holds    *)
(* exactly what the remote instance publishes, and no message makes a      *)
(* handler throw, unless presence flips too fast or the broker reorders    *)
(* (RemoteMirror; components/bus-publisher.ts and bus/metadata.ts of       *)
(* mylife-home-common).                                                    *)
MirrorExact == focus = "mirror" => M!TypeOK /\ M!MirrorExact /\ M!NoHandlerThrows

(* The publisher: the types; no action runs on a removed component; once   *)
(* nothing is in flight the metadata and the state retained are those of   *)
(* the registered component, unless it was added while its id was still    *)
(* taken, which is also the only way a state change throws; while the      *)
(* connection holds a removal is retracted, except one that comes while    *)
(* the subscription of the plugin's last member is awaited (Publisher;     *)
(* mylife-home-core/src/components/bus-publisher.ts).                      *)
CalmlyPublished ==
  focus = "publisher" =>
    P!TypeOK /\ P!NoActionOnRemoved /\ P!CalmlyPublished /\ P!StateCurrent
    /\ P!ThrowsOnlyWhenHurried /\ P!RetractedWhileConnected

(* The registry ends up holding what the remote instance publishes         *)
(* (RemoteMirror); a component that stays is eventually published for good *)
(* (Publisher), and its metadata never appears before its actions can be   *)
(* called.                                                                 *)
EventuallySettled ==
  /\ M!EventuallyMirrored
  /\ focus = "publisher" => P!EventuallyPublished
  /\ P!PublishedIsCallable

(* Remote calls: the types; the implementation of a service runs at most   *)
(* once per call, a call ends with the outcome of its own execution, times *)
(* out only for a cause, and has left the subscription set once it is over *)
(* (Rpc; bus/rpc.ts).                                                      *)
AtMostOnce ==
  focus = "rpc" => R!TypeOK /\ R!AtMostOnce /\ R!OwnReply /\ R!TimeoutHasCause /\ R!RepliesReleased

(* Once nothing is in flight, no metadata of a removed component is        *)
(* retained (Publisher).                                                   *)
OnlyLocalPublished == focus = "publisher" => P!OnlyLocalPublished
=============================================================================
