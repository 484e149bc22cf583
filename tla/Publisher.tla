----------------------------- MODULE Publisher -----------------------------
(***************************************************************************)
(* How a core instance publishes one component id on the bus:              *)
(* mylife-home-core/src/components/bus-publisher.ts over                   *)
(* mylife-home-common/src/bus/components.ts and metadata.ts.               *)
(*                                                                         *)
(* Every component added under the id is a new object, numbered; its       *)
(* BusComponent runs setOnline, which awaits the acknowledgement of each   *)
(* action's subscription, and setOffline, which awaits the one of the      *)
(* unsubscription before it frees the id in the map of local components.   *)
(* Requests to add and remove come from the bus and interleave with those  *)
(* awaits, with state changes and with disconnections.                     *)
(*                                                                         *)
(* Requests and acknowledgements share the FIFO channel from the broker,   *)
(* what is published, subscribed and replied the one to it, so that the    *)
(* order in which they may arrive is the real one.                         *)
(***************************************************************************)
EXTENDS Naturals, Sequences, SequencesExt, FiniteSets

CONSTANTS
  Plugins,     \* the plugins the id can have: their members in the order of the
               \* metadata, each "state" (at most one) or "action"
  Callers,     \* rpc callers, each awaiting its reply before it calls again
  MaxObjects,  \* bound: components added
  MaxDrops,    \* bound: disconnections
  MaxChanges   \* bound: state changes

Objects == 1..MaxObjects
None    == 0

VARIABLES
  members,     \* the plugin of the id, the same for every component added
  online,      \* the transport is online
  component,   \* the component registered under the id, None when there is none
  count,       \* components added so far
  value,       \* the value of the component's state; a new one starts with the last value
  transportComponent,  \* per BusComponent: it holds a local component
  localComponent,      \* localComponents.get(id): the object that created it, or None
  attached,    \* the objects whose local component listens to action messages
  registered,  \* per object: the actions its local component has a handler for
  awaiting,    \* per object: the action whose subscription setOnline awaits, 0 when none
  offlines,    \* setOffline calls that await their unsubscription
  subscriptions,       \* the action topics of the id in the client's set
  thrown,      \* history: a state change threw into the plugin
  hurried,     \* history: an add found the id not free yet
  late,        \* history: the objects closed while setOnline awaited their last member
  drops, changes,      \* bounds
  idle,        \* callers that may send a request
  up, down,    \* packets in flight, to and from the broker
  brokerSubs,  \* the action topics subscribed at the broker
  meta,        \* the retained metadata of the id: an object, None when empty
  state        \* the retained state: <<object, value>>

busVars    == <<up, down, brokerSubs, meta, state>>
objectVars == <<transportComponent, localComponent, attached, registered, awaiting,
                offlines, subscriptions>>
boundVars  == <<drops, changes>>
vars == <<members, online, component, count, value, thrown, hurried, late, idle, objectVars,
          boundVars, busVars>>

-----------------------------------------------------------------------------
Actions == {m \in DOMAIN members : members[m] = "action"}

Meta(g)   == [type |-> "meta", object |-> g]
State(g)  == [type |-> "state", object |-> g, value |-> value]
Sub(A, g) == [type |-> "subscribe", actions |-> A, object |-> g]
Unsub(A)  == [type |-> "unsubscribe", actions |-> A]
Reply     == [type |-> "reply"]

TypeOK ==
  /\ members \in Plugins /\ late \subseteq Objects
  /\ online \in BOOLEAN /\ thrown \in BOOLEAN /\ hurried \in BOOLEAN
  /\ component \in Objects \cup {None} /\ count \in 0..MaxObjects /\ value \in 0..1
  /\ transportComponent \in [Objects -> BOOLEAN]
  /\ localComponent \in Objects \cup {None} /\ attached \subseteq Objects
  /\ registered \in [Objects -> SUBSET Actions]
  /\ awaiting \in [Objects -> Actions \cup {0}]
  /\ offlines \in Nat /\ subscriptions \subseteq Actions /\ brokerSubs \subseteq Actions
  /\ idle \in 0..Callers /\ meta \in Objects \cup {None}
  /\ state \in (Objects \cup {None}) \X (0..1)

Init ==
  /\ members \in Plugins
  /\ online = FALSE /\ component \in {None, 1} /\ count = component /\ value = 0
  /\ thrown = FALSE /\ hurried = FALSE /\ late = {}
  /\ transportComponent = [g \in Objects |-> FALSE] /\ localComponent = None
  /\ attached = {} /\ registered = [g \in Objects |-> {}]
  /\ awaiting = [g \in Objects |-> 0] /\ offlines = 0 /\ subscriptions = {}
  /\ drops = 0 /\ changes = 0 /\ idle = Callers
  /\ up = <<>> /\ down = <<>> /\ brokerSubs = {} /\ meta = None
  /\ state = <<None, 0>>

-----------------------------------------------------------------------------
(* setOnline from member m on, up to its next await: states on the way are *)
(* published, the next action is registered, and after the last member the *)
(* metadata is published.  The result: packets, and the action awaited.    *)
NextAction(m) == {a \in Actions : a >= m /\ \A b \in Actions : b >= m => a <= b}

Walk(g, m) ==
  LET next  == NextAction(m)
      stop  == IF next = {} THEN Len(members) ELSE CHOOSE a \in next : TRUE
      shown == IF \E s \in m..stop : members[s] = "state" THEN <<State(g)>> ELSE <<>>
  IN  IF next = {} THEN [packets |-> shown \o <<Meta(g)>>, action |-> 0]
                   ELSE [packets |-> shown \o <<Sub({stop}, g)>>, action |-> stop]

(* setOnline: addLocalComponent throws when the id is not free; the        *)
(* rejection is logged and the object stays without a local component.     *)
setOnline(g, after) ==
  \/ /\ localComponent # None
     /\ hurried' = TRUE
     /\ up' = up \o after
     /\ UNCHANGED <<transportComponent, localComponent, attached, registered, awaiting,
                    subscriptions>>
  \/ /\ localComponent = None
     /\ LET walk == Walk(g, 1)
            new  == {walk.action} \ {0}
        IN  /\ localComponent' = g
            /\ transportComponent' = [transportComponent EXCEPT ![g] = TRUE]
            /\ attached' = attached \cup {g}
            /\ registered' = [registered EXCEPT ![g] = new]
            /\ awaiting' = [awaiting EXCEPT ![g] = walk.action]
            /\ subscriptions' = subscriptions \cup new
            /\ up' = up \o walk.packets \o after
     /\ UNCHANGED hurried

(* setOffline while online: terminates whatever local component has the    *)
(* id; the id is freed by the acknowledgement.  Nothing is awaited when no *)
(* action was registered.  getLocalComponent throws when there is none.    *)
setOffline(g, before, after) ==
  /\ transportComponent' = [transportComponent EXCEPT ![g] = FALSE]
  /\ \/ /\ localComponent = None
        /\ up' = up \o before \o after
        /\ UNCHANGED <<localComponent, attached, offlines, subscriptions>>
     \/ /\ localComponent # None
        /\ LET topics == registered[localComponent]
           IN  /\ attached' = attached \ {localComponent}
               /\ subscriptions' = subscriptions \ topics
               /\ IF topics = {}
                  THEN /\ localComponent' = None
                       /\ up' = up \o before \o after
                       /\ UNCHANGED offlines
                  ELSE /\ offlines' = offlines + 1
                       /\ up' = up \o before \o <<Unsub(topics)>> \o after
                       /\ UNCHANGED localComponent

-----------------------------------------------------------------------------
(* Requests.  The reply is published after what the operation published.   *)
Request(kind) ==
  /\ online /\ idle > 0
  /\ idle' = idle - 1
  /\ down' = Append(down, [type |-> kind])
  /\ UNCHANGED <<members, online, component, count, value, thrown, hurried, late, objectVars,
                 boundVars, up, brokerSubs, meta, state>>

(* Packets are handled in order, except that a request read in the same    *)
(* chunk as the acknowledgements before it is handled before the promises  *)
(* they resolve.                                                           *)
Acks == {"suback", "unsuback"}

Receive(type) ==
  /\ online
  /\ \E k \in DOMAIN down :
       /\ down[k].type = type
       /\ \A j \in 1..(k - 1) : type \notin Acks /\ down[j].type \in Acks
       /\ down' = RemoveAt(down, k)
  /\ UNCHANGED <<members, online, thrown, idle, boundVars, brokerSubs, meta, state>>

(* onComponentAdd: a new BusComponent, which goes online at once.          *)
onComponentAdd ==
  /\ Receive("add") /\ component = None /\ count < MaxObjects
  /\ count' = count + 1 /\ component' = count + 1
  /\ setOnline(count + 1, <<Reply>>)
  /\ UNCHANGED <<value, offlines, late>>

(* onComponentRemove: close.                                               *)
onComponentRemoveKeepsMeta ==
  /\ Receive("remove") /\ component # None
  /\ component' = None
  /\ setOffline(component, <<>>, <<Reply>>)
  /\ UNCHANGED <<count, value, hurried, late, registered, awaiting>>

onComponentRemove ==
  /\ Receive("remove") /\ component # None
  /\ component' = None
  /\ setOffline(component, <<Meta(None)>>, <<Reply>>)
  /\ UNCHANGED <<count, value, hurried, late, registered, awaiting>>

(* The manager refuses the request.                                        *)
Refuse ==
  /\ \/ Receive("add") /\ (component # None \/ count = MaxObjects)
     \/ Receive("remove") /\ component = None
  /\ up' = Append(up, Reply)
  /\ UNCHANGED <<component, count, value, hurried, late, objectVars>>

(* An action's subscription is acknowledged: setOnline goes on.  When the  *)
(* component was closed meanwhile, the next member fails on the missing    *)
(* local component, but after the last member nothing looks at it.         *)
RegisteredNeverResumes ==
  /\ Receive("suback")
  /\ UNCHANGED <<component, count, value, hurried, late, objectVars, up>>

Registered ==
  /\ Receive("suback")
  /\ LET g == Head(down).object
         m == awaiting[g] + 1
         walk == Walk(g, m)
         new  == {walk.action} \ {0}
     IN  \/ /\ m <= Len(members) /\ ~transportComponent[g]
            /\ awaiting' = [awaiting EXCEPT ![g] = 0]
            /\ UNCHANGED <<up, registered, subscriptions, late>>
         \/ /\ m > Len(members) \/ transportComponent[g]
            /\ awaiting' = [awaiting EXCEPT ![g] = walk.action]
            /\ registered' = [registered EXCEPT ![g] = @ \cup new]
            /\ subscriptions' = subscriptions \cup new
            /\ up' = up \o walk.packets
            /\ late' = IF transportComponent[g] THEN late ELSE late \cup {g}
  /\ UNCHANGED <<component, count, value, hurried, transportComponent, localComponent,
                 attached, offlines>>

(* An unsubscription is acknowledged: the id is freed.                     *)
Unregistered ==
  /\ Receive("unsuback")
  /\ offlines' = offlines - 1
  /\ localComponent' = None
  /\ UNCHANGED <<component, count, value, hurried, late, transportComponent, attached, registered,
                 awaiting, subscriptions, up>>

(* onStateChange: the missing local component throws into the emitter.     *)
onStateChange ==
  /\ component # None /\ changes < MaxChanges
  /\ changes' = changes + 1 /\ value' = 1 - value
  /\ up' = IF online /\ transportComponent[component]
           THEN Append(up, [State(component) EXCEPT !.value = 1 - value]) ELSE up
  /\ thrown' = (thrown \/ (online /\ ~transportComponent[component]))
  /\ UNCHANGED <<members, online, component, count, hurried, late, idle, objectVars, drops, down,
                 brokerSubs, meta, state>>

-----------------------------------------------------------------------------
(* onOnlineChange(true), once the broker is done with the last session;    *)
(* then the client subscribes to its set.                                  *)
GoOnline ==
  /\ ~online /\ up = <<>>
  /\ online' = TRUE
  /\ brokerSubs' = {}
  /\ LET bulk == IF subscriptions = {} THEN <<>> ELSE <<Sub(subscriptions, None)>>
     IN  \/ /\ component = None
            /\ up' = bulk
            /\ UNCHANGED <<objectVars, hurried>>
         \/ /\ component # None
            /\ setOnline(component, bulk)
            /\ UNCHANGED offlines
  /\ UNCHANGED <<members, component, count, value, thrown, late, idle, boundVars, down, meta, state>>

(* The connection closes: packets are lost, awaited acknowledgements are   *)
(* rejected, and onOnlineChange(false) runs setOffline, which has nothing  *)
(* to await offline.  Callers time out.                                    *)
GoOffline ==
  /\ online /\ drops < MaxDrops
  /\ online' = FALSE /\ drops' = drops + 1
  /\ \E k \in 0..Len(up) : up' = SubSeq(up, 1, k)
  /\ down' = <<>> /\ idle' = Callers
  /\ awaiting' = [g \in Objects |-> 0] /\ offlines' = 0
  /\ \/ /\ component = None \/ localComponent = None
        /\ UNCHANGED <<localComponent, attached, subscriptions>>
     \/ /\ component # None /\ localComponent # None
        /\ localComponent' = None
        /\ attached' = attached \ {localComponent}
        /\ subscriptions' = subscriptions \ registered[localComponent]
  /\ transportComponent' = [g \in Objects |-> transportComponent[g] /\ g # component]
  /\ UNCHANGED <<members, component, count, value, thrown, hurried, late, registered, changes,
                 brokerSubs, meta, state>>

-----------------------------------------------------------------------------
(* The broker.                                                             *)
Deliver(answer) == down' = IF online THEN Append(down, answer) ELSE down

BrokerReceive ==
  /\ up # <<>>
  /\ up' = Tail(up)
  /\ LET p == Head(up)
     IN  \/ /\ p.type = "meta" /\ meta' = p.object
            /\ UNCHANGED <<down, brokerSubs, state, idle>>
         \/ /\ p.type = "state" /\ state' = <<p.object, p.value>>
            /\ UNCHANGED <<down, brokerSubs, meta, idle>>
         \/ /\ p.type = "subscribe" /\ brokerSubs' = brokerSubs \cup p.actions
            /\ IF p.object = None THEN UNCHANGED down
               ELSE Deliver([type |-> "suback", object |-> p.object])
            /\ UNCHANGED <<meta, state, idle>>
         \/ /\ p.type = "unsubscribe" /\ brokerSubs' = brokerSubs \ p.actions
            /\ Deliver([type |-> "unsuback"])
            /\ UNCHANGED <<meta, state, idle>>
         \/ /\ p.type = "reply"
            /\ idle' = IF idle < Callers THEN idle + 1 ELSE idle
            /\ UNCHANGED <<down, brokerSubs, meta, state>>
  /\ UNCHANGED <<members, online, component, count, value, thrown, hurried, late, objectVars,
                 boundVars>>

Next ==
  \/ \E kind \in {"add", "remove"} : Request(kind)
  \/ onComponentAdd \/ onComponentRemove \/ Refuse
  \/ Registered \/ Unregistered \/ onStateChange
  \/ GoOnline \/ GoOffline \/ BrokerReceive

Spec == Init /\ [][Next]_vars

(* The broker and the event loop run, and a lost connection comes back.    *)
Fairness ==
  /\ WF_vars(BrokerReceive) /\ WF_vars(GoOnline)
  /\ WF_vars(Registered) /\ WF_vars(Unregistered)
  /\ WF_vars(onComponentAdd \/ onComponentRemove \/ Refuse)

FairSpec == Spec /\ Fairness
-----------------------------------------------------------------------------
(* Nothing is in flight or awaited.                                        *)
Settled ==
  /\ online /\ up = <<>> /\ down = <<>>
  /\ offlines = 0 /\ \A g \in Objects : awaiting[g] = 0

(* An action received from the bus never runs on a component that was      *)
(* removed, even while its subscriptions are being ended or its setOnline  *)
(* is being resumed, unless an add found the id still taken.               *)
NoActionOnRemoved == ~hurried => attached \subseteq {component}

(* When the metadata of the registered component appears on the bus, every *)
(* action of it is subscribed: an observer may call them at once.          *)
PublishedIsCallable ==
  [][meta' # meta /\ meta' = component /\ component # None => Actions \subseteq brokerSubs]_vars

(* Every local component is published: once nothing is in flight, the      *)
(* retained metadata is the one of the registered component.               *)
LocalPublished == Settled /\ component # None => meta = component

(* Only local components are published: once nothing is in flight, no      *)
(* metadata of a removed component is retained.                            *)
OnlyLocalPublished == Settled /\ component = None => meta = None

(* LocalPublished holds across disconnections as long as no add found the  *)
(* id still taken by a local component whose removal awaited the broker.   *)
CalmlyPublished == ~hurried => LocalPublished

(* While the connection holds, a removal takes the metadata off the bus,   *)
(* whatever setOnline was awaiting, with one exception: the subscription   *)
(* of an action that is the plugin's last member, after which setOnline    *)
(* publishes the metadata of the closed component again.  (A disconnection *)
(* may lose the clearing.)                                                 *)
RetractedWhileConnected ==
  drops = 0 /\ Settled /\ component = None =>
    meta = None \/ (meta \in late /\ Last(members) = "action")

(* The retained state is the current one of the registered component: the  *)
(* value published by setOnline, changes during its awaits and changes     *)
(* while offline included.                                                 *)
StateCurrent ==
  Settled /\ component # None /\ ~hurried /\ "state" \in {members[m] : m \in DOMAIN members}
    => state = <<component, value>>

(* A state change never throws into the plugin that made it, online or     *)
(* offline, unless an add found the id still taken.                        *)
ThrowsOnlyWhenHurried == thrown => hurried

(* A component that stays is eventually published for good.                *)
EventuallyPublished == <>[](component # None /\ ~hurried) => <>[](meta = component)
=============================================================================
