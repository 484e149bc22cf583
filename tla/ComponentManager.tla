-------------------------- MODULE ComponentManager --------------------------
(***************************************************************************)
(* The component runtime of a core instance: ComponentManager with the     *)
(* Registry it fills, the Bindings that listen to the registry, the set of *)
(* components the bus publisher follows and the in-memory Store; and the   *)
(* remote components that BusInstance adds to and removes from the same    *)
(* registry.                                                               *)
(*                                                                         *)
(* Node runs one handler at a time and none of these handlers awaits, so   *)
(* each of them is one action. What makes them hard is what they do when   *)
(* something inside throws: an event is emitted to listeners in the order  *)
(* of their registration, and a listener that throws ends the emission and *)
(* the handler. An rpc handler reports the error and the process goes on   *)
(* with what was done so far; a bus message handler has no catch and the   *)
(* process dies.                                                           *)
(***************************************************************************)
EXTENDS Naturals, Sequences, FiniteSets

CONSTANTS
  Ids,         \* component ids
  Remotes,     \* names of the other instances of the bus
  Local,       \* the instance itself (instanceName = null in the code)
  Hosts,       \* <<instance, id>>: the ids that each instance may be given
  Plugins,     \* plugin ids
  States,      \* state names
  Actions,     \* action names
  StateType,   \* StateType[p][s]: type of state s of plugin p, or None
  ActionType,  \* ActionType[p][a]: type of action a of plugin p, or None
  Faulty,      \* local plugins whose execution may throw
  Configs,     \* the binding configurations the instance may be given
  Tags,        \* identities of heap objects
  None         \* undefined / null / absent from a Map

Instances == Remotes \cup {Local}

ASSUME ConstantsAssumption ==
  /\ Local \notin Remotes
  /\ Hosts \subseteq Instances \X Ids
  /\ Faulty \subseteq Plugins
  /\ None \notin Plugins
  /\ \A c \in Configs :
       /\ c.sourceComponent \in Ids /\ c.targetComponent \in Ids
       /\ c.sourceState \in States /\ c.targetAction \in Actions

(* ComponentHost (local) and BusComponent (remote) objects.                *)
Component ==
  {o \in [id : Ids, instance : Instances, plugin : Plugins, tag : Tags] :
     <<o.instance, o.id>> \in Hosts}

ASSUME NoneAssumption == None \notin Component

(* Binding objects: one configuration can have several objects over time.  *)
BindingObject == [config : Configs, tag : Tags]

ASSUME NoneBindingAssumption == None \notin BindingObject

ErrorKinds == {"state", "action", "type"}

(* What initBinding reports: the state or the action does not exist, or    *)
(* their value types are not the same.                                     *)
BindingErrors(c, sourcePlugin, targetPlugin) ==
  LET sourceType == StateType[sourcePlugin][c.sourceState]
      targetType == ActionType[targetPlugin][c.targetAction]
  IN  {e \in ErrorKinds :
         \/ e = "state"  /\ sourceType = None
         \/ e = "action" /\ targetType = None
         \/ e = "type"   /\ sourceType # None /\ targetType # None
                         /\ sourceType # targetType}

(* executeAction on o may throw: the code of a local plugin, or of one     *)
(* that its state changes reach through further bindings, is arbitrary. A  *)
(* remote component only publishes a message.                              *)
MayThrow(o) == o.instance = Local /\ o.plugin \in Faulty

(* No id is deployed on two instances (what the studio validates before it *)
(* deploys, core/validation.ts validateExistingComponents).                *)
UniqueHosts ==
  \A i \in Ids, m, n \in Instances :
    <<m, i>> \in Hosts /\ <<n, i>> \in Hosts => m = n

-----------------------------------------------------------------------------
(* The Binding class (binding.ts): what each of its methods does to the    *)
(* object, as operators on its fields d = [source, target, errors].        *)
(* _errors is undefined until the first initBinding; it is only read when  *)
(* both ends are set, hence after it, so it starts as {} here.             *)

BindingData ==
  [source : Component \cup {None}, target : Component \cup {None},
   errors : SUBSET ErrorKinds]

active(d) == d.source # None /\ d.target # None /\ d.errors = {}

(* Does the arrival of o concern a binding configured by c?                *)
Concerns(c, o) == o.id \in {c.sourceComponent, c.targetComponent}

(* initBinding, the part that changes the binding: early return while an   *)
(* end is missing, then the errors are computed anew.                      *)
initBinding(c, d) ==
  IF d.source = None \/ d.target = None
  THEN d
  ELSE [d EXCEPT !.errors = BindingErrors(c, d.source.plugin, d.target.plugin)]

(* onComponentAdd: a switch, so the source wins when a configuration names *)
(* one component at both ends.                                             *)
onComponentAdd(c, d, o) ==
  IF o.id = c.sourceComponent THEN initBinding(c, [d EXCEPT !.source = o])
  ELSE IF o.id = c.targetComponent THEN initBinding(c, [d EXCEPT !.target = o])
  ELSE d

(* onComponentRemove of each component of S, in any order: objects are     *)
(* compared, not ids, and terminateBinding clears the errors.              *)
onComponentRemoveSourceOnly(d, S) ==
  [d EXCEPT !.source = IF d.source \in S THEN None ELSE d.source,
            !.errors = IF d.source \in S THEN {} ELSE d.errors]

onComponentRemove(d, S) ==
  [source |-> IF d.source \in S THEN None ELSE d.source,
   target |-> IF d.target \in S THEN None ELSE d.target,
   errors |-> IF d.source \in S \/ d.target \in S THEN {} ELSE d.errors]

(* The constructor: no end is known, then onComponentAdd for every         *)
(* component of the registry.                                              *)
newBindingNoScan(c, registry) ==
  [source |-> None, target |-> None, errors |-> {}]

newBinding(c, registry) ==
  LET source == registry[c.sourceComponent]
      target == IF c.targetComponent = c.sourceComponent
                THEN None ELSE registry[c.targetComponent]
  IN  initBinding(c, [source |-> source, target |-> target, errors |-> {}])

(* The 'state' listeners that one initBinding adds to the source, and that *)
(* one terminateBinding removes (ls: how many this binding has per object; *)
(* off removes nothing when there is none).                                *)
ListenDespiteErrors(ls, d) ==
  IF d.source # None /\ d.target # None THEN [ls EXCEPT ![d.source] = @ + 1] ELSE ls

Listen(ls, d) == IF active(d) THEN [ls EXCEPT ![d.source] = @ + 1] ELSE ls

UnlistenNever(ls, d) == ls

Unlisten(ls, d) ==
  IF active(d) /\ ls[d.source] > 0 THEN [ls EXCEPT ![d.source] = @ - 1] ELSE ls

(* initBinding ends with the current value pushed to the target, unless it *)
(* is null; that action may throw.                                         *)
PushMayThrow(d) == active(d) /\ MayThrow(d.target)

-----------------------------------------------------------------------------
VARIABLES
  proc,            \* "boot", "up", "terminated" or "down"
  components,      \* Registry.components: id -> component object
  instances,       \* Registry.instances: instance -> its component objects
  hosts,           \* ComponentManager.components: id -> ComponentHost
  destroyed,       \* hosts of that map whose destroy() was called
  published,       \* keys of the bus publisher's busComponents
  bindings,        \* ComponentManager.bindings: config -> Binding object
  live,            \* Bindings registered on the registry, with their fields
  order,           \* <<x, y>>: Binding x was registered before y
  listeners,       \* listeners[b][o]: 'state' listeners of b on o
  storeComponents, \* Store.components: id -> plugin
  storeBindings    \* Store.bindings

registryVars == <<components, instances, published>>
managerVars == <<hosts, destroyed, bindings>>
bindingVars == <<live, order, listeners>>
storeVars == <<storeComponents, storeBindings>>
vars == <<proc, registryVars, managerVars, bindingVars, storeVars>>

NoListener == [b \in BindingObject |-> [o \in Component |-> 0]]
NoBinding == [b \in {} |-> None]

(* new ComponentHost or new BusComponent.                                  *)
newComponent(n, i, p, t) == [id |-> i, instance |-> n, plugin |-> p, tag |-> t]

(* An object is fresh when nothing refers to it any more.                  *)
FreshComponent(o) ==
  /\ \A n \in Instances : o \notin instances[n]
  /\ \A i \in Ids : components[i] # o /\ hosts[i] # o
  /\ o \notin published
  /\ \A b \in DOMAIN live : live[b].source # o /\ live[b].target # o
  /\ \A b \in BindingObject : listeners[b][o] = 0

FreshBinding(b) ==
  b \notin DOMAIN live /\ \A o \in Component : listeners[b][o] = 0

(* The memory of a process that starts: an empty heap, and a store that    *)
(* load() filled with what an earlier process had saved.                   *)
Blank ==
  /\ proc = "boot"
  /\ components = [i \in Ids |-> None]
  /\ instances = [n \in Instances |-> {}]
  /\ hosts = [i \in Ids |-> None]
  /\ destroyed = {}
  /\ published = {}
  /\ bindings = [c \in Configs |-> None]
  /\ live = NoBinding
  /\ order = {}
  /\ listeners = NoListener

Loadable ==
  {s \in [Ids -> Plugins \cup {None}] :
     \A i \in Ids : s[i] # None => <<Local, i>> \in Hosts}

Init ==
  /\ Blank
  /\ storeComponents \in Loadable
  /\ storeBindings \in SUBSET Configs

-----------------------------------------------------------------------------
(* Emission of the registry's events.                                      *)

(* component.add: the bus publisher, first registered, never throws; the   *)
(* bindings called are a first part of the order. The emission ends early  *)
(* (ok = FALSE) when the last one called throws.                           *)
EmitAdd(o, called, ok) ==
  LET after == [b \in DOMAIN live |->
                  IF b \in called THEN onComponentAdd(b.config, live[b], o)
                  ELSE live[b]]
      touched == {b \in called : Concerns(b.config, o)}
  IN  /\ \A x, y \in DOMAIN live : <<x, y>> \in order /\ y \in called => x \in called
      /\ ok => called = DOMAIN live
      /\ ~ok => \E b \in touched :
                  /\ PushMayThrow(after[b])
                  /\ \A x \in called \ {b} : <<x, b>> \in order
      /\ live' = after
      /\ listeners' = [b \in BindingObject |->
                         IF b \in touched THEN Listen(listeners[b], after[b])
                         ELSE listeners[b]]
      /\ UNCHANGED order

(* component.remove of the components of S: no binding throws.             *)
EmitRemove(S) ==
  LET after == [b \in DOMAIN live |-> onComponentRemove(live[b], S)]
  IN  /\ live' = after
      /\ listeners' = [b \in BindingObject |->
                         IF b \in DOMAIN live /\ after[b] # live[b]
                         THEN Unlisten(listeners[b], live[b])
                         ELSE listeners[b]]
      /\ UNCHANGED order

-----------------------------------------------------------------------------
(* The parts that the manager drives.                                      *)

(* Registry.addComponent / removeComponent, before they emit.              *)
registryAdd(o) ==
  /\ components' = [components EXCEPT ![o.id] = o]
  /\ instances' = [instances EXCEPT ![o.instance] = @ \cup {o}]

registryRemove(n, i, o) ==
  /\ components' = [components EXCEPT ![i] = None]
  /\ instances' = [instances EXCEPT ![n] = @ \ {o}]

(* BusPublisher.onComponentAdd / onComponentRemove for a local component.  *)
publisherAdd(o) == published' = published \cup {o}

publisherRemove(o) == published' = published \ {o}

(* Store.                                                                  *)
storeSetComponent(i, p) == storeComponents' = [storeComponents EXCEPT ![i] = p]

storeRemoveComponentKeeps(i) == UNCHANGED storeComponents

storeRemoveComponent(i) == storeComponents' = [storeComponents EXCEPT ![i] = None]

storeAddBinding(c) == storeBindings' = storeBindings \cup {c}

storeRemoveBinding(c) == storeBindings' = storeBindings \ {c}

(* An uncaught exception or a kill: the heap is lost.                      *)
Die ==
  /\ proc' = "down"
  /\ components' = [i \in Ids |-> None]
  /\ instances' = [n \in Instances |-> {}]
  /\ hosts' = [i \in Ids |-> None]
  /\ destroyed' = {}
  /\ published' = {}
  /\ bindings' = [c \in Configs |-> None]
  /\ live' = NoBinding
  /\ order' = {}
  /\ listeners' = NoListener
  /\ UNCHANGED storeVars

-----------------------------------------------------------------------------
(* ComponentManager.                                                       *)

addComponent(i, p) ==
  /\ proc = "up"
  /\ <<Local, i>> \in Hosts
  /\ hosts[i] = None
  /\ \E t \in Tags :
       LET o == newComponent(Local, i, p, t) IN
       /\ FreshComponent(o)
       /\ hosts' = [hosts EXCEPT ![i] = o]
       /\ \/ \* registry.addComponent throws: the id is taken
             /\ components[i] # None
             /\ UNCHANGED <<registryVars, bindingVars, storeComponents>>
          \/ /\ components[i] = None
             /\ registryAdd(o)
             /\ publisherAdd(o)
             /\ \E called \in SUBSET DOMAIN live, ok \in BOOLEAN :
                  /\ EmitAdd(o, called, ok)
                  /\ IF ok THEN storeSetComponent(i, p)
                     ELSE UNCHANGED storeComponents
  /\ UNCHANGED <<proc, destroyed, bindings, storeBindings>>

(* The publisher's listener comes first and throws when it does not know   *)
(* the component; destroy() runs plugin code, which may throw.             *)
removeComponent(i) ==
  LET o == hosts[i]
  IN  /\ proc = "up"
      /\ o # None
      /\ components[i] # None
      /\ registryRemove(Local, i, o)
      /\ publisherRemove(o)
      /\ \/ /\ o \notin published
            /\ UNCHANGED <<managerVars, bindingVars, storeVars>>
         \/ /\ o \in published
            /\ EmitRemove({o})
            /\ \/ /\ hosts' = [hosts EXCEPT ![i] = None]
                  /\ storeRemoveComponent(i)
                  /\ UNCHANGED destroyed
               \/ /\ MayThrow(o)
                  /\ destroyed' = destroyed \cup {o}
                  /\ UNCHANGED <<hosts, storeComponents>>
            /\ UNCHANGED <<bindings, storeBindings>>
      /\ UNCHANGED proc

(* new Binding registers on the registry before its first initBinding can  *)
(* throw.                                                                  *)
addBinding(c) ==
  /\ proc = "up"
  /\ bindings[c] = None
  /\ \E t \in Tags, ok \in BOOLEAN :
       LET b == [config |-> c, tag |-> t]
           d == newBinding(c, components)
       IN  /\ FreshBinding(b)
           /\ ok \/ PushMayThrow(d)
           /\ live' = [x \in DOMAIN live \cup {b} |-> IF x = b THEN d ELSE live[x]]
           /\ order' = order \cup ((DOMAIN live) \X {b})
           /\ listeners' = [listeners EXCEPT ![b] = Listen(@, d)]
           /\ IF ok THEN bindings' = [bindings EXCEPT ![c] = b] /\ storeAddBinding(c)
              ELSE UNCHANGED <<bindings, storeBindings>>
  /\ UNCHANGED <<proc, registryVars, hosts, destroyed, storeComponents>>

(* Binding.close: off the registry, then both ends are removed.            *)
removeBinding(c) ==
  LET b == bindings[c]
  IN  /\ proc = "up"
      /\ b # None
      /\ live' = [x \in DOMAIN live \ {b} |-> live[x]]
      /\ order' = {xy \in order : b \notin {xy[1], xy[2]}}
      /\ listeners' = [listeners EXCEPT ![b] = Unlisten(@, live[b])]
      /\ bindings' = [bindings EXCEPT ![c] = None]
      /\ storeRemoveBinding(c)
      /\ UNCHANGED <<proc, registryVars, hosts, destroyed, storeComponents>>

-----------------------------------------------------------------------------
(* BusInstance: remote components come and go with the messages of the     *)
(* bus, from the construction of the manager to the end of the process.    *)

From(S, o) == o # None /\ o.instance \in S

Running == proc \in {"boot", "up", "terminated"}

(* set: 'set semantic', nothing when the id is known. A listener that      *)
(* throws ends the process on a live message; it is only logged when the   *)
(* view is first read (fireAsync).                                         *)
RemoteSet(r, i, p) ==
  /\ Running
  /\ <<r, i>> \in Hosts
  /\ components[i] = None
  /\ \E t \in Tags :
       LET o == newComponent(r, i, p, t) IN
       /\ FreshComponent(o)
       /\ \E called \in SUBSET DOMAIN live, ok \in BOOLEAN :
            registryAdd(o) /\ EmitAdd(o, called, ok)
  /\ UNCHANGED <<proc, published, managerVars, storeVars>>

(* clear: by id. The process ends when the id is unknown (getComponent     *)
(* throws) or is a local component's (a ComponentHost has no close).       *)
RemoteClear(r, i) ==
  /\ Running
  /\ <<r, i>> \in Hosts
  /\ \/ /\ ~From(Remotes, components[i])
        /\ Die
     \/ /\ From(Remotes, components[i])
        /\ registryRemove(r, i, components[i])
        /\ EmitRemove({components[i]})
        /\ UNCHANGED <<proc, published, managerVars, storeVars>>

(* close, when the instance goes offline.                                  *)
RemoteClose(r) ==
  LET gone == {components[i] : i \in {j \in Ids : From({r}, components[j])}}
  IN  /\ Running
      /\ gone # {}
      /\ components' = [i \in Ids |->
                          IF components[i] \in gone THEN None ELSE components[i]]
      /\ instances' = [instances EXCEPT ![r] = @ \ gone]
      /\ EmitRemove(gone)
      /\ UNCHANGED <<proc, published, managerVars, storeVars>>

-----------------------------------------------------------------------------
(* The life of the process.                                                *)

(* The orders in which the elements of a finite set can be enumerated, as  *)
(* relations.                                                              *)
Orders(S) ==
  LET N == 1..Cardinality(S)
  IN  {{<<s[mn[1]], s[mn[2]]>> : mn \in {x \in N \X N : x[1] < x[2]}} :
         s \in {f \in [N -> S] : /\ \A x \in S : \E n \in N : f[n] = x
                                 /\ \A m, n \in N : f[m] = f[n] => m = n}}

(* init, after the store is loaded: every component, then every binding.   *)
(* Anything that throws ends the process, the constructors of the plugins  *)
(* included (in addComponent they run before anything is changed).         *)
init ==
  /\ proc = "boot"
  /\ \E t \in Tags :
       LET host == [i \in Ids |->
                      IF storeComponents[i] = None THEN None
                      ELSE newComponent(Local, i, storeComponents[i], t)]
           object == [c \in Configs |->
                        IF c \in storeBindings THEN [config |-> c, tag |-> t] ELSE None]
           added == {host[i] : i \in Ids} \ {None}
           created == {object[c] : c \in Configs} \ {None}
           registry == [i \in Ids |->
                          IF host[i] = None THEN components[i] ELSE host[i]]
           data == [b \in created |-> newBinding(b.config, registry)]
       IN  \/ /\ \/ \E i \in Ids : host[i] # None /\ components[i] # None
                 \/ \E o \in added : MayThrow(o)
                 \/ \E b \in created : PushMayThrow(data[b])
              /\ Die
           \/ /\ \A i \in Ids : host[i] # None => components[i] = None
              /\ proc' = "up"
              /\ hosts' = host
              /\ components' = registry
              /\ instances' = [instances EXCEPT ![Local] = added]
              /\ published' = added
              /\ bindings' = object
              /\ live' = data
              /\ order' \in Orders(created)
              /\ listeners' = [b \in BindingObject |->
                                 IF b \in created THEN Listen(listeners[b], data[b])
                                 ELSE listeners[b]]
              /\ UNCHANGED <<destroyed, storeVars>>

(* terminate: close the bindings of the map, then remove and destroy the   *)
(* hosts. It throws when a host is not in the registry or not published,   *)
(* or when a plugin's destroy does; the process then exits.                *)
terminate ==
  LET closed == {bindings[c] : c \in Configs} \ {None}
      removed == {hosts[i] : i \in Ids} \ {None}
      after == [b \in DOMAIN live \ closed |-> onComponentRemove(live[b], removed)]
  IN  /\ proc = "up"
      /\ \/ /\ \E o \in removed :
                components[o.id] = None \/ o \notin published \/ MayThrow(o)
            /\ Die
         \/ /\ \A o \in removed : components[o.id] # None /\ o \in published
            /\ proc' = "terminated"
            /\ bindings' = [c \in Configs |-> None]
            /\ hosts' = [i \in Ids |-> None]
            /\ destroyed' = {}
            /\ components' = [i \in Ids |->
                                IF hosts[i] # None THEN None ELSE components[i]]
            /\ instances' = [instances EXCEPT ![Local] = @ \ removed]
            /\ published' = {}
            /\ live' = after
            /\ order' = order \cap ((DOMAIN after) \X (DOMAIN after))
            /\ listeners' = [b \in BindingObject |->
                               IF b \in DOMAIN live
                                  /\ (b \in closed \/ after[b] # live[b])
                               THEN Unlisten(listeners[b], live[b])
                               ELSE listeners[b]]
            /\ UNCHANGED storeVars

(* A kill, the exit after terminate, or an exception that nobody catches   *)
(* (a plugin timer, an unknown plugin in a bus message, a binding target). *)
Exit == Running /\ Die

(* A new process loads what was last saved.                                *)
Restart ==
  /\ proc = "down"
  /\ proc' = "boot"
  /\ storeComponents' \in Loadable
  /\ storeBindings' \in SUBSET Configs
  /\ UNCHANGED <<registryVars, managerVars, bindingVars>>

Next ==
  \/ init
  \/ \E i \in Ids, p \in Plugins : addComponent(i, p)
  \/ \E i \in Ids : removeComponent(i)
  \/ \E c \in Configs : addBinding(c)
  \/ \E c \in Configs : removeBinding(c)
  \/ \E r \in Remotes, i \in Ids, p \in Plugins : RemoteSet(r, i, p)
  \/ \E r \in Remotes, i \in Ids : RemoteClear(r, i)
  \/ \E r \in Remotes : RemoteClose(r)
  \/ terminate
  \/ Exit
  \/ Restart

Spec == Init /\ [][Next]_vars

-----------------------------------------------------------------------------
(* Properties.                                                             *)

TypeOK ==
  /\ proc \in {"boot", "up", "terminated", "down"}
  /\ components \in [Ids -> Component \cup {None}]
  /\ instances \in [Instances -> SUBSET Component]
  /\ hosts \in [Ids -> Component \cup {None}]
  /\ destroyed \subseteq Component
  /\ published \subseteq Component
  /\ bindings \in [Configs -> BindingObject \cup {None}]
  /\ DOMAIN live \subseteq BindingObject
  /\ live \in [DOMAIN live -> BindingData]
  /\ order \subseteq (DOMAIN live) \X (DOMAIN live)
  /\ listeners \in [BindingObject -> [Component -> Nat]]
  /\ storeComponents \in Loadable
  /\ storeBindings \subseteq Configs

(* A binding listens exactly once to its source while it is active, and to *)
(* nothing else: whatever was added, removed or thrown, no 'state' listener*)
(* is leaked on a removed component or doubled, and none is missing.       *)
ListenerDiscipline ==
  \A b \in BindingObject, o \in Component :
    listeners[b][o] =
      IF b \in DOMAIN live /\ active(live[b]) /\ live[b].source = o THEN 1 ELSE 0

(* The ends of a registered binding are the components that the registry   *)
(* holds under the configured ids, and its errors are those of these two.  *)
NoStaleEndpoint ==
  \A b \in DOMAIN live :
    LET d == live[b] IN
    /\ d.source # None => components[b.config.sourceComponent] = d.source
    /\ d.target # None => components[b.config.targetComponent] = d.target
    /\ d.errors = IF d.source = None \/ d.target = None THEN {}
                  ELSE BindingErrors(b.config, d.source.plugin, d.target.plugin)

(* No binding misses a component of the registry.                          *)
NoMissedEndpoint ==
  \A b \in DOMAIN live : live[b] = newBinding(b.config, components)

(* The two indexes of the registry agree.                                  *)
RegistryIndexes ==
  \A n \in Instances :
    instances[n] = {components[i] : i \in {j \in Ids : From({n}, components[j])}}

(* The bus publisher follows exactly the local components of the registry, *)
(* and each of them is a host of the manager.                              *)
PublishedAreLocal ==
  /\ published = instances[Local]
  /\ \A o \in published : hosts[o.id] = o /\ o \notin destroyed

(* The maps of the manager hold what their keys say, a binding of the map  *)
(* is registered (removeBinding closes a live object), a destroyed host    *)
(* still in the map is out of the registry for good, and outside the       *)
(* running phase nothing is left.                                          *)
ManagedAreLive ==
  /\ \A i \in Ids :
       /\ components[i] # None => components[i].id = i
       /\ hosts[i] # None => hosts[i].id = i /\ hosts[i].instance = Local
  /\ \A o \in destroyed : hosts[o.id] = o /\ components[o.id] = None
  /\ \A c \in Configs : bindings[c] # None =>
       bindings[c] \in DOMAIN live /\ bindings[c].config = c
  /\ proc # "up" => /\ \A i \in Ids : hosts[i] = None
                    /\ \A c \in Configs : bindings[c] = None
  /\ proc \in {"boot", "down"} => DOMAIN live = {}

(* The maps that record the same components agree: the two indexes of the  *)
(* registry, the publisher's map and the two maps of the manager. Each is  *)
(* updated by a line of its own, and plugin code may throw between them.   *)
MapsConsistent == RegistryIndexes /\ PublishedAreLocal /\ ManagedAreLive

(* No binding can run an action of a destroyed host, or read its state: a  *)
(* local end is a host of the manager that was not destroyed.              *)
NoDestroyedEndpoint ==
  \A b \in DOMAIN live : \A o \in {live[b].source, live[b].target} :
    From({Local}, o) => hosts[o.id] = o /\ o \notin destroyed

(* What components.list and bindings.list report, and save writes, is      *)
(* running: stored components have a host, stored bindings an object.      *)
StoreIsRunning ==
  proc = "up" =>
    /\ \A i \in Ids : storeComponents[i] # None =>
          hosts[i] # None /\ hosts[i].plugin = storeComponents[i]
    /\ storeBindings = {c \in Configs : bindings[c] # None}

(* ... and when nothing throws, it is exactly what is running: the         *)
(* registry's local components and one live binding per stored one.        *)
StoreIsExact ==
  proc = "up" =>
    /\ \A i \in Ids :
         storeComponents[i] =
           IF From({Local}, components[i]) THEN components[i].plugin ELSE None
    /\ DOMAIN live = {bindings[c] : c \in storeBindings}

(* When nothing throws, every map is exact: no binding misses a component  *)
(* of the registry or keeps a destroyed host, the indexes agree, and what  *)
(* the store holds is what runs (component-manager.ts, registry.ts,        *)
(* binding.ts).                                                            *)
MapsExact ==
  TypeOK /\ MapsConsistent /\ NoDestroyedEndpoint /\ NoMissedEndpoint /\ StoreIsExact

-----------------------------------------------------------------------------
(* When no plugin throws, the runtime implements the wiring that its       *)
(* configuration describes: a stored binding carries values exactly while  *)
(* both its ends are present and fit.                                      *)

Wires == INSTANCE Wiring WITH
  present <- [i \in Ids |-> IF components[i] = None THEN None ELSE components[i].plugin],
  configured <- {b.config : b \in DOMAIN live},
  wired <- {b.config : b \in {x \in DOMAIN live :
              live[x].source # None /\ live[x].target # None
              /\ listeners[x][live[x].source] > 0}}

WiresSpec == Wires!Spec
=============================================================================
