---------------------------- MODULE WiringProofs ----------------------------
(***************************************************************************)
(* What the component runtime guarantees when no plugin throws: its maps   *)
(* are exact, and it implements the abstract Wiring.  Built on the         *)
(* invariant of ComponentManagerProofs, which holds whatever plugins do.   *)
(***************************************************************************)
EXTENDS ComponentManagerProofs

(* Both ends of a binding are what the registry holds under their ids (the *)
(* source wins when a configuration names one component at both ends).     *)
Complete(c, d, reg) ==
  /\ d.source = reg[c.sourceComponent]
  /\ d.target = IF c.targetComponent = c.sourceComponent THEN None
                ELSE reg[c.targetComponent]

(* What the absence of throws adds to IInv: registered bindings are those  *)
(* of the manager and miss no component; a host is in the registry, and in *)
(* the store.                                                              *)
BindingsExact ==
  \A b \in DOMAIN live :
    Complete(b.config, live[b], components) /\ bindings[b.config] = b

HostsExact ==
  \A i \in Ids : hosts[i] # None =>
    /\ components[i] = hosts[i]
    /\ proc = "up" => storeComponents[i] = hosts[i].plugin

ExactInv == IInv /\ BindingsExact /\ HostsExact

-----------------------------------------------------------------------------
(* The operations of a Binding.                                            *)

(* The constructor looks both ends up.                                     *)
LEMMA NewComplete ==
  ASSUME NEW c \in Configs, NEW reg \in Registry
  PROVE  Complete(c, newBinding(c, reg), reg)
BY DEF Complete, newBinding, initBinding

(* A sound binding with both ends looked up is what a new one would be.    *)
LEMMA CompleteIsNew ==
  ASSUME NEW c \in Configs, NEW d \in BindingData, NEW reg \in Registry,
         Sound(c, d, reg), Complete(c, d, reg)
  PROVE  d = newBinding(c, reg)
<1>1. d = [source |-> d.source, target |-> d.target, errors |-> d.errors]
  BY DEF BindingData
<1>2. CASE d.source = None \/ d.target = None
  BY <1>1, <1>2 DEF Sound, Complete, newBinding, initBinding
<1>3. CASE ~(d.source = None \/ d.target = None)
  BY <1>1, <1>3 DEF Sound, Complete, newBinding, initBinding
<1> QED BY <1>2, <1>3

(* onComponentAdd misses nothing when the id was free.                     *)
LEMMA AddComplete ==
  ASSUME NEW c \in Configs, NEW d \in BindingData, NEW o \in Component,
         NEW reg \in Registry, reg[o.id] = None, Complete(c, d, reg)
  PROVE  Complete(c, onComponentAdd(c, d, o), [reg EXCEPT ![o.id] = o])
<1> DEFINE after == onComponentAdd(c, d, o)
<1>1. o.id \in Ids /\ c.sourceComponent \in Ids /\ c.targetComponent \in Ids
  BY ComponentFields, ConfigFields
<1>2. /\ after.source = IF o.id = c.sourceComponent THEN o ELSE d.source
      /\ after.target = IF o.id # c.sourceComponent /\ o.id = c.targetComponent THEN o
                        ELSE d.target
  BY DEF onComponentAdd, initBinding, BindingData
<1> QED BY <1>1, <1>2 DEF Complete, Registry

(* onComponentRemove forgets exactly what left.                            *)
LEMMA RemoveComplete ==
  ASSUME NEW c \in Configs, NEW d \in BindingData, NEW S \in SUBSET Component,
         NEW reg \in Registry, NEW reg2 \in Registry,
         \A i \in Ids : reg2[i] = IF reg[i] \in S THEN None ELSE reg[i],
         Complete(c, d, reg)
  PROVE  Complete(c, onComponentRemove(d, S), reg2)
<1>1. None \notin S /\ c.sourceComponent \in Ids /\ c.targetComponent \in Ids
  BY NoneAssumption, ConfigFields
<1> QED BY <1>1 DEF Complete, onComponentRemove

-----------------------------------------------------------------------------
(* The emissions.                                                          *)

(* component.add reaches every binding, and misses nothing.                *)
LEMMA EmitAddExact ==
  ASSUME Faulty = {}, BindingInv, components \in Registry, BindingsExact,
         NEW o \in Component, NEW called \in SUBSET DOMAIN live, NEW ok \in BOOLEAN,
         components[o.id] = None,
         components' = [components EXCEPT ![o.id] = o],
         EmitAdd(o, called, ok), bindings' = bindings
  PROVE  ok /\ BindingsExact'
<1>1. ok /\ called = DOMAIN live
  BY DEF EmitAdd, PushMayThrow, MayThrow
<1>2. ASSUME NEW b \in DOMAIN live
      PROVE  Complete(b.config, live'[b], components')
  <2>1. /\ b.config \in Configs /\ live[b] \in BindingData
        /\ Complete(b.config, live[b], components)
    BY DEF BindingInv, BindingObject, BindingsExact
  <2>2. live'[b] = onComponentAdd(b.config, live[b], o)
    BY <1>1 DEF EmitAdd
  <2> QED BY <2>1, <2>2, AddComplete
<1>3. DOMAIN live' = DOMAIN live
  BY DEF EmitAdd
<1> QED BY <1>1, <1>2, <1>3 DEF BindingsExact

(* component.remove for the components of S.                               *)
LEMMA EmitRemoveExact ==
  ASSUME BindingInv, components \in Registry, components' \in Registry, BindingsExact,
         NEW S \in SUBSET Component,
         \A i \in Ids : components'[i] = IF components[i] \in S THEN None ELSE components[i],
         EmitRemove(S), bindings' = bindings
  PROVE  BindingsExact'
<1>1. ASSUME NEW b \in DOMAIN live
      PROVE  Complete(b.config, live'[b], components')
  <2>1. /\ b.config \in Configs /\ live[b] \in BindingData
        /\ Complete(b.config, live[b], components)
    BY DEF BindingInv, BindingObject, BindingsExact
  <2>2. live'[b] = onComponentRemove(live[b], S)
    BY DEF EmitRemove
  <2> QED BY <2>1, <2>2, RemoveComplete
<1>2. DOMAIN live' = DOMAIN live
  BY DEF EmitRemove
<1> QED BY <1>1, <1>2 DEF BindingsExact

-----------------------------------------------------------------------------
(* One lemma per operation: what it does to the two maps of the runtime    *)
(* that the abstract Wiring shows, and that it keeps ExactInv.             *)

LEMMA InitExact == Init => BindingsExact /\ HostsExact
BY DEF Init, Blank, BindingsExact, HostsExact, NoBinding

LEMMA DieExact == Die => BindingsExact' /\ HostsExact' /\ DOMAIN live' = {}
BY DEF Die, BindingsExact, HostsExact, NoBinding

(* addComponent never finds the id taken, and never ends early.            *)
LEMMA AddComponentExact ==
  ASSUME Faulty = {}, UniqueHosts, ExactInv, NEW i \in Ids, NEW p \in Plugins,
         addComponent(i, p)
  PROVE  /\ BindingsExact' /\ HostsExact'
         /\ components[i] = None /\ DOMAIN live' = DOMAIN live
         /\ \E o \in Component : o.plugin = p /\ components' = [components EXCEPT ![i] = o]
<1> USE DEF ExactInv, IInv
<1>1. /\ <<Local, i>> \in Hosts /\ hosts[i] = None
      /\ UNCHANGED <<proc, destroyed, bindings, storeBindings>>
  BY DEF addComponent
<1>2. components[i] = None
  BY <1>1, LocalRegistered, RegisteredFields
<1>3. PICK t \in Tags, called \in SUBSET DOMAIN live, ok \in BOOLEAN :
        LET o == newComponent(Local, i, p, t) IN
        /\ hosts' = [hosts EXCEPT ![i] = o]
        /\ registryAdd(o)
        /\ EmitAdd(o, called, ok)
        /\ IF ok THEN storeSetComponent(i, p) ELSE UNCHANGED storeComponents
  BY <1>2 DEF addComponent
<1> DEFINE o == newComponent(Local, i, p, t)
<1>4. o \in Component /\ o.id = i /\ o.plugin = p
  BY <1>1, NewComponentType DEF Instances
<1> HIDE DEF o
<1>5. components' = [components EXCEPT ![i] = o]
  BY <1>3, <1>4 DEF registryAdd, o
<1>6. ok /\ BindingsExact'
  <2>1. EmitAdd(o, called, ok) /\ components[o.id] = None
        /\ components' = [components EXCEPT ![o.id] = o]
    BY <1>2, <1>3, <1>4, <1>5 DEF o
  <2>2. BindingInv /\ components \in Registry /\ bindings' = bindings
    BY <1>1 DEF MapInv
  <2> QED BY <1>4, <2>1, <2>2, EmitAddExact
<1>7. HostsExact'
  <2>1. /\ hosts' = [hosts EXCEPT ![i] = o]
        /\ storeComponents' = [storeComponents EXCEPT ![i] = p]
    BY <1>3, <1>6 DEF o, storeSetComponent
  <2> QED BY <1>1, <1>4, <1>5, <2>1 DEF HostsExact, MapInv, Registry, Loadable
<1>8. DOMAIN live' = DOMAIN live
  BY <1>3 DEF EmitAdd
<1> QED BY <1>2, <1>4, <1>5, <1>6, <1>7, <1>8

(* removeComponent always finds the component, and destroy() succeeds.     *)
LEMMA RemoveComponentExact ==
  ASSUME Faulty = {}, UniqueHosts, ExactInv, NEW i \in Ids, removeComponent(i)
  PROVE  /\ BindingsExact' /\ HostsExact'
         /\ DOMAIN live' = DOMAIN live
         /\ components' = [components EXCEPT ![i] = None]
<1> USE DEF ExactInv, IInv
<1> DEFINE o == hosts[i]
<1>1. /\ o # None /\ components[i] # None
      /\ components' = [components EXCEPT ![i] = None]
      /\ UNCHANGED <<proc>>
  BY DEF removeComponent, registryRemove
<1>2. o \in Component /\ o.id = i /\ o.instance = Local /\ <<Local, i>> \in Hosts
  BY SMTT(60), <1>1, ComponentFields DEF MapInv, Registry, ManagedAreLive
<1>3. components[i] = o /\ o \in published
  BY <1>1, <1>2, LocalRegistered
<1>4. /\ EmitRemove({o})
      /\ hosts' = [hosts EXCEPT ![i] = None]
      /\ storeComponents' = [storeComponents EXCEPT ![i] = None]
      /\ bindings' = bindings
  BY <1>3 DEF removeComponent, storeRemoveComponent, MayThrow
<1> HIDE DEF o
<1>5. /\ components' \in Registry
      /\ \A j \in Ids : components'[j] = IF components[j] \in {o} THEN None ELSE components[j]
  <2>1. \A j \in Ids : components[j] = o => j = i
    BY <1>1, <1>2 DEF MapInv, ManagedAreLive
  <2> QED BY <1>1, <1>3, <2>1 DEF MapInv, Registry
<1>6. BindingsExact'
  <2>1. BindingInv /\ components \in Registry /\ {o} \in SUBSET Component
    BY <1>2 DEF MapInv
  <2> QED BY <1>4, <1>5, <2>1, EmitRemoveExact
<1>7. HostsExact'
  BY <1>1, <1>4 DEF HostsExact, MapInv, Registry, Loadable
<1>8. DOMAIN live' = DOMAIN live
  BY <1>4 DEF EmitRemove
<1> QED BY <1>1, <1>6, <1>7, <1>8

(* addBinding keeps what it made.                                          *)
LEMMA AddBindingExact ==
  ASSUME Faulty = {}, ExactInv, NEW c \in Configs, addBinding(c)
  PROVE  /\ BindingsExact' /\ HostsExact'
         /\ components' = components
         /\ \A b \in DOMAIN live : b.config # c
         /\ \E b \in BindingObject : b.config = c /\ DOMAIN live' = DOMAIN live \cup {b}
<1> USE DEF ExactInv, IInv
<1>1. /\ bindings[c] = None
      /\ UNCHANGED <<proc, components, hosts, storeComponents>>
  BY DEF addBinding, registryVars
<1>2. PICK t \in Tags :
        LET b == [config |-> c, tag |-> t]
            d == newBinding(c, components)
        IN  /\ live' = [x \in DOMAIN live \cup {b} |-> IF x = b THEN d ELSE live[x]]
            /\ bindings' = [bindings EXCEPT ![c] = b]
  BY DEF addBinding, PushMayThrow, MayThrow
<1> DEFINE b == [config |-> c, tag |-> t]
           d == newBinding(c, components)
<1>3. b \in BindingObject /\ b.config = c /\ b # None
  BY NoneBindingAssumption DEF BindingObject
<1>4. \A x \in DOMAIN live : x.config # c /\ x.config \in Configs
  BY <1>1, NoneBindingAssumption DEF BindingsExact, BindingInv, BindingObject
<1>5. Complete(c, d, components)
  BY NewComplete DEF MapInv
<1>6. /\ live' = [x \in DOMAIN live \cup {b} |-> IF x = b THEN d ELSE live[x]]
      /\ bindings' = [bindings EXCEPT ![c] = b]
  BY <1>2
<1> HIDE DEF b, d
<1>7. BindingsExact'
  BY <1>1, <1>3, <1>4, <1>5, <1>6 DEF BindingsExact, MapInv
<1>8. HostsExact'
  BY <1>1 DEF HostsExact
<1> QED BY <1>1, <1>3, <1>4, <1>6, <1>7, <1>8

LEMMA RemoveBindingExact ==
  ASSUME ExactInv, NEW c \in Configs, removeBinding(c)
  PROVE  /\ BindingsExact' /\ HostsExact'
         /\ components' = components
         /\ \E b \in DOMAIN live : b.config = c
         /\ DOMAIN live' = {b \in DOMAIN live : b.config # c}
<1> USE DEF ExactInv, IInv
<1> DEFINE b == bindings[c]
<1>1. /\ b # None
      /\ live' = [x \in DOMAIN live \ {b} |-> live[x]]
      /\ bindings' = [bindings EXCEPT ![c] = None]
      /\ UNCHANGED <<proc, components, hosts, storeComponents>>
  BY DEF removeBinding, registryVars
<1>2. b \in DOMAIN live /\ b.config = c
  BY <1>1 DEF MapInv, ManagedAreLive
<1>3. \A x \in DOMAIN live : x.config \in Configs /\ (x.config = c <=> x = b)
  BY <1>2 DEF BindingsExact, BindingInv, BindingObject
<1> HIDE DEF b
<1>4. BindingsExact'
  BY <1>1, <1>3 DEF BindingsExact, MapInv
<1>5. HostsExact'
  BY <1>1 DEF HostsExact
<1> QED BY <1>1, <1>2, <1>3, <1>4, <1>5

LEMMA RemoteSetExact ==
  ASSUME Faulty = {}, ExactInv, NEW r \in Remotes, NEW i \in Ids, NEW p \in Plugins,
         RemoteSet(r, i, p)
  PROVE  /\ BindingsExact' /\ HostsExact'
         /\ components[i] = None /\ DOMAIN live' = DOMAIN live
         /\ \E o \in Component : o.plugin = p /\ components' = [components EXCEPT ![i] = o]
<1> USE DEF ExactInv, IInv
<1>1. /\ <<r, i>> \in Hosts /\ components[i] = None
      /\ UNCHANGED <<proc, hosts, bindings, storeComponents>>
  BY DEF RemoteSet, managerVars, storeVars
<1>2. PICK t \in Tags, called \in SUBSET DOMAIN live, ok \in BOOLEAN :
        LET o == newComponent(r, i, p, t) IN registryAdd(o) /\ EmitAdd(o, called, ok)
  BY DEF RemoteSet
<1> DEFINE o == newComponent(r, i, p, t)
<1>3. o \in Component /\ o.id = i /\ o.plugin = p
  BY <1>1, NewComponentType DEF Instances
<1> HIDE DEF o
<1>4. components' = [components EXCEPT ![i] = o]
  BY <1>2, <1>3 DEF registryAdd, o
<1>5. EmitAdd(o, called, ok)
  BY <1>2 DEF o
<1>6. BindingsExact'
  <2>1. components[o.id] = None /\ components' = [components EXCEPT ![o.id] = o]
    BY <1>1, <1>3, <1>4
  <2>2. BindingInv /\ components \in Registry /\ bindings' = bindings
    BY <1>1 DEF MapInv
  <2> QED BY <1>3, <1>5, <2>1, <2>2, EmitAddExact
<1>7. HostsExact'
  BY <1>1, <1>4 DEF HostsExact, MapInv, Registry
<1>8. DOMAIN live' = DOMAIN live
  BY <1>5 DEF EmitAdd
<1> QED BY <1>1, <1>3, <1>4, <1>6, <1>7, <1>8

(* A remote instance loses the components of S.                            *)
LEMMA RemoteRemoveExact ==
  ASSUME ExactInv, NEW S \in SUBSET Component, \A o \in S : o.instance # Local,
         components' \in Registry,
         \A j \in Ids : components'[j] = IF components[j] \in S THEN None ELSE components[j],
         EmitRemove(S), UNCHANGED <<proc, managerVars, storeVars>>
  PROVE  /\ BindingsExact' /\ HostsExact'
         /\ DOMAIN live' = DOMAIN live
         /\ components' = [j \in Ids |-> IF j \in {k \in Ids : components[k] \in S} THEN None
                                         ELSE components[j]]
<1> USE DEF ExactInv, IInv
<1>1. BindingsExact'
  BY EmitRemoveExact DEF MapInv, managerVars
<1>2. HostsExact'
  <2>1. \A i \in Ids : hosts[i] # None => hosts[i] \notin S
    BY DEF MapInv, ManagedAreLive
  <2> QED BY <2>1 DEF HostsExact, managerVars, storeVars
<1>3. DOMAIN live' = DOMAIN live
  BY DEF EmitRemove
<1> QED BY <1>1, <1>2, <1>3 DEF Registry

LEMMA RemoteClearExact ==
  ASSUME UniqueHosts, ExactInv, NEW r \in Remotes, NEW i \in Ids, RemoteClear(r, i)
  PROVE  /\ BindingsExact' /\ HostsExact'
         /\ \/ Die
            \/ /\ DOMAIN live' = DOMAIN live
               /\ components' = [j \in Ids |-> IF j \in {i} THEN None ELSE components[j]]
<1> USE DEF ExactInv, IInv
<1>1. CASE Die
  BY <1>1, DieExact
<1>2. CASE /\ From(Remotes, components[i])
           /\ components' = [components EXCEPT ![i] = None]
           /\ EmitRemove({components[i]})
           /\ UNCHANGED <<proc, managerVars, storeVars>>
  <2> DEFINE o == components[i]
  <2>1. o \in Component /\ o.id = i /\ o.instance # Local
    BY <1>2, RegisteredFields, ConstantsAssumption DEF From
  <2>2. \A j \in Ids : components[j] = o => j = i
    BY <2>1, ComponentFields DEF MapInv, ManagedAreLive
  <2>3. /\ components' \in Registry
        /\ \A j \in Ids : components'[j] = IF components[j] \in {o} THEN None
                                            ELSE components[j]
    BY <1>2, <2>2 DEF MapInv, Registry
  <2>4. /\ {o} \in SUBSET Component /\ \A x \in {o} : x.instance # Local
        /\ EmitRemove({o})
        /\ UNCHANGED <<proc, managerVars, storeVars>>
    BY <1>2, <2>1
  <2> HIDE DEF o
  <2>5. BindingsExact' /\ HostsExact' /\ DOMAIN live' = DOMAIN live
    BY <2>3, <2>4, RemoteRemoveExact
  <2> QED BY <1>2, <2>5 DEF MapInv, Registry
<1> QED BY <1>1, <1>2 DEF RemoteClear, registryRemove

LEMMA RemoteCloseExact ==
  ASSUME ExactInv, NEW r \in Remotes, RemoteClose(r)
  PROVE  /\ BindingsExact' /\ HostsExact'
         /\ DOMAIN live' = DOMAIN live
         /\ \E S \in SUBSET Ids :
              components' = [j \in Ids |-> IF j \in S THEN None ELSE components[j]]
<1> DEFINE gone == {components[i] : i \in {j \in Ids : From({r}, components[j])}}
<1>1. /\ components' = [i \in Ids |->
                         IF components[i] \in gone THEN None ELSE components[i]]
      /\ EmitRemove(gone)
      /\ UNCHANGED <<proc, managerVars, storeVars>>
  BY DEF RemoteClose
<1>2. gone \in SUBSET Component /\ \A o \in gone : o.instance # Local
  BY ConstantsAssumption DEF From, ExactInv, IInv, MapInv, Registry
<1> HIDE DEF gone
<1>3. /\ components' \in Registry
      /\ \A i \in Ids : components'[i] = IF components[i] \in gone THEN None ELSE components[i]
  BY <1>1 DEF ExactInv, IInv, MapInv, Registry
<1>4. /\ BindingsExact' /\ HostsExact' /\ DOMAIN live' = DOMAIN live
      /\ components' = [j \in Ids |-> IF j \in {k \in Ids : components[k] \in gone} THEN None
                                      ELSE components[j]]
  BY <1>1, <1>2, <1>3, RemoteRemoveExact
<1> QED BY <1>4

(* terminate closes every binding: none is registered that the manager     *)
(* does not know.                                                          *)
LEMMA TerminateExact ==
  ASSUME ExactInv, terminate
  PROVE  /\ BindingsExact' /\ HostsExact' /\ DOMAIN live' = {}
         /\ \E S \in SUBSET Ids :
              components' = [j \in Ids |-> IF j \in S THEN None ELSE components[j]]
<1>1. CASE Die
  <2>1. components' = [j \in Ids |-> IF j \in Ids THEN None ELSE components[j]]
    BY <1>1 DEF Die
  <2> QED BY <1>1, <2>1, DieExact
<1>2. CASE ~Die
  <2> DEFINE closed == {bindings[c] : c \in Configs} \ {None}
  <2>1. /\ hosts' = [i \in Ids |-> None]
        /\ components' = [i \in Ids |-> IF hosts[i] # None THEN None ELSE components[i]]
        /\ DOMAIN live' = DOMAIN live \ closed
    BY <1>2 DEF terminate
  <2>2. DOMAIN live \subseteq closed
    BY NoneBindingAssumption DEF ExactInv, IInv, BindingInv, BindingObject, BindingsExact
  <2>3. DOMAIN live' = {}
    BY <2>1, <2>2
  <2>4. BindingsExact' /\ HostsExact'
    BY <2>1, <2>3 DEF BindingsExact, HostsExact
  <2>5. components' = [j \in Ids |-> IF j \in {i \in Ids : hosts[i] # None} THEN None
                                     ELSE components[j]]
    BY <2>1
  <2> QED BY <2>3, <2>4, <2>5
<1> QED BY <1>1, <1>2

(* init brings the stored components and bindings, or the process dies     *)
(* because a stored id is taken by a remote component.                     *)
LEMMA InitStepExact ==
  ASSUME ExactInv, init
  PROVE  /\ BindingsExact' /\ HostsExact'
         /\ \/ Die
            \/ /\ DOMAIN live = {}
               /\ \A i \in Ids : components[i] # None => components'[i] = components[i]
<1> USE DEF ExactInv, IInv
<1>1. PICK t \in Tags :
       LET host == [i \in Ids |->
                      IF storeComponents[i] = None THEN None
                      ELSE newComponent(Local, i, storeComponents[i], t)]
           object == [c \in Configs |->
                        IF c \in storeBindings THEN [config |-> c, tag |-> t] ELSE None]
           created == {object[c] : c \in Configs} \ {None}
           registry == [i \in Ids |->
                          IF host[i] = None THEN components[i] ELSE host[i]]
           data == [b \in created |-> newBinding(b.config, registry)]
       IN  \/ Die
           \/ /\ \A i \in Ids : host[i] # None => components[i] = None
              /\ hosts' = host
              /\ components' = registry
              /\ bindings' = object
              /\ live' = data
              /\ UNCHANGED storeVars
  BY DEF init
<1> DEFINE host == [i \in Ids |->
                      IF storeComponents[i] = None THEN None
                      ELSE newComponent(Local, i, storeComponents[i], t)]
           object == [c \in Configs |->
                        IF c \in storeBindings THEN [config |-> c, tag |-> t] ELSE None]
           created == {object[c] : c \in Configs} \ {None}
           registry == [i \in Ids |->
                          IF host[i] = None THEN components[i] ELSE host[i]]
           data == [b \in created |-> newBinding(b.config, registry)]
<1>2. CASE Die
  BY <1>2, DieExact
<1>3. CASE ~Die
  <2>1. /\ \A i \in Ids : host[i] # None => components[i] = None
        /\ hosts' = host
        /\ components' = registry
        /\ bindings' = object
        /\ live' = data
        /\ UNCHANGED storeVars
    BY <1>1, <1>3
  <2>2. DOMAIN live = {}
    BY DEF init, MapInv, ManagedAreLive
  <2>3. \A i \in Ids : host[i] # None => host[i].plugin = storeComponents[i]
    BY DEF newComponent
  <2>4. \A b \in created : b.config \in Configs /\ object[b.config] = b
    OBVIOUS
  <2>5. registry \in Registry
    <3>1. components' \in Registry
      BY InitStepInv DEF MapInv
    <3> QED BY <2>1, <3>1
  <2>6. \A b \in created : Complete(b.config, data[b], registry)
    <3> HIDE DEF host, object, created, registry
    <3> QED BY <2>4, <2>5, NewComplete
  <2> HIDE DEF host, object, created
  <2>7. BindingsExact'
    BY <2>1, <2>4, <2>6 DEF BindingsExact
  <2>8. HostsExact'
    BY <2>1, <2>3 DEF HostsExact, storeVars
  <2> QED BY <2>1, <2>2, <2>7, <2>8
<1> QED BY <1>2, <1>3

LEMMA NextExact ==
  ASSUME Faulty = {}, UniqueHosts, ExactInv, [Next]_vars
  PROVE  ExactInv'
<1>1. IInv'
  BY NextInv DEF ExactInv
<1>2. BindingsExact' /\ HostsExact'
  <2>1. CASE init
    BY <2>1, InitStepExact
  <2>2. CASE \E i \in Ids, p \in Plugins : addComponent(i, p)
    BY <2>2, AddComponentExact
  <2>3. CASE \E i \in Ids : removeComponent(i)
    BY <2>3, RemoveComponentExact
  <2>4. CASE \E c \in Configs : addBinding(c)
    BY <2>4, AddBindingExact
  <2>5. CASE \E c \in Configs : removeBinding(c)
    BY <2>5, RemoveBindingExact
  <2>6. CASE \E r \in Remotes, i \in Ids, p \in Plugins : RemoteSet(r, i, p)
    BY <2>6, RemoteSetExact
  <2>7. CASE \E r \in Remotes, i \in Ids : RemoteClear(r, i)
    BY <2>7, RemoteClearExact
  <2>8. CASE \E r \in Remotes : RemoteClose(r)
    BY <2>8, RemoteCloseExact
  <2>9. CASE terminate
    BY <2>9, TerminateExact
  <2>10. CASE Exit
    BY <2>10, DieExact DEF Exit
  <2>11. CASE Restart
    BY <2>11 DEF Restart, registryVars, managerVars, bindingVars, ExactInv, BindingsExact,
                 HostsExact
  <2>12. CASE UNCHANGED vars
    BY <2>12 DEF vars, registryVars, managerVars, bindingVars, storeVars, ExactInv,
                 BindingsExact, HostsExact
  <2> QED BY <2>1, <2>2, <2>3, <2>4, <2>5, <2>6, <2>7, <2>8, <2>9, <2>10, <2>11, <2>12
          DEF Next
<1> QED BY <1>1, <1>2 DEF ExactInv

-----------------------------------------------------------------------------
(* What the invariant gives.                                               *)

LEMMA ExactImplies ==
  ASSUME ExactInv
  PROVE  MapsExact
<1> USE DEF ExactInv
<1>1. NoMissedEndpoint
  <2>1. ASSUME NEW b \in DOMAIN live
        PROVE  live[b] = newBinding(b.config, components)
    <3>1. /\ b.config \in Configs /\ live[b] \in BindingData /\ components \in Registry
          /\ Sound(b.config, live[b], components)
          /\ Complete(b.config, live[b], components)
      BY DEF IInv, MapInv, BindingInv, BindingObject, BindingsExact
    <3> QED BY <3>1, CompleteIsNew
  <2> QED BY <2>1 DEF NoMissedEndpoint
<1>2. StoreIsExact
  <2> SUFFICES ASSUME proc = "up" PROVE StoreIsExact
    BY DEF StoreIsExact
  <2>1. ASSUME NEW i \in Ids
        PROVE  storeComponents[i] =
                 IF From({Local}, components[i]) THEN components[i].plugin ELSE None
    <3>1. CASE From({Local}, components[i])
      <4> DEFINE o == components[i]
      <4>1. o \in Component /\ o.id = i /\ o.instance = Local
        BY <3>1, RegisteredFields DEF From, IInv
      <4>2. o \in published
        BY <4>1 DEF IInv, MapInv, Indexed, PublishedAreLocal, Instances
      <4>3. hosts[i] = o /\ o # None
        BY <4>1, <4>2, ComponentFields DEF IInv, MapInv, PublishedAreLocal
      <4> QED BY <3>1, <4>3 DEF HostsExact
    <3>2. CASE ~From({Local}, components[i])
      <4>1. hosts[i] = None
        BY <3>2 DEF HostsExact, From, IInv, MapInv, ManagedAreLive
      <4> QED BY <3>2, <4>1 DEF IInv, StoreIsRunning
    <3> QED BY <3>1, <3>2
  <2>2. DOMAIN live = {bindings[c] : c \in storeBindings}
    <3>1. storeBindings = {c \in Configs : bindings[c] # None}
      BY DEF IInv, StoreIsRunning
    <3>2. \A b \in DOMAIN live : b.config \in storeBindings /\ bindings[b.config] = b
      BY <3>1, NoneBindingAssumption DEF IInv, BindingInv, BindingObject, BindingsExact
    <3>3. \A c \in storeBindings : bindings[c] \in DOMAIN live
      BY <3>1 DEF IInv, MapInv, ManagedAreLive
    <3> QED BY <3>2, <3>3
  <2> QED BY <2>1, <2>2 DEF StoreIsExact
<1> QED BY <1>1, <1>2, InvImplies DEF MapsExact, MapsConsistent

(* When no plugin throws and no id is deployed twice, the maps of the      *)
(* runtime stay exact through every add, remove, message, termination and  *)
(* restart: bindings miss no component, and the store is what runs         *)
(* (component-manager.ts, registry.ts, binding.ts, store.ts).              *)
THEOREM MapsAreExact ==
  ASSUME Faulty = {}, UniqueHosts
  PROVE  Spec => []MapsExact
<1>1. Init => ExactInv
  BY InitInv, InitExact DEF ExactInv
<1>2. ExactInv /\ [Next]_vars => ExactInv'
  BY NextExact
<1>3. ExactInv => MapsExact
  BY ExactImplies
<1> QED BY <1>1, <1>2, <1>3, PTL DEF Spec

-----------------------------------------------------------------------------
(* The refinement. The three state functions under which ComponentManager  *)
(* instantiates Wiring.                                                    *)

Present ==
  [i \in Ids |-> IF components[i] = None THEN None ELSE components[i].plugin]

Configured == {b.config : b \in DOMAIN live}

Carries(b) ==
  /\ live[b].source # None /\ live[b].target # None
  /\ listeners[b][live[b].source] > 0

Carrying == {b.config : b \in {x \in DOMAIN live : Carries(x)}}

(* A binding carries values exactly when its configuration fits what is    *)
(* present: Rewire holds in every state.                                   *)
LEMMA CarryingFits ==
  ASSUME ExactInv
  PROVE  Carrying = {c \in Configured : Wires!Fits(c, Present)}
<1>1. ASSUME NEW b \in DOMAIN live
      PROVE  Carries(b) <=> Wires!Fits(b.config, Present)
  <2> DEFINE c == b.config
             d == live[b]
  <2>1. /\ c \in Configs /\ d \in BindingData /\ components \in Registry
        /\ listeners[b] \in Listeners
        /\ Sound(c, d, components) /\ Listening(listeners[b], d)
        /\ Complete(c, d, components)
    BY DEF ExactInv, IInv, MapInv, BindingInv, BindingObject, BindingsExact
  <2>2. c.sourceComponent \in Ids /\ c.targetComponent \in Ids
    BY <2>1, ConfigFields
  <2>3. Carries(b) <=> active(d)
    BY <2>1 DEF Carries, Listening, active, BindingData, Listeners
  <2>4. ASSUME NEW i \in Ids
        PROVE  /\ Present[i] # None <=> components[i] # None
               /\ components[i] # None => Present[i] = components[i].plugin
    BY <2>1, ComponentFields, ConstantsAssumption DEF Present, Registry
  <2> HIDE DEF c, d
  <2>5. active(d) <=>
          /\ components[c.sourceComponent] # None
          /\ components[c.targetComponent] # None
          /\ c.sourceComponent # c.targetComponent
          /\ BindingErrors(c, components[c.sourceComponent].plugin,
                              components[c.targetComponent].plugin) = {}
    BY <2>1 DEF active, Sound, Complete
  <2>6. active(d) <=> Wires!Fits(c, Present)
    BY <2>2, <2>4, <2>5 DEF Wires!Fits
  <2> QED BY <2>3, <2>6 DEF c
<1> QED BY <1>1 DEF Carrying, Configured

LEMMA RewireHolds == ExactInv' => Wires!Rewire
<1>1. ExactInv => Carrying = {c \in Configured : Wires!Fits(c, Present)}
  BY CarryingFits
<1>2. ExactInv' => (Carrying = {c \in Configured : Wires!Fits(c, Present)})'
  BY <1>1, PTL
<1> QED BY <1>2 DEF Wires!Rewire, Wires!Fits, Carrying, Carries, Configured, Present

(* A component object enters the registry.                                 *)
LEMMA AppearStep ==
  ASSUME ExactInv, ExactInv', NEW i \in Ids, NEW p \in Plugins, NEW o \in Component,
         o.plugin = p, components[i] = None,
         components' = [components EXCEPT ![i] = o], DOMAIN live' = DOMAIN live
  PROVE  Wires!Appear(i, p)
<1>1. o # None /\ components \in Registry
  BY ComponentFields DEF ExactInv, IInv, MapInv
<1>2. Present[i] = None /\ Present' = [Present EXCEPT ![i] = p]
  BY <1>1 DEF Present, Registry
<1>3. Configured' = Configured
  BY DEF Configured
<1> QED BY <1>2, <1>3, RewireHolds DEF Wires!Appear, Configured, Present

(* Components leave the registry.                                          *)
LEMMA VanishStep ==
  ASSUME ExactInv', NEW S \in SUBSET Ids,
         components' = [j \in Ids |-> IF j \in S THEN None ELSE components[j]],
         DOMAIN live' = DOMAIN live
  PROVE  Wires!Vanish(S)
<1>1. Present' = [i \in Ids |-> IF i \in S THEN None ELSE Present[i]]
  BY DEF Present
<1>2. Configured' = Configured
  BY DEF Configured
<1> QED BY <1>1, <1>2, RewireHolds DEF Wires!Vanish, Configured, Present

LEMMA StopStep ==
  ASSUME ExactInv', NEW S \in SUBSET Ids,
         components' = [j \in Ids |-> IF j \in S THEN None ELSE components[j]],
         DOMAIN live' = {}
  PROVE  Wires!Stop
<1>1. Present' = [i \in Ids |-> IF i \in S THEN None ELSE Present[i]]
  BY DEF Present
<1>2. Configured' = {}
  BY DEF Configured
<1> QED BY <1>1, <1>2, RewireHolds DEF Wires!Stop, Configured, Present

LEMMA DieStop ==
  ASSUME ExactInv', Die
  PROVE  Wires!Stop
<1>1. components' = [j \in Ids |-> IF j \in Ids THEN None ELSE components[j]]
  BY DEF Die
<1> QED BY <1>1, DieExact, StopStep

(* The start of the runtime.                                               *)
LEMMA StartStep ==
  ASSUME ExactInv, ExactInv', DOMAIN live = {},
         \A i \in Ids : components[i] # None => components'[i] = components[i]
  PROVE  Wires!Start
<1>1. Configured = {} /\ Configured' \subseteq Configs
  BY DEF Configured, ExactInv, IInv, BindingInv, BindingObject
<1>2. components \in Registry /\ components' \in Registry
  BY DEF ExactInv, IInv, MapInv
<1>3. Present' \in [Ids -> Plugins \cup {None}]
  BY <1>2, ComponentFields DEF Present, Registry
<1>4. \A i \in Ids : Present[i] # None => Present'[i] = Present[i]
  BY DEF Present
<1> QED BY <1>1, <1>3, <1>4, RewireHolds DEF Wires!Start, Configured, Present

(* Every step of the runtime is one step of the abstract wiring, or none.  *)
LEMMA WiringStep ==
  ASSUME Faulty = {}, UniqueHosts, ExactInv, [Next]_vars
  PROVE  [Wires!Next]_(Wires!wiringVars)
<1> USE NextExact DEF Wires!Next
<1>1. CASE init
  <2>1. CASE Die
    BY <2>1, DieStop
  <2>2. CASE ~Die
    BY <1>1, <2>2, InitStepExact, StartStep
  <2> QED BY <2>1, <2>2
<1>2. ASSUME NEW i \in Ids, NEW p \in Plugins, addComponent(i, p)
      PROVE  Wires!Next
  BY <1>2, AddComponentExact, AppearStep
<1>3. ASSUME NEW i \in Ids, removeComponent(i)
      PROVE  Wires!Next
  <2>1. components' = [j \in Ids |-> IF j \in {i} THEN None ELSE components[j]]
        /\ DOMAIN live' = DOMAIN live
    BY <1>3, RemoveComponentExact DEF ExactInv, IInv, MapInv, Registry
  <2> QED BY <2>1, VanishStep
<1>4. ASSUME NEW c \in Configs, addBinding(c)
      PROVE  Wires!Next
  <2>1. /\ components' = components
        /\ \A b \in DOMAIN live : b.config # c
        /\ \E b \in BindingObject : b.config = c /\ DOMAIN live' = DOMAIN live \cup {b}
    BY <1>4, AddBindingExact
  <2>2. c \notin Configured /\ Configured' = Configured \cup {c}
    BY <2>1 DEF Configured
  <2>3. Wires!Configure(c)
    BY <2>1, <2>2, RewireHolds DEF Wires!Configure, Configured
  <2> QED BY <2>3
<1>5. ASSUME NEW c \in Configs, removeBinding(c)
      PROVE  Wires!Next
  <2>1. /\ components' = components
        /\ \E b \in DOMAIN live : b.config = c
        /\ DOMAIN live' = {b \in DOMAIN live : b.config # c}
    BY <1>5, RemoveBindingExact
  <2>2. c \in Configured /\ Configured' = Configured \ {c}
    BY <2>1 DEF Configured
  <2>3. Wires!Unconfigure(c)
    BY <2>1, <2>2, RewireHolds DEF Wires!Unconfigure, Configured
  <2> QED BY <2>3
<1>6. ASSUME NEW r \in Remotes, NEW i \in Ids, NEW p \in Plugins, RemoteSet(r, i, p)
      PROVE  Wires!Next
  BY <1>6, RemoteSetExact, AppearStep
<1>7. ASSUME NEW r \in Remotes, NEW i \in Ids, RemoteClear(r, i)
      PROVE  Wires!Next
  <2>1. CASE Die
    BY <2>1, DieStop
  <2>2. CASE ~Die
    <3>1. /\ components' = [j \in Ids |-> IF j \in {i} THEN None ELSE components[j]]
          /\ DOMAIN live' = DOMAIN live
      BY <1>7, <2>2, RemoteClearExact
    <3> QED BY <3>1, VanishStep
  <2> QED BY <2>1, <2>2
<1>8. ASSUME NEW r \in Remotes, RemoteClose(r)
      PROVE  Wires!Next
  BY <1>8, RemoteCloseExact, VanishStep
<1>9. CASE terminate
  BY <1>9, TerminateExact, StopStep
<1>10. CASE Exit
  BY <1>10, DieStop DEF Exit
<1>11. CASE Restart
  BY <1>11 DEF Restart, registryVars, bindingVars, Wires!wiringVars
<1>12. CASE UNCHANGED vars
  BY <1>12 DEF vars, registryVars, bindingVars, Wires!wiringVars
<1> QED BY <1>1, <1>2, <1>3, <1>4, <1>5, <1>6, <1>7, <1>8, <1>9, <1>10, <1>11, <1>12
        DEF Next

(* When no plugin throws and no id is deployed twice, the component        *)
(* runtime implements the abstract wiring: at any time the bindings that   *)
(* carry values are exactly the configured ones whose two ends are present *)
(* and fit, whatever the order in which components, bindings and remote    *)
(* instances came and went.                                                *)
THEOREM WiringImplemented ==
  ASSUME Faulty = {}, UniqueHosts
  PROVE  Spec => WiresSpec
<1>1. Init => ExactInv
  BY InitInv, InitExact DEF ExactInv
<1>2. ExactInv /\ [Next]_vars => ExactInv'
  BY NextExact
<1>3. Init => Wires!Init
  BY DEF Init, Blank, NoBinding, Wires!Init
<1>4. ExactInv /\ [Next]_vars => [Wires!Next]_(Wires!wiringVars)
  BY WiringStep
<1> QED BY <1>1, <1>2, <1>3, <1>4, PTL DEF Spec, WiresSpec, Wires!Spec
=============================================================================
