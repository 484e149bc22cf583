----------------------- MODULE ComponentManagerProofs -----------------------
(***************************************************************************)
(* The safety of the component runtime, for any number of ids, instances,  *)
(* plugins, configurations and objects, whatever plugins throw, provided   *)
(* no id is deployed on two instances.                                     *)
(***************************************************************************)
EXTENDS ComponentManager, TLAPS

(* What NoStaleEndpoint says of one binding, for a registry reg.           *)
Sound(c, d, reg) ==
  /\ d.source # None => reg[c.sourceComponent] = d.source
  /\ d.target # None => reg[c.targetComponent] = d.target
  /\ d.errors = IF d.source = None \/ d.target = None THEN {}
                ELSE BindingErrors(c, d.source.plugin, d.target.plugin)

(* What ListenerDiscipline says of one registered binding.                 *)
Listening(ls, d) ==
  \A o \in Component : ls[o] = IF active(d) /\ d.source = o THEN 1 ELSE 0

Silent(ls) == \A o \in Component : ls[o] = 0

Registry == [Ids -> Component \cup {None}]
Listeners == [Component -> Nat]

-----------------------------------------------------------------------------
(* Component objects.                                                      *)

(* The fields of a component object.                                       *)
LEMMA ComponentFields ==
  \A o \in Component :
    /\ o.id \in Ids /\ o.instance \in Instances /\ o.plugin \in Plugins
    /\ <<o.instance, o.id>> \in Hosts
    /\ o # None
BY NoneAssumption DEF Component

(* new ComponentHost / new BusComponent makes a component object.          *)
LEMMA NewComponentType ==
  ASSUME NEW n \in Instances, NEW i \in Ids, NEW p \in Plugins, NEW t \in Tags,
         <<n, i>> \in Hosts
  PROVE  /\ newComponent(n, i, p, t) \in Component
         /\ newComponent(n, i, p, t).id = i
         /\ newComponent(n, i, p, t).instance = n
         /\ newComponent(n, i, p, t).plugin = p
BY DEF Component, newComponent

LEMMA ConfigFields ==
  \A c \in Configs : c.sourceComponent \in Ids /\ c.targetComponent \in Ids
BY ConstantsAssumption

LEMMA ErrorsType ==
  ASSUME NEW c, NEW p, NEW q
  PROVE  BindingErrors(c, p, q) \in SUBSET ErrorKinds
BY DEF BindingErrors

-----------------------------------------------------------------------------
(* The operations of a Binding.                                            *)

(* onComponentAdd: when the id was free, a sound binding stays sound for   *)
(* the extended registry, and listens once to its source if it became      *)
(* active.                                                                 *)
LEMMA AddSound ==
  ASSUME NEW c \in Configs, NEW d \in BindingData, NEW o \in Component,
         NEW reg \in Registry, NEW ls \in Listeners,
         reg[o.id] = None, Sound(c, d, reg), Listening(ls, d)
  PROVE  LET after == onComponentAdd(c, d, o) IN
         /\ after \in BindingData
         /\ Sound(c, after, [reg EXCEPT ![o.id] = o])
         /\ Concerns(c, o) => /\ Listen(ls, after) \in Listeners
                              /\ Listening(Listen(ls, after), after)
         /\ ~Concerns(c, o) => after = d
<1> DEFINE after == onComponentAdd(c, d, o)
           reg2 == [reg EXCEPT ![o.id] = o]
<1>1. o.id \in Ids /\ o # None /\ c.sourceComponent \in Ids /\ c.targetComponent \in Ids
  BY ComponentFields, ConfigFields
<1>2. CASE o.id = c.sourceComponent
  <2>1. d.source = None /\ d.errors = {} /\ d.target \in Component \cup {None}
    BY <1>1, <1>2 DEF Sound, BindingData
  <2>2. Silent(ls)
    BY <2>1 DEF Listening, active, Silent
  <2>3. CASE d.target = None
    <3>1. after = [source |-> o, target |-> None, errors |-> {}]
      BY <1>1, <1>2, <2>1, <2>3 DEF onComponentAdd, initBinding, BindingData
    <3> QED
      BY <1>1, <1>2, <2>1, <2>2, <3>1
      DEF BindingData, Sound, Listen, Listening, active, Silent, Concerns, Registry
  <2>4. CASE d.target # None
    <3>1. after = [source |-> o, target |-> d.target,
                   errors |-> BindingErrors(c, o.plugin, d.target.plugin)]
      BY <1>1, <1>2, <2>1, <2>4 DEF onComponentAdd, initBinding, BindingData
    <3>2. after \in BindingData
      BY <2>1, <3>1, ErrorsType DEF BindingData
    <3>3. Sound(c, after, reg2)
      BY <1>1, <1>2, <2>1, <2>4, <3>1 DEF Sound, Registry
    <3>4. Listen(ls, after) \in Listeners /\ Listening(Listen(ls, after), after)
      BY <2>2, <3>1 DEF Listen, Listening, active, Silent, Listeners
    <3> QED BY <1>2, <3>2, <3>3, <3>4 DEF Concerns
  <2> QED BY <2>3, <2>4
<1>3. CASE o.id # c.sourceComponent /\ o.id = c.targetComponent
  <2>1. d.target = None /\ d.errors = {} /\ d.source \in Component \cup {None}
    BY <1>1, <1>3 DEF Sound, BindingData
  <2>2. Silent(ls)
    BY <2>1 DEF Listening, active, Silent
  <2>3. CASE d.source = None
    <3>1. after = [source |-> None, target |-> o, errors |-> {}]
      BY <1>1, <1>3, <2>1, <2>3 DEF onComponentAdd, initBinding, BindingData
    <3> QED
      BY <1>1, <1>3, <2>1, <2>2, <3>1
      DEF BindingData, Sound, Listen, Listening, active, Silent, Concerns, Registry
  <2>4. CASE d.source # None
    <3>1. after = [source |-> d.source, target |-> o,
                   errors |-> BindingErrors(c, d.source.plugin, o.plugin)]
      BY <1>1, <1>3, <2>1, <2>4 DEF onComponentAdd, initBinding, BindingData
    <3>2. after \in BindingData
      BY <2>1, <3>1, ErrorsType DEF BindingData
    <3>3. Sound(c, after, reg2)
      BY <1>1, <1>3, <2>1, <2>4, <3>1 DEF Sound, Registry
    <3>4. Listen(ls, after) \in Listeners /\ Listening(Listen(ls, after), after)
      BY <2>1, <2>2, <2>4, <3>1 DEF Listen, Listening, active, Silent, Listeners
    <3> QED BY <1>3, <3>2, <3>3, <3>4 DEF Concerns
  <2> QED BY <2>3, <2>4
<1>4. CASE ~Concerns(c, o)
  <2>1. after = d
    BY <1>4 DEF Concerns, onComponentAdd
  <2>2. Sound(c, d, reg2)
    BY <1>1, <1>4 DEF Sound, Registry, Concerns
  <2> QED BY <1>4, <2>1, <2>2
<1> QED BY <1>2, <1>3, <1>4 DEF Concerns

(* Listeners that are not called on an add keep sound data.                *)
LEMMA SoundExtends ==
  ASSUME NEW c \in Configs, NEW d, NEW o \in Component, NEW reg \in Registry,
         reg[o.id] = None, Sound(c, d, reg)
  PROVE  Sound(c, d, [reg EXCEPT ![o.id] = o])
BY ComponentFields, ConfigFields DEF Sound, Registry

(* onComponentRemove and terminateBinding: a sound binding stays sound for *)
(* the registry without the components of S, and stops listening if it was *)
(* active.                                                                 *)
LEMMA RemoveSound ==
  ASSUME NEW c \in Configs, NEW d \in BindingData, NEW S \in SUBSET Component,
         NEW reg \in Registry, NEW reg2 \in Registry, NEW ls \in Listeners,
         \A i \in Ids : reg2[i] = IF reg[i] \in S THEN None ELSE reg[i],
         Sound(c, d, reg), Listening(ls, d)
  PROVE  LET after == onComponentRemove(d, S) IN
         /\ after \in BindingData
         /\ Sound(c, after, reg2)
         /\ after # d => Listening(Unlisten(ls, d), after)
<1> DEFINE after == onComponentRemove(d, S)
<1>1. None \notin S /\ c.sourceComponent \in Ids /\ c.targetComponent \in Ids
  BY NoneAssumption, ConfigFields
<1>2. /\ d.source \in Component \cup {None} /\ d.target \in Component \cup {None}
      /\ d.errors \in SUBSET ErrorKinds
      /\ d = [source |-> d.source, target |-> d.target, errors |-> d.errors]
  BY DEF BindingData
<1>3. after \in BindingData
  BY <1>2 DEF BindingData, onComponentRemove
<1>4. CASE d.source \notin S /\ d.target \notin S
  <2>1. after = d
    BY <1>2, <1>4 DEF onComponentRemove
  <2>2. Sound(c, d, reg2)
    BY <1>1, <1>4 DEF Sound, Registry
  <2> QED BY <1>3, <2>1, <2>2
<1>5. CASE d.source \in S \/ d.target \in S
  <2>1. after.errors = {} /\ (after.source = None \/ after.target = None)
    BY <1>5 DEF onComponentRemove
  <2>2. /\ after.source # None => after.source = d.source /\ d.source \notin S
        /\ after.target # None => after.target = d.target /\ d.target \notin S
    BY DEF onComponentRemove
  <2>3. Sound(c, after, reg2)
    BY <1>1, <2>1, <2>2 DEF Sound, Registry
  <2>4. ~active(after)
    BY <2>1 DEF active
  <2>5. Silent(Unlisten(ls, d))
    BY <1>2 DEF Unlisten, Listening, Silent, Listeners, active
  <2>6. Listening(Unlisten(ls, d), after)
    BY <2>4, <2>5 DEF Silent, Listening
  <2> QED BY <1>3, <2>3, <2>6
<1> QED BY <1>4, <1>5

(* terminateBinding leaves no listener.                                    *)
LEMMA UnlistenSilent ==
  ASSUME NEW d \in BindingData, NEW ls \in Listeners, Listening(ls, d)
  PROVE  Unlisten(ls, d) \in Listeners /\ Silent(Unlisten(ls, d))
<1>1. d.source \in Component \cup {None}
  BY DEF BindingData
<1>2. Silent(Unlisten(ls, d))
  BY <1>1 DEF Unlisten, Listening, Silent, Listeners, active
<1>3. CASE active(d) /\ ls[d.source] > 0
  <2>1. d.source \in Component /\ ls[d.source] = 1
    BY <1>1, <1>3 DEF active, Listening
  <2> QED BY <1>2, <1>3, <2>1 DEF Unlisten, Listeners
<1>4. CASE ~(active(d) /\ ls[d.source] > 0)
  BY <1>2, <1>4 DEF Unlisten
<1> QED BY <1>3, <1>4

(* The constructor of Binding, for an object nobody listens with yet.      *)
LEMMA NewSound ==
  ASSUME NEW c \in Configs, NEW reg \in Registry, NEW ls \in Listeners, Silent(ls)
  PROVE  LET d == newBinding(c, reg) IN
         /\ d \in BindingData
         /\ Sound(c, d, reg)
         /\ Listen(ls, d) \in Listeners
         /\ Listening(Listen(ls, d), d)
<1> DEFINE d == newBinding(c, reg)
           src == reg[c.sourceComponent]
           tgt == IF c.targetComponent = c.sourceComponent
                  THEN None ELSE reg[c.targetComponent]
<1>1. src \in Component \cup {None} /\ tgt \in Component \cup {None}
  BY ConfigFields DEF Registry
<1>2. CASE src = None \/ tgt = None
  <2>1. d = [source |-> src, target |-> tgt, errors |-> {}]
    BY <1>2 DEF newBinding, initBinding
  <2> QED BY <1>1, <1>2, <2>1 DEF BindingData, Sound, Listen, Listening, active, Silent
<1>3. CASE src # None /\ tgt # None
  <2>1. d = [source |-> src, target |-> tgt,
             errors |-> BindingErrors(c, src.plugin, tgt.plugin)]
    BY <1>3 DEF newBinding, initBinding
  <2>2. d \in BindingData
    BY <1>1, <2>1, ErrorsType DEF BindingData
  <2>3. Sound(c, d, reg)
    BY <1>3, <2>1 DEF Sound
  <2>4. Listen(ls, d) \in Listeners /\ Listening(Listen(ls, d), d)
    BY <1>1, <1>3, <2>1 DEF Listen, Listening, active, Silent, Listeners
  <2> QED BY <2>2, <2>3, <2>4
<1> QED BY <1>2, <1>3

-----------------------------------------------------------------------------
(* The invariant, in two halves: the bindings and the maps.                *)

(* TypeOK, ListenerDiscipline and NoStaleEndpoint for the bindings.        *)
BindingInv ==
  /\ DOMAIN live \subseteq BindingObject
  /\ live \in [DOMAIN live -> BindingData]
  /\ listeners \in [BindingObject -> Listeners]
  /\ \A b \in DOMAIN live :
       Sound(b.config, live[b], components) /\ Listening(listeners[b], live[b])
  /\ \A b \in BindingObject : b \notin DOMAIN live => Silent(listeners[b])

(* RegistryIndexes, element by element.                                    *)
Indexed(reg, inst) ==
  \A n \in Instances : \A o \in Component :
    o \in inst[n] <=> o.instance = n /\ reg[o.id] = o

(* The rest of TypeOK, with RegistryIndexes, PublishedAreLocal and         *)
(* ManagedAreLive.                                                         *)
MapInv ==
  /\ proc \in {"boot", "up", "terminated", "down"}
  /\ components \in Registry
  /\ instances \in [Instances -> SUBSET Component]
  /\ hosts \in Registry
  /\ destroyed \subseteq Component
  /\ published \subseteq Component
  /\ bindings \in [Configs -> BindingObject \cup {None}]
  /\ order \subseteq (DOMAIN live) \X (DOMAIN live)
  /\ storeComponents \in Loadable
  /\ storeBindings \subseteq Configs
  /\ Indexed(components, instances)
  /\ PublishedAreLocal
  /\ ManagedAreLive

IInv == BindingInv /\ MapInv /\ StoreIsRunning

LEMMA BindingInvMeans ==
  BindingInv <=> /\ DOMAIN live \subseteq BindingObject
                 /\ live \in [DOMAIN live -> BindingData]
                 /\ listeners \in [BindingObject -> Listeners]
                 /\ ListenerDiscipline
                 /\ NoStaleEndpoint
<1> SUFFICES ASSUME DOMAIN live \subseteq BindingObject
             PROVE  /\ NoStaleEndpoint <=>
                         \A b \in DOMAIN live : Sound(b.config, live[b], components)
                    /\ ListenerDiscipline <=>
                         /\ \A b \in DOMAIN live : Listening(listeners[b], live[b])
                         /\ \A b \in BindingObject :
                              b \notin DOMAIN live => Silent(listeners[b])
  BY DEF BindingInv
<1>1. NoStaleEndpoint <=>
        \A b \in DOMAIN live : Sound(b.config, live[b], components)
  BY DEF NoStaleEndpoint, Sound
<1>2. ListenerDiscipline <=>
        /\ \A b \in DOMAIN live : Listening(listeners[b], live[b])
        /\ \A b \in BindingObject : b \notin DOMAIN live => Silent(listeners[b])
  BY DEF ListenerDiscipline, Listening, Silent
<1> QED BY <1>1, <1>2

(* Emission of component.add, to all the bindings or to a first part.      *)
LEMMA EmitAddBindings ==
  ASSUME BindingInv, components \in Registry,
         NEW o \in Component, NEW called \in SUBSET DOMAIN live, NEW ok \in BOOLEAN,
         components[o.id] = None,
         components' = [components EXCEPT ![o.id] = o],
         EmitAdd(o, called, ok)
  PROVE  BindingInv' /\ DOMAIN live' = DOMAIN live
<1> DEFINE touched == {b \in called : Concerns(b.config, o)}
<1>1. DOMAIN live' = DOMAIN live
  BY DEF EmitAdd
<1>2. \A b \in DOMAIN live : b \in BindingObject /\ b.config \in Configs
  BY DEF BindingInv, BindingObject
<1>3. ASSUME NEW b \in BindingObject
      PROVE  listeners'[b] = IF b \in touched THEN Listen(listeners[b], live'[b])
                             ELSE listeners[b]
  BY <1>2 DEF EmitAdd
<1>4. ASSUME NEW b \in DOMAIN live
      PROVE  /\ live'[b] \in BindingData
             /\ listeners'[b] \in Listeners
             /\ Sound(b.config, live'[b], components')
             /\ Listening(listeners'[b], live'[b])
  <2>1. /\ b.config \in Configs /\ live[b] \in BindingData /\ listeners[b] \in Listeners
        /\ Sound(b.config, live[b], components) /\ Listening(listeners[b], live[b])
        /\ b \in BindingObject
    BY <1>2 DEF BindingInv
  <2>2. CASE b \notin called
    <3>1. live'[b] = live[b] /\ listeners'[b] = listeners[b]
      BY <1>3, <2>1, <2>2 DEF EmitAdd
    <3> QED BY <2>1, <3>1, SoundExtends
  <2>3. CASE b \in called
    <3>1. live'[b] = onComponentAdd(b.config, live[b], o)
      BY <2>3 DEF EmitAdd
    <3>2. listeners'[b] = IF Concerns(b.config, o) THEN Listen(listeners[b], live'[b])
                          ELSE listeners[b]
      BY <1>3, <2>1, <2>3
    <3>3. /\ live'[b] \in BindingData
          /\ Sound(b.config, live'[b], components')
          /\ Concerns(b.config, o) =>
               /\ Listen(listeners[b], live'[b]) \in Listeners
               /\ Listening(Listen(listeners[b], live'[b]), live'[b])
          /\ ~Concerns(b.config, o) => live'[b] = live[b]
      BY <2>1, <3>1, AddSound
    <3> QED BY <2>1, <3>2, <3>3
  <2> QED BY <2>2, <2>3
<1>5. ASSUME NEW b \in BindingObject, b \notin DOMAIN live
      PROVE  listeners'[b] = listeners[b]
  BY <1>3, <1>5
<1>6. \A b \in BindingObject : listeners'[b] \in Listeners
  BY <1>4, <1>5 DEF BindingInv
<1>7. listeners' \in [BindingObject -> Listeners]
  BY <1>6 DEF EmitAdd
<1>8. live' \in [DOMAIN live -> BindingData]
  BY <1>4 DEF EmitAdd
<1> QED BY <1>1, <1>4, <1>5, <1>7, <1>8 DEF BindingInv

(* Emission of component.remove for the components of S.                   *)
LEMMA EmitRemoveBindings ==
  ASSUME BindingInv, components \in Registry, components' \in Registry,
         NEW S \in SUBSET Component,
         \A i \in Ids : components'[i] = IF components[i] \in S THEN None ELSE components[i],
         EmitRemove(S)
  PROVE  BindingInv' /\ DOMAIN live' = DOMAIN live
<1>1. DOMAIN live' = DOMAIN live
  BY DEF EmitRemove
<1>2. ASSUME NEW b \in DOMAIN live
      PROVE  /\ live'[b] \in BindingData
             /\ listeners'[b] \in Listeners
             /\ Sound(b.config, live'[b], components')
             /\ Listening(listeners'[b], live'[b])
  <2>1. /\ b.config \in Configs /\ live[b] \in BindingData /\ listeners[b] \in Listeners
        /\ Sound(b.config, live[b], components) /\ Listening(listeners[b], live[b])
        /\ b \in BindingObject
    BY DEF BindingInv, BindingObject
  <2>2. live'[b] = onComponentRemove(live[b], S)
    BY DEF EmitRemove
  <2>3. listeners'[b] = IF live'[b] # live[b] THEN Unlisten(listeners[b], live[b])
                        ELSE listeners[b]
    BY <2>1 DEF EmitRemove
  <2> QED BY <2>1, <2>2, <2>3, RemoveSound, UnlistenSilent
<1>3. ASSUME NEW b \in BindingObject, b \notin DOMAIN live
      PROVE  listeners'[b] = listeners[b]
  BY <1>3 DEF EmitRemove
<1>4. \A b \in BindingObject : listeners'[b] \in Listeners
  BY <1>2, <1>3 DEF BindingInv
<1>5. listeners' \in [BindingObject -> Listeners]
  BY <1>4 DEF EmitRemove
<1>6. live' \in [DOMAIN live -> BindingData]
  BY <1>2 DEF EmitRemove
<1> QED BY <1>1, <1>2, <1>3, <1>5, <1>6 DEF BindingInv

-----------------------------------------------------------------------------
(* The maps.                                                               *)

LEMMA IndexedMeans ==
  ASSUME NEW reg \in Registry, NEW inst \in [Instances -> SUBSET Component],
         \A i \in Ids : reg[i] # None => reg[i].id = i
  PROVE  Indexed(reg, inst) <=>
         \A n \in Instances :
           inst[n] = {reg[i] : i \in {j \in Ids : From({n}, reg[j])}}
<1> DEFINE of(n) == {reg[i] : i \in {j \in Ids : From({n}, reg[j])}}
<1>1. ASSUME NEW n \in Instances, NEW o \in Component
      PROVE  o \in of(n) <=> o.instance = n /\ reg[o.id] = o
  <2>1. o.id \in Ids /\ o # None
    BY ComponentFields
  <2>2. o \in of(n) => o.instance = n /\ reg[o.id] = o
    BY DEF From
  <2>3. o.instance = n /\ reg[o.id] = o => o \in of(n)
    BY <2>1 DEF From
  <2> QED BY <2>2, <2>3
<1>2. ASSUME NEW n \in Instances
      PROVE  of(n) \subseteq Component
  BY DEF From, Registry
<1>3. ASSUME NEW n \in Instances
      PROVE  inst[n] \subseteq Component
  OBVIOUS
<1> HIDE DEF of
<1>4. ASSUME NEW n \in Instances
      PROVE  inst[n] = of(n) <=>
             \A o \in Component : o \in inst[n] <=> o.instance = n /\ reg[o.id] = o
  <2>1. inst[n] = of(n) <=> \A o \in Component : o \in inst[n] <=> o \in of(n)
    BY <1>2, <1>3, Zenon
  <2> QED BY <1>1, <2>1, Zenon
<1>5. Indexed(reg, inst) <=> \A n \in Instances : inst[n] = of(n)
  BY <1>4 DEF Indexed
<1> QED BY <1>5 DEF of

(* What the registry and the set of destroyed hosts hold.                  *)
LEMMA RegisteredFields ==
  ASSUME MapInv, NEW i \in Ids, components[i] # None
  PROVE  /\ components[i] \in Component /\ components[i].id = i
         /\ components[i].instance \in Instances
         /\ <<components[i].instance, i>> \in Hosts
<1>1. components[i] \in Component /\ components[i].id = i
  BY DEF MapInv, Registry, ManagedAreLive
<1> QED BY <1>1, ComponentFields

LEMMA DestroyedFields ==
  ASSUME MapInv, NEW x \in destroyed
  PROVE  /\ x \in Component /\ x.id \in Ids /\ x # None
         /\ hosts[x.id] = x /\ components[x.id] = None
         /\ x.instance = Local /\ <<Local, x.id>> \in Hosts
<1>1. x \in Component /\ hosts[x.id] = x /\ components[x.id] = None
  BY DEF MapInv, ManagedAreLive
<1>2. x.id \in Ids /\ x # None /\ <<x.instance, x.id>> \in Hosts
  BY <1>1, ComponentFields
<1>3. x.instance = Local
  BY <1>1, <1>2 DEF MapInv, ManagedAreLive
<1> QED BY <1>1, <1>2, <1>3

(* With unique hosts, a component registered under a local id is a host of *)
(* the manager, published and not destroyed.                               *)
LEMMA LocalRegistered ==
  ASSUME MapInv, UniqueHosts, NEW i \in Ids, <<Local, i>> \in Hosts, components[i] # None
  PROVE  /\ components[i] \in Component /\ components[i].instance = Local
         /\ components[i] \in published
         /\ hosts[i] = components[i]
         /\ components[i] \notin destroyed
<1> DEFINE o == components[i]
<1>1. o \in Component /\ o.id = i /\ o.instance \in Instances /\ <<o.instance, i>> \in Hosts
  BY ComponentFields DEF MapInv, Registry, ManagedAreLive
<1>2. o.instance = Local
  BY <1>1 DEF UniqueHosts, Instances
<1>3. o \in instances[Local]
  BY <1>1, <1>2 DEF MapInv, Indexed, Instances
<1>4. o \in published
  BY <1>3 DEF MapInv, PublishedAreLocal
<1> QED BY <1>1, <1>2, <1>4 DEF MapInv, PublishedAreLocal

(* The memory of a process that starts or has died.                        *)
LEMMA InitInv == Init => IInv
<1> SUFFICES ASSUME Init PROVE IInv
  OBVIOUS
<1> USE DEF Init, Blank
<1>1. BindingInv
  BY DEF BindingInv, NoBinding, NoListener, Listeners, Silent
<1>2. MapInv
  BY ComponentFields
  DEF MapInv, Registry, Indexed, PublishedAreLocal, ManagedAreLive, NoBinding, Instances
<1>3. StoreIsRunning
  BY DEF StoreIsRunning
<1> QED BY <1>1, <1>2, <1>3 DEF IInv

LEMMA DieInv ==
  ASSUME IInv, Die
  PROVE  IInv'
<1> USE DEF Die
<1>1. BindingInv'
  BY DEF BindingInv, NoBinding, NoListener, Listeners, Silent
<1>2. MapInv'
  BY ComponentFields
  DEF IInv, MapInv, Registry, Indexed, PublishedAreLocal, ManagedAreLive, NoBinding,
      Instances, storeVars
<1>3. StoreIsRunning'
  BY DEF StoreIsRunning
<1> QED BY <1>1, <1>2, <1>3 DEF IInv

(* A component object is added to the registry under a free id.            *)
LEMMA AddIndexed ==
  ASSUME MapInv, NEW o \in Component, components[o.id] = None,
         components' = [components EXCEPT ![o.id] = o],
         instances' = [instances EXCEPT ![o.instance] = @ \cup {o}]
  PROVE  /\ components' \in Registry
         /\ instances' \in [Instances -> SUBSET Component]
         /\ Indexed(components', instances')
         /\ \A i \in Ids : components'[i] # None => components'[i].id = i
<1>1. o.id \in Ids /\ o.instance \in Instances /\ o # None
  BY ComponentFields
<1>2. components' \in Registry /\ instances' \in [Instances -> SUBSET Component]
  BY <1>1 DEF MapInv, Registry
<1>3. ASSUME NEW n \in Instances, NEW x \in Component
      PROVE  x \in instances'[n] <=> x.instance = n /\ components'[x.id] = x
  <2>1. x \in instances[n] <=> x.instance = n /\ components[x.id] = x
    BY DEF MapInv, Indexed
  <2>2. x.id \in Ids /\ x # None
    BY ComponentFields
  <2>3. CASE x.id # o.id
    BY <1>1, <2>1, <2>2, <2>3 DEF MapInv, Registry
  <2>4. CASE x.id = o.id
    BY <1>1, <2>1, <2>2, <2>4 DEF MapInv, Registry
  <2> QED BY <2>3, <2>4
<1>4. \A i \in Ids : components'[i] # None => components'[i].id = i
  BY <1>1 DEF MapInv, Registry, ManagedAreLive
<1> QED BY <1>2, <1>3, <1>4 DEF Indexed

(* The components of S, all of instance n, are removed from the registry.  *)
LEMMA RemoveIndexed ==
  ASSUME MapInv, NEW n \in Instances, NEW S \in SUBSET Component,
         \A o \in S : o.instance = n,
         components' \in Registry,
         \A i \in Ids : components'[i] = IF components[i] \in S THEN None ELSE components[i],
         instances' = [instances EXCEPT ![n] = @ \ S]
  PROVE  /\ instances' \in [Instances -> SUBSET Component]
         /\ Indexed(components', instances')
         /\ \A i \in Ids : components'[i] # None => components'[i].id = i
<1>1. instances' \in [Instances -> SUBSET Component]
  BY DEF MapInv
<1>2. ASSUME NEW m \in Instances, NEW x \in Component
      PROVE  x \in instances'[m] <=> x.instance = m /\ components'[x.id] = x
  <2>1. x \in instances[m] <=> x.instance = m /\ components[x.id] = x
    BY DEF MapInv, Indexed
  <2>2. x.id \in Ids /\ x # None
    BY ComponentFields
  <2>3. instances'[m] = IF m = n THEN instances[m] \ S ELSE instances[m]
    BY DEF MapInv
  <2> QED BY <2>1, <2>2, <2>3
<1>3. \A i \in Ids : components'[i] # None => components'[i].id = i
  BY DEF MapInv, ManagedAreLive
<1> QED BY <1>1, <1>2, <1>3 DEF Indexed

-----------------------------------------------------------------------------
(* One lemma per operation.                                                *)

LEMMA AddComponentInv ==
  ASSUME IInv, UniqueHosts, NEW i \in Ids, NEW p \in Plugins, addComponent(i, p)
  PROVE  IInv'
<1> USE DEF IInv
<1>1. PICK t \in Tags :
        LET o == newComponent(Local, i, p, t) IN
        /\ FreshComponent(o)
        /\ hosts' = [hosts EXCEPT ![i] = o]
        /\ \/ /\ components[i] # None
              /\ UNCHANGED <<registryVars, bindingVars, storeComponents>>
           \/ /\ components[i] = None
              /\ registryAdd(o)
              /\ publisherAdd(o)
              /\ \E called \in SUBSET DOMAIN live, ok \in BOOLEAN :
                   /\ EmitAdd(o, called, ok)
                   /\ IF ok THEN storeSetComponent(i, p) ELSE UNCHANGED storeComponents
  BY DEF addComponent
<1> DEFINE o == newComponent(Local, i, p, t)
<1>2. /\ proc = "up" /\ <<Local, i>> \in Hosts /\ hosts[i] = None
      /\ UNCHANGED <<proc, destroyed, bindings, storeBindings>>
  BY DEF addComponent
<1>3. o \in Component /\ o.id = i /\ o.instance = Local /\ o.plugin = p /\ o # None
  BY <1>2, NewComponentType, ComponentFields DEF Instances
<1>4. components[i] = None
  BY <1>2, LocalRegistered DEF MapInv, Registry, ComponentFields
<1> HIDE DEF o
<1>5. PICK called \in SUBSET DOMAIN live, ok \in BOOLEAN :
        /\ EmitAdd(o, called, ok)
        /\ storeComponents' = IF ok THEN [storeComponents EXCEPT ![i] = p]
                              ELSE storeComponents
  BY <1>1, <1>4 DEF o, storeSetComponent
<1>6. /\ hosts' = [hosts EXCEPT ![i] = o]
      /\ components' = [components EXCEPT ![o.id] = o]
      /\ instances' = [instances EXCEPT ![o.instance] = @ \cup {o}]
      /\ published' = published \cup {o}
      /\ FreshComponent(o)
  BY <1>1, <1>3, <1>4 DEF o, registryAdd, publisherAdd
<1>7. BindingInv' /\ DOMAIN live' = DOMAIN live /\ order' = order
  BY <1>3, <1>4, <1>5, <1>6, EmitAddBindings DEF MapInv, EmitAdd
<1>8. /\ components' \in Registry
      /\ instances' \in [Instances -> SUBSET Component]
      /\ Indexed(components', instances')
      /\ \A j \in Ids : components'[j] # None => components'[j].id = j
  BY <1>3, <1>4, <1>6, AddIndexed
<1>9. hosts' \in Registry /\ published' \subseteq Component
  BY <1>3, <1>6 DEF MapInv, Registry
<1>10. storeComponents' \in Loadable
  BY <1>2, <1>5 DEF MapInv, Loadable
<1>11. o \notin destroyed
  BY <1>3, <1>6 DEF MapInv, ManagedAreLive, FreshComponent
<1>12. PublishedAreLocal'
  <2>1. published' = instances'[Local]
    BY <1>3, <1>6 DEF MapInv, PublishedAreLocal, Instances
  <2>2. ASSUME NEW x \in published'
        PROVE  hosts'[x.id] = x /\ x \notin destroyed'
    <3>1. CASE x = o
      BY <1>2, <1>3, <1>6, <1>11, <3>1 DEF MapInv, Registry
    <3>2. CASE x # o
      <4>1. x \in published /\ x \in Component /\ x.id \in Ids /\ x # None
        BY <1>6, <3>2, ComponentFields DEF MapInv
      <4>2. hosts[x.id] = x /\ x \notin destroyed
        BY <4>1 DEF MapInv, PublishedAreLocal
      <4>3. x.id # i
        BY <1>2, <4>1, <4>2
      <4> QED BY <1>2, <1>6, <4>1, <4>2, <4>3 DEF MapInv, Registry
    <3> QED BY <3>1, <3>2
  <2> QED BY <2>1, <2>2 DEF PublishedAreLocal
<1>13. ManagedAreLive'
  <2>1. \A j \in Ids : hosts'[j] # None => hosts'[j].id = j /\ hosts'[j].instance = Local
    BY <1>3, <1>6 DEF MapInv, ManagedAreLive, Registry
  <2>2. ASSUME NEW x \in destroyed'
        PROVE  hosts'[x.id] = x /\ components'[x.id] = None
    <3>1. /\ x \in Component /\ x.id \in Ids /\ x # None
          /\ hosts[x.id] = x /\ components[x.id] = None
      BY <1>2, ComponentFields DEF MapInv, ManagedAreLive
    <3>2. x.id # i
      BY <1>2, <3>1
    <3> QED BY <1>3, <1>6, <3>1, <3>2 DEF MapInv, Registry
  <2> QED BY <1>2, <1>7, <1>8, <2>1, <2>2 DEF MapInv, ManagedAreLive
<1>14. StoreIsRunning'
  BY <1>2, <1>3, <1>5, <1>6 DEF StoreIsRunning, MapInv, Registry, Loadable
<1>15. MapInv'
  BY <1>2, <1>7, <1>8, <1>9, <1>10, <1>12, <1>13 DEF MapInv
<1> QED BY <1>7, <1>14, <1>15

LEMMA RemoveComponentInv ==
  ASSUME IInv, UniqueHosts, NEW i \in Ids, removeComponent(i)
  PROVE  IInv'
<1> USE DEF IInv
<1> DEFINE o == hosts[i]
<1>1. /\ proc = "up" /\ o # None /\ components[i] # None
      /\ components' = [components EXCEPT ![i] = None]
      /\ instances' = [instances EXCEPT ![Local] = @ \ {o}]
      /\ published' = published \ {o}
      /\ UNCHANGED <<proc>>
  BY DEF removeComponent, registryRemove, publisherRemove
<1>2. o \in Component /\ o.id = i /\ o.instance = Local /\ <<Local, i>> \in Hosts
  BY SMTT(60), <1>1, ComponentFields DEF MapInv, Registry, ManagedAreLive
<1>3. components[i] = o /\ o \in published /\ o \notin destroyed
  BY <1>1, <1>2, LocalRegistered
<1>4. /\ EmitRemove({o})
      /\ UNCHANGED <<bindings, storeBindings>>
      /\ \/ /\ hosts' = [hosts EXCEPT ![i] = None]
            /\ storeComponents' = [storeComponents EXCEPT ![i] = None]
            /\ UNCHANGED destroyed
         \/ /\ destroyed' = destroyed \cup {o}
            /\ UNCHANGED <<hosts, storeComponents>>
  BY <1>3 DEF removeComponent, storeRemoveComponent
<1> HIDE DEF o
<1>5. /\ components' \in Registry
      /\ \A j \in Ids : components'[j] = IF components[j] \in {o} THEN None ELSE components[j]
  <2>1. \A j \in Ids : components[j] = o => j = i
    BY <1>1, <1>2 DEF MapInv, ManagedAreLive
  <2> QED BY <1>1, <1>3, <2>1 DEF MapInv, Registry
<1>6. BindingInv' /\ DOMAIN live' = DOMAIN live /\ order' = order
  <2>1. components \in Registry /\ BindingInv /\ {o} \in SUBSET Component
    BY <1>2 DEF MapInv
  <2>2. order' = order
    BY <1>4 DEF EmitRemove
  <2>3. EmitRemove({o})
    BY <1>4
  <2> QED BY <1>5, <2>1, <2>2, <2>3, EmitRemoveBindings
<1>7. /\ instances' \in [Instances -> SUBSET Component]
      /\ Indexed(components', instances')
      /\ \A j \in Ids : components'[j] # None => components'[j].id = j
  <2>1. /\ MapInv /\ Local \in Instances /\ {o} \in SUBSET Component
        /\ \A x \in {o} : x.instance = Local
        /\ instances' = [instances EXCEPT ![Local] = @ \ {o}]
    BY <1>1, <1>2 DEF Instances, o
  <2> QED BY <1>5, <2>1, RemoveIndexed
<1>8. /\ hosts' \in Registry /\ published' \subseteq Component
      /\ destroyed' \subseteq Component
  BY <1>1, <1>2, <1>4 DEF MapInv, Registry
<1>9. storeComponents' \in Loadable
  BY <1>4 DEF MapInv, Loadable
<1>10. PublishedAreLocal'
  <2>1. published' = instances'[Local]
    BY <1>1 DEF MapInv, PublishedAreLocal, Instances
  <2>2. ASSUME NEW x \in published'
        PROVE  hosts'[x.id] = x /\ x \notin destroyed'
    <3>1. /\ x \in Component /\ x.id \in Ids /\ x # o
          /\ hosts[x.id] = x /\ x \notin destroyed
      BY <1>1, ComponentFields DEF MapInv, PublishedAreLocal
    <3>2. x.id # i
      BY <3>1 DEF o
    <3> QED BY <1>4, <3>1, <3>2 DEF MapInv, Registry
  <2> QED BY <2>1, <2>2 DEF PublishedAreLocal
<1>11. ManagedAreLive'
  <2>1. \A j \in Ids : hosts'[j] # None => hosts'[j].id = j /\ hosts'[j].instance = Local
    BY <1>4 DEF MapInv, ManagedAreLive, Registry
  <2>2. ASSUME NEW x \in destroyed'
        PROVE  hosts'[x.id] = x /\ components'[x.id] = None
    <3>1. CASE x \in destroyed
      <4>1. /\ x \in Component /\ x.id \in Ids
            /\ hosts[x.id] = x /\ components[x.id] = None
        BY <3>1, ComponentFields DEF MapInv, ManagedAreLive
      <4>2. x.id # i
        BY <1>1, <4>1
      <4> QED BY <1>1, <1>4, <4>1, <4>2 DEF MapInv, Registry
    <3>2. CASE x \notin destroyed
      BY <1>1, <1>2, <1>4, <3>2 DEF MapInv, Registry, o
    <3> QED BY <3>1, <3>2
  <2> QED BY <1>1, <1>4, <1>6, <1>7, <2>1, <2>2 DEF MapInv, ManagedAreLive
<1>12. StoreIsRunning'
  BY <1>1, <1>4 DEF StoreIsRunning, MapInv, Registry, Loadable
<1>13. MapInv'
  BY <1>1, <1>4, <1>5, <1>6, <1>7, <1>8, <1>9, <1>10, <1>11 DEF MapInv
<1> QED BY <1>6, <1>12, <1>13

LEMMA AddBindingInv ==
  ASSUME IInv, NEW c \in Configs, addBinding(c)
  PROVE  IInv'
<1> USE DEF IInv
<1>1. PICK t \in Tags, ok \in BOOLEAN :
        LET b == [config |-> c, tag |-> t]
            d == newBinding(c, components)
        IN  /\ FreshBinding(b)
            /\ live' = [x \in DOMAIN live \cup {b} |-> IF x = b THEN d ELSE live[x]]
            /\ order' = order \cup ((DOMAIN live) \X {b})
            /\ listeners' = [listeners EXCEPT ![b] = Listen(@, d)]
            /\ bindings' = IF ok THEN [bindings EXCEPT ![c] = b] ELSE bindings
            /\ storeBindings' = IF ok THEN storeBindings \cup {c} ELSE storeBindings
  BY DEF addBinding, storeAddBinding
<1> DEFINE b == [config |-> c, tag |-> t]
           d == newBinding(c, components)
<1>2. /\ proc = "up" /\ bindings[c] = None
      /\ UNCHANGED <<proc, registryVars, hosts, destroyed, storeComponents>>
  BY DEF addBinding
<1>3. b \in BindingObject /\ b.config = c /\ b # None
  BY NoneBindingAssumption DEF BindingObject
<1>4. b \notin DOMAIN live /\ Silent(listeners[b]) /\ listeners[b] \in Listeners
  BY <1>1, <1>3 DEF FreshBinding, Silent, BindingInv
<1>5. /\ d \in BindingData
      /\ Sound(c, d, components)
      /\ Listen(listeners[b], d) \in Listeners
      /\ Listening(Listen(listeners[b], d), d)
  BY <1>4, NewSound DEF MapInv
<1>6. /\ live' = [x \in DOMAIN live \cup {b} |-> IF x = b THEN d ELSE live[x]]
      /\ order' = order \cup ((DOMAIN live) \X {b})
      /\ listeners' = [listeners EXCEPT ![b] = Listen(@, d)]
      /\ bindings' = IF ok THEN [bindings EXCEPT ![c] = b] ELSE bindings
      /\ storeBindings' = IF ok THEN storeBindings \cup {c} ELSE storeBindings
  BY <1>1
<1> HIDE DEF b, d
<1>7. BindingInv'
  <2>1. DOMAIN live' = DOMAIN live \cup {b}
    BY <1>6
  <2>2. DOMAIN live' \subseteq BindingObject /\ live' \in [DOMAIN live' -> BindingData]
    BY <1>3, <1>5, <1>6, <2>1 DEF BindingInv
  <2>3. listeners' \in [BindingObject -> Listeners]
    BY <1>3, <1>5, <1>6 DEF BindingInv
  <2>4. components' = components
    BY <1>2 DEF registryVars
  <2>5. ASSUME NEW x \in DOMAIN live'
        PROVE  Sound(x.config, live'[x], components') /\ Listening(listeners'[x], live'[x])
    <3>1. CASE x = b
      <4>1. live'[x] = d /\ listeners'[x] = Listen(listeners[b], d)
        BY <1>3, <1>6, <3>1 DEF BindingInv
      <4> QED BY <1>3, <1>5, <2>4, <3>1, <4>1
    <3>2. CASE x # b
      <4>1. /\ x \in DOMAIN live /\ x \in BindingObject
            /\ live'[x] = live[x] /\ listeners'[x] = listeners[x]
        BY <1>3, <1>6, <2>1, <2>2, <3>2 DEF BindingInv
      <4> QED BY <2>4, <4>1 DEF BindingInv
    <3> QED BY <3>1, <3>2
  <2>6. ASSUME NEW x \in BindingObject, x \notin DOMAIN live'
        PROVE  Silent(listeners'[x])
    BY <1>3, <1>6, <2>1, <2>6 DEF BindingInv
  <2> QED BY <2>2, <2>3, <2>5, <2>6 DEF BindingInv
<1>8. DOMAIN live' = DOMAIN live \cup {b}
  BY <1>6
<1>9. order' \subseteq (DOMAIN live') \X (DOMAIN live')
  BY <1>6, <1>8 DEF MapInv
<1>10. /\ bindings' \in [Configs -> BindingObject \cup {None}]
       /\ storeBindings' \subseteq Configs
       /\ \A x \in Configs : bindings'[x] # None =>
            bindings'[x] \in DOMAIN live' /\ bindings'[x].config = x
  BY <1>3, <1>6, <1>8 DEF MapInv, ManagedAreLive
<1>11. /\ PublishedAreLocal' /\ Indexed(components', instances')
  BY <1>2 DEF MapInv, PublishedAreLocal, registryVars
<1>12. ManagedAreLive'
  BY <1>2, <1>10 DEF MapInv, ManagedAreLive, registryVars
<1>13. MapInv'
  BY <1>2, <1>9, <1>10, <1>11, <1>12 DEF MapInv, registryVars
<1>14. StoreIsRunning'
  BY <1>2, <1>3, <1>6 DEF StoreIsRunning, MapInv
<1> QED BY <1>7, <1>13, <1>14

LEMMA RemoveBindingInv ==
  ASSUME IInv, NEW c \in Configs, removeBinding(c)
  PROVE  IInv'
<1> USE DEF IInv
<1> DEFINE b == bindings[c]
<1>1. /\ proc = "up" /\ b # None
      /\ live' = [x \in DOMAIN live \ {b} |-> live[x]]
      /\ order' = {xy \in order : b \notin {xy[1], xy[2]}}
      /\ listeners' = [listeners EXCEPT ![b] = Unlisten(@, live[b])]
      /\ bindings' = [bindings EXCEPT ![c] = None]
      /\ storeBindings' = storeBindings \ {c}
      /\ UNCHANGED <<proc, registryVars, hosts, destroyed, storeComponents>>
  BY DEF removeBinding, storeRemoveBinding
<1>2. b \in DOMAIN live /\ b \in BindingObject /\ b.config = c
  BY <1>1 DEF MapInv, ManagedAreLive, BindingInv
<1>3. /\ live[b] \in BindingData /\ listeners[b] \in Listeners
      /\ Listening(listeners[b], live[b])
  BY <1>2 DEF BindingInv
<1>4. Unlisten(listeners[b], live[b]) \in Listeners /\ Silent(Unlisten(listeners[b], live[b]))
  BY <1>3, UnlistenSilent
<1> HIDE DEF b
<1>5. BindingInv'
  <2>1. DOMAIN live' = DOMAIN live \ {b} /\ components' = components
    BY <1>1 DEF registryVars
  <2>2. live' \in [DOMAIN live' -> BindingData] /\ DOMAIN live' \subseteq BindingObject
    BY <1>1, <2>1 DEF BindingInv
  <2>3. listeners' \in [BindingObject -> Listeners]
    BY <1>1, <1>2, <1>4 DEF BindingInv
  <2>4. ASSUME NEW x \in BindingObject
        PROVE  listeners'[x] = IF x = b THEN Unlisten(listeners[b], live[b]) ELSE listeners[x]
    BY <1>1, <1>2 DEF BindingInv
  <2>5. ASSUME NEW x \in DOMAIN live'
        PROVE  Sound(x.config, live'[x], components') /\ Listening(listeners'[x], live'[x])
    BY <1>1, <2>1, <2>2, <2>4 DEF BindingInv
  <2>6. ASSUME NEW x \in BindingObject, x \notin DOMAIN live'
        PROVE  Silent(listeners'[x])
    BY <1>4, <2>1, <2>4, <2>6 DEF BindingInv
  <2> QED BY <2>2, <2>3, <2>5, <2>6 DEF BindingInv
<1>6. DOMAIN live' = DOMAIN live \ {b}
  BY <1>1
<1>7. order' \subseteq (DOMAIN live') \X (DOMAIN live')
  <2>1. ASSUME NEW xy \in order'
        PROVE  xy \in (DOMAIN live') \X (DOMAIN live')
    <3>1. xy \in order /\ xy[1] # b /\ xy[2] # b
      BY <1>1
    <3>2. xy \in (DOMAIN live) \X (DOMAIN live)
      BY <3>1 DEF MapInv
    <3> QED BY <1>6, <3>1, <3>2
  <2> QED BY <2>1
<1>8. /\ bindings' \in [Configs -> BindingObject \cup {None}]
      /\ storeBindings' \subseteq Configs
      /\ \A x \in Configs : bindings'[x] # None =>
            bindings'[x] \in DOMAIN live' /\ bindings'[x].config = x
  <2>1. \A x \in Configs : x # c /\ bindings[x] # None => bindings[x] # b
    BY <1>2 DEF MapInv, ManagedAreLive
  <2> QED BY <1>1, <1>6, <2>1 DEF MapInv, ManagedAreLive
<1>9. PublishedAreLocal' /\ Indexed(components', instances')
  BY <1>1 DEF MapInv, PublishedAreLocal, registryVars
<1>10. ManagedAreLive'
  BY <1>1, <1>8 DEF MapInv, ManagedAreLive, registryVars
<1>11. MapInv'
  BY <1>1, <1>7, <1>8, <1>9, <1>10 DEF MapInv, registryVars
<1>12. StoreIsRunning'
  BY <1>1 DEF StoreIsRunning, MapInv
<1> QED BY <1>5, <1>11, <1>12

(* What a change of the remote part of the registry leaves to check.       *)
LEMMA RemoteStep ==
  ASSUME IInv, BindingInv', DOMAIN live' = DOMAIN live, order' = order,
         components' \in Registry,
         instances' \in [Instances -> SUBSET Component],
         Indexed(components', instances'),
         \A i \in Ids : components'[i] # None => components'[i].id = i,
         instances'[Local] = instances[Local],
         \A o \in destroyed : components'[o.id] = None,
         UNCHANGED <<proc, published, managerVars, storeVars>>
  PROVE  IInv'
<1> USE DEF IInv, managerVars, storeVars
<1>1. PublishedAreLocal'
  BY DEF MapInv, PublishedAreLocal
<1>2. ManagedAreLive'
  BY DEF MapInv, ManagedAreLive
<1>3. MapInv'
  BY <1>1, <1>2 DEF MapInv
<1>4. StoreIsRunning'
  BY DEF StoreIsRunning
<1> QED BY <1>3, <1>4

LEMMA RemoteSetInv ==
  ASSUME IInv, UniqueHosts, NEW r \in Remotes, NEW i \in Ids, NEW p \in Plugins,
         RemoteSet(r, i, p)
  PROVE  IInv'
<1>1. /\ <<r, i>> \in Hosts /\ components[i] = None
      /\ UNCHANGED <<proc, published, managerVars, storeVars>>
  BY DEF RemoteSet
<1>2. PICK t \in Tags, called \in SUBSET DOMAIN live, ok \in BOOLEAN :
        LET o == newComponent(r, i, p, t) IN
        /\ EmitAdd(o, called, ok)
        /\ components' = [components EXCEPT ![o.id] = o]
        /\ instances' = [instances EXCEPT ![o.instance] = @ \cup {o}]
  BY DEF RemoteSet, registryAdd
<1> DEFINE o == newComponent(r, i, p, t)
<1>3. o \in Component /\ o.id = i /\ o.instance = r /\ r \in Instances /\ r # Local
  <2>1. r \in Instances /\ r # Local
    BY ConstantsAssumption DEF Instances
  <2> QED BY SMTT(60), <1>1, <2>1, NewComponentType
<1>4. /\ EmitAdd(o, called, ok)
      /\ components' = [components EXCEPT ![o.id] = o]
      /\ instances' = [instances EXCEPT ![o.instance] = @ \cup {o}]
  BY <1>2, <1>3
<1> HIDE DEF o
<1>5. BindingInv' /\ DOMAIN live' = DOMAIN live /\ order' = order
  BY <1>1, <1>3, <1>4, EmitAddBindings DEF IInv, MapInv, EmitAdd
<1>6. /\ components' \in Registry
      /\ instances' \in [Instances -> SUBSET Component]
      /\ Indexed(components', instances')
      /\ \A j \in Ids : components'[j] # None => components'[j].id = j
  BY <1>1, <1>3, <1>4, AddIndexed DEF IInv
<1>7. instances'[Local] = instances[Local]
  BY <1>3, <1>4 DEF IInv, MapInv, Instances
<1>8. ASSUME NEW x \in destroyed
      PROVE  components'[x.id] = None
  <2>1. x.id \in Ids /\ components[x.id] = None /\ <<Local, x.id>> \in Hosts
    BY DestroyedFields DEF IInv
  <2>2. x.id # i
    BY <1>1, <1>3, <2>1 DEF UniqueHosts, Instances
  <2> QED BY <1>3, <1>4, <2>1, <2>2 DEF IInv, MapInv, Registry
<1> QED BY <1>1, <1>5, <1>6, <1>7, <1>8, RemoteStep

LEMMA RemoteRemoveInv ==
  ASSUME IInv, NEW r \in Remotes, NEW S \in SUBSET Component,
         \A o \in S : o.instance = r,
         components' \in Registry,
         \A i \in Ids : components'[i] = IF components[i] \in S THEN None ELSE components[i],
         instances' = [instances EXCEPT ![r] = @ \ S],
         EmitRemove(S),
         UNCHANGED <<proc, published, managerVars, storeVars>>
  PROVE  IInv'
<1>1. r \in Instances /\ r # Local
  BY ConstantsAssumption DEF Instances
<1>2. BindingInv' /\ DOMAIN live' = DOMAIN live /\ order' = order
  BY EmitRemoveBindings DEF IInv, MapInv, EmitRemove
<1>3. /\ instances' \in [Instances -> SUBSET Component]
      /\ Indexed(components', instances')
      /\ \A j \in Ids : components'[j] # None => components'[j].id = j
  BY <1>1, RemoveIndexed DEF IInv
<1>4. instances'[Local] = instances[Local]
  BY <1>1 DEF IInv, MapInv, Instances
<1>5. \A x \in destroyed : components'[x.id] = None
  BY ComponentFields DEF IInv, MapInv, ManagedAreLive
<1> QED BY <1>2, <1>3, <1>4, <1>5, RemoteStep

LEMMA RemoteClearInv ==
  ASSUME IInv, UniqueHosts, NEW r \in Remotes, NEW i \in Ids, RemoteClear(r, i)
  PROVE  IInv'
<1>1. CASE Die
  BY <1>1, DieInv
<1>2. CASE /\ From(Remotes, components[i])
           /\ components' = [components EXCEPT ![i] = None]
           /\ instances' = [instances EXCEPT ![r] = @ \ {components[i]}]
           /\ EmitRemove({components[i]})
           /\ UNCHANGED <<proc, published, managerVars, storeVars>>
  <2> DEFINE o == components[i]
  <2>1. o \in Component /\ o.id = i /\ <<o.instance, i>> \in Hosts /\ o.instance \in Instances
    BY <1>2, RegisteredFields DEF From, IInv
  <2>2. o.instance = r
    BY <2>1 DEF RemoteClear, UniqueHosts, Instances
  <2>3. \A j \in Ids : components[j] = o => j = i
    BY <2>1, ComponentFields DEF IInv, MapInv, ManagedAreLive
  <2>4. /\ components' \in Registry
        /\ \A j \in Ids : components'[j] = IF components[j] \in {o} THEN None
                                            ELSE components[j]
    BY <1>2, <2>3 DEF IInv, MapInv, Registry
  <2>5. /\ {o} \in SUBSET Component /\ \A x \in {o} : x.instance = r
        /\ instances' = [instances EXCEPT ![r] = @ \ {o}]
        /\ EmitRemove({o})
        /\ UNCHANGED <<proc, published, managerVars, storeVars>>
    BY <1>2, <2>1, <2>2
  <2> HIDE DEF o
  <2> QED BY <2>4, <2>5, RemoteRemoveInv
<1> QED BY <1>1, <1>2 DEF RemoteClear, registryRemove

LEMMA RemoteCloseInv ==
  ASSUME IInv, NEW r \in Remotes, RemoteClose(r)
  PROVE  IInv'
<1> DEFINE gone == {components[i] : i \in {j \in Ids : From({r}, components[j])}}
<1>1. /\ components' = [i \in Ids |->
                         IF components[i] \in gone THEN None ELSE components[i]]
      /\ instances' = [instances EXCEPT ![r] = @ \ gone]
      /\ EmitRemove(gone)
      /\ UNCHANGED <<proc, published, managerVars, storeVars>>
  BY DEF RemoteClose
<1>2. gone \in SUBSET Component /\ \A o \in gone : o.instance = r
  BY DEF From, IInv, MapInv, Registry
<1> HIDE DEF gone
<1>3. /\ components' \in Registry
      /\ \A i \in Ids : components'[i] = IF components[i] \in gone THEN None ELSE components[i]
  BY <1>1 DEF IInv, MapInv, Registry
<1> QED BY <1>1, <1>2, <1>3, RemoteRemoveInv

(* An order of S relates elements of S.                                    *)
LEMMA OrdersType ==
  ASSUME NEW S, NEW R \in Orders(S)
  PROVE  R \subseteq S \X S
<1> DEFINE N == 1..Cardinality(S)
           P == {x \in N \X N : x[1] < x[2]}
<1>1. PICK s \in [N -> S] : R = {<<s[mn[1]], s[mn[2]]>> : mn \in P}
  BY DEF Orders
<1>2. \A mn \in P : mn[1] \in N /\ mn[2] \in N
  OBVIOUS
<1> HIDE DEF N, P
<1>3. \A mn \in P : <<s[mn[1]], s[mn[2]]>> \in S \X S
  BY <1>2
<1> QED BY <1>1, <1>3

LEMMA InitStepInv ==
  ASSUME IInv, init
  PROVE  IInv'
<1> USE DEF IInv
<1>1. PICK t \in Tags :
       LET host == [i \in Ids |->
                      IF storeComponents[i] = None THEN None
                      ELSE newComponent(Local, i, storeComponents[i], t)]
           object == [c \in Configs |->
                        IF c \in storeBindings THEN [config |-> c, tag |-> t] ELSE None]
           added == {host[i] : i \in Ids} \ {None}
           created == {object[c] : c \in Configs} \ {None}
           registry == [i \in Ids |->
                          IF host[i] = None THEN components[i] ELSE host[i]]
           data == [b \in created |-> newBinding(b.config, registry)]
       IN  \/ Die
           \/ /\ \A i \in Ids : host[i] # None => components[i] = None
              /\ proc' = "up"
              /\ hosts' = host
              /\ components' = registry
              /\ instances' = [instances EXCEPT ![Local] = added]
              /\ published' = added
              /\ bindings' = object
              /\ live' = data
              /\ order' \in Orders(created)
              /\ listeners' = [b \in BindingObject |->
                                 IF b \in created THEN Listen(listeners[b], data[b])
                                 ELSE listeners[b]]
              /\ UNCHANGED <<destroyed, storeVars>>
  BY DEF init
<1> DEFINE host == [i \in Ids |->
                      IF storeComponents[i] = None THEN None
                      ELSE newComponent(Local, i, storeComponents[i], t)]
           object == [c \in Configs |->
                        IF c \in storeBindings THEN [config |-> c, tag |-> t] ELSE None]
           added == {host[i] : i \in Ids} \ {None}
           created == {object[c] : c \in Configs} \ {None}
           registry == [i \in Ids |->
                          IF host[i] = None THEN components[i] ELSE host[i]]
           data == [b \in created |-> newBinding(b.config, registry)]
<1>2. CASE Die
  BY <1>2, DieInv
<1>3. CASE ~Die
  <2>1. /\ \A i \in Ids : host[i] # None => components[i] = None
        /\ proc' = "up"
        /\ hosts' = host
        /\ components' = registry
        /\ instances' = [instances EXCEPT ![Local] = added]
        /\ published' = added
        /\ bindings' = object
        /\ live' = data
        /\ order' \in Orders(created)
        /\ listeners' = [b \in BindingObject |->
                           IF b \in created THEN Listen(listeners[b], data[b])
                           ELSE listeners[b]]
        /\ UNCHANGED <<destroyed, storeVars>>
    BY <1>1, <1>3
  <2>2. /\ \A i \in Ids : hosts[i] = None
        /\ DOMAIN live = {}
    BY DEF init, MapInv, ManagedAreLive
  <2>3. instances[Local] = {} /\ published = {} /\ destroyed = {}
    <3>1. ASSUME NEW x \in Component
          PROVE  hosts[x.id] # x
      BY <2>2, ComponentFields
    <3>2. /\ published = instances[Local] /\ published \subseteq Component
          /\ destroyed \subseteq Component
          /\ \A x \in published : hosts[x.id] = x
          /\ \A x \in destroyed : hosts[x.id] = x
      BY DEF MapInv, PublishedAreLocal, ManagedAreLive
    <3> QED BY <3>1, <3>2
  <2>4. ASSUME NEW i \in Ids, host[i] # None
        PROVE  /\ storeComponents[i] # None /\ host[i] \in Component /\ host[i].id = i
               /\ host[i].instance = Local /\ host[i].plugin = storeComponents[i]
    <3>1. storeComponents[i] \in Plugins /\ <<Local, i>> \in Hosts
          /\ host[i] = newComponent(Local, i, storeComponents[i], t)
      BY <2>4 DEF MapInv, Loadable
    <3>2. storeComponents[i] # None /\ Local \in Instances
      BY <2>4 DEF Instances
    <3> HIDE DEF host, object, added, created, registry, data
    <3> DEFINE o == newComponent(Local, i, storeComponents[i], t)
    <3>3. o \in Component /\ o.id = i /\ o.instance = Local /\ o.plugin = storeComponents[i]
      BY SMTT(60), <3>1, <3>2, NewComponentType
    <3>4. host[i] = o
      BY <3>1
    <3> HIDE DEF o
    <3> QED BY <3>2, <3>3, <3>4
  <2>5. ASSUME NEW c \in Configs, object[c] # None
        PROVE  c \in storeBindings /\ object[c] \in BindingObject /\ object[c].config = c
    BY <2>5 DEF BindingObject
  <2>6. \A c \in storeBindings : object[c] # None
    BY NoneBindingAssumption DEF MapInv, BindingObject
  <2>7. \A i \in Ids : storeComponents[i] # None => host[i] # None
    <3>1. ASSUME NEW i \in Ids, storeComponents[i] # None
          PROVE  host[i] # None
      <4>1. storeComponents[i] \in Plugins /\ <<Local, i>> \in Hosts /\ Local \in Instances
        BY <3>1 DEF MapInv, Loadable, Instances
      <4>2. newComponent(Local, i, storeComponents[i], t) \in Component
        BY <4>1, NewComponentType
      <4>3. host[i] = newComponent(Local, i, storeComponents[i], t)
        BY <3>1
      <4> HIDE DEF host
      <4> QED BY <4>2, <4>3, ComponentFields
    <3> QED BY <3>1
  <2>8. \A b \in created : b \in BindingObject /\ b.config \in Configs
    BY <2>5
  <2>9. host \in Registry /\ added \subseteq Component /\ registry \in Registry
    BY SMTT(60), <2>4 DEF Registry, MapInv
  <2> HIDE DEF host, object
  <2>10. BindingInv'
    <3>1. DOMAIN live' = created /\ components' = registry
      BY <2>1
    <3>2. ASSUME NEW b \in BindingObject
          PROVE  Silent(listeners[b]) /\ listeners[b] \in Listeners
      BY <2>2 DEF BindingInv
    <3>3. ASSUME NEW b \in created
          PROVE  /\ live'[b] \in BindingData
                 /\ Sound(b.config, live'[b], components')
                 /\ listeners'[b] \in Listeners
                 /\ Listening(listeners'[b], live'[b])
      <4>1. live'[b] = newBinding(b.config, registry)
        BY <2>1
      <4>2. listeners'[b] = Listen(listeners[b], live'[b])
        BY <2>1, <2>8
      <4>3. /\ b \in BindingObject /\ b.config \in Configs /\ registry \in Registry
            /\ Silent(listeners[b]) /\ listeners[b] \in Listeners
        BY <2>8, <2>9, <3>2
      <4> HIDE DEF registry, created
      <4>4. /\ live'[b] \in BindingData
            /\ Sound(b.config, live'[b], registry)
            /\ Listen(listeners[b], live'[b]) \in Listeners
            /\ Listening(Listen(listeners[b], live'[b]), live'[b])
        BY <4>1, <4>3, NewSound
      <4> QED BY <3>1, <4>2, <4>4
    <3>4. ASSUME NEW b \in BindingObject, b \notin created
          PROVE  listeners'[b] = listeners[b]
      BY <2>1, <3>4
    <3>5. listeners' \in [BindingObject -> Listeners]
      <4>1. \A b \in BindingObject : listeners'[b] \in Listeners
        BY <3>2, <3>3, <3>4
      <4> QED BY <2>1, <4>1
    <3>6. live' \in [DOMAIN live' -> BindingData] /\ DOMAIN live' \subseteq BindingObject
      BY <2>1, <2>8, <3>1, <3>3
    <3> QED BY <3>1, <3>2, <3>3, <3>4, <3>5, <3>6 DEF BindingInv
  <2>11. /\ instances' \in [Instances -> SUBSET Component]
         /\ instances'[Local] = added
    BY <2>1, <2>9 DEF MapInv, Instances
  <2>12. Indexed(components', instances')
    <3>1. ASSUME NEW n \in Instances, NEW x \in Component
          PROVE  x \in instances'[n] <=> x.instance = n /\ components'[x.id] = x
      <4>1. /\ x \in instances[n] <=> x.instance = n /\ components[x.id] = x
            /\ x.id \in Ids /\ x # None
        BY ComponentFields DEF MapInv, Indexed
      <4>2. components'[x.id] = IF host[x.id] = None THEN components[x.id] ELSE host[x.id]
        BY <2>1, <4>1
      <4>3. CASE n = Local
        <5>1. x \in added <=> host[x.id] = x
          BY <2>4, <4>1
        <5>2. ~(x.instance = Local /\ components[x.id] = x)
          BY <2>3, <4>1, <4>3
        <5>3. host[x.id] = x => x.instance = Local
          BY <2>4, <4>1
        <5> QED BY SMTT(60), <2>11, <4>1, <4>2, <4>3, <5>1, <5>2, <5>3
      <4>4. CASE n # Local
        <5>1. instances'[n] = instances[n]
          BY <2>1, <4>4 DEF MapInv
        <5>2. host[x.id] # None => components[x.id] = None /\ host[x.id].instance = Local
          BY <2>1, <2>4, <4>1
        <5> QED BY <4>1, <4>2, <4>4, <5>1, <5>2
      <4> QED BY <4>3, <4>4
    <3> QED BY <3>1 DEF Indexed
  <2>13. PublishedAreLocal'
    <3>1. published' = added /\ hosts' = host /\ destroyed' = {}
      BY <2>1, <2>3
    <3>2. ASSUME NEW x \in added
          PROVE  host[x.id] = x
      BY <2>4
    <3> HIDE DEF added
    <3> QED BY <2>11, <3>1, <3>2 DEF PublishedAreLocal
  <2>14. order' \subseteq (DOMAIN live') \X (DOMAIN live')
    <3>1. DOMAIN live' = created
      BY <2>1
    <3> HIDE DEF created
    <3>2. order' \in Orders(created)
      BY <2>1
    <3> QED BY <3>1, <3>2, OrdersType
  <2>15. /\ bindings' \in [Configs -> BindingObject \cup {None}]
         /\ \A c \in Configs : bindings'[c] # None =>
              bindings'[c] \in DOMAIN live' /\ bindings'[c].config = c
    BY <2>1, <2>5 DEF object
  <2>16. ManagedAreLive'
    BY <2>1, <2>3, <2>4, <2>15 DEF ManagedAreLive, MapInv, Registry
  <2>17. MapInv'
    BY <2>1, <2>9, <2>11, <2>12, <2>13, <2>14, <2>15, <2>16 DEF MapInv, storeVars
  <2>18. StoreIsRunning'
    BY <2>1, <2>4, <2>5, <2>6, <2>7 DEF StoreIsRunning, storeVars, MapInv
  <2> QED BY <2>10, <2>17, <2>18
<1> QED BY <1>2, <1>3

LEMMA TerminateInv ==
  ASSUME IInv, terminate
  PROVE  IInv'
<1> USE DEF IInv
<1> DEFINE closed == {bindings[c] : c \in Configs} \ {None}
           removed == {hosts[i] : i \in Ids} \ {None}
           after == [b \in DOMAIN live \ closed |-> onComponentRemove(live[b], removed)]
<1>1. CASE Die
  BY <1>1, DieInv
<1>2. CASE ~Die
  <2>1. /\ \A o \in removed : components[o.id] # None /\ o \in published
        /\ proc' = "terminated"
        /\ bindings' = [c \in Configs |-> None]
        /\ hosts' = [i \in Ids |-> None]
        /\ destroyed' = {}
        /\ components' = [i \in Ids |-> IF hosts[i] # None THEN None ELSE components[i]]
        /\ instances' = [instances EXCEPT ![Local] = @ \ removed]
        /\ published' = {}
        /\ live' = after
        /\ order' = order \cap ((DOMAIN after) \X (DOMAIN after))
        /\ listeners' = [b \in BindingObject |->
                           IF b \in DOMAIN live /\ (b \in closed \/ after[b] # live[b])
                           THEN Unlisten(listeners[b], live[b])
                           ELSE listeners[b]]
        /\ UNCHANGED storeVars
    BY <1>2 DEF terminate
  <2>2. /\ removed \in SUBSET Component
        /\ \A o \in removed : o.instance = Local
    BY DEF MapInv, Registry, ManagedAreLive
  <2>3. \A i \in Ids : hosts[i] # None => components[i] = hosts[i]
    <3>1. ASSUME NEW i \in Ids, hosts[i] # None
          PROVE  components[i] = hosts[i]
      <4>1. hosts[i] \in removed /\ hosts[i] \in Component /\ hosts[i].id = i
        BY <3>1 DEF MapInv, Registry, ManagedAreLive
      <4>2. hosts[i] \in instances[Local]
        BY <2>1, <4>1 DEF MapInv, PublishedAreLocal
      <4> QED BY <4>1, <4>2 DEF MapInv, Indexed, Instances
    <3> QED BY <3>1
  <2>4. /\ components' \in Registry
        /\ \A i \in Ids : components'[i] = IF components[i] \in removed THEN None
                                            ELSE components[i]
    <3>1. ASSUME NEW i \in Ids
          PROVE  components[i] \in removed <=> hosts[i] # None
      <4>1. ASSUME components[i] \in removed
            PROVE  hosts[i] # None
        <5>1. PICK j \in Ids : hosts[j] = components[i] /\ hosts[j] # None
          BY <4>1
        <5>2. hosts[j].id = j /\ components[i].id = i
          BY <5>1 DEF MapInv, ManagedAreLive
        <5> QED BY <5>1, <5>2
      <4>2. ASSUME hosts[i] # None
            PROVE  components[i] \in removed
        BY <2>3, <4>2
      <4> QED BY <4>1, <4>2
    <3> HIDE DEF removed
    <3> QED BY <2>1, <3>1 DEF MapInv, Registry
  <2>5. instances'[Local] = {}
    <3>1. instances[Local] \subseteq removed
      <4>1. ASSUME NEW x \in instances[Local]
            PROVE  x \in removed
        <5>1. x \in published /\ x \in Component
          BY DEF MapInv, PublishedAreLocal
        <5>2. hosts[x.id] = x /\ x.id \in Ids /\ x # None
          BY <5>1, ComponentFields DEF MapInv, PublishedAreLocal
        <5> QED BY <5>2
      <4> QED BY <4>1
    <3> QED BY <2>1, <3>1 DEF MapInv, Instances
  <2> HIDE DEF closed, removed
  <2>6. /\ instances' \in [Instances -> SUBSET Component]
        /\ Indexed(components', instances')
        /\ \A j \in Ids : components'[j] # None => components'[j].id = j
    <3>1. Local \in Instances
      BY DEF Instances
    <3> QED BY <2>1, <2>2, <2>4, <3>1, RemoveIndexed
  <2>7. DOMAIN live' = DOMAIN live \ closed
    BY <2>1
  <2>8. BindingInv'
    <3>1. ASSUME NEW b \in DOMAIN live
          PROVE  /\ b \in BindingObject /\ b.config \in Configs
                 /\ live[b] \in BindingData /\ listeners[b] \in Listeners
                 /\ Sound(b.config, live[b], components)
                 /\ Listening(listeners[b], live[b])
                 /\ Unlisten(listeners[b], live[b]) \in Listeners
                 /\ Silent(Unlisten(listeners[b], live[b]))
      BY UnlistenSilent DEF BindingInv, BindingObject
    <3>2. ASSUME NEW b \in DOMAIN live'
          PROVE  /\ live'[b] \in BindingData
                 /\ Sound(b.config, live'[b], components')
                 /\ listeners'[b] \in Listeners
                 /\ Listening(listeners'[b], live'[b])
      <4>1. b \in DOMAIN live /\ b \notin closed
        BY <2>7
      <4>2. live'[b] = onComponentRemove(live[b], removed)
        BY <2>1, <4>1
      <4>3. listeners'[b] = IF live'[b] # live[b] THEN Unlisten(listeners[b], live[b])
                            ELSE listeners[b]
        BY <2>1, <3>1, <4>1
      <4>4. /\ live'[b] \in BindingData
            /\ Sound(b.config, live'[b], components')
            /\ live'[b] # live[b] => Listening(Unlisten(listeners[b], live[b]), live'[b])
        <5>1. /\ b.config \in Configs /\ live[b] \in BindingData
              /\ removed \in SUBSET Component /\ listeners[b] \in Listeners
              /\ Sound(b.config, live[b], components) /\ Listening(listeners[b], live[b])
          BY <2>2, <3>1, <4>1
        <5>2. /\ components \in Registry /\ components' \in Registry
              /\ \A i \in Ids : components'[i] = IF components[i] \in removed THEN None
                                                  ELSE components[i]
          BY <2>4 DEF MapInv
        <5> QED BY <4>2, <5>1, <5>2, RemoveSound
      <4> QED BY <3>1, <4>1, <4>3, <4>4
    <3>3. ASSUME NEW b \in BindingObject, b \notin DOMAIN live'
          PROVE  listeners'[b] \in Listeners /\ Silent(listeners'[b])
      <4>1. CASE b \in DOMAIN live
        <5>1. b \in closed
          BY <2>7, <3>3, <4>1
        <5>2. listeners'[b] = Unlisten(listeners[b], live[b])
          BY <2>1, <4>1, <5>1
        <5> QED BY <3>1, <4>1, <5>2
      <4>2. CASE b \notin DOMAIN live
        <5>1. listeners'[b] = listeners[b]
          BY <2>1, <4>2
        <5> QED BY <4>2, <5>1 DEF BindingInv
      <4> QED BY <4>1, <4>2
    <3>4. listeners' \in [BindingObject -> Listeners]
      <4>1. \A b \in BindingObject : listeners'[b] \in Listeners
        BY <3>2, <3>3
      <4> QED BY <2>1, <4>1
    <3>5. DOMAIN live' \subseteq BindingObject /\ live' \in [DOMAIN live' -> BindingData]
      BY <2>1, <2>7, <3>1, <3>2
    <3> QED BY <3>2, <3>3, <3>4, <3>5 DEF BindingInv
  <2>9. PublishedAreLocal'
    BY <2>1, <2>5 DEF PublishedAreLocal
  <2>10. ManagedAreLive'
    BY <2>1, <2>6 DEF ManagedAreLive
  <2>11. order' \subseteq (DOMAIN live') \X (DOMAIN live')
    BY <2>1
  <2>12. MapInv'
    <3>1. hosts' \in Registry /\ bindings' \in [Configs -> BindingObject \cup {None}]
      BY <2>1 DEF Registry
    <3> QED BY <2>1, <2>4, <2>6, <2>9, <2>10, <2>11, <3>1 DEF MapInv, storeVars
  <2>13. StoreIsRunning'
    BY <2>1 DEF StoreIsRunning
  <2> QED BY <2>8, <2>12, <2>13
<1> QED BY <1>1, <1>2

LEMMA RestartInv ==
  ASSUME IInv, Restart
  PROVE  IInv'
<1> USE DEF IInv, Restart, registryVars, managerVars, bindingVars
<1>1. BindingInv'
  BY DEF BindingInv
<1>2. MapInv'
  BY DEF MapInv, PublishedAreLocal, ManagedAreLive
<1>3. StoreIsRunning'
  BY DEF StoreIsRunning
<1> QED BY <1>1, <1>2, <1>3

LEMMA NextInv ==
  ASSUME IInv, UniqueHosts, [Next]_vars
  PROVE  IInv'
<1>1. CASE init
  BY <1>1, InitStepInv
<1>2. CASE \E i \in Ids, p \in Plugins : addComponent(i, p)
  BY <1>2, AddComponentInv
<1>3. CASE \E i \in Ids : removeComponent(i)
  BY <1>3, RemoveComponentInv
<1>4. CASE \E c \in Configs : addBinding(c)
  BY <1>4, AddBindingInv
<1>5. CASE \E c \in Configs : removeBinding(c)
  BY <1>5, RemoveBindingInv
<1>6. CASE \E r \in Remotes, i \in Ids, p \in Plugins : RemoteSet(r, i, p)
  BY <1>6, RemoteSetInv
<1>7. CASE \E r \in Remotes, i \in Ids : RemoteClear(r, i)
  BY <1>7, RemoteClearInv
<1>8. CASE \E r \in Remotes : RemoteClose(r)
  BY <1>8, RemoteCloseInv
<1>9. CASE terminate
  BY <1>9, TerminateInv
<1>10. CASE Exit
  BY <1>10, DieInv DEF Exit
<1>11. CASE Restart
  BY <1>11, RestartInv
<1>12. CASE UNCHANGED vars
  BY <1>12 DEF IInv, BindingInv, MapInv, PublishedAreLocal, ManagedAreLive, StoreIsRunning,
               vars, registryVars, managerVars, bindingVars, storeVars
<1> QED BY <1>1, <1>2, <1>3, <1>4, <1>5, <1>6, <1>7, <1>8, <1>9, <1>10, <1>11, <1>12 DEF Next

-----------------------------------------------------------------------------
(* What the invariant gives.                                               *)

LEMMA InvImplies ==
  ASSUME IInv
  PROVE  /\ TypeOK /\ ListenerDiscipline /\ NoStaleEndpoint /\ RegistryIndexes
         /\ PublishedAreLocal /\ ManagedAreLive /\ NoDestroyedEndpoint /\ StoreIsRunning
<1> USE DEF IInv
<1>1. ListenerDiscipline /\ NoStaleEndpoint
  BY BindingInvMeans
<1>2. RegistryIndexes
  <2>1. /\ components \in Registry /\ instances \in [Instances -> SUBSET Component]
        /\ Indexed(components, instances)
        /\ \A i \in Ids : components[i] # None => components[i].id = i
    BY DEF MapInv, ManagedAreLive
  <2> QED BY <2>1, IndexedMeans DEF RegistryIndexes
<1>3. TypeOK
  BY DEF TypeOK, MapInv, BindingInv, Registry, Listeners
<1>4. NoDestroyedEndpoint
  <2>1. ASSUME NEW b \in DOMAIN live, NEW o \in {live[b].source, live[b].target},
               From({Local}, o)
        PROVE  hosts[o.id] = o /\ o \notin destroyed
    <3>1. /\ b.config \in Configs /\ live[b] \in BindingData
          /\ Sound(b.config, live[b], components)
      BY DEF BindingInv, BindingObject
    <3>2. PICK i \in Ids : components[i] = o
      <4>1. o # None /\ b.config.sourceComponent \in Ids /\ b.config.targetComponent \in Ids
        BY <2>1, <3>1, ConfigFields DEF From
      <4>2. CASE o = live[b].source
        BY <3>1, <4>1, <4>2 DEF Sound
      <4>3. CASE o = live[b].target
        BY <3>1, <4>1, <4>3 DEF Sound
      <4> QED BY <4>2, <4>3
    <3>3. o \in Component /\ o.id = i /\ o.instance = Local
      BY <2>1, <3>2, RegisteredFields DEF From
    <3>4. o \in published
      BY <3>2, <3>3 DEF MapInv, Indexed, PublishedAreLocal, Instances
    <3> QED BY <3>4 DEF MapInv, PublishedAreLocal
  <2> QED BY <2>1 DEF NoDestroyedEndpoint
<1> QED BY <1>1, <1>2, <1>3, <1>4 DEF MapInv

(* Whatever is added, removed, thrown or restarted, the variables of the   *)
(* runtime keep their types (ComponentManager, Registry, Binding, Store).  *)
THEOREM TypeCorrect ==
  ASSUME UniqueHosts
  PROVE  Spec => []TypeOK
<1>1. Init => IInv
  BY InitInv
<1>2. IInv /\ [Next]_vars => IInv'
  BY NextInv
<1>3. IInv => TypeOK
  BY InvImplies
<1> QED BY <1>1, <1>2, <1>3, PTL DEF Spec

(* A binding listens exactly once to its source while it is active and     *)
(* never otherwise (Binding.initBinding / terminateBinding): no leaked and *)
(* no doubled 'state' listener, even when a plugin throws half-way through *)
(* an emission.                                                            *)
THEOREM ListenersCorrect ==
  ASSUME UniqueHosts
  PROVE  Spec => []ListenerDiscipline
<1>1. Init => IInv
  BY InitInv
<1>2. IInv /\ [Next]_vars => IInv'
  BY NextInv
<1>3. IInv => ListenerDiscipline
  BY InvImplies
<1> QED BY <1>1, <1>2, <1>3, PTL DEF Spec

(* The ends of a binding are the components registered under its ids: no   *)
(* binding drives, or is driven by, an object that was removed.            *)
THEOREM EndpointsCorrect ==
  ASSUME UniqueHosts
  PROVE  Spec => [](NoStaleEndpoint /\ NoDestroyedEndpoint)
<1>1. Init => IInv
  BY InitInv
<1>2. IInv /\ [Next]_vars => IInv'
  BY NextInv
<1>3. IInv => NoStaleEndpoint /\ NoDestroyedEndpoint
  BY InvImplies
<1> QED BY <1>1, <1>2, <1>3, PTL DEF Spec

(* Registry, manager and publisher agree: the two indexes of the registry, *)
(* the hosts of the manager and the components followed by the publisher.  *)
THEOREM MapsAgree ==
  ASSUME UniqueHosts
  PROVE  Spec => []MapsConsistent
<1>1. Init => IInv
  BY InitInv
<1>2. IInv /\ [Next]_vars => IInv'
  BY NextInv
<1>3. IInv => MapsConsistent
  BY InvImplies DEF MapsConsistent
<1> QED BY <1>1, <1>2, <1>3, PTL DEF Spec

(* What the store reports and saves is running: every stored component has *)
(* its host, and the stored bindings are those of the manager.             *)
THEOREM StoreCorrect ==
  ASSUME UniqueHosts
  PROVE  Spec => []StoreIsRunning
<1>1. Init => IInv
  BY InitInv
<1>2. IInv /\ [Next]_vars => IInv'
  BY NextInv
<1>3. IInv => StoreIsRunning
  BY InvImplies
<1> QED BY <1>1, <1>2, <1>3, PTL DEF Spec
=============================================================================
