----------------------------- MODULE OnlineView -----------------------------
(***************************************************************************)
(* The online components of the studio: the registry of the remote         *)
(* components, the notifier that tells a browser about them                *)
(* (services/online/component-notifier.ts) and the tables of the browser   *)
(* (store/online-components-view).                                         *)
(*                                                                         *)
(* One remote instance, whose plugins go after their components            *)
(* (BusInstance.close); a component has one state.  The calls that create  *)
(* and remove the notifier are in StudioProjects; here they are atomic.    *)
(* A reducer that throws ends the browser's epics: it shows nothing new    *)
(* from then on.                                                           *)
(***************************************************************************)
EXTENDS Naturals, Sequences, SequencesExt, FiniteSets, TLC

CONSTANTS
  Plugins,      \* plugin ids of the instance
  Components,   \* component ids of the instance
  PluginOf,     \* component -> its plugin
  Values,       \* the values of a state
  MaxChanges,   \* bound: changes of the registry
  MaxStarts     \* bound: times the browser opens its tab

VARIABLES
  plugins, components,  \* the registry: plugins, component -> value of its state
  notifier,             \* "none", "created" (the initial updates are to come) or "on"
  queue,                \* the updates in the browser's debounce buffer
  store,                \* the browser's tables
  alive,                \* no reducer threw
  changes, starts,      \* bounds
  quirks                \* history: "early", "late": see OnlineMirrored

vars == <<plugins, components, notifier, queue, store, alive, changes, starts, quirks>>

(* The tables: plugin -> its components (an array), component -> its       *)
(* states, (component) state -> value, and the arrays of the instance.     *)
NoInstance == [exists |-> FALSE, plugins |-> <<>>, components |-> <<>>]
EmptyStore == [plugins |-> <<>>, components |-> <<>>, states |-> <<>>, instance |-> NoInstance]

Init ==
  /\ plugins = {} /\ components = <<>> /\ notifier = "none" /\ queue = <<>>
  /\ store = EmptyStore /\ alive = TRUE /\ changes = 0 /\ starts = 0 /\ quirks = {}

Null == 0
Drop(f, x) == [y \in DOMAIN f \ {x} |-> f[y]]
Put(f, x, y) == (x :> y) @@ f

(***************************************************************************)
(* The reducer, update by update.  Thrown is the store of a reducer that   *)
(* threw.                                                                  *)
(***************************************************************************)
Thrown == [thrown |-> TRUE]

arrayAdd(a, x) == Append(a, x)
\* indexOf is -1 when x is not there: splice then removes the last element
arrayRemove(a, x) ==
  IF x \in ToSet(a) THEN RemoveFirst(a, x) ELSE IF a = <<>> THEN a ELSE Front(a)
tableAdd(t, x, y) == IF x \in DOMAIN t THEN t ELSE Put(t, x, y)

setPlugin(s, u) ==
  [s EXCEPT !.plugins = tableAdd(@, u.id, <<>>),
            !.instance = [@ EXCEPT !.exists = TRUE, !.plugins = arrayAdd(@, u.id)]]

clearPlugin(s, u) ==
  IF u.id \notin DOMAIN s.plugins \/ s.plugins[u.id] # <<>> THEN Thrown
  ELSE LET left == arrayRemove(s.instance.plugins, u.id)
       IN [s EXCEPT !.plugins = Drop(@, u.id),
                    !.instance = IF left = <<>> THEN NoInstance ELSE [@ EXCEPT !.plugins = left]]

setComponent(s, u) ==
  IF PluginOf[u.id] \notin DOMAIN s.plugins THEN Thrown
  ELSE [s EXCEPT !.components = tableAdd(@, u.id, {}),
                 !.plugins = [@ EXCEPT ![PluginOf[u.id]] = arrayAdd(@, u.id)],
                 !.instance = [@ EXCEPT !.components = arrayAdd(@, u.id)]]

clearComponentOnly(s, u) ==
  IF u.id \notin DOMAIN s.components THEN Thrown
  ELSE [s EXCEPT !.components = Drop(@, u.id),
                 !.plugins = [@ EXCEPT ![PluginOf[u.id]] = arrayRemove(@, u.id)],
                 !.instance = [@ EXCEPT !.components = arrayRemove(@, u.id)]]
clearComponent(s, u) ==
  IF u.id \notin DOMAIN s.components THEN Thrown
  ELSE [s EXCEPT !.components = Drop(@, u.id),
                 !.plugins = [@ EXCEPT ![PluginOf[u.id]] = arrayRemove(@, u.id)],
                 !.instance = [@ EXCEPT !.components = arrayRemove(@, u.id)],
                 !.states = IF s.components[u.id] = {} THEN @ ELSE Drop(@, u.id)]

setState(s, u) ==
  IF u.id \in DOMAIN s.states THEN [s EXCEPT !.states[u.id] = u.value]
  ELSE IF u.id \notin DOMAIN s.components THEN Thrown
  ELSE [s EXCEPT !.components[u.id] = {u.id}, !.states = Put(@, u.id, u.value)]

Reduce(s, u) ==
  CASE s = Thrown -> Thrown
    [] u.op = "set-plugin" -> setPlugin(s, u)
    [] u.op = "clear-plugin" -> clearPlugin(s, u)
    [] u.op = "set-component" -> setComponent(s, u)
    [] u.op = "clear-component" -> clearComponent(s, u)
    [] u.op = "set-state" -> setState(s, u)

flush ==
  /\ alive /\ queue # <<>>
  /\ LET s == FoldLeft(Reduce, store, queue)
     IN alive' = (s # Thrown) /\ store' = IF s = Thrown THEN store ELSE s
  /\ queue' = <<>>
  /\ UNCHANGED <<plugins, components, notifier, changes, starts, quirks>>

(***************************************************************************)
(* The notifier.                                                           *)
(***************************************************************************)
SetPlugin(p) == [op |-> "set-plugin", id |-> p]
ClearPlugin(p) == [op |-> "clear-plugin", id |-> p]
SetComponent(c) == [op |-> "set-component", id |-> c]
ClearComponent(c) == [op |-> "clear-component", id |-> c]
SetState(c, v) == [op |-> "set-state", id |-> c, value |-> v]

notifyAll(updates) ==
  /\ changes < MaxChanges /\ changes' = changes + 1
  /\ queue' = IF notifier = "none" THEN queue ELSE queue \o updates
  /\ quirks' = quirks \cup IF notifier = "created" THEN {"early"} ELSE {}
  /\ UNCHANGED <<notifier, store, alive, starts>>

onPluginAdd(p) ==
  /\ p \notin plugins /\ plugins' = plugins \cup {p}
  /\ notifyAll(<<SetPlugin(p)>>) /\ UNCHANGED components
onPluginRemove(p) ==
  /\ p \in plugins /\ \A c \in DOMAIN components : PluginOf[c] # p
  /\ plugins' = plugins \ {p}
  /\ notifyAll(<<ClearPlugin(p)>>) /\ UNCHANGED components
\* the states of a remote component are null until their first message
onComponentAdd(c) ==
  /\ c \notin DOMAIN components /\ PluginOf[c] \in plugins
  /\ components' = Put(components, c, Null)
  /\ notifyAll(<<SetComponent(c), SetState(c, Null)>>) /\ UNCHANGED plugins
onComponentRemove(c) ==
  /\ c \in DOMAIN components /\ components' = Drop(components, c)
  /\ notifyAll(<<ClearComponent(c)>>) /\ UNCHANGED plugins
onStateChange(c, v) ==
  /\ c \in DOMAIN components
  /\ components' = Put(components, c, v)
  /\ notifyAll(<<SetState(c, v)>>) /\ UNCHANGED plugins

startNotify ==
  /\ notifier = "none" /\ starts < MaxStarts
  /\ notifier' = "created" /\ starts' = starts + 1
  /\ UNCHANGED <<plugins, components, queue, store, alive, changes, quirks>>
\* plugins first, then components, then states
sendAll ==
  /\ notifier = "created" /\ notifier' = "on"
  /\ queue' = queue \o SetToSeq({SetPlugin(p) : p \in plugins})
                    \o SetToSeq({SetComponent(c) : c \in DOMAIN components})
                    \o SetToSeq({SetState(c, components[c]) : c \in DOMAIN components})
  /\ UNCHANGED <<plugins, components, store, alive, changes, starts, quirks>>
\* with the reply the tables are cleared; not the debounce buffer
stopNotify ==
  /\ notifier = "on" /\ notifier' = "none" /\ store' = EmptyStore
  /\ quirks' = quirks \cup IF queue # <<>> THEN {"late"} ELSE {}
  /\ UNCHANGED <<plugins, components, queue, alive, changes, starts>>

Next ==
  \/ \E p \in Plugins : onPluginAdd(p) \/ onPluginRemove(p)
  \/ \E c \in Components : onComponentAdd(c) \/ onComponentRemove(c) \/ \E v \in Values : onStateChange(c, v)
  \/ startNotify \/ sendAll \/ stopNotify \/ flush

Spec == Init /\ [][Next]_vars

(***************************************************************************)
(* Properties.                                                             *)
(***************************************************************************)
\* The registry never holds a component without its plugin.
TypeOK ==
  /\ plugins \subseteq Plugins /\ DOMAIN components \subseteq Components
  /\ \A c \in DOMAIN components : components[c] \in Values \cup {Null} /\ PluginOf[c] \in plugins
  /\ notifier \in {"none", "created", "on"} /\ alive \in BOOLEAN
  /\ quirks \subseteq {"early", "late"}

Mirrored ==
  /\ DOMAIN store.plugins = plugins
  /\ DOMAIN store.components = DOMAIN components /\ store.states = components
  /\ store.instance.exists = (plugins # {})
  /\ \A p \in plugins : /\ ToSet(store.plugins[p]) = {c \in DOMAIN components : PluginOf[c] = p}
                        /\ IsInjective(store.plugins[p])
  /\ ToSet(store.instance.plugins) = plugins /\ IsInjective(store.instance.plugins)
  /\ ToSet(store.instance.components) = DOMAIN components /\ IsInjective(store.instance.components)

\* No order of the changes of the registry makes a reducer of the browser throw, and once its
\* debounce buffer is empty its tables are the registry, arrays included (component-notifier.ts,
\* online-components-view/reducer.ts).  It may be otherwise when the registry changes between the
\* creation of the notifier and its initial updates (early), or when the tab is closed before its
\* debounce buffer is flushed (late).
OnlineMirrored ==
  quirks = {} => /\ alive
                 /\ notifier = "on" /\ queue = <<>> => Mirrored
=============================================================================
