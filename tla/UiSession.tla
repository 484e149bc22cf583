----------------------------- MODULE UiSession -----------------------------
(***************************************************************************)
(* The UI server and one browser (mylife-home-ui): the model manager, the  *)
(* sessions with their heartbeat, the mirror of component states pushed to *)
(* every session, and what the browser's store makes of the messages.      *)
(*                                                                         *)
(* The browser reconnects while the server may still hold its old session; *)
(* a model is announced by its hash and fetched by http, so that a second  *)
(* announcement may come before the first answer.                          *)
(***************************************************************************)
EXTENDS Naturals, Sequences, SequencesExt, FiniteSets, TLC

CONSTANTS
  Ids, UiIds,      \* components, and those whose plugin is for the UI
  States,          \* the states of each component
  Definitions,     \* definitions that can be set
  Broken,          \* those whose windows name a resource that does not exist
  Required,        \* what each definition displays: sets of <<id, state>>
  Saved,           \* the definition in the store at the start
  MaxSessions,     \* bound: connections of the browser
  MaxEvents        \* bound: registry events, definitions, restarts of the server, connections

None == 0
Sessions == 1..MaxSessions

VARIABLES
  registry,            \* the states of every component that is registered
  listened,            \* components that have the connector's state listener
  modelHash,           \* the current model: a definition stands for its hash
  resources,           \* the models that are served
  required,            \* requiredComponentStates
  stored,              \* the definition in the store
  sessions, clients,   \* sessions of the manager, and of the connector
  heartbeat,           \* the timer of each session: "off", "alive" or "pinged"
  link,                \* its socket: "none", "up", "broken" (the server does not know) or "closed"
  inbox,               \* messages on their way to the browser
  socket,              \* the session the browser believes in, or None
  view, model,         \* the browser's copy of the registry, and its model
  fetches,             \* its requests, in the order they were made
  astray,              \* history: an answer overtook an earlier one, or was lost
  failed,              \* history: the last setDefinition threw
  opened, events

registryVars == <<registry, listened>>
modelVars    == <<modelHash, resources, required, stored, failed>>
sessionVars  == <<sessions, clients, heartbeat, link, opened>>
browserVars  == <<socket, view, model, fetches, astray>>
vars == <<registryVars, modelVars, sessionVars, browserVars, inbox, events>>

-----------------------------------------------------------------------------
(* sendState: the UI components that are required, each with its required  *)
(* states.                                                                 *)
isRequiredComponent(req, i) == \E r \in req : r[1] = i

getRequiredComponentStates(reg, req, i) ==
  [s \in {t \in States[i] : <<i, t>> \in req} |-> reg[i][s]]

Shown(reg, req) == {i \in DOMAIN reg \cap UiIds : isRequiredComponent(req, i)}

State(reg, req) == [i \in Shown(reg, req) |-> getRequiredComponentStates(reg, req, i)]

StateMsg(reg, req)   == [type |-> "state", data |-> State(reg, req)]
AddMsg(i, a)         == [type |-> "add", id |-> i, attributes |-> a]
RemoveMsg(i)         == [type |-> "remove", id |-> i]
ChangeMsg(i, s, v)   == [type |-> "change", id |-> i, name |-> s, value |-> v]
HashMsg(h)           == [type |-> "modelHash", hash |-> h]

(* What reaches the browser of what is sent to the sessions of S.          *)
Reaching(S, msgs) == IF socket \in S /\ link[socket] = "up" THEN msgs ELSE <<>>

broadcast(msgs) == inbox' = inbox \o Reaching(clients, msgs)

-----------------------------------------------------------------------------
TypeOK ==
  /\ DOMAIN registry \subseteq Ids /\ listened \subseteq DOMAIN registry
  /\ modelHash \in Definitions /\ resources \subseteq Definitions
  /\ required \in {Required[d] : d \in Definitions} /\ stored \in Definitions
  /\ sessions \subseteq 1..opened /\ clients \subseteq 1..opened /\ opened \in 0..MaxSessions
  /\ heartbeat \in [Sessions -> {"off", "alive", "pinged"}]
  /\ link \in [Sessions -> {"none", "up", "broken", "closed"}]
  /\ socket \in 0..opened /\ model \in Definitions \cup {None}
  /\ DOMAIN view \subseteq Ids
  /\ astray \in BOOLEAN /\ failed \in BOOLEAN

Init ==
  /\ registry = <<>> /\ listened = {}
  /\ modelHash = Saved /\ resources = {Saved} /\ required = Required[Saved]
  /\ stored = Saved /\ failed = FALSE
  /\ sessions = {} /\ clients = {} /\ opened = 0
  /\ heartbeat = [k \in Sessions |-> "off"] /\ link = [k \in Sessions |-> "none"]
  /\ inbox = <<>> /\ socket = None /\ view = <<>> /\ model = None
  /\ fetches = <<>> /\ astray = FALSE /\ events = 0

-----------------------------------------------------------------------------
(* The registry of the UI server.                                          *)
Event == events + opened < MaxEvents /\ events' = events + 1

onComponentAdd(i) ==
  /\ Event /\ i \notin DOMAIN registry
  /\ registry' = (i :> [s \in States[i] |-> 0]) @@ registry
  /\ \/ i \notin UiIds /\ UNCHANGED <<listened, inbox>>
     \/ /\ i \in UiIds
        /\ listened' = listened \cup {i}
        /\ broadcast(IF isRequiredComponent(required, i)
                     THEN <<AddMsg(i, getRequiredComponentStates(registry', required, i))>>
                     ELSE <<>>)
  /\ UNCHANGED <<modelVars, sessionVars, browserVars>>

onComponentRemove(i) ==
  /\ Event /\ i \in DOMAIN registry
  /\ registry' = [j \in DOMAIN registry \ {i} |-> registry[j]]
  /\ \/ i \notin UiIds /\ UNCHANGED <<listened, inbox>>
     \/ /\ i \in UiIds
        /\ listened' = listened \ {i}
        /\ broadcast(IF isRequiredComponent(required, i) THEN <<RemoveMsg(i)>> ELSE <<>>)
  /\ UNCHANGED <<modelVars, sessionVars, browserVars>>

(* The state listener of startListenChanges.                               *)
StateChange(i, s) ==
  /\ Event /\ i \in DOMAIN registry
  /\ registry' = [registry EXCEPT ![i][s] = 1 - @]
  /\ broadcast(IF i \in listened /\ <<i, s>> \in required
               THEN <<ChangeMsg(i, s, registry'[i][s])>> ELSE <<>>)
  /\ UNCHANGED <<listened, modelVars, sessionVars, browserVars>>

-----------------------------------------------------------------------------
(* setDefinition: the resources are replaced first; a window that names an *)
(* unknown resource throws before the new model exists.  Then the required *)
(* states are replaced, every session gets a reset and the new hash, and   *)
(* the definition is written to the store, which may fail.                 *)
setDefinitionOldHash(d) ==
  /\ Event /\ d \notin Broken
  /\ resources' = {d} /\ modelHash' = d /\ required' = Required[d] /\ stored' = d
  /\ failed' = FALSE
  /\ inbox' = inbox \o Reaching(clients, <<StateMsg(registry, Required[d])>>)
                   \o Reaching(sessions, <<HashMsg(modelHash)>>)
  /\ UNCHANGED <<registryVars, sessionVars, browserVars>>

setDefinition(d) ==
  /\ Event
  /\ \/ /\ d \in Broken
        /\ resources' = {} /\ failed' = TRUE
        /\ UNCHANGED <<modelHash, required, stored, inbox>>
     \/ /\ d \notin Broken
        /\ resources' = {d} /\ modelHash' = d /\ required' = Required[d]
        /\ failed' = FALSE /\ stored' \in {d, stored}
        /\ inbox' = inbox \o Reaching(clients, <<StateMsg(registry, Required[d])>>)
                         \o Reaching(sessions, <<HashMsg(d)>>)
  /\ UNCHANGED <<registryVars, sessionVars, browserVars>>

-----------------------------------------------------------------------------
(* newSocket: the session is added, gets the state, then the hash.         *)
newSocket ==
  /\ socket = None /\ opened < MaxSessions /\ events + opened < MaxEvents
  /\ opened' = opened + 1 /\ socket' = opened + 1
  /\ sessions' = sessions \cup {opened + 1} /\ clients' = clients \cup {opened + 1}
  /\ heartbeat' = [heartbeat EXCEPT ![opened + 1] = "alive"]
  /\ link' = [link EXCEPT ![opened + 1] = "up"]
  /\ inbox' = <<StateMsg(registry, required), HashMsg(modelHash)>>
  /\ UNCHANGED <<registryVars, modelVars, view, model, fetches, astray, events>>

(* The 'close' of a session, which its socket and its heartbeat may emit   *)
(* more than once: the first takes it out of both sets.                    *)
CloseSession(k) ==
  /\ sessions' = sessions \ {k} /\ clients' = clients \ {k}
  /\ heartbeat' = [heartbeat EXCEPT ![k] = "off"]

(* onclose in the browser, because it left or because the connection       *)
(* broke: the server hears of it later, or never.                          *)
BrowserClose ==
  /\ socket # None
  /\ socket' = None /\ inbox' = <<>>
  /\ link' = [link EXCEPT ![socket] = IF @ = "up" THEN "broken" ELSE @]
  /\ UNCHANGED <<registryVars, modelVars, sessions, clients, heartbeat, opened, view, model,
                 fetches, astray, events>>

(* 'close' or 'error' of the server's socket.                              *)
SocketClose(k) ==
  /\ link[k] = "broken"
  /\ link' = [link EXCEPT ![k] = "closed"]
  /\ CloseSession(k)
  /\ UNCHANGED <<registryVars, modelVars, opened, browserVars, inbox, events>>

onMustPing(k) ==
  /\ k \in sessions /\ heartbeat[k] = "alive"
  /\ heartbeat' = [heartbeat EXCEPT ![k] = "pinged"]
  /\ UNCHANGED <<registryVars, modelVars, sessions, clients, link, opened, browserVars, inbox,
                 events>>

(* A pong, a ping or an action of the browser.  An action runs on the      *)
(* component if it is there, and leaves nothing in this state.             *)
markAlive(k) ==
  /\ link[k] = "up" /\ heartbeat[k] = "pinged"
  /\ heartbeat' = [heartbeat EXCEPT ![k] = "alive"]
  /\ UNCHANGED <<registryVars, modelVars, sessions, clients, link, opened, browserVars, inbox,
                 events>>

(* The heartbeat fails, on a broken socket or a slow one: terminate.       *)
onTimeout(k) ==
  /\ heartbeat[k] = "pinged"
  /\ link' = [link EXCEPT ![k] = "closed"]
  /\ CloseSession(k)
  /\ inbox' = IF socket = k THEN <<>> ELSE inbox
  /\ UNCHANGED <<registryVars, modelVars, opened, browserVars, events>>

(* The server starts again, from its store and with an empty registry.     *)
Restart ==
  /\ Event
  /\ registry' = <<>> /\ listened' = {}
  /\ modelHash' = stored /\ resources' = {stored} /\ required' = Required[stored]
  /\ failed' = FALSE
  /\ sessions' = {} /\ clients' = {}
  /\ heartbeat' = [k \in Sessions |-> "off"]
  /\ link' = [k \in Sessions |-> IF link[k] = "none" THEN "none" ELSE "closed"]
  /\ inbox' = <<>>
  /\ UNCHANGED <<stored, opened, browserVars>>

-----------------------------------------------------------------------------
(* The browser.  The reducers of its registry.                             *)
Reduce(v, m) ==
  CASE m.type = "state"     -> m.data
    [] m.type = "add"       -> (m.id :> m.attributes) @@ v
    [] m.type = "remove"    -> [i \in DOMAIN v \ {m.id} |-> v[i]]
    [] m.type = "change"    ->
         (m.id :> ((m.name :> m.value) @@ (IF m.id \in DOMAIN v THEN v[m.id] ELSE <<>>))) @@ v
    [] m.type = "modelHash" -> v

(* onmessage; a hash makes the browser ask for the model (modelInit).      *)
Receive ==
  /\ inbox # <<>>
  /\ inbox' = Tail(inbox)
  /\ view' = Reduce(view, Head(inbox))
  /\ \/ /\ Head(inbox).type = "modelHash"
        /\ fetches' = Append(fetches, [hash |-> Head(inbox).hash, answer |-> "asked"])
        /\ astray' = (astray /\ fetches # <<>>)
     \/ Head(inbox).type # "modelHash" /\ UNCHANGED <<fetches, astray>>
  /\ UNCHANGED <<registryVars, modelVars, sessionVars, socket, model, events>>

(* The http server: getResource throws on an unknown hash, unless the      *)
(* browser still has the model in its cache and does not ask.              *)
getResource(k) ==
  /\ fetches[k].answer = "asked"
  /\ \E a \in {"content", "missing"} :
       /\ fetches[k].hash \in resources => a = "content"
       /\ fetches' = [fetches EXCEPT ![k].answer = a]
  /\ UNCHANGED <<registryVars, modelVars, sessionVars, socket, view, model, astray,
                 inbox, events>>

(* The request fails on its way: fetchResource logs it and that is all.    *)
FetchLost(k) ==
  /\ fetches[k].answer = "asked"
  /\ fetches' = RemoveAt(fetches, k)
  /\ astray' = TRUE
  /\ UNCHANGED <<registryVars, modelVars, sessionVars, socket, view, model, inbox,
                 events>>

(* onContent.  After an error there is no content, and it throws.          *)
onContent(k) ==
  /\ fetches[k].answer # "asked"
  /\ fetches' = RemoveAt(fetches, k)
  /\ \/ /\ fetches[k].answer = "content"
        /\ model' = fetches[k].hash
     \/ fetches[k].answer = "missing" /\ UNCHANGED model
  /\ astray' = (astray \/ k > 1)
  /\ UNCHANGED <<registryVars, modelVars, sessionVars, socket, view, inbox, events>>

-----------------------------------------------------------------------------
Next ==
  \/ \E i \in Ids : onComponentAdd(i) \/ onComponentRemove(i)
  \/ \E i \in Ids : \E s \in States[i] : StateChange(i, s)
  \/ \E d \in Definitions : setDefinition(d)
  \/ newSocket
  \/ BrowserClose
  \/ \E k \in Sessions : SocketClose(k) \/ onMustPing(k) \/ markAlive(k) \/ onTimeout(k)
  \/ Restart
  \/ Receive
  \/ \E k \in DOMAIN fetches : getResource(k) \/ FetchLost(k) \/ onContent(k)

Spec == Init /\ [][Next]_vars

-----------------------------------------------------------------------------
(* What the browser will hold once it has read its messages is, at every   *)
(* moment, what sendState would send it: across model changes, components  *)
(* that come and go, and reconnections, no state is stale, missing or      *)
(* left over (registry-connector.ts, reducers/registry.ts).                *)
InFlightMirrors ==
  socket # None /\ link[socket] = "up" =>
    FoldLeft(Reduce, view, inbox) = State(registry, required)

(* A connected browser that has nothing left to read or to receive shows   *)
(* the server's model, unless the answers to its requests overtook each    *)
(* other or were lost since it last asked, or the last setDefinition       *)
(* failed (sessions/index.ts onModelUpdate, actions/model.ts modelInit).   *)
ModelCurrent ==
  /\ socket # None /\ link[socket] = "up" /\ inbox = <<>> /\ fetches = <<>>
  /\ ~astray /\ ~failed
  => model = modelHash

(* The manager and the connector hold the same sessions, those whose       *)
(* heartbeat runs and whose socket has not been seen to close: no session  *)
(* is left behind by the several ways in which one ends.                   *)
NoGhostSession ==
  /\ sessions = clients
  /\ sessions = {k \in Sessions : heartbeat[k] # "off"}
  /\ sessions = {k \in Sessions : link[k] \in {"up", "broken"}}

=============================================================================
