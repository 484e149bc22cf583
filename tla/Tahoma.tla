------------------------------- MODULE Tahoma -------------------------------
(***************************************************************************)
(* The Somfy driver, mylife-home-core-plugins-driver-tahoma: the box       *)
(* component with its client of the remote service (engine/client.ts over  *)
(* engine/api.ts), the store that components of one box share              *)
(* (engine/repository.ts), a roller shutter and a sliding gate.            *)
(*                                                                         *)
(* The requests of a client run one at a time (loginMutex); each is an     *)
(* asynchronous function that goes on when its request ends.  The service  *)
(* is external: it has devices, runs executions, and keeps events for a    *)
(* listener until they are fetched.                                        *)
(***************************************************************************)
EXTENDS Naturals, Sequences, SequencesExt, FiniteSets

CONSTANTS
  Shutter, Gate,    \* the two devices
  Closures,         \* values of the closure state of the shutter
  MaxCommands,      \* bound: commands and interruptions
  MaxEvents         \* bound: requests that fail, changes on the side of the service, components removed

VARIABLES
  \* the service
  world, closure, running, listening, events,
  \* the client of the box
  attached, logged, listener, queue, byDevice, byExec, refreshing,
  orphans,          \* the commands that the client of a removed box has still to send
  \* the store
  devices, states,
  \* the components: [alive, online, exec, value]
  comp,
  nextExec, commands, happened,
  quirks            \* history: see the properties

client == <<attached, logged, listener, queue, byDevice, byExec, refreshing>>
store == <<devices, states>>
Happens == happened < MaxEvents /\ happened' = happened + 1
vars == <<world, closure, running, listening, events, attached, logged, listener, queue, byDevice, byExec, refreshing,
          orphans, devices, states, comp, nextExec, commands, happened, quirks>>

Devices == {Shutter, Gate}
None == 0
Unknown == 1000             \* no state received yet
Execs == 1..MaxCommands

Fresh == [alive |-> FALSE, online |-> FALSE, exec |-> FALSE, value |-> 0]
NoClient ==
  /\ logged' = FALSE /\ listener' = "none" /\ refreshing' = FALSE
  /\ byDevice' = [d \in Devices |-> None] /\ byExec' = [e \in Execs |-> "none"]

Init ==
  /\ world = Devices /\ closure \in Closures /\ running = {} /\ listening = FALSE /\ events = <<>>
  /\ attached = FALSE /\ logged = FALSE /\ listener = "none" /\ queue = <<>>
  /\ byDevice = [d \in Devices |-> None] /\ byExec = [e \in Execs |-> "none"] /\ refreshing = FALSE /\ orphans = <<>>
  /\ devices = {} /\ states = Unknown /\ comp = [d \in Devices |-> [Fresh EXCEPT !.alive = TRUE]]
  /\ nextExec = 1 /\ commands = 0 /\ happened = 0 /\ quirks = {}

(***************************************************************************)
(* The components: what the events of the store do to them.                *)
(***************************************************************************)
refreshOnlineShutter(c, online) ==
  IF c.online = online THEN c
  ELSE IF online THEN [c EXCEPT !.online = TRUE] ELSE [c EXCEPT !.online = FALSE, !.value = 0, !.exec = FALSE]
refreshOnlineGate(c, online) == [c EXCEPT !.online = online]

refreshOnline(d, c, online) ==
  IF ~c.alive THEN c ELSE IF d = Shutter THEN refreshOnlineShutter(c, online) ELSE refreshOnlineGate(c, online)
refreshAll(cs, online, devs) == [d \in Devices |-> refreshOnline(d, cs[d], online /\ d \in devs)]
refreshState(c, v) == IF c.alive THEN [c EXCEPT !.value = 100 - v] ELSE c
refreshExec(c, executing) == IF c.alive THEN [c EXCEPT !.exec = executing] ELSE c

\* a shutter that knew its closure and comes back has to wait for another one
Forgotten(old, new) == IF old[Shutter].online /\ ~new[Shutter].online /\ states # Unknown THEN {"offline"} ELSE {}

(***************************************************************************)
(* The store.                                                              *)
(***************************************************************************)
\* onStateRefresh tells of the values that change
onStateRefresh(v) ==
  /\ states' = v
  /\ comp' = IF v = states THEN comp ELSE [comp EXCEPT ![Shutter] = refreshState(@, v)]

onDeviceList ==
  LET known == IF Shutter \in world THEN closure ELSE states
      \* added, its state, then the removed ones
      added == refreshAll(comp, logged, devices \cup world)
      changed == IF known = states THEN added ELSE [added EXCEPT ![Shutter] = refreshState(@, known)]
  IN /\ devices' = world /\ states' = known
     /\ comp' = refreshAll(changed, logged, world)
     /\ quirks' = quirks \cup Forgotten(comp, comp')

(***************************************************************************)
(* RunningExecutions.                                                      *)
(***************************************************************************)
setExec(d, e) ==
  /\ byDevice' = [byDevice EXCEPT ![d] = e] /\ byExec' = [byExec EXCEPT ![e] = d]
  /\ comp' = [comp EXCEPT ![d] = refreshExec(@, TRUE)]
removeByDevice(d) ==
  IF byDevice[d] = None THEN UNCHANGED <<byDevice, byExec, comp>>
  ELSE /\ byDevice' = [byDevice EXCEPT ![d] = None] /\ byExec' = [byExec EXCEPT ![byDevice[d]] = "none"]
       /\ comp' = [comp EXCEPT ![d] = refreshExec(@, FALSE)]
removeByExecOnly(e) ==
  IF byExec[e] = "none" THEN UNCHANGED <<byDevice, byExec, comp>>
  ELSE /\ byExec' = [byExec EXCEPT ![e] = "none"] /\ comp' = [comp EXCEPT ![byExec[e]] = refreshExec(@, FALSE)]
       /\ UNCHANGED byDevice
removeByExec(e) ==
  IF byExec[e] = "none" THEN UNCHANGED <<byDevice, byExec, comp>>
  ELSE /\ byDevice' = [byDevice EXCEPT ![byExec[e]] = None] /\ byExec' = [byExec EXCEPT ![e] = "none"]
       /\ comp' = [comp EXCEPT ![byExec[e]] = refreshExec(@, FALSE)]

(***************************************************************************)
(* The requests.  A job is its request and what follows it.                *)
(***************************************************************************)
Job(k, d, e, then) == [kind |-> k, device |-> d, exec |-> e, then |-> then]
Devs == Job("devices", "none", None, FALSE)
Register(poll) == Job("register", "none", None, poll)      \* by onDeviceRefresh, or by the login
Refresh == Job("refresh", "none", None, FALSE)
Fetch == Job("fetch", "none", None, FALSE)
Cancel(d, e, then) == Job("cancel", d, e, then)            \* then execute
Execute(d) == Job("execute", d, None, FALSE)

Queued(k) == \E i \in 1..Len(queue) : queue[i].kind = k
Polling == Queued("devices") \/ \E i \in 1..Len(queue) : queue[i] = Register(TRUE)
Busy(d) == \E i \in 1..Len(queue) : queue[i].device = d

(***************************************************************************)
(* request: a login first when there is no session.  setLogged(true) puts  *)
(* a registration behind the requests that wait.                           *)
(***************************************************************************)
LogIn ==
  /\ queue # <<>> /\ ~logged /\ logged' = TRUE
  /\ queue' = Append(queue, Register(FALSE)) /\ refreshing' = FALSE
  /\ comp' = IF attached THEN refreshAll(comp, TRUE, devices) ELSE comp
  /\ UNCHANGED <<world, closure, running, listening, events, attached, listener, byDevice, byExec, devices, states,
                 nextExec, commands, happened, quirks, orphans>>

\* a 401: the session is over, and the request is tried again after a login
Unauthorized ==
  /\ queue # <<>> /\ logged /\ Happens
  /\ logged' = FALSE /\ listener' = "none" /\ refreshing' = FALSE
  /\ byDevice' = [d \in Devices |-> None] /\ byExec' = [e \in Execs |-> "none"]
  /\ LET cleared == [d \in Devices |-> IF byDevice[d] # None THEN refreshExec(comp[d], FALSE) ELSE comp[d]]
     IN comp' = refreshAll(cleared, FALSE, devices)
  /\ quirks' = quirks \cup Forgotten(comp, comp') \cup (IF running # {} THEN {"lost"} ELSE {})
  /\ listening' = FALSE /\ events' = <<>>
  /\ UNCHANGED <<world, closure, running, attached, queue, devices, states, nextExec, commands, orphans>>

\* What a request does on the side of the service, with the execution it starts or ends
ExecEvent(e) == [name |-> "ExecutionStateChangedEvent", exec |-> e]
Started(d) ==
  running' = running \cup {[exec |-> nextExec, device |-> d]} /\ nextExec' = nextExec + 1 /\ UNCHANGED events
Cancelled(e) ==
  /\ running' = {r \in running : r.exec # e} /\ UNCHANGED nextExec
  /\ events' = IF listening /\ running' # running THEN Append(events, ExecEvent(e)) ELSE events

\* Another error, of the login or of the request: the asynchronous function ends there.  A request
\* that timed out, or whose answer was lost, was served all the same ("unanswered").
Fails ==
  /\ queue # <<>> /\ Happens
  /\ queue' = Tail(queue)
  /\ LET job == Head(queue) IN
     \/ UNCHANGED <<running, listening, events, listener, nextExec, quirks>>
     \/ /\ logged /\ job.kind = "execute" /\ Started(job.device) /\ quirks' = quirks \cup {"unanswered"}
        /\ UNCHANGED <<listening, listener>>
     \/ /\ logged /\ job.kind = "cancel" /\ Cancelled(job.exec) /\ UNCHANGED <<listening, listener, quirks>>
     \/ /\ logged /\ job.kind = "devices" /\ listening' = FALSE /\ events' = <<>>
        /\ listener' = IF listener = "valid" THEN "stale" ELSE listener
        /\ UNCHANGED <<running, nextExec, quirks>>
     \/ /\ logged /\ job.kind = "fetch" /\ events' = <<>>
        /\ UNCHANGED <<running, listening, listener, nextExec, quirks>>
  /\ UNCHANGED <<world, closure, attached, logged, byDevice, byExec, refreshing, devices, states, comp, commands, orphans>>

Done(k) == queue # <<>> /\ logged /\ Head(queue).kind = k

DevicesDone ==
  /\ Done("devices") /\ onDeviceList
  /\ queue' = Append(Tail(queue), Register(TRUE))
  \* the service drops the listener
  /\ listening' = FALSE /\ listener' = IF listener = "valid" THEN "stale" ELSE listener
  /\ events' = <<>>
  /\ UNCHANGED <<world, closure, running, attached, logged, byDevice, byExec, refreshing, nextExec, commands, happened, orphans>>

RegisterDone ==
  /\ Done("register") /\ queue' = Tail(queue) /\ listener' = "valid" /\ listening' = TRUE /\ events' = <<>>
  /\ UNCHANGED <<world, closure, running, attached, logged, byDevice, byExec, refreshing, devices, states, comp, nextExec,
                 commands, happened, quirks, orphans>>

RefreshDone ==
  /\ Done("refresh") /\ queue' = Tail(queue) /\ refreshing' = TRUE
  /\ UNCHANGED <<world, closure, running, listening, events, attached, logged, listener, byDevice, byExec, devices, states,
                 comp, nextExec, commands, happened, quirks, orphans>>

\* the events are fetched one at a time here; fetching with a listener that is gone is an error
FetchDone ==
  /\ Done("fetch")
  /\ \/ /\ listener = "valid" /\ events # <<>> /\ events' = Tail(events) /\ UNCHANGED queue
        /\ LET event == Head(events)
           IN CASE event.name = "ExecutionStateChangedEvent" ->
                     removeByExec(event.exec) /\ UNCHANGED <<states, refreshing>>
                [] event.name = "DeviceStateChangedEvent" ->
                     onStateRefresh(event.value) /\ UNCHANGED <<byDevice, byExec, refreshing>>
                [] event.name = "RefreshAllDevicesStatesCompletedEvent" ->
                     refreshing' = FALSE /\ UNCHANGED <<byDevice, byExec, states, comp>>
     \/ /\ listener # "valid" \/ events = <<>>
        /\ queue' = Tail(queue) /\ UNCHANGED <<events, states, comp, byDevice, byExec, refreshing>>
  /\ UNCHANGED <<world, closure, running, listening, attached, logged, listener, devices, nextExec, commands, happened, quirks, orphans>>

CancelDone ==
  /\ Done("cancel")
  /\ LET job == Head(queue) IN
     /\ Cancelled(job.exec) /\ removeByDevice(job.device)
     /\ queue' = IF job.then THEN Append(Tail(queue), Execute(job.device)) ELSE Tail(queue)
  /\ UNCHANGED <<world, closure, listening, attached, logged, listener, refreshing, devices, states, commands,
                 happened, quirks, orphans>>

ExecuteDone ==
  /\ Done("execute")
  /\ LET d == Head(queue).device IN setExec(d, nextExec) /\ Started(d)
  /\ queue' = Tail(queue)
  /\ UNCHANGED <<world, closure, listening, attached, logged, listener, refreshing, devices, states, commands, happened,
                 quirks, orphans>>

\* The client of a removed box goes on with what it had to send, and tells nobody; it may fail too.
OrphanDone ==
  /\ orphans # <<>>
  /\ LET job == Head(orphans) IN
     \/ /\ job.kind = "execute" /\ Started(job.device) /\ orphans' = Tail(orphans)
     \/ /\ job.kind = "cancel" /\ Cancelled(job.exec)
        /\ orphans' = IF job.then THEN Append(Tail(orphans), Execute(job.device)) ELSE Tail(orphans)
     \/ orphans' = Tail(orphans) /\ UNCHANGED <<running, events, nextExec>>
  /\ UNCHANGED <<world, closure, listening, client, store, comp, commands, happened, quirks>>

(***************************************************************************)
(* The pollers and the constructor of the client; a poller starts again    *)
(* when its callback has ended.                                            *)
(***************************************************************************)
Enqueues(job) ==
  /\ attached /\ queue' = Append(queue, job)
  /\ UNCHANGED <<world, closure, running, listening, events, attached, logged, listener, byDevice, byExec, refreshing,
                 devices, states, comp, nextExec, commands, happened, quirks, orphans>>

onDeviceRefresh == ~Polling /\ Enqueues(Devs)
onEventPoll == listener # "none" /\ ~Queued("fetch") /\ Enqueues(Fetch)
onStateRefreshPoll == ~Queued("refresh") /\ ~refreshing /\ Enqueues(Refresh)
stateRefreshTimeout ==
  /\ refreshing /\ refreshing' = FALSE
  /\ UNCHANGED <<world, closure, running, listening, events, attached, logged, listener, queue, byDevice, byExec, devices,
                 states, comp, nextExec, commands, happened, quirks, orphans>>

(***************************************************************************)
(* The actions of the components: doOpen, doClose, toggle and setValue     *)
(* execute a command, interrupt cancels what runs.                         *)
(***************************************************************************)
Commands(d, job) ==
  /\ comp[d].alive /\ comp[d].online /\ attached /\ logged
  /\ commands < MaxCommands /\ commands' = commands + 1
  /\ queue' = Append(queue, job)
  /\ quirks' = quirks \cup (IF Busy(d) THEN {"overlap"} ELSE {})
  /\ UNCHANGED <<world, closure, running, listening, events, attached, logged, listener, byDevice, byExec, refreshing,
                 devices, states, comp, nextExec, happened, orphans>>

execute(d) == Commands(d, IF byDevice[d] # None THEN Cancel(d, byDevice[d], TRUE) ELSE Execute(d))
interrupt(d) == byDevice[d] # None /\ Commands(d, Cancel(d, byDevice[d], FALSE))

(***************************************************************************)
(* Components come and go.  A store lives as long as one of them uses it.  *)
(***************************************************************************)
Removed == Happens /\ UNCHANGED <<world, closure, nextExec, commands>>
releaseStore(users) ==
  IF users THEN UNCHANGED <<devices, states>> ELSE devices' = {} /\ states' = Unknown

BoxCreate ==
  /\ ~attached /\ attached' = TRUE /\ UNCHANGED <<world, closure, nextExec, commands, happened>>
  /\ queue' = <<Devs, Refresh>>
  /\ UNCHANGED <<running, listening, events, logged, listener, byDevice, byExec, refreshing, devices, states, comp, quirks, orphans>>

\* unsetClient: the listeners of onlineChanged find the client still online; it is the removal of
\* the devices that takes the components offline.  The pollers stop; what the client has in flight
\* and in its queue goes on, of which the service sees the commands.
BoxDestroy ==
  /\ attached /\ attached' = FALSE /\ Removed
  /\ queue' = <<>> /\ orphans' = orphans \o SelectSeq(queue, LAMBDA job : job.device # "none") /\ NoClient
  /\ comp' = IF logged THEN refreshAll(comp, TRUE, {}) ELSE comp
  /\ IF logged THEN devices' = {} /\ states' = Unknown ELSE releaseStore(\E d \in Devices : comp[d].alive)
  /\ listening' = FALSE /\ events' = <<>>
  /\ quirks' = quirks \cup Forgotten(comp, comp')
                 \cup (IF running # {} \/ orphans' # <<>> \/ \E d \in Devices : comp[d].exec THEN {"lost"} ELSE {})
  /\ UNCHANGED running

DeviceCreate(d) ==
  /\ ~comp[d].alive /\ UNCHANGED <<world, closure, nextExec, commands, happened>>
  /\ comp' = [comp EXCEPT ![d] = refreshOnline(d, [Fresh EXCEPT !.alive = TRUE], attached /\ logged /\ d \in devices)]
  /\ quirks' = quirks \cup (IF states # Unknown \/ byDevice[d] # None THEN {"late"} ELSE {})
  /\ UNCHANGED <<running, listening, events, attached, logged, listener, queue, byDevice, byExec, refreshing, devices, states, orphans>>

DeviceDestroy(d) ==
  /\ comp[d].alive /\ Removed
  /\ comp' = [comp EXCEPT ![d] = Fresh]
  /\ releaseStore(attached \/ \E o \in Devices \ {d} : comp[o].alive)
  /\ UNCHANGED <<running, listening, events, attached, logged, listener, queue, byDevice, byExec, refreshing, quirks, orphans>>

(***************************************************************************)
(* The service.                                                            *)
(***************************************************************************)
Serves(event) ==
  /\ events' = IF listening THEN Append(events, event) ELSE events
  /\ UNCHANGED <<listening, attached, logged, listener, queue, byDevice, byExec, refreshing, devices, states, comp, nextExec,
                 commands, orphans>>

ExecutionEnds ==
  \E r \in running :
    /\ running' = running \ {r} /\ Serves(ExecEvent(r.exec))
    /\ UNCHANGED <<world, closure, happened, quirks>>
ClosureChanges ==
  \E v \in Closures \ {closure} :
    /\ Happens /\ closure' = v /\ Serves([name |-> "DeviceStateChangedEvent", value |-> v])
    /\ UNCHANGED <<world, running, quirks>>
StatesCompleted ==
  /\ Happens /\ refreshing /\ Serves([name |-> "RefreshAllDevicesStatesCompletedEvent"])
  /\ UNCHANGED <<world, closure, running, quirks>>
WorldChanges ==
  /\ Happens /\ \E d \in Devices : world' = IF d \in world THEN world \ {d} ELSE world \cup {d}
  /\ UNCHANGED <<closure, running, listening, events, attached, logged, listener, queue, byDevice, byExec, refreshing,
                 devices, states, comp, nextExec, commands, quirks, orphans>>

Next ==
  \/ LogIn \/ Unauthorized \/ Fails
  \/ DevicesDone \/ RegisterDone \/ RefreshDone \/ FetchDone \/ CancelDone \/ ExecuteDone \/ OrphanDone
  \/ onDeviceRefresh \/ onEventPoll \/ onStateRefreshPoll \/ stateRefreshTimeout
  \/ \E d \in Devices : execute(d) \/ interrupt(d) \/ DeviceCreate(d) \/ DeviceDestroy(d)
  \/ BoxCreate \/ BoxDestroy
  \/ ExecutionEnds \/ ClosureChanges \/ StatesCompleted \/ WorldChanges

Spec == Init /\ [][Next]_vars

(***************************************************************************)
(* Properties.                                                             *)
(***************************************************************************)
TypeOK ==
  /\ devices \subseteq Devices /\ states \in Closures \cup {Unknown}
  /\ listener \in {"none", "valid", "stale"} /\ (listener # "none" => logged)
  /\ byDevice \in [Devices -> Execs \cup {None}] /\ byExec \in [Execs -> Devices \cup {"none"}]
  /\ quirks \subseteq {"offline", "late", "overlap", "lost", "unanswered"}

\* A component is online exactly when the client of its box has a session and the service listed its
\* device, through logins, lost sessions, device lists and the removal of the box.
OnlineTrue ==
  \A d \in Devices : comp[d].alive => comp[d].online = (attached /\ logged /\ d \in devices)

\* What runs on a device is the execution that the driver knows for it, from the answer to its command
\* to its cancellation, and a component shows that it executes exactly while the driver knows of an
\* execution.  A command given
\* before the former one was answered ("overlap") breaks the link, and so do a session or a box that
\* ended with commands or executions underway ("lost") and a command that was served but not
\* answered ("unanswered"); a component created meanwhile ("late") does not learn of it, and a
\* shutter whose device went away ("offline") forgets it.
ExecutionsKnown ==
  quirks = {} =>
    /\ \A r \in running : byDevice[r.device] = r.exec
    /\ \A d \in Devices : comp[d].alive => comp[d].exec = (byDevice[d] # None)

\* A shutter that is online shows the state that the store has for its device, as long as it did not
\* go offline since it knew it, and was there from the start.  (repository.ts:113 says that the
\* states of a device stay accurate while it is offline: the store's do, the component's value does
\* not.)
ShutterShowsState ==
  quirks \cap {"offline", "late"} = {} /\ comp[Shutter].online /\ states # Unknown =>
    comp[Shutter].value = 100 - states
=============================================================================
