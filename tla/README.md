# A TLA+ verification of mylife-home

mylife-home is a home automation system written in TypeScript for Node.js and
the browser. This directory holds TLA+ models of its parts, the TLC
configurations that check them on small instances, and proofs, checked by
TLAPS, of the safety of the parts everything else stands on.

`PROJECT.json` lists the components, the runs, for each property a mutation of
a definition that breaks it, the source lines each definition models, the
findings, the hazards and the theorems.

## The system

| Part | Source | What it does |
|---|---|---|
| common | `mylife-home-common` | MQTT client, presence, metadata, remote calls (rpc), log stream, and the registry of the components seen on the bus |
| core | `mylife-home-core` | runs component plugins, binds states to actions, stores its configuration, publishes its components |
| plugins | `mylife-home-core-plugins-*` | logic (timers, selectors, computations) and drivers of devices |
| ui | `mylife-home-ui` | serves a user interface to browsers and mirrors component states to them |
| studio | `mylife-home-studio` | the editor: projects, imports, deployment to instances and hosts, online views, git |
| collector | `mylife-home-collector` | writes what happens on the bus to a database |

The parts meet on an MQTT bus. An instance publishes, as retained messages, its
presence, the metadata of its plugins and components, and their states; other
instances mirror them in their registry; an action is a message, and a service
(such as "set this binding") is a remote call. The studio server talks to its
browsers over a socket with calls, answers and notifications; every browser
keeps tables that must stay those of the server.

Each process is one Node.js event loop: a handler runs to its end or to its
next `await`. A stretch between two awaits is one action of a model. The hard
cases are what may happen at the awaits, in the network, in the file system and
in other processes, and what is left when a handler throws half way.

## Modules

One module per component, `MC*` modules that make small instances, `*Proofs`
modules that hold proofs (three components are small enough to keep theirs).
Library code and services (the MQTT library, the broker, databases, devices,
SSH hosts, git, the browser) are environment, marked external in the map.

### The bus and the core

| Module | Models | State and actions |
|---|---|---|
| `BusClient` | `mylife-home-common/src/bus/client.ts` | the process, its connection, `_online`, the subscription set, the async function of every connection at its await; connect, close, crash, terminate, subscribe, publish; the broker's session, will and retained messages |
| `Rpc` | `mylife-home-common/src/bus/rpc.ts` | calls, services and both connections; `serve`, `unserve`, `call`, timer, handler, reply, losses and crashes |
| `RemoteMirror` | `mylife-home-common/src/components/bus-publisher.ts`, `bus/presence.ts`, `bus/metadata.ts` | presence of a remote instance, its BusInstance, metadata views over a shared subscription, the registry |
| `Publisher` | `mylife-home-core/src/components/bus-publisher.ts`, `mylife-home-common/src/bus/components.ts` | the objects that publish one component id, for any plugin with its members in any order, their awaits, the map of local components, action messages |
| `BusLogger` | `mylife-home-common/src/bus/logger.ts` | chunks, offline queue, drain loops |
| `ComponentManager` | `mylife-home-core/src/manager/component-manager.ts`, `components/binding.ts`, the registry and store they use | registry and its indexes, bindings and their listeners, store; add and remove of components and bindings with a throw at every plugin call, remote components, init, terminate, crash, restart |
| `Wiring` | abstract | what the runtime promises: the bindings that carry values are those whose two ends are present with members of one type |
| `CoreStore` | `mylife-home-core/src/store` | saves step by step (remount, truncate, write, remount), failures, crash, load |

### Plugins, collector and UI

| Module | Models |
|---|---|
| `LogicTimers` | programs of the smart timers, their waits, re-entrant triggers and cancels |
| `LogicComponents` | the logic plugins with state or a computation, one per behaviour |
| `Tahoma` | box, client with its log-in mutex and pollers, executions, shutter and gate |
| `Absoluta` | the mailbox of an alarm, its connection, fetches, store and zones |
| `Lirc` | the infrared controller, its send queue, its connection and the errors of its client |
| `Mpd` | the idle protocol of a music player and its queue of handlers |
| `Broadlink` | power switches over datagrams that are lost, late or doubled |
| `Collector` | history and log records, sequence numbers, pending writes, the drain at exit |
| `UiSession` | UI server, sessions and heartbeat, pushed states, definitions, and the store of a browser |
| `UiView` | the windows of that browser, its address, controls and presses |

### Studio

| Module | Models |
|---|---|
| `StudioProjects` | file collection with its polling watcher, project lists, opened projects, sessions and notifiers, what browsers show |
| `CoreModel` | the object graph of a core project with templates, every edit as an operator that returns the project, its notifications and whether it threw |
| `CoreDesigner` | a core project edited by several browsers, the tables and optimistic edits of one |
| `CoreImport` | import plans (difference, dependencies, selection) prepared, then applied to a project that may have changed |
| `CoreDeploy` | resolution of templates, validation, plan, one remote call at a time, saves, store files |
| `UiDesigner` | a UI project with its templates, edits, refresh of components, validation and deployment, and a browser's tables |
| `DeployService` | recipes, pins, runs, notifications, the deploy store of a browser |
| `DeployFiles` | files uploaded chunk by chunk, each write opened, written and closed at the server, while others rename and delete; errors of the file system, lost connections, timeouts |
| `DeployTasks` | the tasks of a recipe on an in-memory file system, and the resolution of packages |
| `DeployInstall` | installation of an image on a host over SSH, overlapping and failing at any call |
| `OnlineFeed`, `OnlineView`, `OnlineInstances` | the notifiers of history and logs, of components, of instances, and the stores of a browser |
| `StudioGit` | git jobs, debounced status, diff, staging, commit |
| `StudioSocket` | calls over a socket that is lost and comes back, sessions, the status bar |
| `StudioTabs` | tabs, the names of their projects, and edits through `debounceTimeKey` to their calls |

`CoreModel`, `CoreImport`, `CoreDeploy`, `UiDesigner`, `DeployService`,
`DeployTasks` and `Collector` use recursive operators and are for TLC only.

**Histories.** Several modules have a variable such as `quirks`, `late`,
`rushed`, `disturbed` or `hurried`: it records that something happened (two
saves overlapped, a connection closed under its connect function) after which
the code is known not to keep a promise. A property says what holds until then;
the section *Observations* says what happens after. The flags change nothing
else in the models.

**Suites.** Parts that do not touch each other share a run: an MC module holds
the variables of all of them, `focus` chooses in `Init` the one that moves, and
each property is about one focus. The state space is the sum, not the product.

## Runs

| Run | Configuration | Checks |
|---|---|---|
| `core_faulty` | `MCComponentManager_faulty.cfg` | the component runtime when every plugin may throw at every call: `ListenerDiscipline`, `NoStaleEndpoint`, `StoreIsRunning` |
| `core_sound` | `MCComponentManager_sound.cfg` | when none throws: `MapsExact`, and the refinement `WiresSpec` of `Wiring`, on a cycle of bindings and a component bound to itself |
| `bus` | `MCBus_bus.cfg` | `SubscriptionsSound` (an online client is subscribed to its set), `RetainedSound` (presence, states and clean exit), `PresenceSettles` (a client comes online, the will clears, every call ends) |
| `runtime` | `MCRuntime_runtime.cfg` | `MirrorExact`, `CalmlyPublished`, `AtMostOnce` (calls), `EventuallySettled` |
| `studio_core` | `MCCoreDesigner_studio_core.cfg` | `DesignSound` (the file loads again, references resolve), `DesignMirrored` (a browser's tables), `ImportSound` |
| `studio_ui` | `MCUiDesigner_studio_ui.cfg` | `UiDesignSound`, `UiDesignMirrored` |
| `studio_projects` | `MCStudioProjects_studio_projects.cfg` | `CollectionShown`, `DeploySaved` |
| `services` | `MCStudioServices_services.cfg` | `RecipesMirrored`, `UploadFaithful`, `NothingLost`, `ImageFaithful`, `FeedComplete`, `OnlineMirrored`, `StatusSettles`, `CallsAnswered`, `EditsOrdered` |
| `devices` | `MCDevices_devices.cfg` | `SettledOutputs`, `DerivedCurrent`, `ExecutionsKnown`, `ZonesFollow`, `NeverStalled`, `AnswersMatched`, `Enforced`, `ReplayExact`, `LogsAccounted`, `SavedIsLoaded`, `ModelCurrent`, `ViewSound` |
| `bus_republish` | `MCBus_republish.cfg` | violated: `RepublishedAfterDisconnection` |
| `publish_ghost` | `MCRuntime_ghost.cfg` | violated: `OnlyLocalPublished` |
| `mirror_zombie` | `RemoteMirror_zombie.cfg` | violated: `OfflineForgotten` |

The comment of each property says what it states and of which code; a property
of a suite conjoins, for its focus, the type invariant of the module and the
invariants defined there.

### Bounds

Every bound is a constant (`Max*`) in the guard of the actions of the
environment or of a user; the code's own steps are never bounded. The bounds
are the smallest at which the cases of interest happen, and the mutations in
`PROJECT.json` show for each property that its run reaches the states where it
could fail.

* *Component runtime.* Two local ids and a remote one, two plugins that agree on
  one type only, and two identities per object, so that an object removed and
  its successor under the same id are told apart. It has no other bound.
* *Bus.* Two connections over two runs of the process: a connect function can
  outlive its connection, and a crash leaves a session for the next process to
  take over.
  Two topics let a clean-up clear one and miss another.
* *Calls.* Two calls of a service that may be served twice, a loss on either side
  and a crash of the server: late requests, late answers and a second handler occur.
* *Mirror and publisher.* Two components that need one plugin, and up to four
  views; three objects under one id, so that one is added while its
  predecessor unsubscribes. The publisher and the calls lose one connection.
* *Designers.* Two edits by anyone and one edit of this browser, on projects
  that already have templates, exports, bindings and uses: every edit meets
  every other, and the optimistic one, in each order.
* *Projects.* Two browsers, two names and three operations, of which an outside
  change of the directory is one; two deployments by two users, one fault.
* *Services and devices.* Two of each thing that can be confused with another
  (recipes, uploads, components, zones, outputs, users), and one or two faults.
  Faults and removals of the alarm, reconnections and events of the UI server,
  and operations on recipes and reopenings of the tab share one bound of three
  or four, so that any two of them meet without the product of all. A call that
  times out and a change of the state of the bus are explored one at a time.

### Deadlock

The component runtime is checked for deadlock: the runtime can always be asked
something. The other runs say `CHECK_DEADLOCK FALSE`: a behaviour ends when the
bounded users and faults are used up and everything is handled, which is the
state the "once nothing is in flight" properties are about.

### Fairness

Weak fairness, only where a liveness property needs it: steps of the event
loop whose promise is resolved, expiry of armed timers, delivery by the broker
over a live connection and its keep-alive. The MQTT library reconnects by
itself: this is assumed of the caller in `Rpc` (`CallerConnect`), of the
observer in `RemoteMirror` and of the instance in `Publisher` (`GoOnline`), not
in `BusClient`. Nothing is assumed of users, remote instances, services or
plugins; that a connection stays is a premise of the properties that need it,
and otherwise the losses are bounded.

## Findings

Three runs show what the code does against what a test or a comment of the
repository says.

* `bus_republish`: the function a connection fires outlives it. When the
  connection closes during the resident-state delay, its presence publish,
  queued by the library, completes on the next connection and brings the client
  online; components publish; the new connection's clean-up, now online, really
  subscribes to its own topics and clears the fresh retained messages, which
  are not published again (`mylife-home-common/src/bus/client.ts:30`). The core test
  `bus-publisher.test.ts:44` says "should re-publish component after
  disconnection".
* `publish_ghost`: `setOnline` publishes the metadata after its last await
  without looking whether the component was removed meanwhile
  (`mylife-home-core/src/components/bus-publisher.ts:97`); line 123 says "publish all local
  components".
* `mirror_zombie`: a `BusInstance` closed while its view is being created throws
  on `this.view`; the view is then created and fills the registry with the
  components of an instance that is offline
  (`mylife-home-common/src/components/bus-publisher.ts:143`). The test `registry.test.ts:354`
  expects the registry to be empty after a disconnection.

## Proofs

TLAPS proves the following for every value of the constants: any sets of ids,
plugins, bindings, topics, filters, calls, services, images, and any value of
the bounds. TLC checked each inductive invariant on a small instance before it
was proved.

| Theorem | Module | Statement | Assumptions |
|---|---|---|---|
| `TypeCorrect` | `ComponentManagerProofs` | the types | `ConstantsAssumption` and the two on `None`, `UniqueHosts` |
| `ListenersCorrect` | | `ListenerDiscipline`: a component is listened to by exactly the active bindings whose source it is | same |
| `EndpointsCorrect` | | `NoStaleEndpoint`: no binding holds an object that has left the registry | same |
| `MapsAgree` | | the registry's indexes, the manager's map and the publisher's set agree | same |
| `StoreCorrect` | | `StoreIsRunning`: the store holds what runs | same |
| `MapsAreExact` | `WiringProofs` | `MapsExact`: bindings miss no component either | and `Faulty = {}` |
| `WiringImplemented` | | `WiresSpec`: the runtime implements `Wiring` | and `Faulty = {}` |
| `SavesAreLoaded` | `CoreStore` | a store file loads with the last save that succeeded or a later one, and a mounted file system is read-only between saves | `Bounded`: the bounds are natural numbers |
| `InstallsLoseNothing` | `DeployInstall` | nothing that was on a host, nor the image of an installation that ended, is lost | none |
| `CallsAreSound` | `RpcProofs` | `AtMostOnce`, `OwnReply` and `RepliesReleased` | none |
| `SubscriptionsHold` | `BusClientProofs` | `SubscriptionsSound`: an online client has a connection and is subscribed to exactly its set once the broker has read what it sent | `BusAssumption`: finitely many topics, the two reserved names are not among the others |

The runs `devices`, `services` and `runtime` check `SavedIsLoaded`,
`NothingLost` and the invariants of calls as parts of the suite properties
`SavedIsLoaded`, `NothingLost` and `AtMostOnce`; the theorems are about the
definitions of the component's module.

`UniqueHosts` says that no id is deployed on two instances, which the studio
validates before it deploys. Without it a remote component may take the id of a
local one, and the registry refuses the second. `Faulty = {}` says that no
plugin throws: `core_faulty` and the first five theorems show what holds when
they do. That bindings are complete does not: a plugin that throws in the middle
of `addComponent` leaves later bindings without the component.

### The component runtime

`ComponentManagerProofs`. The invariant `IInv` is `BindingInv /\ MapInv /\
StoreIsRunning`. `BindingInv` says, of every binding, that its ends are of the
registry and its listener that of its source; it is stated per binding,
with the registry as a parameter, so that an event that the registry emits to
its listeners one after the other, some of which throw, can be followed: lemmas
say what one listener does (`AddSound`, `RemoveSound`, `NewSound`), then what the
whole emission leaves (`EmitAddBindings`, `EmitRemoveBindings`). `MapInv` ties
the manager's map, the registry's indexes and the publisher's set, and is needed
because an operation that throws after its first effect leaves the rest undone.
Then there is one lemma per action, `NextInv` combines them, and `InvImplies`
gives the properties.

`WiringProofs` adds what holds only when nothing throws: `BindingsExact` (both
ends of a binding are what the registry holds under their ids) and `HostsExact`
(a host is in the registry and in the store). It then shows that every step of
the runtime maps to a step of `Wiring` or a stutter (`WiringStep`).

### Store file and installation

`SavesInv` is `Typed /\ OneSave /\ FileFollows /\ MountFollows`: without an
overlap one save at most is in progress; the file is whole but while a save
rewrites it, the items a save carries are not older than the last ones saved,
and what the process holds is not older than either; a mounted file system is
writable only on behalf of a save that will remount it.

`InstallInv` is `Recorded /\ Exclusive /\ Located` and that the old items are in
the root or in a backup: `tmp-deploy` belongs to one installation at most and
holds only what was uploaded; where the image of an installation is follows from
its step (staged before it is placed, in the root or in a backup afterwards,
since a later installation may have moved it there). Overlapping installations
work on stale lists; a move then fails and overwrites nothing.

### Calls

`Rpc` and `RpcProofs` (split because the caller's and the server's side are
long). `CallsInv` says, for each call: its request exists once at most, held by
the library, on its way to the broker or to the server, or executed
(`RequestOk`); its subscription is acknowledged once and left when it is over
(`SubscribeOk`); it is executed before it has an outcome, which is then its
result (`OutcomeOk`); and every reply in any channel carries the outcome of its
call (`ReplyOk`). At-most-once also needs that a request is handed to one handler
only, which `ServiceInv` gives: the Service that has the address is the only one
that listens.

### Subscriptions

`BusClientProofs`. `SubscriptionInv` is `Flags /\ Typed /\ Linked /\ Sent`. The
broker learns of subscriptions by packets, which several connect functions and
callers send, so its set equals the client's only in the end. The invariant says
so packet by packet: `Leads(q, B, F, f)` holds when a broker that has the
subscriptions `B` and reads the packets `q` ends subscribed to `f` exactly when
`f` is in `F`, the last packet about `f` deciding. `Sent` says that what an
online client sent leads the broker to its subscription set, and that a client
that is not online yet, and the library while disconnected, have sent and hold
publishes only. `Linked` says that a connect function about to set the client
online has a connection, although it may have been fired by an earlier one.
Lemmas say how appending, reading and concatenating
packets change `Leads`; every action then has a lemma.

### Only model-checked

* Liveness (`PresenceSettles`, `EventuallySettled`): out of the prover's reach.
* Modules with recursive operators: all of the designers, imports, deployment,
  recipes, tasks and the collector. What a recursive definition computes cannot
  be proved here.
* Of `BusClient`: what is retained (`RetainedSound`). Its invariant needs the
  contents of every channel and of every connect function at once, and the
  history `late`; `SubscriptionInv` is the first half of it.
* Of `Rpc`: `TimeoutHasCause`, which is about what is missing from the channels
  (no reply was lost), while `CallsInv` is about what is there.
* Of `DeployInstall`: `InstalledWhole`.
* `RemoteMirror`, `Publisher`, the other services of the studio, the drivers and
  the UI.

## Observations

Behaviour met while modelling that the models contain and that the properties
exclude by a history flag or state as it is.

*Bus.* The resident-state clean-up of a connection does nothing, because the
client is not online yet when it subscribes (`client.ts:69`). A live log chunk
overtakes the queued ones, and the queue exceeds its retention by one chunk.

*Core.* `setOnline` publishes the metadata of a component removed during its
last subscription; one removed during an earlier await makes it stop, and a
removal at any other moment of a connection is retracted. Two overlapping saves remount the file system read-only under each
other; the file is written in place, and a crash during the write leaves one
that does not load.

*Plugins.* A smart timer triggered from its own output may stay stuck; a late
event loop makes its progress exceed 100. `FloatAverage` turns null to NaN on
the accumulator. A configuration is checked for its type only: a
`FloatToNullablePercent` with min = max, a value of `BinaryToPercent` or a step
or value of a selector out of the range of the state makes the action throw, and
nothing else does. A Tahoma shutter does not show its value again
after the box was offline; a command that was served but not answered runs
unknown to the driver, and a box that is removed still sends the commands it
had queued. Absoluta zones are not restored after a reconnection,
and a fetch that fails half way loses what it read. A fetch reads the last mail
again when there is none after it, so that a last mail with an older date than
the one before it wins in the end. An Absoluta client whose opening failed
keeps its listeners, and its close drops the client that replaced it: the
dropped client is not closed and publishes what it reads; a client dropped while
its mailbox is opened leaves the store online although nobody reads, and
then the removal of the box throws. Lirc's `onError` is registered unbound:
on `end` and `timeout` it throws instead of going offline. Lirc sends may overlap
after a reconnection, and a closed controller is reused. MPD does not reconnect
after a clean close, and an action during the five seconds before a reconnection
throws. A Broadlink device closed during name resolution connects for good, and
one that stops answering stays online.

*UI.* An address opened before the model is loaded is lost. A model without a
window that is shown makes the render throw. The end-of-input timer of an
unmounted control still fires, and throws when the model has no such control
any more.

*Studio.* The notifiers of lists and status are keyed by identifiers that are
unique in a session only, and collide between sessions. A live update may reach
the browser between the creation of a notifier and its first message. A recipe
written by the server and removed from outside before the poll stays in memory.
An upload whose last file is empty never closes its dialog, and neither does one
that fails: the error ends the browser's epics, while the server may still carry
out the write. Renaming a template leaves the old name in the `templateId` of
its components in the browser (`core-designer/reducer.ts:338`), and renaming a
used one leaves it in the file. A template may be put into itself, as the check for
circles does not look at the template. An import prepared before someone else's
edit is applied as it is: it may fail half way, or remove a plugin that has a
component by then. `replaceHost` of the host name task replaces the old
name inside longer words too, so that the files agree on the host name but other
words of them may change. A failed
installation leaves `tmp-deploy`, so that retries are refused, and does not end
its connection. The comparison of package versions is not transitive when the
minor part is missing. An instance that goes offline during `createView` stays
in the online view. `online-history/reducer.ts:71` says that items are ordered by
time; they are in order of arrival, which is the same unless a live record
overtakes the replay, and a state change is then linked to the newest earlier
record by arrival. A debounced edit that is flushed overtakes
an edit without key that waits for its `setTimeout`. A name of a project that
arrives when its tab was closed makes a reducer throw, which ends all epics; the
edits they held back are lost. A diff about a feature that
is not there throws; deleted files are all called `/dev/null`.

## Not modelled

* Remote side of bus components (states read from and actions sent to another
  instance), publication of plugins, the orderly close of publishers.
* Bus encoding, metadata types, plugin loader, decorators, start-up: pure
  conversions, or code that runs once before there is any state.
* The scheduler (a wrapper of a cron library), the sensors driver (a periodic
  read of a file), the UI plugin and the logic components that copy a value.
* Text of mails, log records and web pages; archive formats; http endpoints
  without state; downloads.
* React components: presentation over the stores that are modelled.
* Packager and dev-bus-logger: build scripts and a development tool.

`PROJECT.json` has the full list, with the reason for each, and the hazards of
the code with the properties that cover them.
