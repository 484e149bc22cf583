----------------------------- MODULE MCDevices -----------------------------
(***************************************************************************)
(* Plugins and daemons that do not touch each other, side by side: the     *)
(* logic plugins, the drivers of devices, the collector, the sessions and  *)
(* the screen of the UI, the logger of the bus and the store of a core.    *)
(* One of them moves in a behaviour (focus), the others stay in their      *)
(* initial state.                                                          *)
(***************************************************************************)
EXTENDS TLC, Integers, Sequences

VARIABLES
  focus,
  timerSource, timerOutputs, timerIndex, timerRunning, timerProgress, timerStartTime, timerWait,
  timerTick, timerAlive, timerThrew, timerNow, timerActions, timerStalls, timerQuirks,
  timerEnded,
  logicPlugin, logicSt, logicSeen, logicThrew, logicGiven, logicNow,
  boxWorld, boxClosure, boxRunning, boxListening, boxEvents, boxAttached, boxLogged,
  boxListener, boxQueue, boxByDevice, boxByExec, boxRefreshing, boxOrphans, boxDevices, boxStates, boxComp,
  boxNextExec, boxCommands, boxHappened, boxQuirks,
  alarmMailbox, alarmBox, alarmConn, alarmGone, alarmLeaked, alarmLingering, alarmLastSeq, alarmFetches, alarmDead,
  alarmInterval, alarmOnline, alarmValues, alarmZone, alarmFaults, alarmBoxes, alarmQuirks,
  lircInstance, lircAlive, lircOnline, lircPulses, lircLink, lircConnected, lircSending, lircReceiving,
  lircArmed, lircQueue, lircFlights, lircSent, lircCommands, lircReceived, lircDrops, lircLives,
  lircQuirks,
  mpdAlive, mpdOnline, mpdPlaying, mpdVolume, mpdDelayed, mpdClient, mpdIdling, mpdHandlers,
  mpdToServer, mpdToClient, mpdIdle, mpdPending, mpdSrv, mpdSetups, mpdActions, mpdChanges,
  mpdFaults, mpdThrew, mpdQuirks,
  plugWanted, plugOnline, plugClosed, plugAttempt, plugSocket, plugTimer, plugCounter,
  plugPending, plugNet, plugAnswers, plugTask, plugDevice, plugFresh, plugActions, plugFaults,
  plugLost, plugQuirks,
  collPhase, collOnline, collInsts, collComps, collKnown, collIssued, collPendings, collStored,
  collPast, collEvents, collLogs, collLife, collSecond,
  logUp, logBuffer, logWriting, logOfflineQueue, logLoops, logFlight, logArrived, logDropped,
  logLost, logChunks, logConnections, logOvertaken,
  storeAlive, storeItems, storeSaves, storeFile, storeWritable, storeChanges, storeFailures,
  storeLives, storeLast, storeQuirks,
  uiRegistry, uiListened, uiModelHash, uiResources, uiRequired, uiStored, uiSessions, uiClients,
  uiHeartbeat, uiLink, uiInbox, uiSocket, uiView, uiModel, uiFetches, uiAstray, uiFailed,
  uiOpened, uiEvents,
  viewModel, viewView, viewRegistry, viewOnline, viewHash, viewEvents, viewMounted, viewOrphans,
  viewBroken, viewDropped, viewThrew, viewLate, viewModels, viewTyped, viewPresses, viewDrops,
  viewChanges, viewExecuted

(* Timers of two outputs: several waits, a wait in an init program (which is *)
(* refused), a wait of zero seconds, programs that do not parse.           *)
Out(o, v) == [op |-> "out", output |-> o, value |-> v]
All(v) == [op |-> "all", value |-> v]
Wait(n) == [op |-> "wait", delay |-> n]
Bad == [op |-> "bad"]
Blink == <<Out("o0", "on"), Wait(1), Out("o0", "off"), Out("o1", "on"), Wait(2), Out("o1", "off")>>
TimerSources == {
  [init |-> <<All("off")>>, trigger |-> Blink, cancel |-> <<All("off")>>],
  [init |-> <<Wait(1)>>, trigger |-> <<Wait(2), Wait(2), All("on")>>, cancel |-> <<Out("o1", "off")>>],
  [init |-> <<>>, trigger |-> <<Out("o0", "on"), Wait(0), Out("o0", "off")>>, cancel |-> <<Bad>>],
  [init |-> <<>>, trigger |-> <<Wait(1), Bad>>, cancel |-> <<>>]}
P == INSTANCE LogicTimers WITH
       Outputs <- {"o0", "o1"}, Values <- {"off", "on"}, Initial <- "off",
       Sources <- TimerSources, MaxActions <- 4, MaxTime <- 8, MaxStalls <- 2,
       Reentrant <- TRUE, source <- timerSource, outputs <- timerOutputs, index <- timerIndex,
       running <- timerRunning, progress <- timerProgress, startTime <- timerStartTime,
       wait <- timerWait, tick <- timerTick, alive <- timerAlive, threw <- timerThrew,
       now <- timerNow, actions <- timerActions, stalls <- timerStalls, quirks <- timerQuirks,
       ended <- timerEnded

(* The other logic plugins: the bounds of their ranges and values between. *)
C == INSTANCE LogicComponents WITH
       Percents <- {0, 1, 30, 100}, Hues <- {0, 85, 255}, Temperatures <- {17, 22, 30},
       Floats <- {-10, 0, 7, 25}, OutOfRange <- {-40, 300, 16777216}, UsedCount <- 2, MaxPresses <- 2, MaxTime <- 8,
       plugin <- logicPlugin, st <- logicSt, seen <- logicSeen, threw <- logicThrew, given <- logicGiven,
       now <- logicNow

(* A shutter and a gate behind a Tahoma box.                               *)
T == INSTANCE Tahoma WITH
       Shutter <- "d1", Gate <- "d2", Closures <- {0, 40}, MaxCommands <- 2, MaxEvents <- 1,
       world <- boxWorld, closure <- boxClosure, running <- boxRunning,
       listening <- boxListening, events <- boxEvents, attached <- boxAttached,
       logged <- boxLogged, listener <- boxListener, queue <- boxQueue, byDevice <- boxByDevice,
       byExec <- boxByExec, refreshing <- boxRefreshing, orphans <- boxOrphans, devices <- boxDevices,
       states <- boxStates, comp <- boxComp, nextExec <- boxNextExec, commands <- boxCommands,
       happened <- boxHappened, quirks <- boxQuirks

(* An alarm of two zones, behind a mailbox.                                *)
A == INSTANCE Absoluta WITH
       Zones <- {"z1", "z2"}, MaxMails <- 2, MaxEvents <- 3, MaxRefreshes <- 2,
       mailbox <- alarmMailbox, box <- alarmBox, conn <- alarmConn, gone <- alarmGone, leaked <- alarmLeaked,
       lingering <- alarmLingering,
       lastSeq <- alarmLastSeq, fetches <- alarmFetches, dead <- alarmDead,
       interval <- alarmInterval, online <- alarmOnline, values <- alarmValues,
       zone <- alarmZone, faults <- alarmFaults, boxes <- alarmBoxes, quirks <- alarmQuirks

(* Two emitters that share an infrared controller.                         *)
I == INSTANCE Lirc WITH
       Users <- {"u1", "u2"}, MaxCommands <- 3, MaxReceived <- 2, MaxDrops <- 2, MaxLives <- 4,
       instance <- lircInstance, alive <- lircAlive, online <- lircOnline, pulses <- lircPulses,
       link <- lircLink, connected <- lircConnected, sending <- lircSending, receiving <- lircReceiving,
       armed <- lircArmed, queue <- lircQueue, flights <- lircFlights, sent <- lircSent,
       commands <- lircCommands, received <- lircReceived, drops <- lircDrops,
       lives <- lircLives, quirks <- lircQuirks

(* A music player.                                                         *)
M == INSTANCE Mpd WITH
       Volumes <- {0, 50}, MaxActions <- 2, MaxChanges <- 1, MaxFaults <- 1, MaxSetups <- 2,
       alive <- mpdAlive, online <- mpdOnline, playing <- mpdPlaying, volume <- mpdVolume,
       delayed <- mpdDelayed, client <- mpdClient, idling <- mpdIdling, handlers <- mpdHandlers,
       toServer <- mpdToServer, toClient <- mpdToClient, idle <- mpdIdle, pending <- mpdPending,
       srv <- mpdSrv, setups <- mpdSetups, actions <- mpdActions, changes <- mpdChanges,
       faults <- mpdFaults, threw <- mpdThrew, quirks <- mpdQuirks

(* A Broadlink power strip of two outputs.                                 *)
B == INSTANCE Broadlink WITH
       Outputs <- {1, 2}, MaxQueries <- 4, MaxActions <- 2, MaxFaults <- 2, MaxLost <- 1,
       wanted <- plugWanted, online <- plugOnline, closed <- plugClosed, attempt <- plugAttempt,
       socket <- plugSocket, timer <- plugTimer, counter <- plugCounter, pending <- plugPending,
       net <- plugNet, answers <- plugAnswers, task <- plugTask, device <- plugDevice,
       fresh <- plugFresh, actions <- plugActions, faults <- plugFaults, lost <- plugLost,
       quirks <- plugQuirks

(* The collector, over the component of an instance.                       *)
H == INSTANCE Collector WITH
       Instances <- {"i1"}, Components <- {"c1"}, Values <- {"v"}, Owner <- ("c1" :> "i1"),
       MaxEvents <- 4, MaxLogs <- 1, MaxLives <- 2, phase <- collPhase, online <- collOnline,
       insts <- collInsts, comps <- collComps, known <- collKnown, issued <- collIssued,
       pendings <- collPendings, stored <- collStored, past <- collPast, events <- collEvents,
       logs <- collLogs, life <- collLife, second <- collSecond

(* The bus logger, with an offline queue that holds one chunk.             *)
L == INSTANCE BusLogger WITH
       Retention <- 1, MaxChunks <- 5, MaxConnections <- 3, up <- logUp, buffer <- logBuffer,
       writing <- logWriting, offlineQueue <- logOfflineQueue, loops <- logLoops,
       flight <- logFlight, arrived <- logArrived, dropped <- logDropped, lost <- logLost,
       chunks <- logChunks, connections <- logConnections, overtaken <- logOvertaken

(* The store of a core whose file system is remounted for each save.       *)
S == INSTANCE CoreStore WITH
       Mounted <- TRUE, MaxChanges <- 3, MaxSaves <- 3, MaxFailures <- 2, MaxLives <- 2,
       alive <- storeAlive, items <- storeItems, saves <- storeSaves, file <- storeFile,
       writable <- storeWritable, changes <- storeChanges, failures <- storeFailures,
       lives <- storeLives, last <- storeLast, quirks <- storeQuirks

(* A lamp for the UI and a sensor that is not.  The first definition shows *)
(* nothing, the second one of the lamp's states, and the sensor; the third *)
(* names a resource that does not exist.                                   *)
U == INSTANCE UiSession WITH
       Ids <- {"lamp", "sensor"}, UiIds <- {"lamp"},
       States <- [lamp |-> {"on", "level"}, sensor |-> {}], Definitions <- 1..3, Broken <- {3},
       Saved <- 2,
       Required <- <<{}, {<<"lamp", "on">>, <<"sensor", "on">>}, {<<"lamp", "level">>}>>,
       MaxSessions <- 2, MaxEvents <- 4, registry <- uiRegistry, listened <- uiListened,
       modelHash <- uiModelHash, resources <- uiResources, required <- uiRequired,
       stored <- uiStored, sessions <- uiSessions, clients <- uiClients,
       heartbeat <- uiHeartbeat, link <- uiLink, inbox <- uiInbox, socket <- uiSocket,
       view <- uiView, model <- uiModel, fetches <- uiFetches, astray <- uiAstray,
       failed <- uiFailed, opened <- uiOpened, events <- uiEvents

(* Three models of two windows at most, in two of which a window of another *)
(* is missing; addresses of a window, of none, and one that is unknown.    *)
Popup(w) == [op |-> "popup", window |-> w]
Change(w) == [op |-> "change", window |-> w]
Send == [op |-> "component"]
NoAction == [op |-> "none"]
Lamp(id, primary, secondary) ==
  [id |-> id, primary |-> primary, secondary |-> secondary, display |-> TRUE,
   map |-> <<[value |-> "on", resource |-> "lit"], [value |-> "on", resource |-> "second"]>>,
   defaultResource |-> "dark"]
Button(id, primary, secondary) ==
  [id |-> id, primary |-> primary, secondary |-> secondary, display |-> FALSE, map |-> <<>>,
   defaultResource |-> "none"]
ViewModels == {
  [default |-> "home",
   windows |-> [home |-> Lamp("c", Popup("room"), Change("room")), room |-> Button("c", Send, Popup("home"))]],
  [default |-> "room", windows |-> [room |-> Lamp("c", NoAction, Popup("room"))]],
  [default |-> "hall",
   windows |-> [home |-> Lamp("d", Change("hall"), NoAction), hall |-> Button("c", Change("home"), Popup("home"))]]}
V == INSTANCE UiView WITH
       Models <- ViewModels, Hashes <- {"", "home", "attic"}, States <- {"on"}, MaxModels <- 2,
       MaxHash <- 1, MaxPresses <- 2, MaxDepth <- 3, MaxDrops <- 1, MaxChanges <- 1, model <-
       viewModel, view <- viewView, registry <- viewRegistry, online <- viewOnline, hash <-
       viewHash, events <- viewEvents, mounted <- viewMounted, orphans <- viewOrphans, broken <-
       viewBroken, dropped <- viewDropped, threw <- viewThrew, late <- viewLate, models <-
       viewModels, typed <- viewTyped, presses <- viewPresses, drops <- viewDrops, changes <-
       viewChanges, executed <- viewExecuted

timerVars == <<
  timerSource, timerOutputs, timerIndex, timerRunning, timerProgress, timerStartTime, timerWait,
  timerTick, timerAlive, timerThrew, timerNow, timerActions, timerStalls, timerQuirks,
  timerEnded>>
logicVars == <<
  logicPlugin, logicSt, logicSeen, logicThrew, logicGiven, logicNow>>
boxVars == <<
  boxWorld, boxClosure, boxRunning, boxListening, boxEvents, boxAttached, boxLogged,
  boxListener, boxQueue, boxByDevice, boxByExec, boxRefreshing, boxOrphans, boxDevices, boxStates, boxComp,
  boxNextExec, boxCommands, boxHappened, boxQuirks>>
alarmVars == <<
  alarmMailbox, alarmBox, alarmConn, alarmGone, alarmLeaked, alarmLingering, alarmLastSeq, alarmFetches, alarmDead,
  alarmInterval, alarmOnline, alarmValues, alarmZone, alarmFaults, alarmBoxes, alarmQuirks>>
lircVars == <<
  lircInstance, lircAlive, lircOnline, lircPulses, lircLink, lircConnected, lircSending, lircReceiving,
  lircArmed, lircQueue, lircFlights, lircSent, lircCommands, lircReceived, lircDrops, lircLives,
  lircQuirks>>
mpdVars == <<
  mpdAlive, mpdOnline, mpdPlaying, mpdVolume, mpdDelayed, mpdClient, mpdIdling, mpdHandlers,
  mpdToServer, mpdToClient, mpdIdle, mpdPending, mpdSrv, mpdSetups, mpdActions, mpdChanges,
  mpdFaults, mpdThrew, mpdQuirks>>
plugVars == <<
  plugWanted, plugOnline, plugClosed, plugAttempt, plugSocket, plugTimer, plugCounter,
  plugPending, plugNet, plugAnswers, plugTask, plugDevice, plugFresh, plugActions, plugFaults,
  plugLost, plugQuirks>>
collVars == <<
  collPhase, collOnline, collInsts, collComps, collKnown, collIssued, collPendings, collStored,
  collPast, collEvents, collLogs, collLife, collSecond>>
logVars == <<
  logUp, logBuffer, logWriting, logOfflineQueue, logLoops, logFlight, logArrived, logDropped,
  logLost, logChunks, logConnections, logOvertaken>>
storeVars == <<
  storeAlive, storeItems, storeSaves, storeFile, storeWritable, storeChanges, storeFailures,
  storeLives, storeLast, storeQuirks>>
uiVars == <<
  uiRegistry, uiListened, uiModelHash, uiResources, uiRequired, uiStored, uiSessions, uiClients,
  uiHeartbeat, uiLink, uiInbox, uiSocket, uiView, uiModel, uiFetches, uiAstray, uiFailed,
  uiOpened, uiEvents>>
viewVars == <<
  viewModel, viewView, viewRegistry, viewOnline, viewHash, viewEvents, viewMounted, viewOrphans,
  viewBroken, viewDropped, viewThrew, viewLate, viewModels, viewTyped, viewPresses, viewDrops,
  viewChanges, viewExecuted>>
vars == <<
  focus, timerVars, logicVars, boxVars, alarmVars, lircVars, mpdVars, plugVars, collVars,
  logVars, storeVars, uiVars, viewVars>>

(* A part that does not move starts in one of its initial states.           *)
Init ==
  /\ focus \in {"timer", "logic", "tahoma", "absoluta", "lirc", "mpd", "broadlink", "collector", "logger", "store", "ui", "view"}
  /\ P!Init
  /\ focus # "timer" => timerSource.trigger = Blink
  /\ C!Init
  /\ focus # "logic" => logicPlugin = "BoolNot"
  /\ T!Init
  /\ boxClosure = 0
  /\ A!Init
  /\ I!Init
  /\ M!Init
  /\ B!Init
  /\ H!Init
  /\ L!Init
  /\ S!Init
  /\ U!Init
  /\ V!Init
  /\ focus # "view" => viewHash = ""

Next ==
  \/ focus = "timer" /\ P!Next
     /\ UNCHANGED <<focus, logicVars, boxVars, alarmVars, lircVars, mpdVars, plugVars, collVars,
                   logVars, storeVars, uiVars, viewVars>>
  \/ focus = "logic" /\ C!Next
     /\ UNCHANGED <<focus, timerVars, boxVars, alarmVars, lircVars, mpdVars, plugVars, collVars,
                   logVars, storeVars, uiVars, viewVars>>
  \/ focus = "tahoma" /\ T!Next
     /\ UNCHANGED <<focus, timerVars, logicVars, alarmVars, lircVars, mpdVars, plugVars,
                   collVars, logVars, storeVars, uiVars, viewVars>>
  \/ focus = "absoluta" /\ A!Next
     /\ UNCHANGED <<focus, timerVars, logicVars, boxVars, lircVars, mpdVars, plugVars, collVars,
                   logVars, storeVars, uiVars, viewVars>>
  \/ focus = "lirc" /\ I!Next
     /\ UNCHANGED <<focus, timerVars, logicVars, boxVars, alarmVars, mpdVars, plugVars,
                   collVars, logVars, storeVars, uiVars, viewVars>>
  \/ focus = "mpd" /\ M!Next
     /\ UNCHANGED <<focus, timerVars, logicVars, boxVars, alarmVars, lircVars, plugVars,
                   collVars, logVars, storeVars, uiVars, viewVars>>
  \/ focus = "broadlink" /\ B!Next
     /\ UNCHANGED <<focus, timerVars, logicVars, boxVars, alarmVars, lircVars, mpdVars,
                   collVars, logVars, storeVars, uiVars, viewVars>>
  \/ focus = "collector" /\ H!Next
     /\ UNCHANGED <<focus, timerVars, logicVars, boxVars, alarmVars, lircVars, mpdVars,
                   plugVars, logVars, storeVars, uiVars, viewVars>>
  \/ focus = "logger" /\ L!Next
     /\ UNCHANGED <<focus, timerVars, logicVars, boxVars, alarmVars, lircVars, mpdVars,
                   plugVars, collVars, storeVars, uiVars, viewVars>>
  \/ focus = "store" /\ S!Next
     /\ UNCHANGED <<focus, timerVars, logicVars, boxVars, alarmVars, lircVars, mpdVars,
                   plugVars, collVars, logVars, uiVars, viewVars>>
  \/ focus = "ui" /\ U!Next
     /\ UNCHANGED <<focus, timerVars, logicVars, boxVars, alarmVars, lircVars, mpdVars,
                   plugVars, collVars, logVars, storeVars, viewVars>>
  \/ focus = "view" /\ V!Next
     /\ UNCHANGED <<focus, timerVars, logicVars, boxVars, alarmVars, lircVars, mpdVars,
                   plugVars, collVars, logVars, storeVars, uiVars>>

Spec == Init /\ [][Next]_vars

-----------------------------------------------------------------------------
(* Timers: the types; a program that runs waits with its timer armed, one  *)
(* that does not left the outputs of the program that ended last and no    *)
(* timer; the progress stays in its range as long as no timer is late      *)
(* (LogicTimers; mylife-home-core-plugins-logic-timers/src/services/       *)
(* program.ts).                                                            *)
SettledOutputs == focus = "timer" => P!TypeOK /\ P!SettledOutputs /\ P!ProgressInRange

(* Logic plugins: the types; each computed state is the function of the    *)
(* inputs its plugin stands for; a value of on or off follows its          *)
(* configuration; only a component with a number of its configuration that *)
(* its plugin does not check throws; a smart input fires the events of     *)
(* whole press sequences only (LogicComponents; the plugins of             *)
(* mylife-home-core-plugins-logic-base, -selectors, -clim and -colors).    *)
DerivedCurrent ==
  focus = "logic" =>
    C!TypeOK /\ C!DerivedCurrent /\ C!OnlyMisconfiguredThrow /\ C!ValueFollows /\ C!InputsWhole

(* Tahoma: the types; online means logged in and attached; the driver      *)
(* knows what runs, unless a command was served and not answered or the    *)
(* session or the box ended meanwhile; a shutter shows the state its store *)
(* has (Tahoma; mylife-home-core-plugins-driver-tahoma/src/engine).        *)
ExecutionsKnown ==
  focus = "tahoma" =>
    T!TypeOK /\ T!OnlineTrue /\ T!ExecutionsKnown /\ T!ShutterShowsState

(* Absoluta: the types; the store is what the mails it read say, and the   *)
(* zones follow it; what a client that was dropped while it opened its     *)
(* mailbox, or while it read, leaves behind is told apart (Absoluta;       *)
(* mylife-home-core-plugins-driver-absoluta/src/engine).                   *)
ZonesFollow == focus = "absoluta" => A!TypeOK /\ A!StoreFaithful /\ A!ZonesFollow

(* Lirc: the types; commands are sent one at a time, in order, by the      *)
(* instance that took them; a queue that is not empty is being sent        *)
(* (Lirc; mylife-home-core-plugins-driver-lirc/src/engine/controller.ts).  *)
NeverStalled == focus = "lirc" => I!TypeOK /\ I!SendsInTurn /\ I!NeverStalled

(* MPD: the types; an answer is handled by the command it answers, and an  *)
(* idle client shows what the player does (Mpd;                            *)
(* mylife-home-core-plugins-driver-mpd/src/engine).                        *)
AnswersMatched == focus = "mpd" => M!TypeOK /\ M!AnswersMatched /\ M!MpdShows

(* Broadlink: the types; an offline device keeps trying; once the driver   *)
(* has enforced them, the outputs of the device are those asked            *)
(* (Broadlink; mylife-home-core-plugins-driver-broadlink/src/engine).      *)
Enforced == focus = "broadlink" => B!TypeOK /\ B!KeepsTrying /\ B!Enforced

(* Collector: the types; replaying the records stored gives the instances  *)
(* and components that are there; an exit leaves nothing unwritten         *)
(* (Collector; mylife-home-collector/src).                                 *)
ReplayExact == focus = "collector" => H!TypeOK /\ H!ReplayExact /\ H!ExitStored

(* Bus logger: the types; every chunk is queued, on its way, arrived,      *)
(* dropped for lack of room or lost with its connection, and they arrive   *)
(* in order unless one overtook the queue (BusLogger;                      *)
(* mylife-home-common/src/bus/logger.ts).                                  *)
LogsAccounted == focus = "logger" => L!TypeOK /\ L!LogsAccounted /\ L!LogsOrdered

(* Store: the types; what was saved last is what a restart loads, unless   *)
(* two saves overlapped or a crash tore the file (CoreStore;               *)
(* mylife-home-core/src/store).                                            *)
SavedIsLoaded == focus = "store" => S!TypeOK /\ S!SavedIsLoaded

(* Sessions: the types; what the browser holds once it has read its        *)
(* messages is what the server would send it, the model included, and the  *)
(* session manager and the connector hold the same live sessions           *)
(* (UiSession; sessions, registry and model under mylife-home-ui/src).     *)
ModelCurrent == focus = "ui" => U!TypeOK /\ U!InFlightMirrors /\ U!ModelCurrent /\ U!NoGhostSession

(* Screen: the types; the root shown is the window of the address bar and  *)
(* of the model; only a model that drops a shown window makes a render     *)
(* throw; every press waits for its end and none is executed twice; the    *)
(* screen shows the model and the component state of now (UiView;          *)
(* mylife-home-ui/public/app).                                             *)
ViewSound ==
  focus = "view" =>
    V!TypeOK /\ V!RootShown /\ V!NoUnknownWindow /\ V!InputSettled /\ V!ScreenCurrent
=============================================================================
