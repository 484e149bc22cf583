-------------------------- MODULE MCStudioServices --------------------------
(***************************************************************************)
(* The services of the studio that do not touch each other, side by side:  *)
(* deploy (recipes and runs, files, tasks, installation on a host, package *)
(* resolution), online (history and logs, components, instances) and git;  *)
(* and the front end's calls, status bar and tabs, which they all use.     *)
(* One of them moves in a behaviour (focus), the others stay in their      *)
(* initial state.                                                          *)
(***************************************************************************)
EXTENDS TLC, Naturals, Sequences

VARIABLES
  focus,
  recipeDisk, recipeDirty, recipeSeen, recipeItems, recipePinFile, recipePinDirty, recipePins,
  recipeRuns, recipePrograms, recipeTimers, recipeServer, recipeNotifier, recipeBr, recipeCount,
  recipeStarts, recipeOps, recipeQuirks,
  fileDisk, fileDirty, fileSeen, fileFiles, fileWrites, fileUp, fileDialog, fileAlive, fileOps,
  fileFaults, fileDisturbed,
  instRoot, instTmp, instBackups, instNow, instInst, instMixed,
  taskRoot, taskConfig, taskVariables, taskExports, taskPacked, taskFresh, taskState, taskN,
  apkDb, apkWorld, apkResolved, apkList, apkStatus, apkCache,
  feedFeed, feedPresent, feedAll, feedBuffer, feedNotifier, feedReplay, feedQueue, feedItems,
  feedIds, feedSince, feedStarts, feedQuirks,
  viewPlugins, viewComponents, viewNotifier, viewQueue, viewStore, viewAlive, viewChanges,
  viewStarts, viewQuirks,
  onlinePresence, onlineRetained, onlinePhase, onlineInfo, onlineData, onlineLocal,
  onlineLocalSent, onlineNotifier, onlineQueue, onlineShown, onlineChanges, onlineStarts,
  onlineQuirks,
  gitChanged, gitAhead, gitBehind, gitUpstream, gitTimer, gitJobs, gitPending, gitStatus,
  gitNotified, gitShown, gitFeatures, gitFiles, gitAlive, gitChanges, gitCalls, gitFailures,
  gitQuirks,
  callConnected, callCalls, callRunning, callError, callNotifierId, callStatus, callPosted,
  callBuffered, callNextId, callToServer, callToClient, callSession, callSessions,
  callNotifiers, callServing, callImmediate, callTransport, callEnded, callStartTimedOut,
  callCollided, callTimeouts, callFlips,
  tabById, tabAllIds, tabActiveId, tabIdCounter, tabOpened, tabPending, tabTimeouts, tabSent,
  tabMade, tabEdits, tabActions, tabMissing, tabRenames, tabEnded

(* A stored, pinned recipe that includes one that is not there yet.        *)
D == INSTANCE DeployService WITH
       Recipes <- {"r1", "r2"}, Contents <- {<<"task">>, <<"r2">>},
       Stored <- ("r1" :> <<"r2">>), MaxOps <- 3, MaxRuns <- 1, MaxStarts <- 2,
       disk <- recipeDisk, dirty <- recipeDirty, seen <- recipeSeen, items <- recipeItems,
       pinFile <- recipePinFile, pinDirty <- recipePinDirty, pins <- recipePins,
       runs <- recipeRuns, programs <- recipePrograms, timers <- recipeTimers,
       server <- recipeServer, notifier <- recipeNotifier, br <- recipeBr, count <- recipeCount,
       starts <- recipeStarts, ops <- recipeOps, quirks <- recipeQuirks

(* Two browsers upload files of up to two chunks, of the same names.       *)
Pick(name, size) == [name |-> name, size |-> size]
F == INSTANCE DeployFiles WITH
       Browsers <- {"b1", "b2"}, Names <- {"f", "g"},
       Picks <- {<<Pick("f", 2)>>, <<Pick("g", 0), Pick("f", 1)>>},
       MaxUploads <- 1, MaxOps <- 1, MaxFaults <- 1, writes <- fileWrites, faults <- fileFaults,
       disk <- fileDisk, dirty <- fileDirty, seen <- fileSeen,
       files <- fileFiles, up <- fileUp, dialog <- fileDialog, alive <- fileAlive,
       ops <- fileOps, disturbed <- fileDisturbed

(* Three installations, two of the same image, on one host.                *)
I == INSTANCE DeployInstall WITH
       Installs <- {"i1", "i2", "i3"},
       Image <- [i \in {"i1", "i2", "i3"} |-> IF i = "i1" THEN {"boot", "apks"} ELSE {"boot", "cache"}],
       OldNames <- {"boot", "cache"}, MaxSeconds <- 2, root <- instRoot, tmp <- instTmp,
       backups <- instBackups, now <- instNow, inst <- instInst, mixed <- instMixed

(* An image with the configuration of a host, and an archive to add to it; *)
(* one of the host names is part of the name of an interface.              *)
Entry(path, x) == [path |-> path, node |-> x]
Text(c) == [kind |-> "file", content |-> c]
Directory == [kind |-> "dir", missing |-> FALSE]
Word(x) == <<x>>
HostConfig == {
  Entry(<<"etc", "hostname">>, Text(<<<<Word("h1")>>>>)),
  Entry(<<"etc", "interfaces">>,
        Text(<<<<Word("iface"), <<"eth", "0">>>>, <<Word("hostname"), Word("h1")>>>>)),
  Entry(<<"etc", "hosts">>, Text(<<<<Word("ip"), <<"h1", ".local">>, Word("h1")>>>>)), Entry(<<"etc", "runlevel">>, Directory)}
ServiceFiles == [
  img |-> {Entry(<<"boot">>, Directory), Entry(<<"boot", "kernel">>, Text(<<>>)),
           Entry(<<"h1.apkovl">>, Text(HostConfig))},
  add |-> {Entry(<<"opt", "x", "link">>, [kind |-> "link", target |-> "target"]),
           Entry(<<"etc">>, Directory)}]

(* Every package database of four packages, two versions of one, whose      *)
(* dependencies are among these: by name, by version, by what is provided. *)
Version(major, minor) == [major |-> major, minor |-> minor, revision |-> 0, release |-> 0]
Needs(name, op, version) == [name |-> name, op |-> op, version |-> version]
NeedsAny(name) == Needs(name, "none", [any |-> TRUE])
Package(name, version, local, deps, provides) ==
  [name |-> name, version |-> version, local |-> local, deps |-> deps, provides |-> provides]
Dependencies == {<<>>, <<NeedsAny("b")>>, <<Needs("c", ">", Version(1, 0)), NeedsAny("virtual")>>,
                 <<Needs("b", "=", Version(1, 0))>>, <<NeedsAny("a")>>}
Database(da, db, dc, dd, local) ==
  <<Package("a", Version(1, 0), TRUE, da, {}), Package("b", Version(1, 0), local, db, {"virtual"}),
    Package("b", Version(1, 1), FALSE, dc, {"virtual"}), Package("c", Version(2, 0), FALSE, dd, {})>>
T == INSTANCE DeployTasks WITH
       Hosts <- {"h1", "eth"}, Ifaces <- {<<"eth", "0">>, <<"wlan", "0">>}, Packages <- {"p"},
       Apkovl <- [h1 |-> "h1.apkovl", eth |-> "eth.apkovl"], Archives <- ServiceFiles,
       MaxTasks <- 6, root <- taskRoot, config <- taskConfig, variables <- taskVariables,
       exports <- taskExports, packed <- taskPacked, fresh <- taskFresh, state <- taskState,
       n <- taskN,
       Databases <- {Database(da, db, dc, dd, local) : da \in Dependencies, db \in Dependencies, dc \in Dependencies, dd \in Dependencies, local \in BOOLEAN},
       Worlds <- {<<"a">>, <<"c", "a">>, <<"b", "a">>}, db <- apkDb, world <- apkWorld, resolved <- apkResolved,
       list <- apkList, status <- apkStatus, cache <- apkCache

(* The history of two components of two states, and the logs.              *)
H == INSTANCE OnlineFeed WITH
       Feeds <- {"history", "logs"}, Components <- {"c1", "c2"}, States <- <<"s1", "s2">>, Capacity <- 2,
       MaxItems <- 4, MaxRecords <- 3, MaxStarts <- 2, feed <- feedFeed, present <- feedPresent,
       all <- feedAll, buffer <- feedBuffer, notifier <- feedNotifier, replay <- feedReplay,
       queue <- feedQueue, items <- feedItems, ids <- feedIds, since <- feedSince,
       starts <- feedStarts, quirks <- feedQuirks

(* Two components of different plugins, seen from one browser.             *)
V == INSTANCE OnlineView WITH
       Plugins <- {"p1", "p2"}, Components <- {"c1", "c2"},
       PluginOf <- [c1 |-> "p1", c2 |-> "p2"], Values <- {1}, MaxChanges <- 4, MaxStarts <- 2,
       plugins <- viewPlugins, components <- viewComponents, notifier <- viewNotifier,
       queue <- viewQueue, store <- viewStore, alive <- viewAlive, changes <- viewChanges,
       starts <- viewStarts, quirks <- viewQuirks

(* A remote instance that comes online twice, and one update of an info.   *)
N == INSTANCE OnlineInstances WITH
       MaxViews <- 2, MaxInfos <- 2, MaxChanges <- 1, MaxStarts <- 1,
       presence <- onlinePresence, retained <- onlineRetained, phase <- onlinePhase,
       info <- onlineInfo, data <- onlineData, local <- onlineLocal,
       localSent <- onlineLocalSent, notifier <- onlineNotifier, queue <- onlineQueue,
       shown <- onlineShown, changes <- onlineChanges, starts <- onlineStarts,
       quirks <- onlineQuirks

(* A file of a feature and one of none.                                    *)
G == INSTANCE StudioGit WITH
       Files <- {"f1", "f2"}, FeatureOf <- [f1 |-> "core", f2 |-> "none"], NoFeature <- "none",
       MaxChanges <- 2, MaxCalls <- 3, MaxFailures <- 1, changed <- gitChanged,
       ahead <- gitAhead, behind <- gitBehind, upstream <- gitUpstream, timer <- gitTimer,
       jobs <- gitJobs, pending <- gitPending, status <- gitStatus, notified <- gitNotified,
       shown <- gitShown, features <- gitFeatures, files <- gitFiles, alive <- gitAlive,
       changes <- gitChanges, calls <- gitCalls, failures <- gitFailures, quirks <- gitQuirks

(* Two connections of a browser and one of another, three calls, and a     *)
(* timeout or a change of the bus.                                         *)
S == INSTANCE StudioSocket WITH
       MaxConnections <- 2, MaxCalls <- 3, MaxEvents <- 1, connected <-
       callConnected, calls <- callCalls, running <- callRunning, error <- callError, notifierId
       <- callNotifierId, status <- callStatus, posted <- callPosted, buffered <- callBuffered,
       nextId <- callNextId, toServer <- callToServer, toClient <- callToClient, session <-
       callSession, sessions <- callSessions, notifiers <- callNotifiers, serving <-
       callServing, immediate <- callImmediate, transport <- callTransport, ended <- callEnded,
       startTimedOut <- callStartTimedOut, collided <- callCollided, timeouts <- callTimeouts,
       flips <- callFlips

(* Three tabs, edits of two keys and of none.                              *)
E == INSTANCE StudioTabs WITH
       Keys <- {"a", "b"}, NoKey <- "none", MaxTabs <- 3, MaxActions <- 5, byId <- tabById,
       allIds <- tabAllIds, activeId <- tabActiveId, idCounter <- tabIdCounter, opened <-
       tabOpened, pending <- tabPending, timeouts <- tabTimeouts, sent <- tabSent, made <-
       tabMade, edits <- tabEdits, actions <- tabActions, missing <- tabMissing,
       renames <- tabRenames, ended <- tabEnded

recipeVars == <<
  recipeDisk, recipeDirty, recipeSeen, recipeItems, recipePinFile, recipePinDirty, recipePins,
  recipeRuns, recipePrograms, recipeTimers, recipeServer, recipeNotifier, recipeBr, recipeCount,
  recipeStarts, recipeOps, recipeQuirks>>
fileVars == <<
  fileDisk, fileDirty, fileSeen, fileFiles, fileWrites, fileUp, fileDialog, fileAlive, fileOps,
  fileFaults, fileDisturbed>>
instVars == <<
  instRoot, instTmp, instBackups, instNow, instInst, instMixed>>
taskVars == <<
  taskRoot, taskConfig, taskVariables, taskExports, taskPacked, taskFresh, taskState, taskN>>
apkVars == <<
  apkDb, apkWorld, apkResolved, apkList, apkStatus, apkCache>>
feedVars == <<
  feedFeed, feedPresent, feedAll, feedBuffer, feedNotifier, feedReplay, feedQueue, feedItems,
  feedIds, feedSince, feedStarts, feedQuirks>>
viewVars == <<
  viewPlugins, viewComponents, viewNotifier, viewQueue, viewStore, viewAlive, viewChanges,
  viewStarts, viewQuirks>>
onlineVars == <<
  onlinePresence, onlineRetained, onlinePhase, onlineInfo, onlineData, onlineLocal,
  onlineLocalSent, onlineNotifier, onlineQueue, onlineShown, onlineChanges, onlineStarts,
  onlineQuirks>>
gitVars == <<
  gitChanged, gitAhead, gitBehind, gitUpstream, gitTimer, gitJobs, gitPending, gitStatus,
  gitNotified, gitShown, gitFeatures, gitFiles, gitAlive, gitChanges, gitCalls, gitFailures,
  gitQuirks>>
callVars == <<
  callConnected, callCalls, callRunning, callError, callNotifierId, callStatus, callPosted,
  callBuffered, callNextId, callToServer, callToClient, callSession, callSessions,
  callNotifiers, callServing, callImmediate, callTransport, callEnded, callStartTimedOut,
  callCollided, callTimeouts, callFlips>>
tabVars == <<
  tabById, tabAllIds, tabActiveId, tabIdCounter, tabOpened, tabPending, tabTimeouts, tabSent,
  tabMade, tabEdits, tabActions, tabMissing, tabRenames, tabEnded>>
vars == <<
  focus, recipeVars, fileVars, instVars, taskVars, apkVars, feedVars, viewVars, onlineVars,
  gitVars, callVars, tabVars>>

(* A part that does not move starts in one of its initial states.           *)
Init ==
  /\ focus \in {"recipes", "files", "install", "tasks", "apk", "feed", "view", "instances", "git", "socket", "tabs"}
  /\ D!Init
  /\ recipePinFile = {"r1"}
  /\ F!Init
  /\ I!Init
  /\ T!Init
  /\ focus # "apk" => apkDb = Database(<<>>, <<>>, <<>>, <<>>, TRUE) /\ apkWorld = <<"a">>
  /\ H!Init
  /\ focus # "feed" => feedFeed = "logs"
  /\ V!Init
  /\ N!Init
  /\ G!Init
  /\ focus # "git" => gitChanged = {}
  /\ S!Init
  /\ focus # "socket" => callSessions = <<>>
  /\ E!Init

Next ==
  \/ focus = "recipes" /\ D!Next
     /\ UNCHANGED <<focus, fileVars, instVars, taskVars, apkVars, feedVars, viewVars,
                   onlineVars, gitVars, callVars, tabVars>>
  \/ focus = "files" /\ F!Next
     /\ UNCHANGED <<focus, recipeVars, instVars, taskVars, apkVars, feedVars, viewVars,
                   onlineVars, gitVars, callVars, tabVars>>
  \/ focus = "install" /\ I!Next
     /\ UNCHANGED <<focus, recipeVars, fileVars, taskVars, apkVars, feedVars, viewVars,
                   onlineVars, gitVars, callVars, tabVars>>
  \/ focus = "tasks" /\ T!TasksNext
     /\ UNCHANGED <<focus, recipeVars, fileVars, instVars, apkVars, feedVars, viewVars,
                   onlineVars, gitVars, callVars, tabVars>>
  \/ focus = "apk" /\ T!CacheNext
     /\ UNCHANGED <<focus, recipeVars, fileVars, instVars, taskVars, feedVars, viewVars,
                   onlineVars, gitVars, callVars, tabVars>>
  \/ focus = "feed" /\ H!Next
     /\ UNCHANGED <<focus, recipeVars, fileVars, instVars, taskVars, apkVars, viewVars,
                   onlineVars, gitVars, callVars, tabVars>>
  \/ focus = "view" /\ V!Next
     /\ UNCHANGED <<focus, recipeVars, fileVars, instVars, taskVars, apkVars, feedVars,
                   onlineVars, gitVars, callVars, tabVars>>
  \/ focus = "instances" /\ N!Next
     /\ UNCHANGED <<focus, recipeVars, fileVars, instVars, taskVars, apkVars, feedVars,
                   viewVars, gitVars, callVars, tabVars>>
  \/ focus = "git" /\ G!Next
     /\ UNCHANGED <<focus, recipeVars, fileVars, instVars, taskVars, apkVars, feedVars,
                   viewVars, onlineVars, callVars, tabVars>>
  \/ focus = "socket" /\ S!Next
     /\ UNCHANGED <<focus, recipeVars, fileVars, instVars, taskVars, apkVars, feedVars,
                   viewVars, onlineVars, gitVars, tabVars>>
  \/ focus = "tabs" /\ E!Next
     /\ UNCHANGED <<focus, recipeVars, fileVars, instVars, taskVars, apkVars, feedVars,
                   viewVars, onlineVars, gitVars, callVars>>

Spec == Init /\ [][Next]_vars

-----------------------------------------------------------------------------
(* Deploy: the types; the tables of the browser are those of the server;   *)
(* no notification is about a recipe or a run the browser does not know,   *)
(* unless it came early or orphaned; once everything is polled the memory  *)
(* is the files; no run is lost (DeployService; services/deploy/index.ts,  *)
(* pins.ts, runs.ts, utils/fs-collection.ts).                              *)
RecipesMirrored ==
  focus = "recipes" =>
    D!TypeOK /\ D!BrowserAlive /\ D!DeployMirrored /\ D!CollectionSettled /\ D!RunsAccounted

(* Files: the types; of an upload nobody disturbed the chunks reported as  *)
(* done are in the directory, whatever failed, and a finished one left     *)
(* exactly the chosen files; once everything is polled the table is the    *)
(* directory (DeployFiles; services/deploy/files.ts and the browser's      *)
(* rx-files.ts, rx-socket.ts).                                             *)
UploadFaithful ==
  focus = "files" =>
    F!TypeOK /\ F!UploadFaithful /\ F!FilesSettled

(* Installation: the types; whatever step fails, every file of the host is *)
(* still in its root, or in a backup; an installation that succeeds left   *)
(* the whole image (DeployInstall; tasks/image-install.ts).                *)
NothingLost == focus = "install" => I!TypeOK /\ I!NothingLost /\ I!InstalledWhole

(* Images: the types; what is exported contains the configuration as the   *)
(* tasks left it, and its files agree on the host name (DeployTasks; tasks *)
(* and engine/archive.ts of the studio's services/deploy); the cache of    *)
(* packages of an image is closed under dependencies, and has nothing else *)
(* (engine/apk.ts, tasks/image-cache.ts).                                  *)
ImageFaithful ==
  /\ focus \in {"tasks", "apk"} => T!TypeOK
  /\ focus = "tasks" => T!ImageFaithful /\ T!HostnameAgrees
  /\ focus = "apk" => T!CacheClosed

(* History and logs: the types; the browser shows the newest records, none *)
(* lost and none twice; each state change is linked to the newest earlier  *)
(* one, by time unless a live record overtook the replay (OnlineFeed;      *)
(* services/online/history-notifier.ts, logging.ts,                        *)
(* online-history/reducer.ts).                                             *)
FeedComplete == focus = "feed" => H!TypeOK /\ H!FeedComplete /\ H!LinksSound

(* Online views: the types, and the browser shows the components of the    *)
(* registry (OnlineView; services/online/component-notifier.ts) and the    *)
(* instances that are online with their info (OnlineInstances;             *)
(* instance-notifier.ts).                                                  *)
OnlineMirrored ==
  /\ focus = "view" => V!TypeOK /\ V!OnlineMirrored
  /\ focus = "instances" => N!TypeOK /\ N!InstancesMirrored

(* Git: the types; once nothing is scheduled the status shown is the one   *)
(* of the repository; a diff is filed under its features (StudioGit;       *)
(* services/git.ts).                                                       *)
StatusSettles == focus = "git" => G!TypeOK /\ G!StatusSettles /\ G!DiffFiled

(* Calls: the types; every call to the server ends once, and the requests  *)
(* shown as running are those that are open; once nothing is on its way    *)
(* the status bar shows the state of the bus, unless its notifier was      *)
(* displaced (StudioSocket; rx-socket.ts, session-manager.ts,              *)
(* status-notifier.ts).                                                    *)
CallsAnswered == focus = "socket" => S!TypeOK /\ S!CallsEndOnce /\ S!StatusShown

(* Tabs: the types; the tabs are numbered by their place and one is        *)
(* active; the edits of a tab reach the server, in order but for a         *)
(* debounced one that overtakes, and before its close, as long as no name  *)
(* that came for a closed tab has ended the epics (StudioTabs;             *)
(* tabs/reducer.ts, rx-operators.ts, designer-epics.ts).                   *)
EditsOrdered == focus = "tabs" => E!TypeOK /\ E!TabsIndexed /\ E!EditsOrdered
=============================================================================
