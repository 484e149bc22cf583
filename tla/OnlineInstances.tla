-------------------------- MODULE OnlineInstances --------------------------
(***************************************************************************)
(* The online instances of the studio: the information of the studio       *)
(* itself and of a remote instance (services/online/instance-notifier.ts), *)
(* and what a browser shows of them (store/online-instances-view).         *)
(*                                                                         *)
(* The remote instance is announced by its presence, which creates a view  *)
(* of its metadata (asynchronously) and then a RemoteInstanceInfo, which   *)
(* reads the view in a setImmediate.  Messages reach a view in order and   *)
(* at once; their delivery is in RemoteMirror.                             *)
(***************************************************************************)
EXTENDS Naturals, Sequences, SequencesExt

CONSTANTS
  MaxViews,     \* bound: times the remote instance comes online
  MaxInfos,     \* bound: versions of the information of an instance
  MaxChanges,   \* bound: publications of the remote instance and updates of the studio's own
  MaxStarts     \* bound: times the browser opens its tab

VARIABLES
  presence,             \* the remote instance is online, as the presence says
  retained,             \* its instance-info topic: a version, or None
  phase,                \* of the view and RemoteInstanceInfo of each of its presences
  info,                 \* instanceInfos: the RemoteInstanceInfo of the instance, or None
  data,                 \* the data of each RemoteInstanceInfo
  local, localSent,     \* the data of the LocalInstanceInfo, and what it should be
  notifier, queue,      \* of the browser, its debounce buffer
  shown,                \* what the browser shows: [remote, local]
  changes, starts,      \* bounds
  quirks                \* history: "rushed", "early", "late": see InstancesMirrored

serverVars == <<presence, retained, phase, info, data, local, localSent>>
vars == <<serverVars, notifier, queue, shown, changes, starts, quirks>>

None == 0
Views == 1..MaxViews
Blank == [remote |-> None, local |-> None]
(* creating: createView is awaited; fresh: the RemoteInstanceInfo is built, *)
(* its setImmediate is to come; live; ending: terminated, and its view not  *)
(* closed yet (fresh-ending when its setImmediate is still to come).        *)
Phases == {"none", "creating", "fresh", "live", "fresh-ending", "ending", "closed"}
Listening(v) == phase[v] \in {"fresh", "live", "fresh-ending", "ending"}

Init ==
  /\ presence = FALSE /\ retained = None
  /\ phase = [v \in Views |-> "none"] /\ info = None /\ data = [v \in Views |-> None]
  /\ local = None /\ localSent = FALSE
  /\ notifier = "none" /\ queue = <<>> /\ shown = Blank /\ changes = 0 /\ starts = 0 /\ quirks = {}

Update(key, value) == [key |-> key, value |-> value]

notifyAll(updates) ==
  /\ queue' = IF notifier = "none" THEN queue ELSE queue \o updates
  /\ UNCHANGED <<notifier, shown, starts>>
Quiet == UNCHANGED <<notifier, queue, shown, starts>>
Change == changes < MaxChanges /\ changes' = changes + 1
Quirk(q, when) == quirks' = quirks \cup IF when THEN {q} ELSE {}

(***************************************************************************)
(* The remote instance.                                                    *)
(***************************************************************************)
onInstanceOnline ==
  /\ ~presence /\ \E v \in Views : phase[v] = "none"
  /\ LET v == CHOOSE w \in Views : phase[w] = "none" /\ \A x \in Views : phase[x] = "none" => w <= x
     IN /\ phase' = [phase EXCEPT ![v] = "creating"]
        /\ Quirk("rushed", \E x \in Views : phase[x] \in {"creating", "fresh-ending", "ending"})
  /\ presence' = TRUE
  /\ Quiet /\ UNCHANGED <<changes, retained, info, data, local, localSent>>

viewCreated(v) ==
  /\ phase[v] = "creating"
  /\ phase' = [phase EXCEPT ![v] = "fresh"] /\ info' = v
  /\ Quiet /\ UNCHANGED <<changes, presence, retained, data, local, localSent, quirks>>

firstChange(v) ==
  /\ phase[v] \in {"fresh", "fresh-ending"}
  /\ phase' = [phase EXCEPT ![v] = IF @ = "fresh" THEN "live" ELSE "ending"]
  /\ data' = [data EXCEPT ![v] = retained]
  /\ notifyAll(<<Update("remote", retained)>>)
  /\ UNCHANGED <<changes, presence, retained, info, local, localSent, quirks>>

\* the view is closed, the record is dropped, and the browsers are told; terminate removes no listener
onInstanceOffline ==
  /\ presence /\ presence' = FALSE
  /\ IF info = None
     THEN Quirk("rushed", TRUE) /\ Quiet /\ UNCHANGED <<phase, info>>
     ELSE /\ Quirk("rushed", phase[info] = "fresh") /\ info' = None
          /\ phase' = [phase EXCEPT ![info] = IF @ = "fresh" THEN "fresh-ending" ELSE "ending"]
          /\ notifyAll(<<Update("remote", None)>>)
  /\ UNCHANGED <<changes, retained, data, local, localSent>>

viewClosed(v) ==
  /\ phase[v] = "ending" /\ phase' = [phase EXCEPT ![v] = "closed"]
  /\ Quiet /\ UNCHANGED <<changes, presence, retained, info, data, local, localSent, quirks>>

\* onSet, onClear: every view that listens changes its data and tells the browsers
publishInfo(n) ==
  /\ retained # n /\ retained' = n /\ Change
  /\ data' = [v \in Views |-> IF Listening(v) THEN n ELSE data[v]]
  /\ notifyAll(IF \E v \in Views : Listening(v) THEN <<Update("remote", n)>> ELSE <<>>)
  /\ Quirk("rushed", \E v \in Views : phase[v] \in {"ending", "fresh-ending"})
  /\ UNCHANGED <<presence, phase, info, local, localSent>>

(***************************************************************************)
(* The studio itself.                                                      *)
(***************************************************************************)
localFirstChange ==
  /\ ~localSent /\ localSent' = TRUE /\ local' = 1
  /\ notifyAll(<<Update("local", 1)>>)
  /\ UNCHANGED <<changes, presence, retained, phase, info, data, quirks>>
localUpdate ==
  /\ localSent /\ local < MaxInfos /\ local' = local + 1 /\ Change
  /\ notifyAll(<<Update("local", local + 1)>>)
  /\ UNCHANGED <<presence, retained, phase, info, data, localSent, quirks>>

(***************************************************************************)
(* The browser.                                                            *)
(***************************************************************************)
startNotify ==
  /\ notifier = "none" /\ starts < MaxStarts
  /\ notifier' = "created" /\ starts' = starts + 1
  /\ UNCHANGED <<serverVars, changes, queue, shown, quirks>>
sendAll ==
  /\ notifier = "created" /\ notifier' = "on"
  /\ queue' = queue \o (IF info # None /\ data[info] # None THEN <<Update("remote", data[info])>> ELSE <<>>)
                    \o (IF local # None THEN <<Update("local", local)>> ELSE <<>>)
  /\ UNCHANGED <<serverVars, changes, shown, starts, quirks>>
stopNotify ==
  /\ notifier = "on" /\ notifier' = "none" /\ shown' = Blank
  /\ Quirk("late", queue # <<>>)
  /\ UNCHANGED <<serverVars, changes, queue, starts>>
apply(s, u) == [s EXCEPT ![u.key] = u.value]
flush ==
  /\ queue # <<>> /\ queue' = <<>> /\ shown' = FoldLeft(apply, shown, queue)
  /\ UNCHANGED <<serverVars, changes, notifier, starts, quirks>>

Next ==
  \/ onInstanceOnline \/ onInstanceOffline \/ (\E n \in 0..MaxInfos : publishInfo(n))
  \/ \E v \in Views : viewCreated(v) \/ firstChange(v) \/ viewClosed(v)
  \/ localFirstChange \/ localUpdate
  \/ startNotify \/ sendAll \/ stopNotify \/ flush

Spec == Init /\ [][Next]_vars

(***************************************************************************)
(* Properties.                                                             *)
(***************************************************************************)
\* Only the information of an instance whose view was created is kept.
TypeOK ==
  /\ presence \in BOOLEAN /\ retained \in 0..MaxInfos /\ info \in Views \cup {None}
  /\ phase \in [Views -> Phases] /\ data \in [Views -> 0..MaxInfos] /\ local \in 0..MaxInfos
  /\ info # None => Listening(info)
  /\ quirks \subseteq {"rushed", "late"}

\* A browser whose debounce buffer is empty shows the information of exactly the instances that are
\* online, the latest they published, and the studio keeps a record of an instance exactly when it
\* is online (instance-notifier.ts).  It may be
\* otherwise when an instance goes before its view is created and read, publishes before the view
\* of an earlier presence is closed (rushed), or when the tab is closed before its debounce buffer
\* is flushed (late).
InstancesMirrored ==
  quirks = {} =>
    /\ (\A v \in Views : phase[v] # "creating") => (info # None <=> presence)
    /\ info # None /\ phase[info] = "live" => data[info] = retained
    /\ notifier = "on" /\ queue = <<>> =>
         shown = [remote |-> IF info = None THEN None ELSE data[info], local |-> local]
=============================================================================
